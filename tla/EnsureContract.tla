--------------------------- MODULE EnsureContract ---------------------------
(***************************************************************************)
(* What ensure-exact-or-create promises its contenders                     *)
(* (src/graph/ensure-records.js), as if each one ran alone: it finds       *)
(* or creates all it desires and succeeds, or something that is already    *)
(* there differs from what it desires and it fails having written nothing. *)
(* A contender may be cut off after it wrote; its retry starts over.  What *)
(* the code promises a graph is weaker in one case: it is read member by   *)
(* member, and refused as well when a record that was not there at its     *)
(* turn appears, exactly as desired, before the last one is read.          *)
(***************************************************************************)
CONSTANTS Ids, Contents, NoRecord, Contenders, Desired, Procedure

VARIABLES
  recs,
  outcome,
  looked     \* where the current pass over a graph did not find its record

(* The records a contender desires: a set of [id, content]. *)
DesiredBy(c) == {Desired[c][i] : i \in DOMAIN Desired[c]}

Missing(c) == {x \in DesiredBy(c) : recs[x.id] = NoRecord}

(* Something else is at an id. *)
Differs(c) == \E x \in DesiredBy(c) : recs[x.id] \notin {NoRecord, x.content}

(* A small graph must become durable together: half of one is a conflict.  *)
Partial(c) ==
  /\ Procedure[c] = "graph"
  /\ Missing(c) # {}
  /\ Missing(c) # DesiredBy(c)

(* A record the pass has missed is there now. *)
Overtaken(c) == \E x \in DesiredBy(c) : x.id \in looked[c] /\ recs[x.id] = x.content

Init ==
  /\ recs \in [Ids -> Contents \cup {NoRecord}]
  /\ outcome = [c \in Contenders |-> "pending"]
  /\ looked = [c \in Contenders |-> {}]

Look(c, x) ==
  /\ Procedure[c] = "graph" /\ outcome[c] = "pending"
  /\ recs[x.id] # x.content
  /\ looked' = [looked EXCEPT ![c] = looked[c] \cup {x.id}]
  /\ UNCHANGED <<recs, outcome>>

(* The pass is over and its batch is inserted, or it starts again. *)
Forget(c) ==
  /\ looked' = [looked EXCEPT ![c] = {}]
  /\ UNCHANGED <<recs, outcome>>

Complete(c) ==
  /\ outcome[c] = "pending"
  /\ ~Differs(c) /\ ~Partial(c)
  /\ recs' = [id \in Ids |-> IF \E x \in Missing(c) : x.id = id
                             THEN (CHOOSE x \in Missing(c) : x.id = id).content
                             ELSE recs[id]]
  /\ outcome' \in {outcome, [outcome EXCEPT ![c] = "ok"]}
  /\ looked' = [looked EXCEPT ![c] = {}]

Refuse(c) ==
  /\ outcome[c] = "pending"
  /\ Differs(c) \/ Partial(c) \/ Overtaken(c)
  /\ outcome' = [outcome EXCEPT ![c] = "conflict"]
  /\ looked' = [looked EXCEPT ![c] = {}]
  /\ UNCHANGED recs

Next ==
  /\ <<recs, outcome, looked>>' # <<recs, outcome, looked>>
  /\ \E c \in Contenders :
       \/ \E x \in DesiredBy(c) : Look(c, x)
       \/ Forget(c)
       \/ Complete(c)
       \/ Refuse(c)

Spec == Init /\ [][Next]_<<recs, outcome, looked>>
========================================
