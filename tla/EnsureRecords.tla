---------------------------- MODULE EnsureRecords ----------------------------
(***************************************************************************)
(* Ensure-exact-or-create, src/graph/ensure-records.js, under              *)
(* contention.  A contender reads its records one awaited read at a time,  *)
(* inserts in one transaction that expects every id to be unused, and      *)
(* treats whoever won that race as the authority.  A contender may lose    *)
(* the acknowledgement of its insert and start over.                       *)
(***************************************************************************)
EXTENDS Naturals, Sequences, FiniteSets

CONSTANTS
  Ids,
  Contents,      \* what a projection tells apart in two records
  Foreign,       \* a record of another kind than most calls desire
  NoRecord,      \* nothing at an id
  Contenders,    \* the concurrent calls
  Procedure,     \* which ensure each call runs: "record", "objects" or "graph"
  Desired,       \* what each call desires: a sequence of [id, content]
  MaxRestarts    \* bound: calls cut off and retried

ASSUME ContentsAssumption == NoRecord \notin Contents /\ Foreign \in Contents
ASSUME MaxRestartsAssumption == MaxRestarts \in Nat

(* ensureRecord is called with one record; the ids of a list are unique.   *)
ASSUME CallsAssumption ==
  /\ Procedure \in [Contenders -> {"record", "objects", "graph"}]
  /\ Desired \in [Contenders -> Seq([id : Ids, content : Contents])]
  /\ \A c \in Contenders :
       /\ Desired[c] # << >>
       /\ \A i, j \in DOMAIN Desired[c] : Desired[c][i].id = Desired[c][j].id => i = j
       /\ Procedure[c] = "record" => Len(Desired[c]) = 1

VARIABLES
  recs,      \* the content at each id
  phase,     \* where each call is
  seen,      \* what its current pass of reads found, in the order of Desired
  missing,   \* what ensureObjects found missing before its last insert
  outcome,   \* how each call ended
  restarts

ensureVars == <<recs, phase, seen, missing, outcome, restarts>>

EnsureTypeOK ==
  /\ recs \in [Ids -> Contents \cup {NoRecord}]
  /\ phase \in [Contenders -> {"read", "insert", "written", "reread", "done"}]
  /\ seen \in [Contenders -> Seq(Contents \cup {NoRecord})]
  /\ missing \in [Contenders -> SUBSET Nat]
  /\ \A c \in Contenders :
       /\ Len(seen[c]) <= Len(Desired[c])
       /\ missing[c] \subseteq 1..Len(Desired[c])
  /\ outcome \in [Contenders -> {"pending", "ok", "conflict", "error"}]
  /\ restarts \in 0..MaxRestarts

EnsureInit ==
  /\ recs = [id \in Ids |-> NoRecord]
  /\ phase = [c \in Contenders |-> "read"]
  /\ seen = [c \in Contenders |-> << >>]
  /\ missing = [c \in Contenders |-> {}]
  /\ outcome = [c \in Contenders |-> "pending"]
  /\ restarts = 0

Absent(c) == {i \in DOMAIN seen[c] : seen[c][i] = NoRecord}

(* The i-th record read is there and is not the desired one. *)
Diverges(c, i) ==
  /\ seen[c][i] # NoRecord
  /\ seen[c][i] # Desired[c][i].content

ReadingDone(c) == Len(seen[c]) = Len(Desired[c])

EndCall(c, result) ==
  /\ phase' = [phase EXCEPT ![c] = "done"]
  /\ outcome' = [outcome EXCEPT ![c] = result]
  /\ UNCHANGED <<recs, seen, missing, restarts>>

(* The records the call would create: what it found missing. *)
ToInsert(c) == {Desired[c][i] : i \in Absent(c)}

InsertNext(c) ==
  /\ phase' = [phase EXCEPT ![c] = "insert"]
  /\ missing' = [missing EXCEPT ![c] = Absent(c)]
  /\ UNCHANGED <<recs, seen, outcome, restarts>>

----------------------------------------
(* getCodeArtifact and its like answer null for a record of another kind;  *)
(* ensureObjects reads through getRecord and sees it.                      *)
ReadAs(c, content, desired) ==
  IF Procedure[c] # "objects" /\ (content = Foreign) # (desired = Foreign)
  THEN NoRecord ELSE content

(* One awaited read.  ensureObjects gives up at the first divergent record; *)
(* the others look at what they read when they have it all.                 *)
Read(c) ==
  /\ phase[c] \in {"read", "reread"}
  /\ ~ReadingDone(c)
  /\ ~(Procedure[c] = "objects" /\ \E i \in DOMAIN seen[c] : Diverges(c, i))
  /\ LET next == Desired[c][Len(seen[c]) + 1]
     IN seen' = [seen EXCEPT ![c] = Append(seen[c], ReadAs(c, recs[next.id], next.content))]
  /\ UNCHANGED <<recs, phase, missing, outcome, restarts>>

(* ensureRecord: adopt what is there, or insert. *)
DecideRecord(c) ==
  /\ Procedure[c] = "record"
  /\ ReadingDone(c)
  /\ \/ /\ phase[c] = "read" /\ Absent(c) # {}
        /\ InsertNext(c)
     \/ /\ phase[c] = "reread" /\ Absent(c) # {}
        /\ EndCall(c, "conflict")
     \/ /\ phase[c] \in {"read", "reread"} /\ Absent(c) = {}
        /\ EndCall(c, IF Diverges(c, 1) THEN "conflict" ELSE "ok")

(* Broken variant: a graph that lost its insert does not look who won. *)
GraphGivesUp(c) ==
  /\ Procedure[c] = "graph"
  /\ ReadingDone(c)
  /\ IF phase[c] = "read" /\ Absent(c) = DOMAIN seen[c]
     THEN InsertNext(c)
     ELSE /\ phase[c] \in {"read", "reread"}
          /\ EndCall(c, IF phase[c] = "read" /\ Absent(c) = {} /\ \A k \in DOMAIN seen[c] : ~Diverges(c, k)
                         THEN "ok" ELSE "conflict")

(* ensureCodeArtifacts: all absent inserts, all present and identical      *)
(* adopts, anything else is a conflict.                                    *)
DecideGraph(c) ==
  /\ Procedure[c] = "graph"
  /\ ReadingDone(c)
  /\ \/ /\ phase[c] = "read" /\ Absent(c) = DOMAIN seen[c]
        /\ InsertNext(c)
     \/ /\ \/ phase[c] = "reread"
           \/ phase[c] = "read" /\ Absent(c) # DOMAIN seen[c]
        /\ EndCall(c, IF Absent(c) = {} /\ \A i \in DOMAIN seen[c] : ~Diverges(c, i)
                  THEN "ok" ELSE "conflict")

(* ensureObjects: a divergent record is a conflict, missing ones are       *)
(* inserted, and after a lost insert the missing set must have shrunk.     *)
DecideObjects(c) ==
  /\ Procedure[c] = "objects"
  /\ phase[c] \in {"read", "reread"}
  /\ \/ /\ \E i \in DOMAIN seen[c] : Diverges(c, i)
        /\ EndCall(c, "conflict")
     \/ /\ ReadingDone(c)
        /\ \A i \in DOMAIN seen[c] : ~Diverges(c, i)
        /\ IF phase[c] = "reread" /\ (\/ Cardinality(Absent(c)) >= Cardinality(missing[c])
                                      \/ ~(Absent(c) \subseteq missing[c]))
           THEN EndCall(c, "error")
           ELSE IF Absent(c) = {} THEN EndCall(c, "ok") ELSE InsertNext(c)

(* Broken variant: after a lost insert the same insert is tried again.     *)
InsertSpins(c) ==
  /\ phase[c] = "insert"
  /\ \A x \in ToInsert(c) : recs[x.id] = NoRecord
  /\ recs' = [id \in Ids |-> IF \E x \in ToInsert(c) : x.id = id
                             THEN (CHOOSE x \in ToInsert(c) : x.id = id).content
                             ELSE recs[id]]
  /\ phase' = [phase EXCEPT ![c] = "written"]
  /\ UNCHANGED <<seen, missing, outcome, restarts>>

(* Broken variant: a lost insert is read again on top of the first pass. *)
InsertKeepsReads(c) ==
  /\ phase[c] = "insert"
  /\ phase' = [phase EXCEPT ![c] = "reread"]
  /\ seen' = [seen EXCEPT ![c] = Append(seen[c], NoRecord)]
  /\ UNCHANGED <<recs, missing, outcome, restarts>>

(* The insert-only transaction: every id unused and all are written, or a  *)
(* VersionConflictError and everything is read again.                      *)
Insert(c) ==
  /\ phase[c] = "insert"
  /\ IF \A x \in ToInsert(c) : recs[x.id] = NoRecord
     THEN /\ recs' = [id \in Ids |-> IF \E x \in ToInsert(c) : x.id = id
                                     THEN (CHOOSE x \in ToInsert(c) : x.id = id).content
                                     ELSE recs[id]]
          /\ phase' = [phase EXCEPT ![c] = "written"]
          /\ UNCHANGED seen
     ELSE /\ phase' = [phase EXCEPT ![c] = "reread"]
          /\ seen' = [seen EXCEPT ![c] = << >>]
          /\ UNCHANGED recs
  /\ UNCHANGED <<missing, outcome, restarts>>

(* The insert was acknowledged. *)
Return(c) ==
  /\ phase[c] = "written"
  /\ EndCall(c, "ok")

(* The call is cut off, its insert perhaps committed, and retried. *)
Restart(c) ==
  /\ phase[c] # "done"
  /\ restarts < MaxRestarts
  /\ restarts' = restarts + 1
  /\ phase' = [phase EXCEPT ![c] = "read"]
  /\ seen' = [seen EXCEPT ![c] = << >>]
  /\ missing' = [missing EXCEPT ![c] = {}]
  /\ UNCHANGED <<recs, outcome>>

Step(c) ==
  \/ Read(c)
  \/ DecideRecord(c)
  \/ DecideGraph(c)
  \/ DecideObjects(c)
  \/ Insert(c)
  \/ Return(c)

EnsureNext == \E c \in Contenders : Step(c) \/ Restart(c)

(* A call's awaited reads and writes are answered. *)
EnsureFairness == \A c \in Contenders : WF_ensureVars(Step(c))

EnsureSpec == EnsureInit /\ [][EnsureNext]_ensureVars /\ EnsureFairness

----------------------------------------
(* However the reads and inserts of the calls interleave, their results    *)
(* and the records are those of calls that ran one after the other, but    *)
(* for a graph overtaken while it is read (ensure-records.js:170); and a   *)
(* graph that loses its insert where only identical graphs contend adopts  *)
(* the winner, it is not refused (ensure-records.js:177-179).              *)
LookedFor(c) ==
  IF Procedure[c] = "graph" /\ phase[c] \in {"read", "reread"}
  THEN {Desired[c][k].id : k \in Absent(c)} ELSE {}

Looked == [c \in Contenders |-> LookedFor(c)]
Contract == INSTANCE EnsureContract WITH looked <- Looked

HasOnlyTwins(c) ==
  \A d \in Contenders :
    \/ Procedure[d] = "graph" /\ Contract!DesiredBy(d) = Contract!DesiredBy(c)
    \/ \A x \in Contract!DesiredBy(c), y \in Contract!DesiredBy(d) : x.id # y.id

LosersConverge ==
  [][\A c \in Contenders :
       phase[c] = "reread" /\ HasOnlyTwins(c) => outcome'[c] # "conflict"]_ensureVars

CallsActAlone == Contract!Spec /\ LosersConverge
========================================
