----------------------------- MODULE MCStorage ------------------------------
(***************************************************************************)
(* The in-memory backend and the ensure owner, each on its own: they share *)
(* no state, so one of the parts runs and the other rests where it began.  *)
(*                                                                         *)
(* The backend serves two callers over one record and one stream: a        *)
(* transaction of two operations runs against direct writes and another    *)
(* transaction queued behind it, and a view is used after its transaction  *)
(* ended.  The ensure calls contend for the same records in the ways the   *)
(* callers of ensure-records.js do: lists of objects that overlap, a       *)
(* single object of a list, a record of another kind at an id of a list; a *)
(* graph, the same graph again and other records at its ids; and two calls *)
(* that want one graph, with nobody else at its ids.                       *)
(***************************************************************************)
EXTENDS MockBackend, EnsureRecords, TLC

CONSTANTS MaxUnit, Parts, i, j, m, n, p, q, good, bad, foreign

VARIABLE part

storageVars == <<part, vars, ensureVars>>

D(id, content) == [id |-> id, content |-> content]

CallsDesire ==
  "list" :> <<D(i, good), D(j, good)>> @@ "tail" :> <<D(j, good), D(m, good)>> @@
  "overlap" :> <<D(i, good)>> @@ "divergent" :> <<D(j, foreign)>> @@
  "graph" :> <<D(m, good), D(n, good)>> @@ "half" :> <<D(m, bad)>> @@
  "other" :> <<D(n, good)>> @@ "again" :> <<D(m, good), D(n, good)>> @@
  "twin" :> <<D(p, good), D(q, good)>> @@ "sibling" :> <<D(p, good), D(q, good)>>

CallsRun ==
  "list" :> "objects" @@ "tail" :> "objects" @@ "overlap" :> "record" @@
  "divergent" :> "record" @@ "graph" :> "graph" @@ "half" :> "record" @@ "other" :> "record" @@
  "again" :> "graph" @@ "twin" :> "graph" @@ "sibling" :> "graph"

(* The calls that contend with each other, a part of its own each.         *)
Contending ==
  [lists |-> {"list", "tail", "overlap", "divergent"},
   graphs |-> {"graph", "again", "half", "other"}, twins |-> {"twin", "sibling"}]
Contends(c) == part \in DOMAIN Contending /\ c \in Contending[part]

StorageInit == part \in Parts /\ Init /\ EnsureInit

StorageNext ==
  /\ UNCHANGED part
  /\ \/ part = "mock" /\ Next /\ UNCHANGED ensureVars
     \/ /\ \E c \in Contenders : Contends(c) /\ (Step(c) \/ Restart(c))
        /\ UNCHANGED vars

(* The event loop runs what the queue holds and every work settles; the    *)
(* awaited reads and writes of the ensure calls are answered.  That some   *)
(* step is taken is enough: no call has to be favoured.                    *)
StorageFairness ==
  /\ WF_vars(part = "mock" /\ \E c \in Callers : Serve(c))
  /\ WF_ensureVars(\E c \in Contenders : Contends(c) /\ Step(c))

StorageSpec == StorageInit /\ [][StorageNext]_storageVars /\ StorageFairness

----------------------------------------
(* A backend implements the atomic store: a direct write is a unit of one  *)
(* operation, a transaction is one unit that takes effect at its commit on *)
(* top of the state the previous call left, and a failed work, a conflict  *)
(* or a view used too late leaves no trace                                 *)
(* (mock-backend.js transaction, exclusive, active).                       *)
Live == INSTANCE AtomicStore WITH store <- heap[live]
UnitsAreAtomic == Live!Spec

(* Every call chained on writeTail settles, whatever became of the calls   *)
(* before it (mock-backend.js exclusive: writeTail.then(operation,         *)
(* operation)), and every ensure call ends, however often it loses an      *)
(* insert to another: ensureObjects is not an open retry.                  *)
EveryCallEnds ==
  /\ \A c \in Callers : (call[c] # Idle) ~> (call[c] = Idle)
  /\ <>(\A c \in Contenders : Contends(c) => outcome[c] # "pending")
========================================
