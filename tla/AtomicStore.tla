---------------------------- MODULE AtomicStore ----------------------------
(***************************************************************************)
(* What a storage backend promises to the image layer                      *)
(* (src/backend/backend-contract.js): the store changes only by whole      *)
(* units of work.  A unit is a direct put, a direct append, or everything  *)
(* one transaction did; it is applied to the state the previous unit left, *)
(* or not at all.  MockBackend and LagrangeBackend are both checked to     *)
(* implement this module, and the image layer is modelled on top of it.    *)
(***************************************************************************)
EXTENDS StoreState, SequencesExt

CONSTANT MaxUnit   \* bound: the longest unit the abstract store looks for

VARIABLE store

Operations ==
  [kind : {"put"}, at : Keys, text : Texts]
    \cup [kind : {"append"}, at : Streams, text : Texts]

Perform(state, op) ==
  IF op.kind = "put" THEN PutInto(state, op.at, op.text)
                     ELSE AppendTo(state, op.at, op.text)

Units == BoundedSeq(Operations, MaxUnit)

Init == store = EmptyState

(* One unit of work takes effect; one that changes nothing is a stutter.   *)
Commit(unit) == store' = FoldLeft(Perform, store, unit)

Next == store' # store /\ \E unit \in Units : Commit(unit)

Spec == Init /\ [][Next]_store
========================================
