----------------------------- MODULE RecordMerge -----------------------------
(***************************************************************************)
(* The three-way merge of graph records (src/graph/merge.js): what becomes *)
(* of one record id, given the record at the base frontier, on the left    *)
(* (the branch merged into) and on the right (the branch merged from).     *)
(*                                                                         *)
(* A record has a kind, one scalar (an object's shape, an environment's    *)
(* parent, the content of a record that is compared as a whole), keyed     *)
(* values (slots, bindings; behavior and metadata are merged by the same   *)
(* two helpers) and an optional indexed part.  The indexed part is << >>   *)
(* when the record has none and <<elements>> otherwise.                    *)
(***************************************************************************)
EXTENDS Naturals, Sequences, SequencesExt

CONSTANTS
  Slots,    \* slot or binding keys
  Linkage   \* the shape whose indexed part is a set of member references

Missing == "-"

NoRec == [kind |-> "none", scalar |-> Missing, slots |-> [s \in Slots |-> Missing], parts |-> << >>]

Structured == {"object", "lexical-environment"}

(* mergeScalarFieldThreeWay; a key that a map lacks is the value Missing.  *)
TakesRightIfEqual(b, l, r) ==
  [merged |-> IF l = b \/ l = r THEN r ELSE IF r = b THEN b ELSE b,
   conflict |-> l # b /\ r # b /\ l # r]

ThreeWay(b, l, r) ==
  [merged |-> IF l = b THEN r ELSE IF r = b \/ l = r THEN l ELSE b,
   conflict |-> l # b /\ r # b /\ l # r]

MergeMap(b, l, r) ==
  LET field(s) == ThreeWay(b[s], l[s], r[s]) IN
  [merged |-> [s \in DOMAIN b |-> field(s).merged],
   conflict |-> \E s \in DOMAIN b : field(s).conflict]

(* mergeObjectRefSetThreeWay: additions of both sides, minus the removals. *)
MergeLinkage(b, l, r) ==
  LET in(seq, x) == x \in ToSet(seq)
      all == ToSet(b) \cup ToSet(l) \cup ToSet(r) IN
  SetToSortSeq({x \in all : IF in(b, x) THEN in(l, x) /\ in(r, x) ELSE TRUE}, <)

(* mergeIndexedArrayThreeWay.                                              *)
MergeParts(b, l, r, asSet) ==
  LET whole == ThreeWay(b, l, r)
      all == {b, l, r} IN
  IF ~whole.conflict THEN whole
  ELSE IF asSet /\ << >> \notin all
       THEN [merged |-> <<MergeLinkage(b[1], l[1], r[1])>>, conflict |-> FALSE]
  ELSE IF << >> \notin all /\ \A p \in all : Len(p[1]) = Len(b[1])
       THEN LET m == MergeMap(b[1], l[1], r[1]) IN [merged |-> <<m.merged>>, conflict |-> m.conflict]
  ELSE whole

----------------------------------------
(* What a plan does with one id: the record of mergedRecords, whether it   *)
(* is among appliedChanges or removedIds, and the conflict it reports.     *)

Kept(rec) == [record |-> rec, write |-> FALSE, remove |-> FALSE, conflict |-> "none"]
Written(rec) == [Kept(rec) EXCEPT !.write = TRUE]
Removed == [Kept(NoRec) EXCEPT !.remove = TRUE]
Conflicting(rec, kind) == [Kept(rec) EXCEPT !.conflict = kind]

(* mergeObjectRecordThreeWay and mergeLexicalEnvironmentRecordThreeWay:    *)
(* the merged record is spread over the base, so an indexed part that the  *)
(* merge drops stays.                                                      *)
MergeStructured(b, l, r) ==
  LET scalar == ThreeWay(b.scalar, l.scalar, r.scalar)
      slots == MergeMap(b.slots, l.slots, r.slots)
      parts == MergeParts(b.parts, l.parts, r.parts, b.scalar = Linkage)
      merged == [kind |-> b.kind, scalar |-> scalar.merged, slots |-> slots.merged,
                 parts |-> IF parts.merged # << >> THEN parts.merged ELSE b.parts] IN
  IF scalar.conflict \/ slots.conflict \/ parts.conflict
  THEN Conflicting(merged, b.kind) ELSE Written(merged)

(* The five cases of mergeImageRecords, before resolutions.                *)
PlanAdded(l, r) ==
  CASE l = NoRec /\ r = NoRec -> Kept(NoRec)
    [] r = NoRec \/ l = r -> Written(l)
    [] l = NoRec -> Written(r)
    [] OTHER -> Conflicting(NoRec, "add-add")

PlanDeleted(b, modified) ==
  IF modified = b THEN Removed ELSE Conflicting(b, "delete-modify")

PlanModified(b, l, r) ==
  CASE l = b /\ r = b -> Kept(b)
    [] l = b -> Written(r)
    [] r = b \/ l = r -> Written(l)
    [] l.kind # r.kind \/ l.kind # b.kind -> Conflicting(b, "kind-conflict")
    [] b.kind \in Structured -> MergeStructured(b, l, r)
    [] OTHER -> Conflicting(b, "record-conflict")

PlanRecord(b, l, r) ==
  CASE b = NoRec -> PlanAdded(l, r)
    [] b # NoRec /\ l = NoRec /\ r = NoRec -> Removed
    [] b # NoRec /\ l = NoRec /\ r # NoRec -> PlanDeleted(b, r)
    [] b # NoRec /\ l # NoRec /\ r = NoRec -> PlanDeleted(b, l)
    [] OTHER -> PlanModified(b, l, r)

(* applyConflictResolution, and what the five cases make of its result.    *)
Resolve(plan, b, l, r, resolution) ==
  IF plan.conflict = "none" \/ resolution = "none" THEN plan
  ELSE LET chosen == CASE resolution = "left" -> l [] resolution = "right" -> r [] OTHER -> b IN
       IF chosen = NoRec THEN Removed ELSE Written(chosen)
========================================
