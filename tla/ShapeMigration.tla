---------------------------- MODULE ShapeMigration ----------------------------
(* Moving the objects of an image from one immutable Shape to another          *)
(* (object/migration.js).  A plan says for each slot of the target which slot  *)
(* of the source its value comes from, or that it gets a default; a run lists  *)
(* the image's objects once, computes all migrated records from that listing,  *)
(* and puts them one after the other without an expected version, while other  *)
(* clients update the same objects.  A run may be cut short between two puts   *)
(* and is then simply requested again.  The behaviour filter, metadata and the *)
(* validation of records are left out.                                         *)
EXTENDS Naturals, FiniteSets

CONSTANTS
  Movables,         \* object ids
  Shapes,           \* [shape ids -> [slots |-> a set of [id, name], indexed |-> BOOLEAN]]
  FirstShape,       \* the shape of every object at first
  MigrationRequests,\* calls: [from, to, mapping |-> [keys -> keys], default, drop]
  Values, NoDefault,
  Runners,          \* processes that migrate
  MaxRuns, MaxSlotUpdates                           \* bounds of the instance

ASSUME ShapesAssumption ==
  /\ Movables \subseteq Nat
  /\ FirstShape \in DOMAIN Shapes
  /\ \A shape \in DOMAIN Shapes : \A a, b \in Shapes[shape].slots : a.id = b.id => a = b
  /\ \A request \in MigrationRequests :
       /\ request.from \in DOMAIN Shapes /\ request.to \in DOMAIN Shapes
       /\ request.default \in Values \cup {NoDefault}

VARIABLES
  movable,          \* [Movables -> [shape, slots, indexed, version]]
  runner,           \* [Runners -> what a run has still to put]
  runs, slotUpdates
migrationVars == <<movable, runner, runs, slotUpdates>>

IdsOf(shape) == {slot.id : slot \in Shapes[shape].slots}

----------------------------------------
(* The slot a key names: by id before by name.                                 *)
SlotNamed(shape, key) ==
  LET byId == {slot \in Shapes[shape].slots : slot.id = key}
      byName == {slot \in Shapes[shape].slots : slot.name = key}
  IN IF byId # {} THEN byId ELSE byName

(* Where the value of a target slot comes from: the slot the caller's mapping  *)
(* names (looked up by the target's id, then by its name), without a mapping   *)
(* the slot of the same id, then the one of the same name; {} for a new slot.  *)
SourceOf(request, slot) ==
  LET same == {s \in Shapes[request.from].slots : s.id = slot.id}
      named == {s \in Shapes[request.from].slots : s.name = slot.name}
  IN IF slot.id \in DOMAIN request.mapping
       THEN SlotNamed(request.from, request.mapping[slot.id])
     ELSE IF slot.name \in DOMAIN request.mapping
       THEN SlotNamed(request.from, request.mapping[slot.name])
     ELSE IF same # {} THEN same ELSE named

MapsExplicitly(request, slot) ==
  slot.id \in DOMAIN request.mapping \/ slot.name \in DOMAIN request.mapping

(* A plan is refused when it drops the indexed part unasked, when the mapping  *)
(* names a slot that is not there, or when a new slot has no default.          *)
Plannable(request) ==
  /\ Shapes[request.from].indexed => Shapes[request.to].indexed \/ request.drop
  /\ \A slot \in Shapes[request.to].slots :
       SourceOf(request, slot) = {} =>
         ~MapsExplicitly(request, slot) /\ request.default # NoDefault

(* Broken variant: the new slots are added to the ones the object has.         *)
MigratedInPlace(request, object) ==
  [shape |-> request.to,
   slots |-> [id \in IdsOf(request.from) \cup IdsOf(request.to) |->
     IF id \in DOMAIN object.slots THEN object.slots[id] ELSE request.default],
   indexed |-> object.indexed]

(* The record an object becomes.                                               *)
Migrated(request, object) ==
  [shape |-> request.to,
   slots |-> [id \in IdsOf(request.to) |->
     LET slot == CHOOSE s \in Shapes[request.to].slots : s.id = id
         source == SourceOf(request, slot)
     IN IF source = {} THEN request.default
        ELSE object.slots[(CHOOSE s \in source : TRUE).id]],
   indexed |-> IF Shapes[request.to].indexed THEN object.indexed ELSE {}]

----------------------------------------
(* planImageShapeMigration: one listing; the records of all the candidates.    *)
Plans(r, request) ==
  LET candidates == {o \in Movables : movable[o].shape = request.from}
  IN /\ runner[r] = [at |-> "rest"]
     /\ runs < MaxRuns
     /\ Plannable(request)
     /\ runs' = runs + 1
     /\ runner' = [runner EXCEPT ![r] =
          [at |-> "puts", request |-> request, listed |-> movable,
           left |-> IF request.from = request.to THEN {} ELSE candidates]]
     /\ UNCHANGED <<movable, slotUpdates>>

(* One put of the loop, in the order of the ids; no version is expected.       *)
PutsMigrated(r) ==
  LET w == runner[r]
      o == CHOOSE x \in w.left : \A y \in w.left : x <= y
      record == Migrated(w.request, w.listed[o])
  IN /\ w.at = "puts" /\ w.left # {}
     /\ movable' = [movable EXCEPT ![o] =
          [shape |-> record.shape, slots |-> record.slots, indexed |-> record.indexed,
           version |-> @.version + 1]]
     /\ runner' = [runner EXCEPT ![r].left = @ \ {o}]
     /\ UNCHANGED <<runs, slotUpdates>>

Receipt(r) ==
  /\ runner[r].at = "puts" /\ runner[r].left = {}
  /\ runner' = [runner EXCEPT ![r] = [at |-> "rest"]]
  /\ UNCHANGED <<movable, runs, slotUpdates>>

(* The process that migrates ends between two puts.                            *)
CutShort(r) ==
  /\ runner[r].at = "puts" /\ runner[r].left # {}
  /\ runner' = [runner EXCEPT ![r] = [at |-> "rest"]]
  /\ UNCHANGED <<movable, runs, slotUpdates>>

(* Another client sets a slot, at the version it read.                         *)
SetsSlot(o, id, value) ==
  /\ slotUpdates < MaxSlotUpdates
  /\ id \in DOMAIN movable[o].slots
  /\ movable' = [movable EXCEPT ![o].slots[id] = value, ![o].version = @ + 1]
  /\ slotUpdates' = slotUpdates + 1
  /\ UNCHANGED <<runner, runs>>

MigrationInit ==
  /\ movable \in [Movables ->
       {[shape |-> FirstShape, slots |-> slots, version |-> 1,
         indexed |-> IF Shapes[FirstShape].indexed THEN Values ELSE {}] :
         slots \in [IdsOf(FirstShape) -> Values]}]
  /\ runner = [r \in Runners |-> [at |-> "rest"]]
  /\ runs = 0 /\ slotUpdates = 0

MigrationNext ==
  \/ \E r \in Runners :
       \/ \E request \in MigrationRequests : Plans(r, request)
       \/ PutsMigrated(r) \/ Receipt(r) \/ CutShort(r)
  \/ \E o \in Movables : \E id \in DOMAIN movable[o].slots, value \in Values :
       SetsSlot(o, id, value)

MigrationSpec == MigrationInit /\ [][MigrationNext]_migrationVars

----------------------------------------
MigrationTypeOK ==
  /\ \A o \in Movables :
       /\ movable[o].shape \in DOMAIN Shapes
       /\ movable[o].slots \in [IdsOf(movable[o].shape) -> Values]
       /\ movable[o].version \in Nat \ {0}
  /\ \A r \in Runners :
       runner[r].at = "puts" => runner[r].left \subseteq Movables

(* A put of a migration whose object nobody wrote since the listing keeps the  *)
(* value of every slot that has its identity in both shapes, however the       *)
(* shapes name their slots, unless the caller mapped that slot to another;     *)
(* runs that were cut short and repeated, or overlap, included                 *)
(* (buildShapeSlotMigrationPlan, migrateImageObjectsToShape).                  *)
QuietMigrationsKeepSlots ==
  [][\A r \in Runners : \A o \in Movables :
       /\ runner[r].at = "puts"
       /\ runner'[r].at = "puts" /\ runner[r].left \ runner'[r].left = {o}
       /\ runner[r].listed[o].version = movable[o].version
       => \A slot \in Shapes[movable'[o].shape].slots :
            /\ ~MapsExplicitly(runner[r].request, slot)
            /\ slot.id \in DOMAIN movable[o].slots
            => movable'[o].slots[slot.id] = movable[o].slots[slot.id]]_migrationVars
========================================
