--------------------------- MODULE AuthorizedObjects ---------------------------
(* The authorized object lanes of an image (callable/image-object-read-,        *)
(* image-mutation-, image-creation-, image-creation-batch- and                  *)
(* image-observation-binding.js, with object/version-token.js).  A caller reads *)
(* an object and gets a version token; a mutation carries that token, may set   *)
(* the leaf slots and add references to the indexed part, never remove one;     *)
(* a creation draws identities until an insert-only put, of one object or of a  *)
(* batch that refers to itself by local names, succeeds; an observer follows    *)
(* the image's history from its cursor and is told of the puts it may read.     *)
(* Every lane demands its authority first, synchronously, and then awaits the   *)
(* store: between two awaits other callers commit and the environment grants    *)
(* and revokes.  Parsing of descriptors and values is left out.                 *)
EXTENDS Naturals, Sequences, SequencesExt, FiniteSets, TLC

CONSTANTS
  ObjectIds,        \* identities the generator can draw
  Leaves,           \* values of the leaf slots, which are written as one
  Batches,          \* creations: [1 .. n -> ObjectIds \cup 1 .. n], a reference per member
  ClassId,          \* the class of what is created
  Toggled,          \* the pairs <<operation, id>> the environment grants and revokes
  Callers,
  Observers,
  MaxIdentityAttempts,                  \* maxIdentityAttempts of the creation lanes
  MaxCalls, MaxGrantChanges             \* bounds of the instance

Grantable == ({"read", "write", "edge"} \X ObjectIds) \cup {<<"create", ClassId>>}

ASSUME ObjectsAssumption ==
  /\ Batches \subseteq Seq(ObjectIds \cup Nat) \ {<<>>}
  /\ Toggled \subseteq Grantable

Unused == [version |-> 0]

VARIABLES
  objects,          \* [ids -> Unused, or [leaf, indexed, version]]
  feed,             \* the image's history: the id each object.put event names
  grants,           \* the pairs <<operation, id>> in force
  caller,           \* [callers -> where its call is]
  observer,         \* [observers -> its cursor and what it was told and not told]
  calls, grantChanges
objectVars == <<objects, feed, grants, caller, observer, calls, grantChanges>>

Idle == [at |-> "rest"]
Granted(op, id) == <<op, id>> \in grants
Is(c, at) == caller[c].at = at
CallerGoes(c, state) == caller' = [caller EXCEPT ![c] = state]
Store == <<objects, feed>>
IndexedLists == UNION {[1 .. n -> ObjectIds] : n \in 0 .. 2}
Times(list, id) == Cardinality({i \in DOMAIN list : list[i] = id})
Keeps(new, old) == \A id \in ObjectIds : Times(new, id) >= Times(old, id)
Added(new, old) == {id \in ObjectIds : Times(new, id) > Times(old, id)}

(* One commit: the records are inserted or replaced together, each with its    *)
(* event.                                                                      *)
CommitObjects(records) ==
  /\ objects' = [id \in ObjectIds |->
       IF id \in DOMAIN records
         THEN [leaf |-> records[id].leaf, indexed |-> records[id].indexed,
               version |-> objects[id].version + 1]
         ELSE objects[id]]
  /\ feed' = feed \o SetToSeq(DOMAIN records)

CallBegins(c, state) ==
  /\ caller[c].at \in {"rest", "token"}
  /\ calls < MaxCalls
  /\ calls' = calls + 1
  /\ CallerGoes(c, state)
  /\ UNCHANGED <<Store, grants, observer, grantChanges>>
CallGoesOn == UNCHANGED <<grants, observer, calls, grantChanges>>

----------------------------------------
(* The read lane: the demand, then the record and the token of that record.    *)
Reading(c, id) == Granted("read", id) /\ CallBegins(c, [at |-> "read", id |-> id])

ReadsRecord(c) ==
  /\ Is(c, "read")
  /\ LET id == caller[c].id
     IN CallerGoes(c, IF objects[id] = Unused THEN Idle
                ELSE [at |-> "token", id |-> id, version |-> objects[id].version])
  /\ UNCHANGED Store /\ CallGoesOn

(* The mutation lane: write authority, then the record; a list that lacks an   *)
(* element of the record's is refused, an element it adds needs authority of   *)
(* its own; then the put, on the condition that the object is still at the     *)
(* token's version.                                                            *)
Mutating(c, leaf, list) ==
  /\ Is(c, "token")
  /\ Granted("write", caller[c].id)
  /\ CallBegins(c, [at |-> "mutate", id |-> caller[c].id, token |-> caller[c].version,
               leaf |-> leaf, list |-> list])

BuildsIndexed(c) ==
  LET w == caller[c]
      old == objects[w.id].indexed
  IN /\ Is(c, "mutate")
     /\ CallerGoes(c, IF Keeps(w.list, old) /\ \A id \in Added(w.list, old) : Granted("edge", id)
                  THEN [w EXCEPT !.at = "put"]
                  ELSE Idle)
     /\ UNCHANGED Store /\ CallGoesOn

PutObjectAtExpectedVersion(c) ==
  LET w == caller[c]
  IN /\ Is(c, "put")
     /\ IF objects[w.id].version = w.token
          THEN /\ CommitObjects([x \in {w.id} |-> [leaf |-> w.leaf, indexed |-> w.list]])
               /\ CallerGoes(c, [at |-> "token", id |-> w.id, version |-> w.token + 1])
          ELSE UNCHANGED Store /\ CallerGoes(c, Idle)
     /\ CallGoesOn

----------------------------------------
(* The creation lanes.  A batch is the references of its members, each a       *)
(* member's position or an existing object.  Each member demands create        *)
(* authority over its class, awaits the class and its shape, and demands the   *)
(* authority over the reference; the next member's turn follows at once.       *)
Creating(c, leaf, batch) ==
  /\ Granted("create", ClassId)
  /\ CallBegins(c, [at |-> "class", leaf |-> leaf, batch |-> batch, member |-> 1])

BuildsMember(c) ==
  LET w == caller[c]
      target == w.batch[w.member]
  IN /\ Is(c, "class")
     /\ CallerGoes(c,
          IF target \in ObjectIds /\ ~ Granted("edge", target) THEN Idle
          ELSE IF w.member = Len(w.batch)
               THEN [at |-> "create", leaf |-> w.leaf, batch |-> w.batch, attempts |-> 0]
          ELSE IF Granted("create", ClassId) THEN [w EXCEPT !.member = @ + 1]
          ELSE Idle)
     /\ UNCHANGED Store /\ CallGoesOn

(* The whole set of identities is drawn anew after a collision.                *)
InsertsMinted(c) ==
  LET w == caller[c]
      Free(ids) == \A m \in DOMAIN ids : objects[ids[m]] = Unused
  IN /\ Is(c, "create")
     /\ \E ids \in [DOMAIN w.batch -> ObjectIds] :
          /\ IsInjective(ids)
          /\ IF Free(ids)
               THEN /\ CommitObjects([id \in {ids[m] : m \in DOMAIN ids} |->
                         LET m == CHOOSE x \in DOMAIN ids : ids[x] = id
                         IN [leaf |-> w.leaf,
                             indexed |-> <<IF w.batch[m] \in ObjectIds THEN w.batch[m]
                                           ELSE ids[w.batch[m]]>>]])
                    /\ CallerGoes(c, [at |-> "token", id |-> ids[1], version |-> 1])
               ELSE /\ UNCHANGED Store
                    /\ CallerGoes(c, IF w.attempts + 1 = MaxIdentityAttempts THEN Idle
                               ELSE [w EXCEPT !.attempts = @ + 1])
     /\ CallGoesOn

(* The observation lane.  One read of the history behind the cursor gives both *)
(* the events and the new cursor; an event the caller may not read is passed   *)
(* over.  `told` and `hidden` remember the positions for the statements below. *)
Scans(o) ==
  /\ observer[o].scan = <<>>
  /\ feed # <<>>
  /\ observer[o].cursor < Len(feed)
  /\ observer' = [observer EXCEPT ![o].scan =
       SubSeq(feed, observer[o].cursor + 1, Len(feed))]
  /\ UNCHANGED <<Store, grants, caller, calls, grantChanges>>

Reports(o) ==
  LET w == observer[o]
      Positions == w.cursor + 1 .. w.cursor + Len(w.scan)
      seen == {p \in Positions : Granted("read", w.scan[p - w.cursor])}
  IN /\ w.scan # <<>>
     /\ observer' = [observer EXCEPT ![o] =
          [w EXCEPT !.scan = <<>>, !.cursor = w.cursor + Len(w.scan),
                    !.told = @ \cup seen, !.hidden = @ \cup (Positions \ seen)]]
     /\ UNCHANGED <<Store, grants, caller, calls, grantChanges>>

----------------------------------------
GrantChanges(op, id) ==
  /\ grantChanges < MaxGrantChanges
  /\ grantChanges' = grantChanges + 1
  /\ grants' = IF Granted(op, id) THEN grants \ {<<op, id>>} ELSE grants \cup {<<op, id>>}
  /\ UNCHANGED <<Store, caller, observer, calls>>

ObjectsInit ==
  /\ objects = [id \in ObjectIds |-> Unused]
  /\ feed = <<>>
  /\ grants = Grantable
  /\ caller = [c \in Callers |-> Idle]
  /\ observer = [o \in Observers |-> [cursor |-> 0, scan |-> <<>>, told |-> {}, hidden |-> {}]]
  /\ calls = 0 /\ grantChanges = 0

ObjectsNext ==
  \/ \E c \in Callers :
       \/ \E id \in ObjectIds : Reading(c, id)
       \/ ReadsRecord(c)
       \/ \E leaf \in Leaves, list \in IndexedLists : Mutating(c, leaf, list)
       \/ BuildsIndexed(c) \/ PutObjectAtExpectedVersion(c)
       \/ \E leaf \in Leaves, batch \in Batches : Creating(c, leaf, batch)
       \/ BuildsMember(c) \/ InsertsMinted(c)
  \/ \E o \in Observers : Scans(o) \/ Reports(o)
  \/ \E grant \in Toggled : GrantChanges(grant[1], grant[2])

ObjectsSpec == ObjectsInit /\ [][ObjectsNext]_objectVars

----------------------------------------
ObjectsTypeOK ==
  /\ \A id \in ObjectIds :
       \/ objects[id] = Unused
       \/ /\ objects[id].leaf \in Leaves
          /\ objects[id].version \in Nat \ {0}
  /\ feed \in Seq(ObjectIds)
  /\ grants \subseteq Grantable
  /\ \A c \in Callers : caller[c].at \in {"rest", "read", "token", "mutate", "put", "class", "create"}
  /\ \A o \in Observers : observer[o].cursor \in 0 .. Len(feed)

(* A mutation takes no reference away, whatever it was that others committed   *)
(* between the read the caller's token is from, the read the new list was      *)
(* compared with, and the put (buildNewIndexedPart, putObjectAtExpectedVersion).*)
ReferencesOnlyGrow ==
  [][\A id \in ObjectIds :
       objects[id] # Unused => Keeps(objects'[id].indexed, objects[id].indexed)]_objectVars

(* An observer is told of every put behind its cursor or was not allowed to    *)
(* read that object when the put was reported, and is told of none twice: the  *)
(* cursor it is given is the end of what was scanned (scanHistory).            *)
ObserversMissNothing ==
  \A o \in Observers :
    /\ observer[o].told \cup observer[o].hidden = 1 .. observer[o].cursor
    /\ observer[o].told \cap observer[o].hidden = {}
========================================
