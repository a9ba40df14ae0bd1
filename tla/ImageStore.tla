----------------------------- MODULE ImageStore -----------------------------
(***************************************************************************)
(* One image: its durable records, its root and its history stream, as     *)
(* ImageService (src/image/graph-image-service.js) writes them, and        *)
(* the garbage collector of src/graph/reachability.js on top of it.        *)
(*                                                                         *)
(* Every operation first reads (the image, the records it refers to, the   *)
(* record it replaces), each read awaited on its own, and then commits     *)
(* once: all its records and one history event for each in one backend     *)
(* transaction, here one step (AtomicStore).  So what an operation checked *)
(* may be stale when it commits, and only the versions it expects guard it.*)
(* A record keeps what validation and reachability look at: its kind, its  *)
(* layout (the slots of a shape and of the objects that match it, the      *)
(* parent and the binding ids of an environment) and its refs.             *)
(***************************************************************************)
EXTENDS Naturals, Sequences, SequencesExt, FiniteSets, FiniteSetsExt

CONSTANTS
  Clients,      \* concurrent users of the image service
  Ids,          \* object ids
  NoId,         \* no root yet; also the subject of an image event
  Layouts,
  Candidates,   \* the records callers ask to write
  Batches,      \* the batches callers pass to putObjects and createRecords
  Sweeps,       \* the sets of records callers sweep on their own account
  SystemRoots,  \* ids the collector keeps by their name or metadata
  Pins,         \* frontiers callers pin in a collection
  Unconditional,   \* expectedVersion left undefined
  MaxHistory,   \* bound: events in the history
  MaxVersion    \* bound: versions of a record

ASSUME NoIdAssumption == NoId \notin Ids
ASSUME UnconditionalAssumption == Unconditional \notin Nat
ASSUME IdsAssumption == IsFiniteSet(Ids)
ASSUME BoundsAssumption == MaxHistory \in Nat /\ MaxVersion \in Nat

Kinds == {"shape", "object", "code-artifact", "lexical-environment", "block"}

Refs == [role : {"shape", "slot", "dependency", "parent", "code", "environment"}, id : Ids]

ASSUME CandidatesAssumption ==
  /\ \A x \in Candidates : /\ x.id \in Ids
                           /\ x.kind \in Kinds
                           /\ x.layout \in Layouts
                           /\ x.refs \in Seq(Refs)
  /\ Batches \subseteq Seq(Candidates)
  /\ SystemRoots \subseteq Ids
  /\ Sweeps \subseteq SUBSET Ids

VARIABLES
  recs,      \* the record, or the tombstone, at each id
  image,     \* the image record: its version and its root
  history,   \* the history stream
  op         \* the operation each client has in progress

imageVars == <<recs, image, history, op>>

Absent(id) == [id |-> id, kind |-> "none", layout |-> NoId, refs |-> << >>, version |-> 0]

(* getRecord answers null for a tombstone as for an id never written. *)
Live(r) == r.kind \in Kinds

LiveIds(records) == {id \in DOMAIN records : Live(records[id])}

(* The kind the target of a ref must have: slot values are not looked at. *)
RequiredKind ==
  [shape |-> "shape", dependency |-> "code-artifact", parent |-> "lexical-environment",
   code |-> "code-artifact", environment |-> "lexical-environment"]

CheckOf(x, ref) == [role |-> ref.role, id |-> ref.id, layout |-> x.layout]

(* What validateCandidateRecord checks of a record ... *)
ChecksOf(x) == {CheckOf(x, ref) : ref \in {r \in Range(x.refs) : r.role \in DOMAIN RequiredKind}}

(* ... and where in a batch the checked refs are, read one after the other. *)
Places(batch) ==
  UNION {{i} \X {j \in DOMAIN batch[i].refs : batch[i].refs[j].role \in DOMAIN RequiredKind} :
           i \in DOMAIN batch}

CheckAt(batch, at) == CheckOf(batch[at[1]], batch[at[1]].refs[at[2]])

FirstOf(places) ==
  CHOOSE at \in places : \A b \in places : at[1] < b[1] \/ (at[1] = b[1] /\ at[2] <= b[2])

(* What it asks of the record it reads; an object is matched against its   *)
(* shape (assertObjectMatchesShape).                                       *)
Satisfies(r, check) ==
  /\ r.kind = RequiredKind[check.role]
  /\ check.role = "shape" => r.layout = check.layout

Records == [id : Ids, kind : Kinds \cup {"none", "swept"}, layout : Layouts \cup {NoId},
            refs : Seq(Refs), version : Nat]

Idle == [phase |-> "idle"]

ImageTypeOK ==
  /\ recs \in [Ids -> Records]
  /\ \A id \in Ids : recs[id].id = id
  /\ image \in [version : Nat, root : Ids \cup {NoId}]
  /\ \A i \in 1..Len(history) :
       history[i].type \in {"put", "swept", "image.created", "image.root-set"}
  /\ \A c \in Clients :
       op[c].phase \in {"idle", "create", "read-current", "check", "root", "set-root",
                        "collect", "condemn", "sweep"}

ImageInit ==
  /\ recs = [id \in Ids |-> Absent(id)]
  /\ image = [version |-> 0, root |-> NoId]
  /\ history = << >>
  /\ op = [c \in Clients |-> Idle]

Goto(c, o) ==
  /\ op' = [op EXCEPT ![c] = o]
  /\ UNCHANGED <<recs, image, history>>

----------------------------------------
(* The commits. *)

RecordEvent(type, r) == [type |-> type, subject |-> r.id, record |-> r]
ImageEvent(type, i) == [type |-> type, subject |-> NoId, record |-> i]

Stored(x) == [id |-> x.id, kind |-> x.kind, layout |-> x.layout, refs |-> x.refs,
              version |-> recs[x.id].version + 1]

(* commitCandidateRecords, and writeRecordWithResidency without peers: the *)
(* members are put with the version they expect and one event each, or one *)
(* of them conflicts and nothing is written: the second member under one   *)
(* id too, which finds the first (createRecords refuses it earlier).       *)
Fresh(batch, expected) ==
  /\ \A i, j \in DOMAIN batch : batch[i].id = batch[j].id => i = j
  /\ \/ expected = Unconditional
     \/ \A x \in Range(batch) : recs[x.id].version = expected

(* Broken variant: the history event is appended for the first member only. *)
WriteBatchHalfRecorded(batch) ==
  /\ Len(history) + Len(batch) <= MaxHistory
  /\ \A x \in Range(batch) : recs[x.id].version < MaxVersion
  /\ recs' = [id \in Ids |-> IF \E x \in Range(batch) : x.id = id
                             THEN Stored(CHOOSE x \in Range(batch) : x.id = id)
                             ELSE recs[id]]
  /\ history' = Append(history, RecordEvent("put", Stored(batch[1])))

WriteBatch(batch) ==
  /\ Len(history) + Len(batch) <= MaxHistory
  /\ \A x \in Range(batch) : recs[x.id].version < MaxVersion
  /\ recs' = [id \in Ids |-> IF \E x \in Range(batch) : x.id = id
                             THEN Stored(CHOOSE x \in Range(batch) : x.id = id)
                             ELSE recs[id]]
  /\ history' = history \o [i \in 1..Len(batch) |-> RecordEvent("put", Stored(batch[i]))]

CommitBatch(c) ==
  /\ op[c].phase = "check"
  /\ op[c].todo = {}
  /\ IF Fresh(op[c].batch, op[c].expected)
     THEN WriteBatch(op[c].batch)
     ELSE UNCHANGED <<recs, history>>
  /\ op' = [op EXCEPT ![c] = Idle]
  /\ UNCHANGED image

WriteImage(c, type, expected, root) ==
  /\ Len(history) < MaxHistory
  /\ IF image.version = expected
     THEN LET i == [version |-> expected + 1, root |-> root] IN
          /\ image' = i
          /\ history' = Append(history, ImageEvent(type, i))
     ELSE UNCHANGED <<image, history>>
  /\ op' = [op EXCEPT ![c] = Idle]
  /\ UNCHANGED recs

----------------------------------------
(* createImage: look for the image, then insert it. *)
CreateImage(c) ==
  /\ op[c] = Idle
  /\ image.version = 0
  /\ Goto(c, [phase |-> "create"])

CommitImage(c) ==
  /\ op[c].phase = "create"
  /\ WriteImage(c, "image.created", 0, NoId)

(* Checks left to do, in the order the code awaits them; a ref into the    *)
(* batch of createRecords resolves to the batch and is checked at once.    *)
Check(c, batch, expected, places) ==
  Goto(c, [phase |-> "check", batch |-> batch, expected |-> expected, todo |-> places])

Reject(c) == Goto(c, Idle)

(* putShape, putCodeArtifact and putBlock insert; putObject expects what   *)
(* its caller says: a version it may have read, or nothing at all.         *)
Put(c, x) ==
  /\ op[c] = Idle
  /\ image.version > 0
  /\ x.kind # "lexical-environment"
  /\ \E expected \in IF x.kind = "object" THEN {Unconditional, recs[x.id].version} ELSE {0} :
       Check(c, <<x>>, expected, Places(<<x>>))

(* putLexicalEnvironment reads the record it will replace; the caller may  *)
(* name a version it read before.                                          *)
PutLexicalEnvironment(c, x) ==
  /\ op[c] = Idle
  /\ image.version > 0
  /\ x.kind = "lexical-environment"
  /\ \E expected \in {Unconditional, recs[x.id].version} :
       Goto(c, [phase |-> "read-current", record |-> x, expected |-> expected])

LayoutCompatible(current, x) ==
  ~Live(current) \/ (current.kind = x.kind /\ current.layout = x.layout)

ReadCurrent(c) ==
  /\ op[c].phase = "read-current"
  /\ LET x == op[c].record
         current == recs[x.id]
         read == IF Live(current) THEN current.version ELSE 0
     IN IF LayoutCompatible(current, x)
        THEN Check(c, <<x>>, IF op[c].expected = Unconditional THEN read ELSE op[c].expected,
                   Places(<<x>>))
        ELSE Reject(c)

(* putObjects resolves every shape from the store. *)
PutObjects(c, batch) ==
  /\ op[c] = Idle
  /\ image.version > 0
  /\ \A x \in Range(batch) : x.kind = "object"
  /\ Check(c, batch, 0, Places(batch))

(* createRecords resolves refs into its own batch first.  It reads the     *)
(* record at each member's id too, which can only reject what the insert   *)
(* at version 0 would reject as well.                                      *)
CreateRecords(c, batch) ==
  LET target(at) == {x \in Range(batch) : x.id = CheckAt(batch, at).id}
  IN /\ op[c] = Idle
     /\ image.version > 0
     /\ \A at \in Places(batch) : \A x \in target(at) : Satisfies(x, CheckAt(batch, at))
     /\ Check(c, batch, 0, {at \in Places(batch) : target(at) = {}})

(* Broken variant: refs are written without looking at what they name.     *)
CheckNothing(c) ==
  /\ op[c].phase = "check"
  /\ op[c].todo # {}
  /\ Goto(c, [op[c] EXCEPT !.todo = {}])

(* One read of validateCandidateRecord.  A shape is read twice, for its    *)
(* kind and for its layout: only the second read decides.                  *)
CheckRef(c) ==
  /\ op[c].phase = "check"
  /\ op[c].todo # {}
  /\ LET first == FirstOf(op[c].todo)
         check == CheckAt(op[c].batch, first)
     IN IF Satisfies(recs[check.id], check)
        THEN Goto(c, [op[c] EXCEPT !.todo = op[c].todo \ {first}])
        ELSE Reject(c)

(* setRoot: read the image, check the object, write the image.  A version  *)
(* the caller names instead can only make the write fail.                  *)
SetRoot(c, id) ==
  /\ op[c] = Idle
  /\ image.version > 0
  /\ Goto(c, [phase |-> "root", id |-> id, expected |-> image.version])

CheckRoot(c) ==
  /\ op[c].phase = "root"
  /\ IF recs[op[c].id].kind = "object"
     THEN Goto(c, [op[c] EXCEPT !.phase = "set-root"])
     ELSE Reject(c)

CommitRoot(c) ==
  /\ op[c].phase = "set-root"
  /\ WriteImage(c, "image.root-set", op[c].expected, op[c].id)

----------------------------------------
(* The collector. *)

(* The records as the history says they were at a frontier. *)
Replay(frontier) ==
  [id \in Ids |->
     LET touched == {i \in 1..frontier : history[i].subject = id}
     IN IF touched = {} THEN Absent(id) ELSE history[Max(touched)].record]

(* The local targets of a live record's refs, whatever their role. *)
Targets(records, id) == {ref.id : ref \in Range(records[id].refs)} \cap LiveIds(records)

(* computeReachableImageClosure: breadth-first over the outgoing refs.     *)
Closure(records, from) ==
  LET grown[n \in 0..Cardinality(Ids)] ==
        IF n = 0 THEN from \cap LiveIds(records)
        ELSE grown[n - 1] \cup UNION {Targets(records, id) : id \in grown[n - 1]}
  IN grown[Cardinality(Ids)]

(* Broken variant: the pinned frontiers are reached in the records of now. *)
RetainedNow(root, pins) == Closure(recs, SystemRoots \cup {root})

(* planImageGarbageCollection: what the current roots and the closures of  *)
(* the pinned frontiers (the caller's and the named branches') reach.      *)
Retained(root, pins) ==
  LET roots == SystemRoots \cup {root}
      pinned == UNION {Closure(Replay(f), roots) : f \in pins}
  IN Closure(recs, roots \cup pinned)

(* collectUnreachableImageRecords: the root is read with the image ...     *)
Collect(c, pins) ==
  /\ op[c] = Idle
  /\ image.version > 0
  /\ Goto(c, [phase |-> "collect", root |-> image.root, pins |-> pins, since |-> Len(history)])

(* ... and the records later.  An empty plan sweeps nothing. *)
Condemn(c) ==
  /\ op[c].phase = "collect"
  /\ LET doomed == LiveIds(recs) \ Retained(op[c].root, op[c].pins)
     IN IF doomed = {} THEN Goto(c, Idle)
        ELSE Goto(c, [phase |-> "condemn", ids |-> doomed, plan |-> op[c]])

(* sweepRecords: the root is checked before the transaction ... *)
SweepChecked(c, ids, plan) ==
  IF image.root \in ids THEN Reject(c)
  ELSE Goto(c, [phase |-> "sweep", ids |-> ids, plan |-> plan])

(* A merge or a branch deletion sweeps what it chose, whatever reaches it. *)
SweepRecords(c, ids) ==
  /\ op[c] = Idle
  /\ image.version > 0
  /\ SweepChecked(c, ids, Idle)

SweepCondemned(c) ==
  /\ op[c].phase = "condemn"
  /\ SweepChecked(c, op[c].ids, op[c].plan)

Tombstone(id) == [recs[id] EXCEPT !.kind = "swept", !.refs = << >>, !.layout = NoId,
                                  !.version = recs[id].version + 1]

Sweepable(ids) == \A id \in ids : Live(recs[id])

(* ... in which every record still has to be live. *)
CommitSweep(c) ==
  /\ op[c].phase = "sweep"
  /\ LET ids == op[c].ids
         order == SetToSeq(ids)
     IN IF Sweepable(ids)
        THEN /\ Len(history) + Cardinality(ids) <= MaxHistory
             /\ recs' = [id \in Ids |-> IF id \in ids THEN Tombstone(id) ELSE recs[id]]
             /\ history' = history \o
                  [i \in 1..Len(order) |-> RecordEvent("swept", Tombstone(order[i]))]
        ELSE UNCHANGED <<recs, history>>
  /\ op' = [op EXCEPT ![c] = Idle]
  /\ UNCHANGED image

----------------------------------------
Start(c) ==
  \/ CreateImage(c)
  \/ \E x \in Candidates : Put(c, x) \/ PutLexicalEnvironment(c, x)
  \/ \E batch \in Batches : PutObjects(c, batch) \/ CreateRecords(c, batch)
  \/ \E id \in Ids : SetRoot(c, id)
  \/ \E ids \in Sweeps : SweepRecords(c, ids)
  \/ \E pins \in {{}} \cup {{f} : f \in Pins \cap 1..Len(history)} : Collect(c, pins)

Continue(c) ==
  \/ CommitImage(c)
  \/ ReadCurrent(c)
  \/ CheckRef(c)
  \/ CommitBatch(c)
  \/ CheckRoot(c)
  \/ CommitRoot(c)
  \/ Condemn(c)
  \/ SweepCondemned(c)
  \/ CommitSweep(c)

ImageNext == \E c \in Clients : Start(c) \/ Continue(c)

ImageSpec == ImageInit /\ [][ImageNext]_imageVars

----------------------------------------
(* The history is the whole truth: replaying it gives every record with    *)
(* its version, tombstones included, so no commit is ever half recorded    *)
(* (replayHistoryEventsToFrontier over what the services append).          *)
HistoryReplaysToTheRecords == Replay(Len(history)) = recs

(* A shape, an artifact and a block are written once: whoever raced to put *)
(* the same id, or put it again after a sweep, lost (expectedVersion: 0).  *)
InsertedOnce ==
  \A i \in 1..Len(history) :
    history[i].type = "put" /\ history[i].record.kind \in {"shape", "code-artifact", "block"} =>
      history[i].record.version = 1

(* A record only ever comes to refer to records that once were of the kind *)
(* its refs require, however the checks and the commit interleave with     *)
(* other writers and the collector (validateCandidateRecord).              *)
NewRefsNameWhatExisted ==
  [][\A id \in Ids :
       recs'[id] # recs[id] /\ Live(recs'[id]) =>
         \A check \in ChecksOf(recs'[id]) :
           \E i \in 1..Len(history') :
             history'[i].subject = check.id /\ Satisfies(history'[i].record, check)]_imageVars

(* The layout of a lexical environment never changes under the code that   *)
(* resolves bindings in it, though its record is read, checked and written *)
(* in separate steps (putLexicalEnvironment).                              *)
EnvironmentLayoutIsStable ==
  [][\A id \in Ids :
       recs[id].kind = "lexical-environment" /\ recs'[id].kind = "lexical-environment" =>
         recs'[id].layout = recs[id].layout]_imageVars

(* The history is the image: replaying it gives the records as they are,   *)
(* in the order of their positions, and whatever was ensured, put or       *)
(* inserted under one id was inserted once, however the calls interleave   *)
(* (graph-image-service.js putWithHistory, commitCandidateRecords).        *)
HistoryIsTheImage == HistoryReplaysToTheRecords /\ InsertedOnce

(* What is laid out stays fit for what relies on it: a record only names   *)
(* records that were there, and an environment keeps the slots its         *)
(* artifacts address by position (graph-image-service.js                   *)
(* validateCandidateRecord, putLexicalEnvironment).                        *)
LayoutsStayValid == NewRefsNameWhatExisted /\ EnvironmentLayoutIsStable

(* Reachability as a definition: what is in every set that holds the roots *)
(* and the targets of its members.                                         *)
Reachable(records, from) ==
  LET live == LiveIds(records)
      closed == {S \in SUBSET live : /\ from \cap live \subseteq S
                                     /\ \A id \in S : Targets(records, id) \subseteq S}
  IN {id \in live : \A S \in closed : id \in S}

(* What a collection started from, until it ends.                          *)
PlanOf(c) ==
  CASE op[c].phase = "collect" -> op[c]
    [] op[c].phase \in {"condemn", "sweep"} -> op[c].plan
    [] OTHER -> Idle

Pinned(plan) ==
  UNION {Reachable(Replay(f), SystemRoots \cup {plan.root}) : f \in plan.pins}

(* A collection during which nothing is written leaves exactly what a root *)
(* reaches now, and what a root reached at a pinned frontier although what *)
(* led there has been swept or rewritten since.  And whatever is written   *)
(* meanwhile, it sweeps nothing that a pinned frontier reaches             *)
(* (computeReachableImageClosure, planImageGarbageCollection,              *)
(* collectUnreachableImageRecords, sweepRecords).                          *)
CollectionsAreExact ==
  [][\A c \in Clients :
       LET plan == PlanOf(c) IN
       plan # Idle /\ op'[c] = Idle =>
         /\ \A id \in Pinned(plan) : Live(recs[id]) => Live(recs'[id])
         /\ plan.since = Len(history) =>
              LiveIds(recs') = Reachable(recs, SystemRoots \cup {image.root} \cup Pinned(plan))]_imageVars

(* Every dependency of a live artifact is a live artifact: "Dependency     *)
(* targets are explicit unpinned refs to existing CodeArtifacts"           *)
(* (docs/image-model.md).  putCodeArtifact checks it and the collector     *)
(* sweeps only what is unreachable, but each does so on what it read       *)
(* before its transaction, so this does not hold when the two interleave.  *)
DependenciesExist ==
  \A id \in LiveIds(recs) : \A check \in ChecksOf(recs[id]) :
    check.role = "dependency" => recs[check.id].kind = "code-artifact"
========================================
