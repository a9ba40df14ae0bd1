# lagrange-images in TLA+

A verification development for lagrange-images: TLA+ modules of the parts that
carry its concurrency, its durability and the meaning of its languages, TLC
configurations that check them on small instances, and TLAPS proofs of what
matters most for every instance. Paths below are relative to the repository.
`PROJECT.json` lists the runs, the source lines every definition stands for,
the mutants that show each property can fail, the findings, the hazards and the
theorems.

Check a run with `tlc -config MCStorage.cfg MCStorage`, a proof with
`tlapm StorageProofs.tla`.

## 1. The system

lagrange-images keeps *images*: graphs of versioned records (objects, shapes,
code artifacts, lexical environments, Blocks) with a history stream, stored in
a backend, grown by language front ends, shared through branches and releases,
and spread over nodes. It is single-threaded JavaScript; every `await` is a
point where other calls run. Several processes may share one durable backend.

| Component | State | Operations | Talks to | What makes it correct |
|---|---|---|---|---|
| In-memory backend (`src/backend/mock-backend.js`) | collections, streams, the write queue, a draft per open transaction | get, scan, put, append, transaction, start, stop | works it runs inside its queue | a transaction is one unit, isolated until its commit; every queued call settles |
| Lagrange backend (`src/backend/lagrange-backend.js`) | SQL rows: records, stream heads, events; lifecycle | the same contract, a SELECT and a conditional write per operation | an SQL session (external) | the same contract; event revisions have no gaps and no doubles |
| Image service (`src/image/graph-image-service.js`) | image record, records, history | createImage, puts of every kind, createRecords, setRoot, sweepRecords | backend transactions | records and history agree; insert-only kinds; refs name records that were there |
| Reachability (`src/graph/reachability.js`) | none of its own | plan and run a collection, with pinned frontiers | image service | what is swept was unreachable |
| Ensure owner (`src/graph/ensure-records.js`) | none of its own | ensureRecord, ensureCodeArtifacts, ensureObjects | image service | contenders behave as if alone; no half graph |
| Residency (`src/graph/locator.js`, `placement.js`, `remote-resolution.js`) | copies and tombstones per node, locator caches | locate, relocateRecord, located read and write | one backend per node | no update is lost; an undisturbed lookup finds the record |
| Branches and merge (`src/graph/branches.js`, `merge.js`) | branch heads, merge plans | create, fork, advance, merge | image service | a head moves by compare-and-swap; a merge takes every claim |
| Projects and releases (`src/project/*.js`) | working state, installation state and head | add members, capture, merge, install, upgrade | image service, bundles | a release is a moment of its Project; an installation is a whole copy, once |
| Compilation and toolchains (`src/compilation`, `src/toolchain`) | an index in memory, artifacts with their derivation key | request, run, store | image service | what was registered is found again; outputs are of one run |
| Authorized objects (`src/callable/image-*-binding.js`), migration (`src/object/migration.js`) | version tokens, cursors | read, mutate, create, observe, migrate | image service | references only grow, observers miss nothing, slots survive |
| Method dictionaries (`src/language/smalltalk-class-builder.js`, `smalltalk-method-dictionary-migration.js`, `smalltalk-lookup.js`) | a Behavior record, up to two dictionary records, published methods | defineMethods, reconcileMethods, migrate, evolve, look up | image service, ensure owner | calls act at one moment on one table; a migration is invisible |
| Dictionaries (`src/language/smalltalk-equality.js`, `smalltalk-dictionary-table.js`, `smalltalk-primitives-dictionary.js`) | a table per dictionary | every dictionary primitive, Common Lisp's hash tables | the keys' own methods | a key is found where its hash puts it; a call answers what was there |
| Execution (`src/execution/*.js`) | frames, condition scopes, cells, promotion memo | run, signal, unwind, promote | image service | scopes mirror the stack; cleanups run once; promotion stores whole graphs |
| WASM (`src/wasm/*.js`) | compiled modules, idle instances, suspended activations | compile, lease, suspend, resume, release | engine | an instance has one lessee; one compilation per module; compiled code means its source |
| Foreign runtimes (`src/foreign-runtime/*.js`) | instances, guests, pending requests | start, call, stop, close | child processes | an answer is the call's own; no guest without an owner |
| Smalltalk compiler (`src/language/symmetric-smalltalk-semantic.js`) | none | compile a method | class builder | the method does what it says |
| Common Lisp (`src/language/common-lisp.js`) | classes, generics, programs and systems in an image | read, expand, compile, define, install | class builder, dictionaries | a form means what it says; a definition takes effect |
| Lab test runner (`scripts/lab-suite*.mjs`) | queue, worker sessions, verdict | schedule, requeue, judge | ssh sessions | green means every file passed |
| Bundles, dispatch and callable bindings, authority contexts, values, importers, hosts | little or none | typing, encoding, wiring | all of the above | sequential and pure; left to tests |

What is hard here: checks made with awaited reads and commits that come later;
compare-and-swap loops whose losers must decide what the winner means; work
that dies between two transactions, sometimes on two backends; state kept
across awaits (handles, caches, a whole record read long ago); queues and pools
whose members may fail; compilers whose code runs long after they did.
`hazards` in `PROJECT.json` lists them at their lines, with the properties that
would catch each and the reason where none does.

## 2. The modules

```
StoreState ------ versioned records, append-only streams
  AtomicStore           what a backend promises
  MockBackend           --implements--> AtomicStore          StorageProofs
  LagrangeBackend       --implements--> AtomicStore          ImagesProofs
EnsureRecords           --implements--> EnsureContract       StorageProofs
ImageStore              image service + collector            ImagesProofs
Relocation              nodes, movers, locators              ImagesProofs
MethodDictionary        --implements--> MethodPositions      MethodDictionaryProofs
RecordMerge --> Branches, Merges   heads, forks, merges        BranchesProofs
Projects                working states, captures, installs   WorkspaceProofs
Derivations, AuthorizedObjects, ShapeMigration               WorkspaceProofs
WasmActivations         module cache, pool, executors        SessionsProofs
Promotion               memo, arena, durable records         SessionsProofs
ForeignRuntimes         starts, guests, calls, stops         HostProofs
LabSuite                scheduler, sessions, verdict         HostProofs
Conditions              conditions, frames, unwinding        HostProofs
Dictionaries            calls that send messages between read and write
ResumableCode, SmalltalkMethods                              compilers against meanings
LispForms --> LispMacros, LispLibrary;  LispControl, LispClasses, LispSystems
LispProgram             installation of one program          (its theorems are in it)
```

The layers compose by assume-guarantee. Both adapters are shown to implement
`AtomicStore`, and every module above treats one backend transaction as one
step, which is what `AtomicStore` grants. Reads are one step each.

The MC modules instantiate the components for TLC: `MCStorage`, `MCImages`,
`MCMethods`, `MCExecution`, `MCSessions`, `MCWorkspace`, `MCLanguages`. Each
holds several components that share no state. A variable `part`, chosen in the
initial state, says which of them runs; the others rest where they began, so
the state space is the sum of theirs and not the product.

**Storage.** `MockBackend`: `writeTail` is the chain of promises, as the queue
of callers chained on it. State objects live on a `heap` and `live` is the
pointer the backend's fields hold, because the code commits by assigning a
pointer: a view that outlives its transaction still points at the live state,
and the model keeps that. `LagrangeBackend`: one action per SQL statement, and
commit, rollback, a crash that loses every open session, and the lifecycle. The
database is external: a statement sees committed rows and its own
transaction's, a written row is locked until its transaction ends, a commit is
atomic. `EnsureRecords`: a contender reads its records one at a time, inserts in
one transaction, and on a lost insert reads again; `EnsureContract` says the
same in one step per contender. Its variable `looked` holds where the current
pass over a graph did not find its record, because the promise to a graph is
weaker: it is refused also when it was overtaken, that is, when a record it
missed has since appeared exactly as desired.

**Images.** `ImageStore`: every operation is a start, one awaited check per
reference, and a commit of all its records with one history event each; a record
is reduced to its kind, layout and refs. `Collect`, `Condemn` and the sweep are
`planImageGarbageCollection` and `sweepRecords` with their reads apart. In the part
`pinned` an artifact's dependent may be swept after the pinned revision, so that
the artifact is reachable at the pinned frontier only.
`Relocation`: every `get` and every transaction on a node's backend is a step
and nothing spans two backends; a mover copies to the target, tombstones the
source at the version it read, and retargets older tombstones.

**Methods.** In `MethodDictionary` a call reads the Behavior, then the
dictionary it names, plans, publishes each method, and commits with one
compare-and-set on the dictionary; losers reread and are judged
(`classifyLostMethodDictionaryCas`) or rebase within a budget. A migration
seals the legacy record, ensures the hashed one from the sealed table, and swaps
the Behavior's edge under the Behavior's version. The abstract table of
`MethodPositions` knows nothing of records, seals or migrations.
`evolveSmalltalkClassShape`, the third writer of the Behavior, is in
`EvolvingInit` and `EvolvingNext`.

**Workspace.** `Branches` has the heads, the forks, and a merge that plans,
writes record by record, sweeps and advances. `RecordMerge` is the three-way
merge as a function; `Merges` checks it, and the merges of Projects and
releases, against a reference that knows only who claims what. `Projects` has
a Project's members, the capture over a stable frontier, and the installation
under a contended head. A fork or a branch's creation first puts the shape of
branch heads into the head's image (`ensureBranchHeadShape`), a revision of its
own when the shape was not there. `Derivations` has the two reuse indexes through
restarts and sweeps, and requests that choose their artifact's id and are refused
when it exists; `AuthorizedObjects` the lanes of an image's objects under grants
that change, creation with its requirement, its awaited reads of class and shape
and its edges one by one; `ShapeMigration` a run of puts that other clients write
between.

**Execution and sessions.** `Conditions` is the condition runtime over a stack of
frames, `Promotion` the promotion of transient graphs by concurrent tasks, with writes
through a transient view, through the view of an object that is promoted, and
through a durable ref; `Dictionaries` the calls that send messages between their
read and their write, the initialisation among them. `WasmActivations`, `ForeignRuntimes` and `LabSuite` are the hosts of
instances, guests and worker sessions. `ResumableCode` and `SmalltalkMethods`
have each a compiler, the machine that runs its code, and the meaning of the
source, which knows no segments, captures or cells. The foreign runtime service
has no closed flag: in `ForeignRuntimes` a caller may ask for a runtime after
`close()`, and what it starts then only a stop of its own ends.

**Common Lisp.** `LispForms` is what forms mean, `LispMacros` the expander and
macro functions, `LispLibrary` the reader, printer and standard library,
`LispControl` the compiler's control forms, `LispClasses` CLOS, `LispProgram`
the installation of one program's names, `LispSystems` ASDF-style systems: the
installer walks the dependencies in the code's order, finds a system that came
without a text when its turn comes, installs files and then the record, and
publishes the binding, or rebinds it at the version it read and may lose; a name
mapped meanwhile keeps its value. The meanings are stated apart from the code
they judge.

## 3. The runs

| Run | Parts | Question | Bounds and why they suffice |
|---|---|---|---|
| `storage` | the in-memory backend; ensure calls: lists, graphs, identical graphs | Do queue, drafts and views implement the atomic store and settle every call? Do contending ensures act as if run one after the other? | 2 callers, 3 calls, 3 view steps: a transaction of two operations with a write and another transaction queued behind it, and a view used after its end. Ensure calls in three groups that overlap in every way the callers do: lists and single records, one of them different; two identical graphs and single records of theirs, one different; two identical graphs alone. One lost acknowledgement. |
| `images` | image service and collector; what is pinned; relocation; SQL backend | What survives between an operation's checks and its commit? | 2 clients, 5 events, versions up to 2: any operation against any other, a rewritten environment; 6 events in `pinned`, the least in which the dependent of an artifact is stored before the pin and swept after it, beside a record that is garbage. 3 nodes (the least on which a tombstone names a node the record has left), 2 movers that crash, 3 moves, 2 writes, 2 lookups. 2 sessions, 2 operations each, 2 commits: both read a row before either writes it, one waits for the other's lock, a crash between any two statements. |
| `methods` | calls; calls under a seal; two migrations | Do calls, lost races and crashing migrations implement one table, and does a migration that is retried converge? | 2 callers, 3 calls over 2 selectors, one request touching both, 1 rebase, 2 migrators, 1 crash, a lookup in flight. |
| `execution` | resumable code; dictionaries; Lisp control; Smalltalk methods | Does compiled code do what its source says; is a dictionary one table under calls that race? | Bodies of every operation over every simpler one; 2 clients, keys that collide, convert and lie about their hash; programs of 2 or 3 nested forms. |
| `sessions` | WASM; guests; lab; promotion; conditions | Is anything lent twice, lost or waited for without end; do the condition runtime's stacks agree? | 2 signals, 6 frames, 4 ids: a handler that signals, is entered again, or is left by a transfer through a cleanup; 2 activations that may call each other, 2 faults, 2 cache clears; 2 calls, 2 starts, a stop; 2 workers, 2 jobs, 1 lost connection; 3 objects in cycles, 2 tasks, 1 failed write. |
| `workspace` | branches; records; releases; project; install; derivation; objects; migration | Does what concurrent clients do to a workspace keep what is there? | 2 clients each, 1 crash, 1 edit between two steps; all triples of records whose slots, rows and links differ. 4 calls on objects, so that one can hold a stale token. `BranchesBounds`, `DerivationBounds` and `ObjectsBounds` keep apart what adds nothing together: after a crash only what died is tried again, beside what was under way. |
| `languages` | classes; program; systems; order; macros; macro time; reader; library | Do definitions take effect under concurrent installers; do forms mean the same after expansion, printing and reading? | 2 installers, 1 crash; a diamond of classes; each macro around each kind of place; trees of files with every small dependency. |
| `gc_race` | image | Do the dependencies of a live artifact exist? (violated) | as in `images`; only the collector sweeps (`Sweeps = {}`) |
| `relocation_race` | relocation | Is there ever more than one live copy? (violated) | as in `images`; no crash, no lookup, 1 write, so that two moves have to race |
| `evolution_race` | evolution | Is a method ever lost? (violated) | 1 migration, 1 evolution, 1 new method |
| `clean_merges` | branches | Does a clean merge that is retried go through? (violated) | as in `workspace`; 1 client, 3 calls, no edits of a frontier: what is gone was swept by a merge |
| `added_members` | project | Does a member that was added belong to its Project? (violated) | as in `workspace` |

The bounds are constants named `Max...` and appear as guards. There is one type
invariant per run; the other properties are refinements, relations between two
pieces of state, step properties, or liveness. Every cfg says
`CHECK_DEADLOCK FALSE`: finished calls, or the bounds, stop each system. That none
stops too early is what the liveness properties say (`EveryCallEnds`,
`MigrationConverges`, `EverythingEnds`). `images` uses the symmetry of
its clients, movers and sessions, which are never ordered or chosen from, and
has no liveness property.

### Fairness

Every fairness condition is weak and covers the steps the event loop owes.
Storage: the queue goes on while its head can run, and some ensure call that can
step does. Methods: a migrator goes on and is called again after a conflict or a
crash, as `SmalltalkMigrationConflictError` asks its caller to do. Sessions:
what is ready runs, compilations, writes and sessions settle, timers fire
(`WasmProgress`, `HostProgress`, `LabProgress`, `PromotionProgress`). Nothing is
assumed of callers, senders, guests or the programs that are executed.

### Where code and documents disagree

* `gc_race`: `putCodeArtifact` checks a dependency before its transaction, and a
  collection decides what is unreachable before its own. A collection between the
  check and the commit leaves a live artifact whose dependency was swept, against
  `docs/image-model.md:55`.
* `relocation_race`: two moves to different nodes read the source before either
  tombstones it; the second one's tombstone fails, its copy stays live, against
  `docs/decisions/0092-object-residency-placement-and-remote-resolution-owners.md:84`.
* `evolution_race`: a shape evolution that read the class before a migration's
  swap puts the legacy edge back; a method defined in between is gone from
  dispatch, against `docs/decisions/0049-hashed-method-dictionary.md:449`.
* `clean_merges`: a clean merge that dies between its sweep and its advance can
  never be completed: every retry plans the same sweep, which
  `graph-image-service.js:393` refuses, although it skips the puts that are done
  (`merge.js:820`) and `docs/ownership.md:57` lets only conflicted plans be refused.
  The property speaks of plans that sweep only what the branch's frontier has.
* `added_members`: a retry after a crash between a member and its link finds the
  member, takes the retarget branch and never links it, against the comment at
  `src/project/working-state.js:184`.

Met while modelling, stated by no run:

* A definition that published its source under a selector's first identity and
  then died leaves that source to a later definition of the selector without
  one. That later one succeeds, and its identical replay is refused as a
  redefinition, although `src/language/smalltalk-class-builder.js:993` calls an
  identical definition an idempotent success (`MethodPositions` allows it as
  `Mistakable`).
* `ensureCodeArtifacts` reads the members of a graph one by one. With two
  identical calls, the one may read an absent member, then one the other has just
  committed, and report a conflict. The contract grants this refusal
  (`Overtaken`), and no other: the call whose insert loses to an identical graph
  must take the winner (`LosersConverge`).
* A write through a durable ref that the program got by promotion changes the
  record and leaves the object of the transient arena as it was; reads through
  the transient view still answer the old value, as decision 4 of ADR 0060 has it.
* With the image on two nodes a lookup that nothing disturbs can end at the
  wrong copy, since the scan answers with the local image node.
  `CalmLookupFindsTheRecord` is stated, checked and proved for an image on one
  node.

## 4. The proofs

The constants' named assumptions are the only assumptions; TLC evaluates them in
the runs. Sets of actors, records, nodes and definitions may be of any size, all
bounds any natural numbers. Every component follows the same plan: an inductive
invariant, the types and the named conjuncts below; one lemma per action that
preserves it; `...Invariance`; then each property from it. Every conjunct was
checked by TLC on the run's instance before it was proved.

What is assumed of constants is what the code itself checks or makes so: a
provider's outputs are not empty (`toolchain-service.js:142`), slot ids of a shape
are distinct (`object/model.js:50`), a bundle's references stay inside it and it is
finite (`InstallAssumption`), the lab has a usable worker
(`lab-suite.mjs:711`) and its order of workers is an order. The rest says that a
constant is a set of the values its comment names.

**StorageProofs, in-memory backend** (`MockInv`: `TypeOK`, `OpenDraftIsIsolated`, `LiveOnlyExtends`).
Isolation is not inductive: that no other call settles, and moves the live
state, while a work runs needs the tie between a handle's active flag and the
queue. `DraftsOfWorks` is that tie. Monotonicity follows with the lemmas that
put and append extend a state and that extension is transitive.

**StorageProofs, ensure owner** (`EnsureInv`: `EnsureTypeOK`, `CallsActAlone`, and
that no list gives up). The step simulation of `EnsureContract`, for any calls,
identical ones among them. What a call has seen is still
there, since records are only inserted; an insert that was lost means that a
record found missing is there now, so the set of missing records shrinks and
`ensureObjects` never reaches its no-progress error; a graph that was read half
was half there, or has overtaken the call. For `LosersConverge`: graphs that share no
record with a different call are inserted as a whole, so the loser of an insert
finds all of the winner's.

**ImagesProofs, SQL backend** (`LagrangeInv`: `StreamsHaveNoGaps`). The commit of a session is safe
because an uncommitted head is locked by its session, and its open events
continue the committed rows from the revision it read: no other session can have
moved that head since.

**ImagesProofs, image service** (`ImageInv`: `HistoryIsTheImage`, `LayoutsStayValid`). The last event
about an id tells its record; a version an operation expects is never ahead of
the record, so a compare-and-swap that succeeds replaces what was checked; every
ref it has checked names an id the history, or its own batch, holds.

**ImagesProofs, relocation** (`RelocationInv`: `LastUpdateSurvives`, `CalmLookupFindsTheRecord`). What a
move has read of a copy is what stands there or older. `UpdateIsSafe`: one live
copy holds the last write, and no move in flight can tombstone it without having
put what it holds on another node first. For the lookup: tombstones followed
from any node, in a calm, lead to a live copy or to the scan, which with one image
node reaches every copy; the descent uses well-founded induction over the hops
that are left.

**MethodDictionaryProofs** (`TypeOK`, `TargetMatchesSealed`, `AnswerWasBound`,
`KeepsMethodPositions`). `SealInv`: the edge names the hashed record only after
the seal; a call holding the legacy dictionary when it is sealed holds an older
version; a migration past the seal holds the sealed table, one about to seal
holds the current table or will lose; a lookup in the hashed record came through
the swapped edge. The refinement adds `RInv`: what each call in flight remembers
is true of the abstract table or of a moment since its start, so that each
commit, lost race, judgement, seal, swap and crash is a step of
`MethodPositions` or none.

**SessionsProofs, WASM** (`PoolInv`: `PoolIsSound`). An activation has an instance exactly
while it is leased or waits for an effect (`ActsAreSound`), and counts in the
bookkeeping its module has in the pool's map: the map drops one only when its
counts are zero and nothing lies idle, so a release always finds the object its
acquire counted in. `OfferedOnce` and `SlotsAreApart` say that an instance is in
one place only. `MapIsSound` keeps bookkeepings of two modules apart and says
that a dropped one offers nothing, which is what makes the counts inductive over
`clear()`. For the module cache, `EntryIsPending`: until the next `clear()` the
entry of a module is the compilation that is pending, so a late failure cannot
throw out another's entry.

**SessionsProofs, promotion** (`PromotionInv`: `PromotionsAreWhole`). `Reservations`
ties the memo to the stacks of the tasks: an object is on one stack, once, exactly
while its entry is in progress, so a failure that unwinds a task takes back its
own reservations and no others. `Calm` holds as long as no write failed: the
program waits for every task, so nothing writes to an object that is being
promoted; a frame has its object's links and has promoted those it left behind;
a record differs from its object only while a write through the view is on its
way, with links that are known or under way, or since a write through the durable
ref (`aliased`), whose links are durable.
That a launch finds a task for every value is a fact about finite sets.

**HostProofs, guests** (`GuestInv`: `GuestsAreAccountedFor`). A handle that has been
terminated has no process that was not told to die, and no accepted call unless
a stop of it has failed (`AttemptIsSound`), also when a caller asks for a runtime
after the service was closed; one start at a time runs, and it is
the cached one or the service is closed (`OneRuns`). Each request gets an id that
was counted for it, so a line on its way with the id a call waits for is that
call's (`CallIsSound`): an answer that comes after its call was given up finds
nobody under its id.

**HostProofs, lab** (`LabInv`: `VerdictsAreHonest`). A file in flight on a worker is in
one place of its session's pipe, ordered, running or reported (`PipeIsSound`), so
a worker that is not lost runs it once (`RunsAreSound`) and what was reported is
what ran there (`ReportsAreTrue`). The scheduler deals waiting files, longest
first, to free slots in rounds; that it leaves no file beside a free slot, and
fills no slot twice, is a fact about two rankings of finite sets
(`PlacesAreNumbers`), and is what `IsSoundSchedule` keeps through losses that
hand files back. In a run in which nothing broke, a session ends only when
nothing is left (`CalmRuns`). The verdict follows: it is green only if every file
that was dispatched anywhere is done, without a failure, and every file was
dispatched or waits.

**HostProofs, conditions** (`ConditionsInv`: `HandlersAreSound`). The runtime keeps the
stack of frames and, beside it, scopes, signals, protections and homes; what
ties them is that ids only grow along the stack (`IdsGrow`), so an id names one
activation. Scopes and signals stand in the order of their ids, each with its
activation (`ScopesFit`, `OccurrencesFit`); a handler is disabled exactly while a
signal that it handles is on the stack above its `on:do:` (`SignalsFit`); a
protection's record says how far its cleanup has come (`ProtectionsFit`). A transfer
under way lands on a frame below the one it unwinds, and so does one that a
cleanup interrupts (`LandsIn`, `CleanupsLand`). The lemmas about steps take a step
apart into frames taken off and put on (`Pushes`), one record at a time.

**BranchesProofs** (`BranchesInv`: `NoAdvanceIsLost`, `MergeGivesThePlan`, both parts of
`StepsKeepWhatIsThere`; `BranchesTypeCorrect`). What an advance has read is the head or older
(`EntryIsThePast`), and versions of a name never repeat, so a put that is
accepted replaces what was read. For merges, `ChangesAreExplained`: between any
two revisions a record stays, or is edited, or becomes what the plan of a merge
between them says. An undisturbed merge therefore starts from the records its
plan was made for, or from what an earlier attempt with the same plan left of
it (`PlanIsSound`, and lemma `ResolvedFits` about the three-way merge itself);
`Applied` says how far it has come, until `TargetHoldsThePlan`. None of this
needs the bounds on operations, edits or crashes; they matter to the counters'
types only (`CallsAreCounted`). Records may be anything: a merge makes some that
nobody wrote, and the type says of a revision only that it has something at
every id.

**WorkspaceProofs, Projects** (`ProjectInv`: `ReleasesAreMoments`, a part of
`ReleasesAreWhole`, and `LinksAreKept`). Records and frontiers only move forward, and what
kept its version, or its image's frontier, is what it was (`Evolves`). Hence
whatever a client has read stays true until the version it will compare has
moved (`AddsSoundly`, `RenamesSoundly`), and a capture's copy of an image is the
image until its frontier moves (`BracketsSoundly`). A record that was read is
therefore the one the image held, certainly so once the frontier is found
unmoved (`CapturesSoundly`); the check goes over every image because the
sequence made of the images read has each of them (`SetToSeqOnce`).

**WorkspaceProofs, installation** (`InstallInv`: `InstalledMeansCopied`,
`LosersLeaveNothing`, the other parts of `ReleasesAreWhole`). The head, its snapshot and the
snapshot's members lead to a whole copy of one release, and the managed graph
records of the image are exactly that copy (`HeadIsWhole`). What an installer is
about to publish is a whole copy under fresh ids that no other installer claims
(`Prepared`, `ClaimsAreApart`), so the one insert that finds no head brings all of
it and the one that finds a head brings none of it; the loser, and the retry
after a crash, read the winner's copy through head, snapshot and members, which
no later write changes (`CopiesStay`).

**WorkspaceProofs, authorized objects** (`ObjectsInv`: `ObserversMissNothing`, a part of
`NothingIsOverlooked`, and `ReferencesOnlyGrow`). The list of a mutation keeps the references of the
version its token names, and a put is accepted at that version only
(`CallIsSound`). An observer has put every event up to its cursor on one of two
lists, told or refused, each on one (`HeardSoundly`): it moves its cursor by what
it has scanned, and the history only grows.

**WorkspaceProofs, derivations** (`DerivationInv`: `NoDerivationIsForgotten`,
`ToolResultsAreWhole`). An artifact that the index lacks is one that its maker,
or a listing under way, is about to report (`AllReported`), and a listing of what
was stored holds nothing under another's key although artifacts have come and
been swept since. Outputs that bear the number of a run were put by that run in
order (`SoundBuilder`), and no other run has its number (`RunsAreApart`): a set with
every output number is one run's.

**WorkspaceProofs, migrations** (`MigrationInv`: `QuietMigrationsKeepSlots`). Every object has
exactly the slots of its shape; what a run listed is the object, unless the
version has moved on (`ListingOf`).

**LispProgram** (`NamesStayMapped`, and that every name leads to a binding). A
binding is seeded before the namespace maps it, and the namespace is replaced
only at the version that was read, so nothing published in between is lost.

**Composition.** `ImagesTypeCorrect`, `SessionsTypeCorrect`, `GuestsStayAccountedFor`,
`VerdictsStayHonest`, `HandlersStaySound`, `WorkspaceTypeCorrect`, `ReleasesStayWhole`, `NothingStaysOverlooked`
and `StepsStayKind` are about the specifications of `MCImages`, `MCSessions` and
`MCWorkspace` as a whole: `part` never changes, so a behaviour of the
composition is one of the part it chose (`PartsAreThemselves`).

**Only model-checked.** All liveness (`EveryCallEnds`, `MigrationConverges`,
`EverythingEnds`): the prover has no rule for fairness and ENABLED.
`UnitsAreAtomic` and `RowUnitsAreAtomic` (a unit is a fold over a sequence of
operations) and `CollectionsAreExact` (a recursive closure): induction over
data needs theorems that take an operator. `MergesTakeEveryClaim`: an evaluation
of the merge on every triple of records of the instance. `ExecutionTypeOK`,
`CompiledProgramsMeanTheSame`, `DictionaryIsSound`,
`DictionariesChangeByOneCall`, `LanguagesTypeOK`, `DefinitionsTakeEffect` and
`FormsMeanTheSame` belong to runs whose modules have RECURSIVE operators
(`LispForms`, `LispMacros`, `LispLibrary`, `LispControl`, `LispSystems`,
`ResumableCode`, `SmalltalkMethods`), out of which no theorem can be stated; most of
them claim equality of recursive functions, over every input of the instance.

## 5. Not modelled

`snapshot()` and the field whitelists of the image service, the seed mode of
the ensure owner, the choice of an execution node, `fork()` of the in-memory
backend. Class creation, lanes and the subclass registry of Smalltalk; slot and
bucket layouts of method dictionaries, which are the table they store. Parsers
of Smalltalk; floats, packages and FORMAT's padding in Common Lisp; the bytes of
WASM. Bundle export, value encoding, callable typing, the Cuis and SBCL
importers, and the hosts: sequential code that tests reach.

`WriteBatch` of `ImageStore` commits all records and events of an operation in one
step. The loop of `graph-image-service.js:138` runs inside one backend transaction,
and that a transaction takes effect as a whole or not at all is what
`UnitsAreAtomic` and `RowUnitsAreAtomic` check of the two backends, put by put and
statement by statement.

In `LispSystems` a rebind that loses its version needs three installations of one
name; the run has two, so that branch of `RebindsSystem` is not reached there.

## 6. Plan

The next theorem is `DictionariesChangeByOneCall` of `Dictionaries`, from the lemmas
that probing finds what placing put.
