---------------------------- MODULE MethodDictionary ----------------------------
(***************************************************************************)
(* The method dictionary of one Smalltalk Behavior: calls that define,     *)
(* reconcile or conditionally replace methods                              *)
(* (src/language/smalltalk-class-builder.js, installMethods), the          *)
(* migration from the legacy shape-backed record to the hashed one         *)
(* (src/language/smalltalk-method-dictionary-migration.js), and the sends  *)
(* that look selectors up meanwhile (src/language/smalltalk-lookup.js).    *)
(*                                                                         *)
(* A call's compare-and-set covers the dictionary, the migration's final   *)
(* one covers the Behavior; they meet only at the seal it puts on the      *)
(* legacy dictionary.  Every await of the code is a step boundary here.    *)
(* Shape evolution (evolveSmalltalkClassShape) is the third writer of the  *)
(* Behavior record, and the only one without an expected version: it is    *)
(* apart, in EvolvingSpec, so that what it breaks is seen to be its doing. *)
(*                                                                         *)
(* A dictionary's layout (slots, buckets) is abstracted to the table it    *)
(* stores; the artifacts and Blocks of one method are abstracted to the    *)
(* definition (program and optional source) that its identity was given.   *)
(***************************************************************************)
EXTENDS Naturals, FiniteSets

CONSTANTS
  Selectors,
  Definitions,   \* records [program, source]; source NoSource when omitted
  Founding,      \* selector -> its method when the class was made, or Nothing
  Requests,      \* the calls callers make: records [kind, want]
  Callers, Migrators, Senders,
  MaxCalls,      \* calls made in all
  MaxRebases,    \* MAX_UNRELATED_REBASE_ATTEMPTS
  MaxCrashes,    \* migrations that die midway
  Evolvers, MaxEvolutions

NoSource == "none"
Nothing  == [program |-> "none", source |-> NoSource]

ASSUME DefinitionsAssumption ==
  /\ \A d \in Definitions : DOMAIN d = {"program", "source"}
  /\ Nothing \notin Definitions
ASSUME FoundingAssumption ==
  Selectors # {} /\ Founding \in [Selectors -> Definitions \cup {Nothing}]
ASSUME RequestsAssumption ==
  Requests \subseteq
    [kind : {"define", "reconcile", "guarded"},
     want : UNION {[names -> Definitions] : names \in (SUBSET Selectors) \ {{}}}]
ASSUME BoundsAssumption == MaxCalls \in Nat /\ MaxRebases \in Nat /\ MaxCrashes \in Nat

VARIABLES
  behavior,    \* the Behavior record: its methods edge and its version
  dictionary,  \* the two dictionary records; version 0 while absent
  firstSource, firstMethod,  \* selector -> what was published under methodId
  call,        \* caller -> its defineMethods or reconcileMethods call
  migration,   \* migrator -> its migrateMethodDictionary call
  send,        \* sender -> its lookup; "seen" is every table there was meanwhile
  calls, crashes,
  evolution,   \* evolver -> the methods edge in the record it read
  evolutions

vars == <<behavior, dictionary, firstSource, firstMethod, call, migration, send,
          calls, crashes>>

Layouts == {"legacy", "hashed"}

(* A method ref is the selector's first identity or that of one revision.  *)
First       == [identity |-> "first"]
Revision(d) == [identity |-> "revision", definition |-> d]
Unbound     == [identity |-> "none"]
Methods     == {First} \cup {Revision(d) : d \in Definitions}
Tables      == [Selectors -> Methods \cup {Unbound}]

(* The table a send starting now would find.                               *)
Bound == dictionary[behavior.edge].table

Kinds    == {"define", "reconcile", "guarded"}
Outcomes == {"none", "ok", "redefinition", "stale", "contention", "conflict", "sealed"}

NoTable == [s \in Selectors |-> Unbound]
NoRead  == [at |-> "legacy", version |-> 0, table |-> NoTable]

IdleCall == [pc |-> "idle", kind |-> "define", want |-> <<>>, expected |-> <<>>,
             read |-> NoRead, published |-> <<>>, todo |-> {}, sourced |-> {},
             rebases |-> 0, outcome |-> "none"]
IdleMigration == [pc |-> "idle", edgeVersion |-> 0, read |-> NoRead]
IdleSend      == [pc |-> "idle", at |-> "legacy", seen |-> {}]

(* isSameInstalledMethod: does the method bound under ref mean exactly d?  *)
SameInstalled(s, d, ref) ==
  \/ ref = Revision(d)
  \/ /\ ref = First
     /\ firstMethod[s] = d
     /\ firstSource[s] = d.source

----------------------------------------
(* A class from before ADR 0049: a legacy dictionary whose methods were    *)
(* defined in the ordinary way, and no hashed one.                         *)
Init ==
  /\ behavior = [edge |-> "legacy", version |-> 1]
  /\ firstMethod = Founding
  /\ firstSource = [s \in Selectors |-> Founding[s].source]
  /\ dictionary =
       [legacy |-> [version |-> 1, sealed |-> FALSE,
                    table |-> [s \in Selectors |->
                       IF Founding[s] = Nothing THEN Unbound ELSE First]],
        hashed |-> [version |-> 0, sealed |-> FALSE, table |-> NoTable]]
  /\ call = [c \in Callers |-> IdleCall]
  /\ migration = [m \in Migrators |-> IdleMigration]
  /\ send = [x \in Senders |-> IdleSend]
  /\ calls = 0 /\ crashes = 0

----------------------------------------
(* Calls that install methods.                                             *)

Keep(c, fields) == call' = [call EXCEPT ![c] = fields]
Finish(c, how)  == Keep(c, [IdleCall EXCEPT !.outcome = how])

(* A guarded call (expectedCurrent) holds the bindings its caller saw.     *)
Begin(c) ==
  /\ call[c].pc = "idle"
  /\ calls < MaxCalls
  /\ \E r \in Requests :
       /\ r.kind = "guarded" => \A s \in DOMAIN r.want : Bound[s] # Unbound
       /\ Keep(c, [IdleCall EXCEPT !.pc = "behavior", !.kind = r.kind, !.want = r.want,
                     !.expected = IF r.kind = "guarded"
                                    THEN [s \in DOMAIN r.want |-> Bound[s]] ELSE <<>>,
                     !.rebases = MaxRebases])
  /\ calls' = calls + 1
  /\ UNCHANGED <<behavior, dictionary, firstSource, firstMethod, migration, send, crashes>>

(* readMethodDictionaryForUpdate, first await: the Behavior names the      *)
(* dictionary.  Used at the plan and again after a lost compare-and-set.   *)
ReadBehavior(c) ==
  /\ call[c].pc \in {"behavior", "lost"}
  /\ Keep(c, [call[c] EXCEPT !.pc = IF @ = "behavior" THEN "plan" ELSE "judge",
                             !.read.at = behavior.edge])
  /\ UNCHANGED <<behavior, dictionary, firstSource, firstMethod, migration, send, calls, crashes>>

(* Mutant: additions go on into a dictionary under migration.              *)
SealIsIgnored(record) == FALSE

(* readMethodBindings: the write path refuses a sealed dictionary.         *)
RefusesSealed(record) == record.sealed

Snapshot(at) == [at |-> at, version |-> dictionary[at].version, table |-> dictionary[at].table]

Stale(k, table) ==
  k.kind = "guarded" /\ \E s \in DOMAIN k.want : table[s] # k.expected[s]
Replayed(k, table) ==
  {s \in DOMAIN k.want : table[s] # Unbound /\ SameInstalled(s, k.want[s], table[s])}
Redefined(k, table) ==
  {s \in DOMAIN k.want : table[s] # Unbound} \ Replayed(k, table)

(* The material of a changed method goes to the identity of its revision,  *)
(* which encodes all of it: nothing else can stand there, so publishing it *)
(* is part of the plan.                                                    *)
Revisions(k, names) == [s \in names |-> Revision(k.want[s])]

(* Second await of the first read, then the plan of installMethods.        *)
Plan(c) ==
  LET k      == call[c]
      record == dictionary[k.read.at]
      table  == record.table
  IN
  /\ k.pc = "plan"
  /\ \/ RefusesSealed(record) /\ Finish(c, "sealed")
     \/ /\ ~RefusesSealed(record)
        /\ Stale(k, table)
        /\ Finish(c, "stale")
     \/ /\ ~RefusesSealed(record)
        /\ ~Stale(k, table)
        /\ k.kind = "define" /\ Redefined(k, table) # {}
        /\ Finish(c, "redefinition")
     \/ /\ ~RefusesSealed(record)
        /\ ~Stale(k, table)
        /\ Replayed(k, table) = DOMAIN k.want
        /\ Finish(c, "ok")
     \/ /\ ~RefusesSealed(record)
        /\ ~Stale(k, table)
        /\ k.kind = "define" => Redefined(k, table) = {}
        /\ Replayed(k, table) # DOMAIN k.want
        /\ Keep(c, [k EXCEPT !.pc = "publish", !.read = Snapshot(k.read.at),
                             !.published = Revisions(k, Redefined(k, table)),
                             !.todo = {s \in DOMAIN k.want : table[s] = Unbound}])
  /\ UNCHANGED <<behavior, dictionary, firstSource, firstMethod, migration, send, calls, crashes>>

(* The material of an unbound selector is published at its own first       *)
(* identity before the table names it.  Each artifact is ensured: created  *)
(* when absent, adopted when equal, a conflict when it differs.            *)
PublishSource(c) ==
  /\ call[c].pc = "publish"
  /\ \E s \in call[c].todo \ call[c].sourced :
       LET source == call[c].want[s].source IN
       /\ source # NoSource
       /\ IF firstSource[s] \in {NoSource, source}
            THEN /\ firstSource' = [firstSource EXCEPT ![s] = source]
                 /\ Keep(c, [call[c] EXCEPT !.sourced = @ \cup {s}])
            ELSE Finish(c, "conflict") /\ UNCHANGED firstSource
  /\ UNCHANGED <<behavior, dictionary, firstMethod, migration, send, calls, crashes>>

PublishFirst(c) ==
  /\ call[c].pc = "publish"
  /\ \E s \in call[c].todo :
       LET d == call[c].want[s] IN
       /\ d.source = NoSource \/ s \in call[c].sourced
       /\ IF firstMethod[s] \in {Nothing, d}
            THEN /\ firstMethod' = [firstMethod EXCEPT ![s] = d]
                 /\ Keep(c, [call[c] EXCEPT !.todo = @ \ {s}, !.sourced = @ \ {s},
                      !.published = [t \in DOMAIN @ \cup {s} |-> IF t = s THEN First ELSE @[t]]])
            ELSE Finish(c, "conflict") /\ UNCHANGED firstMethod
  /\ UNCHANGED <<behavior, dictionary, firstSource, migration, send, calls, crashes>>

(* What a lookup in flight could legitimately answer from grows.           *)
Witness ==
  send' = [x \in Senders |->
    IF send[x].pc = "reading"
      THEN [send[x] EXCEPT !.seen = @ \cup {dictionary'[behavior'.edge].table}]
      ELSE send[x]]

(* Mutant: a write that forgets the methods it did not name.               *)
OwnMethodsOnly(k) == k.published

(* The bindings this call would publish: what it read, with its own        *)
(* methods laid over them.                                                 *)
Overlay(k) ==
  [s \in Selectors |-> IF s \in DOMAIN k.published THEN k.published[s] ELSE k.read.table[s]]

(* commitMethodDictionary's compare-and-set on the dictionary it read.     *)
Accepts(k) == dictionary[k.read.at].version = k.read.version

Commit(c) ==
  LET k == call[c]
      existing == dictionary[k.read.at]
  IN
  /\ k.pc = "publish" /\ k.todo = {}
  /\ Accepts(k)
  /\ dictionary' = [dictionary EXCEPT ![k.read.at] =
        [version |-> existing.version + 1, sealed |-> existing.sealed, table |-> Overlay(k)]]
  /\ Finish(c, "ok")
  /\ UNCHANGED <<behavior, firstSource, firstMethod, migration, calls, crashes>>
  /\ Witness

LoseCommit(c) ==
  /\ call[c].pc = "publish" /\ call[c].todo = {}
  /\ ~Accepts(call[c])
  /\ Keep(c, [call[c] EXCEPT !.pc = "lost"])
  /\ UNCHANGED <<behavior, dictionary, firstSource, firstMethod, migration, send, calls, crashes>>

(* Mutant: the retry keeps the table read before the lost write.           *)
RebaseOnStaleTable(k) ==
  [k EXCEPT !.pc = "publish", !.read.version = dictionary[k.read.at].version, !.rebases = @ - 1]

(* The base of a retry is the table just read, never the stale one.        *)
Rebase(k) == [k EXCEPT !.pc = "publish", !.read = Snapshot(k.read.at), !.rebases = @ - 1]

(* Second await after a lost compare-and-set.  An unguarded call adopts a  *)
(* winner that means the same (classifyLostMethodDictionaryCas); a guarded *)
(* one re-asserts its expectation and rebases while its budget lasts.      *)
Judge(c) ==
  LET k      == call[c]
      record == dictionary[k.read.at]
      table  == record.table
      absent == {s \in DOMAIN k.want : table[s] = Unbound}
  IN
  /\ k.pc = "judge"
  /\ \/ RefusesSealed(record) /\ Finish(c, "sealed")
     \/ /\ ~RefusesSealed(record) /\ k.kind # "guarded"
        /\ \/ absent # {} /\ Finish(c, "conflict")
           \/ Redefined(k, table) # {} /\ Finish(c, "redefinition")
           \/ Replayed(k, table) = DOMAIN k.want /\ Finish(c, "ok")
     \/ /\ ~RefusesSealed(record) /\ k.kind = "guarded"
        /\ \/ Stale(k, table) /\ Finish(c, "stale")
           \/ ~Stale(k, table) /\ k.rebases = 0 /\ Finish(c, "contention")
           \/ ~Stale(k, table) /\ k.rebases > 0 /\ Keep(c, Rebase(k))
  /\ UNCHANGED <<behavior, dictionary, firstSource, firstMethod, migration, send, calls, crashes>>

CallStep(c) ==
  \/ Begin(c) \/ ReadBehavior(c) \/ Plan(c)
  \/ PublishSource(c) \/ PublishFirst(c)
  \/ Commit(c) \/ LoseCommit(c) \/ Judge(c)

----------------------------------------
(* migrateMethodDictionary.                                                *)

Move(m, fields) == migration' = [migration EXCEPT ![m] = fields]
GiveUp(m)       == Move(m, IdleMigration)

(* The Behavior record whose version guards the swap ...                   *)
StartMigration(m) ==
  /\ migration[m].pc = "idle"
  /\ Move(m, [IdleMigration EXCEPT !.pc = "edge", !.edgeVersion = behavior.version])
  /\ UNCHANGED <<behavior, dictionary, firstSource, firstMethod, call, send, calls, crashes>>

(* ... and, read again, the edge that names the dictionary.                *)
ReadEdge(m) ==
  /\ migration[m].pc = "edge"
  /\ Move(m, [migration[m] EXCEPT !.pc = "read", !.read.at = behavior.edge])
  /\ UNCHANGED <<behavior, dictionary, firstSource, firstMethod, call, send, calls, crashes>>

(* Mutant: a dictionary found sealed is left to whoever sealed it.         *)
LeaveSealed(m) ==
  LET at == migration[m].read.at IN
  /\ migration[m].pc = "read"
  /\ IF at = "hashed" \/ dictionary[at].sealed
       THEN GiveUp(m)
       ELSE Move(m, [migration[m] EXCEPT !.read = Snapshot(at), !.pc = "seal"])
  /\ UNCHANGED <<behavior, dictionary, firstSource, firstMethod, call, send, calls, crashes>>

(* An already hashed dictionary is a success; an already sealed one is     *)
(* resumed after the seal.                                                 *)
ReadLegacy(m) ==
  LET at == migration[m].read.at IN
  /\ migration[m].pc = "read"
  /\ \/ at = "hashed" /\ GiveUp(m)
     \/ /\ at = "legacy"
        /\ Move(m, [migration[m] EXCEPT !.read = Snapshot(at),
              !.pc = IF dictionary[at].sealed THEN "build" ELSE "seal"])
  /\ UNCHANGED <<behavior, dictionary, firstSource, firstMethod, call, send, calls, crashes>>

(* Step 2, the serialization point.                                        *)
SealAccepts(m) == dictionary["legacy"].version = migration[m].read.version

(* Mutant: build from the snapshot and rely on the swap alone.             *)
SealNothing(m) ==
  /\ migration[m].pc = "seal"
  /\ Move(m, [migration[m] EXCEPT !.pc = "build"])
  /\ UNCHANGED <<behavior, dictionary, firstSource, firstMethod, call, send, calls, crashes>>

Seal(m) ==
  /\ migration[m].pc = "seal"
  /\ IF SealAccepts(m)
       THEN /\ dictionary' = [dictionary EXCEPT !["legacy"] =
                  [version |-> @.version + 1, sealed |-> TRUE, table |-> migration[m].read.table]]
            /\ Move(m, [migration[m] EXCEPT !.pc = "build"])
       ELSE GiveUp(m) /\ UNCHANGED dictionary
  /\ UNCHANGED <<behavior, firstSource, firstMethod, call, send, calls, crashes>>

(* Step 3: ensure the hashed record at its deterministic identity.         *)
Build(m) ==
  LET hashed == dictionary["hashed"]
      table  == migration[m].read.table
  IN
  /\ migration[m].pc = "build"
  /\ \/ /\ hashed.version = 0
        /\ dictionary' = [dictionary EXCEPT !["hashed"] =
              [version |-> 1, sealed |-> FALSE, table |-> table]]
        /\ Move(m, [migration[m] EXCEPT !.pc = "swap"])
     \/ /\ hashed.version > 0 /\ hashed.table = table
        /\ Move(m, [migration[m] EXCEPT !.pc = "swap"])
        /\ UNCHANGED dictionary
     \/ /\ hashed.version > 0 /\ hashed.table # table
        /\ GiveUp(m)
        /\ UNCHANGED dictionary
  /\ UNCHANGED <<behavior, firstSource, firstMethod, call, send, calls, crashes>>

(* Step 4: one compare-and-set on the Behavior's methods edge.             *)
SwapAccepts(m) == behavior.version = migration[m].edgeVersion

Swap(m) ==
  /\ migration[m].pc = "swap"
  /\ behavior' = IF SwapAccepts(m)
                   THEN [edge |-> "hashed", version |-> behavior.version + 1]
                   ELSE behavior
  /\ GiveUp(m)
  /\ UNCHANGED <<dictionary, firstSource, firstMethod, call, calls, crashes>>
  /\ Witness

(* The process that migrates dies; what it wrote stays.                    *)
CrashMigration(m) ==
  /\ migration[m].pc # "idle"
  /\ crashes < MaxCrashes
  /\ crashes' = crashes + 1
  /\ GiveUp(m)
  /\ UNCHANGED <<behavior, dictionary, firstSource, firstMethod, call, send, calls>>

MigrationStep(m) ==
  StartMigration(m) \/ ReadEdge(m) \/ ReadLegacy(m) \/ Seal(m) \/ Build(m) \/ Swap(m)

----------------------------------------
(* A send's lookup: the Behavior, then the dictionary it names (methodAt). *)
(* A seal hides nothing from it.                                           *)

LookBehavior(x) ==
  /\ send[x].pc = "idle"
  /\ send' = [send EXCEPT ![x] = [pc |-> "reading", at |-> behavior.edge, seen |-> {Bound}]]
  /\ UNCHANGED <<behavior, dictionary, firstSource, firstMethod, call, migration, calls, crashes>>

LookMethod(x) ==
  /\ send[x].pc = "reading"
  /\ send' = [send EXCEPT ![x] = IdleSend]
  /\ UNCHANGED <<behavior, dictionary, firstSource, firstMethod, call, migration, calls, crashes>>

----------------------------------------
Next ==
  \/ \E c \in Callers : CallStep(c)
  \/ \E m \in Migrators : MigrationStep(m) \/ CrashMigration(m)
  \/ \E x \in Senders : LookBehavior(x) \/ LookMethod(x)

(* A migrator goes on, and retries when it lost a race or died, as the     *)
(* conflict error asks its caller to.  Nobody else is obliged to.          *)
Fairness == \A m \in Migrators : WF_vars(MigrationStep(m))

Spec == Init /\ [][Next]_vars /\ Fairness

----------------------------------------
(* evolveSmalltalkClassShape reads the whole Behavior, resolves and        *)
(* publishes a new instance Shape over many awaits, and writes the record  *)
(* back with every slot it read, the methods edge among them.              *)

evolvingVars == <<vars, evolution, evolutions>>

NotEvolving == "none"

EvolvingInit ==
  /\ Init
  /\ evolution = [e \in Evolvers |-> NotEvolving]
  /\ evolutions = 0

ReadClass(e) ==
  /\ evolution[e] = NotEvolving
  /\ evolutions < MaxEvolutions
  /\ evolution' = [evolution EXCEPT ![e] = behavior.edge]
  /\ evolutions' = evolutions + 1
  /\ UNCHANGED vars

(* The write only happens when the Shape, the superclass or the metadata   *)
(* changed; whether they did is abstracted, an evolution without one is a  *)
(* step that changes nothing here.                                         *)
WriteClass(e) ==
  /\ evolution[e] # NotEvolving
  /\ behavior' = [edge |-> evolution[e], version |-> behavior.version + 1]
  /\ evolution' = [evolution EXCEPT ![e] = NotEvolving]
  /\ UNCHANGED <<dictionary, firstSource, firstMethod, call, migration, calls, crashes, evolutions>>
  /\ Witness

EvolvingNext ==
  \/ Next /\ UNCHANGED <<evolution, evolutions>>
  \/ \E e \in Evolvers : ReadClass(e) \/ WriteClass(e)

EvolvingSpec == EvolvingInit /\ [][EvolvingNext]_evolvingVars /\ Fairness

----------------------------------------
(* Properties.                                                             *)

CallType ==
  [pc : {"idle", "behavior", "plan", "publish", "lost", "judge"}, kind : Kinds,
   want : UNION {[names -> Definitions] : names \in SUBSET Selectors},
   expected : UNION {[names -> Methods \cup {Unbound}] : names \in SUBSET Selectors},
   read : [at : Layouts, version : Nat, table : Tables],
   published : UNION {[names -> Methods] : names \in SUBSET Selectors},
   todo : SUBSET Selectors, sourced : SUBSET Selectors,
   rebases : Nat, outcome : Outcomes]

(* Every variable has the type its records promise.                        *)
TypeOK ==
  /\ behavior \in [edge : Layouts, version : Nat]
  /\ dictionary \in [Layouts -> [version : Nat, sealed : BOOLEAN, table : Tables]]
  /\ firstMethod \in [Selectors -> Definitions \cup {Nothing}]
  /\ firstSource \in [Selectors -> {d.source : d \in Definitions} \cup {NoSource}]
  /\ call \in [Callers -> CallType]
  /\ migration \in [Migrators -> [pc : {"idle", "edge", "read", "seal", "build", "swap"},
        edgeVersion : Nat, read : [at : Layouts, version : Nat, table : Tables]]]
  /\ send \in [Senders -> [pc : {"idle", "reading"}, at : Layouts, seen : SUBSET Tables]]
  /\ calls \in Nat /\ crashes \in Nat

(* The contract of the method table, with a first identity read as the     *)
(* definition published there.                                             *)
Meaning(s, ref) ==
  IF ref = Unbound THEN [identity |-> "none"]
  ELSE [identity |-> ref.identity,
        definition |-> IF ref = First THEN firstMethod[s] ELSE ref.definition]

BoundNow == [s \in Selectors |-> Meaning(s, Bound[s])]
Asked(k) ==
  IF k.pc = "idle" THEN [kind |-> "none"]
  ELSE [kind |-> k.kind, want |-> k.want,
        expected |-> [s \in DOMAIN k.expected |-> Meaning(s, k.expected[s])]]
AskedNow  == [c \in Callers |-> Asked(call[c])]
AnswerNow == [c \in Callers |-> call[c].outcome]

Contract == INSTANCE MethodPositions WITH
  Unsourced <- {d \in Definitions : d.source = NoSource},
  bound <- BoundNow, asked <- AskedNow, answer <- AnswerNow

(* The two records, their seal, crashes and lost races add up to one table *)
(* whose calls take effect at a point: nothing a caller was told is        *)
(* installed is lost to a migration, nothing is overwritten that a call    *)
(* was not entitled to, and every refusal names a reason true of the table *)
(* when it was decided (ADR 0049 decision 7, ADR 0086).                    *)
KeepsMethodPositions == Contract!Spec

(* A send that overlaps a migration and any number of calls finds, whenever *)
(* its second read comes, a table that was the class's at some moment of   *)
(* the send: the two reads of a lookup cannot combine into an answer that  *)
(* no table held meanwhile.                                                *)
AnswerWasBound ==
  \A x \in Senders : send[x].pc = "reading" => dictionary[send[x].at].table \in send[x].seen

(* Until the swap, a hashed dictionary that exists is what the sealed      *)
(* legacy one holds, whoever built it and however often: a retry after a   *)
(* crash finds its own output (migrateMethodDictionary, steps 2 to 4).     *)
TargetMatchesSealed ==
  behavior.edge = "legacy" /\ dictionary["hashed"].version > 0
    => /\ dictionary["legacy"].sealed
       /\ dictionary["hashed"].table = dictionary["legacy"].table

(* A method added concurrently with a migration is never lost under any    *)
(* interleaving (docs/decisions/0049, "migration"): a selector once bound  *)
(* stays bound.                                                            *)
NoMethodIsLost ==
  [][\A s \in Selectors : Bound[s] # Unbound => Bound'[s] # Unbound]_evolvingVars

========================================
