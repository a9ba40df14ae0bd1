--------------------------- MODULE WasmActivations ---------------------------
(***************************************************************************)
(* WASM function activations (src/wasm): the cache of compiled modules,    *)
(* the pool of module instances, and the executors that lease an instance  *)
(* for one activation.                                                     *)
(*                                                                         *)
(* A guest segment runs synchronously, so entering an instance, binding    *)
(* its host environment and unbinding it are one step.  What is awaited is *)
(* a step of its own: the compilation, the instantiation and the host      *)
(* effect a segment suspends on, which may activate a function of the same *)
(* module again while the suspended one keeps its instance.                *)
(***************************************************************************)
EXTENDS Naturals, Sequences, SequencesExt, FiniteSets

CONSTANTS
  Activations,
  Modules,
  MaxIdle,         \* maxIdlePerModule of the pool
  MaxResumptions,  \* MAX_WASM_RESUMPTIONS
  MaxFaults,     \* bound: compilations, instantiations and effects that fail
  MaxClears        \* bound: clear() calls of the cache and of the pool

ASSUME WasmAssumption ==
  /\ IsFiniteSet(Activations)
  /\ {MaxIdle, MaxResumptions, MaxFaults, MaxClears} \subseteq Nat

VARIABLES
  reusable,  \* modules whose metadata declares instanceReuse: stateless-v0
  entries,   \* cache: the compilation a module's entry holds, 0 without one
  compiles,  \* every compilation: its module, its outcome, the clears it saw
  poolOf,    \* pool: the bookkeeping a module has, 0 without one
  states,    \* every bookkeeping object, also those no longer in the map
  slots,     \* instances made so far
  trapped,   \* instances in which an activation failed
  acts,      \* the activations
  faults,    \* failures and clears so far
  clears

wasmVars == <<reusable, entries, compiles, poolOf, states, slots, trapped, acts, faults, clears>>

NotActive == [pc |-> "new", module |-> 0, compile |-> 0, state |-> 0, slot |-> 0,
              child |-> 0, resumptions |-> 0]

WasmInit ==
  /\ reusable \in SUBSET Modules
  /\ entries = [m \in Modules |-> 0]
  /\ compiles = << >>
  /\ poolOf = [m \in Modules |-> 0]
  /\ states = << >>
  /\ slots = 0
  /\ trapped = {}
  /\ acts = [a \in Activations |-> NotActive]
  /\ faults = 0
  /\ clears = 0

ActStep(a, new) == acts' = [acts EXCEPT ![a] = new]

Over(a) == acts[a].pc \in {"done", "failed"}

Fault == faults < MaxFaults /\ faults' = faults + 1

(* WasmModuleCache.get: a hit awaits the entry's promise, whatever became  *)
(* of it; a miss starts a compilation and stores its promise at once.      *)
LookupModule(a, m, others) ==
  /\ IF entries[m] # 0
     THEN UNCHANGED <<entries, compiles>>
     ELSE /\ compiles' = Append(compiles, [module |-> m, outcome |-> "pending", epoch |-> clears])
          /\ entries' = [entries EXCEPT ![m] = Len(compiles')]
  /\ acts' = [others EXCEPT ![a] =
       [@ EXCEPT !.pc = "compiling", !.module = m, !.compile = entries'[m]]]
  /\ UNCHANGED <<reusable, poolOf, states, slots, trapped, faults, clears>>

(* Activations have no identity: whoever starts takes the next one.        *)
NextNew(a) == acts[a].pc = "new" /\ a = CHOOSE b \in Activations : acts[b].pc = "new"

Activate(a, m) == NextNew(a) /\ LookupModule(a, m, acts)

(* A host effect (sendMessage, invokeBlock) that activates a function.     *)
ActivateNested(a, m, parent) ==
  /\ NextNew(a) /\ acts[parent].pc \in {"effect", "tail"} /\ acts[parent].child = 0
  /\ LookupModule(a, m, [acts EXCEPT ![parent].child = a])

(* Only the entry that still holds this promise is deleted by its failure. *)
ForgetFailed(c) ==
  entries' = IF entries[compiles[c].module] = c
             THEN [entries EXCEPT ![compiles[c].module] = 0] ELSE entries

Compiled(c) ==
  /\ compiles[c].outcome = "pending"
  /\ compiles' = [compiles EXCEPT ![c].outcome = "module"]
  /\ UNCHANGED <<reusable, entries, poolOf, states, slots, trapped, acts, faults, clears>>

CompileFails(c) ==
  /\ compiles[c].outcome = "pending"
  /\ Fault
  /\ compiles' = [compiles EXCEPT ![c].outcome = "error"]
  /\ ForgetFailed(c)
  /\ UNCHANGED <<reusable, poolOf, states, slots, trapped, acts, clears>>

ModuleFailed(a) ==
  /\ acts[a].pc = "compiling" /\ compiles[acts[a].compile].outcome = "error"
  /\ ActStep(a, [acts[a] EXCEPT !.pc = "failed"])
  /\ UNCHANGED <<reusable, entries, compiles, poolOf, states, slots, trapped, faults, clears>>

----------------------------------------
(* The pool.                                                               *)

NoUse == [idle |-> << >>, inUse |-> 0, creating |-> 0]

ShouldDropState(s) == s.inUse = 0 /\ s.creating = 0 /\ s.idle = << >>

(* Writes bookkeeping object i of module m back and drops it if unused.    *)
SetState(m, i, s) ==
  /\ states' = [states EXCEPT ![i] = s]
  /\ poolOf' = IF ShouldDropState(s) /\ poolOf[m] = i THEN [poolOf EXCEPT ![m] = 0] ELSE poolOf

(* stateFor: the object of the module, made and entered when it has none.  *)
HasState(m) == poolOf[m] # 0
StateFor(m) == IF HasState(m) THEN poolOf[m] ELSE Len(states) + 1
UseAt(i) == IF i <= Len(states) THEN states[i] ELSE NoUse
WithState(i, s) == IF i <= Len(states) THEN [states EXCEPT ![i] = s] ELSE Append(states, s)

ReadyToRun(a) == acts[a].pc = "compiling" /\ compiles[acts[a].compile].outcome = "module"

(* acquire of an idle slot, the last one in.                               *)
Taken(s) == [s EXCEPT !.idle = Front(@), !.inUse = @ + 1]

AcquireIdle(a) ==
  LET m == acts[a].module  i == poolOf[m] IN
  /\ ReadyToRun(a) /\ m \in reusable /\ HasState(m) /\ states[i].idle # << >>
  /\ states' = [states EXCEPT ![i] = Taken(@)]
  /\ ActStep(a, [acts[a] EXCEPT !.pc = "leased", !.state = i, !.slot = Last(states[i].idle)])
  /\ UNCHANGED <<reusable, entries, compiles, poolOf, slots, trapped, faults, clears>>

MayCreateOne(m) == UseAt(StateFor(m)) = [UseAt(StateFor(m)) EXCEPT !.idle = << >>, !.inUse = 0]

(* acquire with none idle: never waits for one, it makes another.          *)
MayCreate(m) == UseAt(StateFor(m)).idle = << >>

AcquireNew(a) ==
  LET m == acts[a].module  i == StateFor(m) IN
  /\ ReadyToRun(a) /\ m \in reusable /\ MayCreate(m)
  /\ states' = WithState(i, [UseAt(i) EXCEPT !.creating = @ + 1])
  /\ poolOf' = [poolOf EXCEPT ![m] = i]
  /\ ActStep(a, [acts[a] EXCEPT !.pc = "creating", !.state = i])
  /\ UNCHANGED <<reusable, entries, compiles, slots, trapped, faults, clears>>

(* A module without the reuse contract gets an instance of its own.        *)
AcquireOneShot(a) ==
  /\ ReadyToRun(a) /\ acts[a].module \notin reusable
  /\ ActStep(a, [acts[a] EXCEPT !.pc = "creating"])
  /\ UNCHANGED <<reusable, entries, compiles, poolOf, states, slots, trapped, faults, clears>>

Pooled(a) == acts[a].state # 0

(* acquire after its create: the count moves from creating to inUse.       *)
Instantiated(s) == [s EXCEPT !.creating = @ - 1, !.inUse = @ + 1]

Created(a) ==
  LET i == acts[a].state IN
  /\ acts[a].pc = "creating"
  /\ slots' = slots + 1
  /\ states' = IF Pooled(a)
               THEN [states EXCEPT ![i] = Instantiated(@)] ELSE states
  /\ ActStep(a, [acts[a] EXCEPT !.pc = "leased", !.slot = slots + 1])
  /\ UNCHANGED <<reusable, entries, compiles, poolOf, trapped, faults, clears>>

CreateFails(a) ==
  LET i == acts[a].state IN
  /\ acts[a].pc = "creating"
  /\ Fault
  /\ IF Pooled(a)
     THEN SetState(acts[a].module, i, [states[i] EXCEPT !.creating = @ - 1])
     ELSE UNCHANGED <<states, poolOf>>
  /\ ActStep(a, [acts[a] EXCEPT !.pc = "failed"])
  /\ UNCHANGED <<reusable, entries, compiles, slots, trapped, clears>>

KeptThoughRetired(s, slot, retire) ==
  IF Len(s.idle) < MaxIdle THEN Append(s.idle, slot) ELSE s.idle

(* The lease's release closure; a retired slot is dropped.                 *)
Kept(s, slot, retire) ==
  IF ~retire /\ Len(s.idle) < MaxIdle THEN Append(s.idle, slot) ELSE s.idle

Release(a, retire) ==
  LET i == acts[a].state IN
  IF Pooled(a)
  THEN SetState(acts[a].module, i,
         [states[i] EXCEPT !.inUse = @ - 1, !.idle = Kept(states[i], acts[a].slot, retire)])
  ELSE UNCHANGED <<states, poolOf>>

----------------------------------------
(* The executors' loop over segments: what a segment does is the guest's.  *)

Leaves(a, pc) ==
  ActStep(a, [acts[a] EXCEPT !.pc = pc, !.slot = 0, !.child = IF pc = "tail" THEN 0 ELSE @])

Returns(a) ==
  /\ acts[a].pc = "leased"
  /\ Release(a, FALSE)
  /\ Leaves(a, "done")
  /\ UNCHANGED <<reusable, entries, compiles, slots, trapped, faults, clears>>

(* An effect in tail position is performed after the lease is given back.  *)
SuspendsInTail(a) ==
  /\ acts[a].pc = "leased"
  /\ Release(a, FALSE)
  /\ Leaves(a, "tail")
  /\ UNCHANGED <<reusable, entries, compiles, slots, trapped, faults, clears>>

\* Mutant of Suspends: no limit on the resumptions.
SuspendsWithoutLimit(a) ==
  /\ acts[a].pc = "leased"
  /\ ActStep(a, [acts[a] EXCEPT !.pc = "effect", !.child = 0, !.resumptions = @ + 1])
  /\ UNCHANGED <<reusable, entries, compiles, poolOf, states, slots, trapped, faults, clears>>

Suspends(a) ==
  /\ acts[a].pc = "leased" /\ acts[a].resumptions < MaxResumptions
  /\ ActStep(a, [acts[a] EXCEPT !.pc = "effect", !.child = 0, !.resumptions = @ + 1])
  /\ UNCHANGED <<reusable, entries, compiles, poolOf, states, slots, trapped, faults, clears>>

(* The catch of execute: the slot may be left in any state, so it goes.    *)
Abandon(a) ==
  /\ Release(a, TRUE)
  /\ trapped' = trapped \cup {acts[a].slot}
  /\ Leaves(a, "failed")
  /\ UNCHANGED <<reusable, entries, compiles, slots, clears>>

(* One suspension too many, or a trap of the guest.                        *)
SuspendsTooOften(a) ==
  /\ acts[a].pc = "leased" /\ acts[a].resumptions = MaxResumptions
  /\ Abandon(a) /\ UNCHANGED faults

Traps(a) == acts[a].pc = "leased" /\ Fault /\ Abandon(a)

ChildOver(a) == acts[a].child # 0 => Over(acts[a].child)

EffectDone(a) ==
  /\ acts[a].pc = "effect" /\ ChildOver(a)
  /\ acts[a].child # 0 => acts[acts[a].child].pc = "done"
  /\ ActStep(a, [acts[a] EXCEPT !.pc = "leased"])
  /\ UNCHANGED <<reusable, entries, compiles, poolOf, states, slots, trapped, faults, clears>>

EffectFails(a) ==
  /\ acts[a].pc = "effect" /\ ChildOver(a)
  /\ IF acts[a].child = 0 THEN Fault
     ELSE acts[acts[a].child].pc = "failed" /\ UNCHANGED faults
  /\ Abandon(a)

TailDone(a) ==
  /\ acts[a].pc = "tail" /\ ChildOver(a)
  /\ IF acts[a].child = 0 THEN Leaves(a, "done") ELSE Leaves(a, acts[acts[a].child].pc)
  /\ UNCHANGED <<reusable, entries, compiles, poolOf, states, slots, trapped, faults, clears>>

ClearModules ==
  /\ clears < MaxClears /\ clears' = clears + 1
  /\ entries' = [m \in Modules |-> 0]
  /\ UNCHANGED <<reusable, compiles, poolOf, states, slots, trapped, acts, faults>>

ClearPool ==
  /\ clears < MaxClears /\ clears' = clears + 1
  /\ states' = [i \in 1..Len(states) |->
                  IF \E m \in Modules : poolOf[m] = i THEN [states[i] EXCEPT !.idle = << >>]
                  ELSE states[i]]
  /\ poolOf' = [m \in Modules |->
                  IF HasState(m) /\ ShouldDropState(states'[poolOf[m]]) THEN 0 ELSE poolOf[m]]
  /\ UNCHANGED <<reusable, entries, compiles, slots, trapped, acts, faults>>

Computes(a) ==
  \/ AcquireIdle(a) \/ AcquireNew(a) \/ AcquireOneShot(a) \/ ModuleFailed(a)
  \/ Created(a) \/ CreateFails(a)
  \/ Returns(a) \/ SuspendsInTail(a) \/ Suspends(a) \/ SuspendsTooOften(a) \/ Traps(a)
  \/ EffectDone(a) \/ EffectFails(a) \/ TailDone(a)

WasmProgress ==
  \/ \E c \in 1..Len(compiles) : Compiled(c) \/ CompileFails(c)
  \/ \E a \in Activations : Computes(a)

WasmNext ==
  \/ \E a \in Activations, m \in Modules :
       Activate(a, m) \/ \E parent \in Activations \ {a} : ActivateNested(a, m, parent)
  \/ WasmProgress
  \/ ClearModules \/ ClearPool

(* The event loop runs what is ready; a compilation settles.               *)
WasmFairness == WF_wasmVars(WasmProgress)

WasmSpec == WasmInit /\ [][WasmNext]_wasmVars /\ WasmFairness

----------------------------------------
(* Properties.                                                             *)

Uses == [idle : Seq(1..slots), inUse : Nat, creating : Nat]

WasmTypeOK ==
  /\ reusable \subseteq Modules
  /\ compiles \in Seq([module : Modules, outcome : {"pending", "module", "error"},
                       epoch : 0..MaxClears])
  /\ entries \in [Modules -> 0..Len(compiles)]
  /\ states \in Seq(Uses)
  /\ poolOf \in [Modules -> 0..Len(states)]
  /\ slots \in Nat /\ trapped \subseteq 1..slots
  /\ acts \in [Activations ->
       [pc : {"new", "compiling", "creating", "leased", "effect", "tail", "done", "failed"},
        module : Modules \cup {0}, compile : 0..Len(compiles), state : 0..Len(states),
        slot : 0..slots, child : Activations \cup {0}, resumptions : 0..MaxResumptions]]
  /\ faults \in 0..MaxFaults /\ clears \in 0..MaxClears

(* The places at which instances lie idle: the k-th of bookkeeping i.      *)
IdlePlaces == UNION {{i} \X (1..Len(states[i].idle)) : i \in 1..Len(states)}
IdleAt(place) == states[place[1]].idle[place[2]]

(* An instance serves one activation at a time, also while that one is     *)
(* suspended in a host effect that runs the same module, is offered to the *)
(* next at most once, and never again after an activation failed in it     *)
(* (instance-pool.js acquire and release, the catch of execute).           *)
InstancesAreExclusive ==
  /\ \A a, b \in Activations : acts[a].slot = acts[b].slot /\ acts[a].slot # 0 => a = b
  /\ \A a \in Activations : acts[a].slot \notin trapped
  /\ \A here \in IdlePlaces :
       /\ IdleAt(here) \notin trapped
       /\ \A a \in Activations : acts[a].slot # IdleAt(here)
       /\ \A there \in IdlePlaces : IdleAt(here) = IdleAt(there) => here = there

LeasesOf(m) == {a \in Activations : acts[a].module = m /\ acts[a].slot # 0}
CreationsOf(m) == {a \in Activations : acts[a].module = m /\ acts[a].pc = "creating"}

(* The bookkeeping the pool's map holds is the one every lease and every   *)
(* instantiation under way counts in, so that what they give back is found *)
(* again and stays within the limit, across failures and clear().          *)
PoolKeepsCount ==
  \A m \in reusable :
    /\ \A a \in LeasesOf(m) \cup CreationsOf(m) : acts[a].state = poolOf[m]
    /\ HasState(m) =>
         /\ states[poolOf[m]].inUse = Cardinality(LeasesOf(m))
         /\ states[poolOf[m]].creating = Cardinality(CreationsOf(m))
         /\ Len(states[poolOf[m]].idle) <= MaxIdle

(* One compilation at a time serves everybody who asks for the module, and *)
(* only clear() lets a second one start: a failure that comes late does    *)
(* not throw out the entry that replaced its own (module-cache.js get).    *)
OneCompilationAtATime ==
  \A c, d \in 1..Len(compiles) :
    /\ compiles[c].outcome = "pending" /\ compiles[d].outcome = "pending"
    /\ compiles[c].module = compiles[d].module /\ compiles[c].epoch = compiles[d].epoch
    => c = d

(* No two activations have one instance, a trapped instance is never given *)
(* out again, the pool's counts are those of its leases, and a module is   *)
(* compiled once however many ask for it (instance-pool.js,                *)
(* module-cache.js).                                                       *)
PoolIsSound == InstancesAreExclusive /\ PoolKeepsCount /\ OneCompilationAtATime
========================================
