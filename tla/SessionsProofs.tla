--------------------------- MODULE SessionsProofs ----------------------------
(***************************************************************************)
(* What the host lends and hands out.  For any activations, modules and    *)
(* bounds: the types of WasmActivations hold, no instance serves two       *)
(* activations or is offered after a trap, and the pool's counts are those *)
(* of its leases.  For any objects, tasks and bounds: Promotion's memo     *)
(* means what it says, and what a calm execution has stored is whole.      *)
(* With HostProofs, what the five parts of MCSessions promise together.    *)
(***************************************************************************)
EXTENDS MCSessions, HostProofs, SequenceTheorems, FunctionTheorems, FiniteSetTheorems, TLAPS

----------------------------------------
(* The pool of instances and the module cache. *)
Indices == 1..Len(states)
Places(i) == 1..Len(states[i].idle)

(* An activation has an instance while it runs or is suspended, and counts *)
(* in the bookkeeping its module has in the map, if the module may reuse.  *)
ActIsSound(a) ==
  /\ acts[a].slot # 0 <=> acts[a].pc \in {"leased", "effect"}
  /\ acts[a].slot \notin trapped
  /\ acts[a].pc # "new" => acts[a].module \in Modules
  /\ acts[a].pc \in {"new", "compiling"} => acts[a].state = 0
  /\ acts[a].pc = "compiling" => acts[a].compile # 0
  /\ acts[a].pc \in {"creating", "leased", "effect"} =>
       IF acts[a].module \in reusable
       THEN acts[a].state # 0 /\ acts[a].state = poolOf[acts[a].module]
       ELSE acts[a].state = 0

SlotsAreApart == \A a, b \in Activations : acts[a].slot = acts[b].slot /\ acts[a].slot # 0 => a = b

(* What lies idle is offered once, held by nobody, and was never trapped. *)
OfferedOnce ==
  /\ \A i, j \in Indices : \A k \in Places(i), l \in Places(j) :
       states[i].idle[k] = states[j].idle[l] => i = j /\ k = l
  /\ \A i \in Indices : \A k \in Places(i) :
       /\ states[i].idle[k] \notin trapped
       /\ \A a \in Activations : acts[a].slot # states[i].idle[k]

(* A bookkeeping object belongs to one module, of those that may reuse,    *)
(* and one that was dropped from the map offers nothing.                   *)
MapIsSound ==
  /\ \A m \in Modules : poolOf[m] # 0 => m \in reusable
  /\ \A m, n \in Modules : poolOf[m] = poolOf[n] /\ poolOf[m] # 0 => m = n
  /\ \A i \in Indices : (\A m \in Modules : poolOf[m] # i) => states[i].idle = << >>

CountsAre(m) ==
  poolOf[m] # 0 =>
    /\ states[poolOf[m]].inUse = Cardinality(LeasesOf(m))
    /\ states[poolOf[m]].creating = Cardinality(CreationsOf(m))
    /\ Len(states[poolOf[m]].idle) <= MaxIdle

(* Until the next clear(), the entry of a module is its pending compilation. *)
EntryIsPending ==
  \A c \in 1..Len(compiles) :
    compiles[c].outcome = "pending" /\ compiles[c].epoch = clears
      => entries[compiles[c].module] = c

ActsAreSound == \A a \in Activations : ActIsSound(a)
CountsAreKept == \A m \in Modules : CountsAre(m)
EpochsArePast == \A c \in 1..Len(compiles) : compiles[c].epoch <= clears
CompilesAreSound == EntryIsPending /\ EpochsArePast /\ OneCompilationAtATime

PoolInv ==
  /\ WasmTypeOK /\ ActsAreSound /\ SlotsAreApart /\ OfferedOnce /\ MapIsSound
  /\ CountsAreKept /\ CompilesAreSound

----------------------------------------
(* Types. *)

Compilations == [module : Modules, outcome : {"pending", "module", "error"}, epoch : 0..MaxClears]
ActsUpTo(c, s, n) ==
  [pc : {"new", "compiling", "creating", "leased", "effect", "tail", "done", "failed"},
   module : Modules \cup {0}, compile : 0..c, state : 0..s,
   slot : 0..n, child : Activations \cup {0}, resumptions : 0..MaxResumptions]
UsesUpTo(n) == [idle : Seq(1..n), inUse : Nat, creating : Nat]

(* The typing of what an activation is, what a module's use is, and the rest. *)
CompilesTyped == compiles \in Seq(Compilations) /\ entries \in [Modules -> 0..Len(compiles)]
StatesTyped == states \in Seq(UsesUpTo(slots)) /\ poolOf \in [Modules -> 0..Len(states)]
ActsTyped == acts \in [Activations -> ActsUpTo(Len(compiles), Len(states), slots)]
RestTyped ==
  /\ reusable \subseteq Modules /\ slots \in Nat /\ trapped \subseteq 1..slots
  /\ faults \in 0..MaxFaults /\ clears \in 0..MaxClears

(* The types, cut into the parts a step changes together. *)
LEMMA TypeParts == WasmTypeOK <=> CompilesTyped /\ StatesTyped /\ ActsTyped /\ RestTyped
BY DEF WasmTypeOK, CompilesTyped, StatesTyped, ActsTyped, RestTyped, Compilations, ActsUpTo,
  UsesUpTo, Uses

(* The same of the next state. *)
LEMMA TypePartsNext == WasmTypeOK' <=> CompilesTyped' /\ StatesTyped' /\ ActsTyped' /\ RestTyped'
BY DEF WasmTypeOK, CompilesTyped, StatesTyped, ActsTyped, RestTyped, Compilations, ActsUpTo,
  UsesUpTo, Uses

(* Types only widen as compilations, bookkeeping and instances are made. *)
LEMMA UsesWiden ==
  ASSUME NEW n \in Nat, NEW k \in Nat, n <= k
  PROVE  UsesUpTo(n) \subseteq UsesUpTo(k) /\ Seq(UsesUpTo(n)) \subseteq Seq(UsesUpTo(k))
<1>1. Seq(1..n) \subseteq Seq(1..k) BY 1..n \subseteq 1..k
<1>2. UsesUpTo(n) \subseteq UsesUpTo(k) BY <1>1 DEF UsesUpTo
<1>3. Seq(UsesUpTo(n)) \subseteq Seq(UsesUpTo(k)) BY <1>2
<1>4. QED BY <1>2, <1>3

(* The types when one activation moves and no compilation is started. *)
LEMMA ActsTypedNext ==
  ASSUME ActsTyped, CompilesTyped, StatesTyped, RestTyped,
         NEW a \in Activations, NEW new,
         ActStep(a, new), compiles' \in Seq(Compilations), Len(compiles) <= Len(compiles'),
         Len(states) <= Len(states'), states' \in Seq(UsesUpTo(slots')), slots' \in Nat, slots <= slots',
         new \in ActsUpTo(Len(compiles'), Len(states'), slots')
  PROVE  ActsTyped'
<1>1. /\ Len(compiles) \in Nat /\ Len(states) \in Nat /\ slots \in Nat
      /\ Len(compiles') \in Nat /\ Len(states') \in Nat
  BY DEF CompilesTyped, StatesTyped, RestTyped
<1>2. ActsUpTo(Len(compiles), Len(states), slots) \subseteq ActsUpTo(Len(compiles'), Len(states'), slots')
  BY <1>1 DEF ActsUpTo
<1>3. acts \in [Activations -> ActsUpTo(Len(compiles'), Len(states'), slots')]
  BY <1>2 DEF ActsTyped
<1>4. acts' \in [Activations -> ActsUpTo(Len(compiles'), Len(states'), slots')]
  BY <1>3 DEF ActStep
<1>5. QED BY <1>4 DEF ActsTyped, ActsUpTo

----------------------------------------
(* Counting. *)

(* What becomes of a count when one activation moves. *)
Counts(before, after, was, is) ==
  /\ Cardinality(before) \in Nat
  /\ was <=> is => Cardinality(after) = Cardinality(before)
  /\ ~was /\ is => Cardinality(after) = Cardinality(before) + 1
  /\ was /\ ~is => Cardinality(after) = Cardinality(before) - 1

(* A set that may differ in one activation only. *)
LEMMA CountMoves ==
  ASSUME NEW before \in SUBSET Activations, NEW after \in SUBSET Activations,
         NEW a \in Activations, \A b \in Activations \ {a} : b \in before <=> b \in after
  PROVE  Counts(before, after, a \in before, a \in after)
<1>1. IsFiniteSet(before) /\ IsFiniteSet(after) BY FS_Subset, WasmAssumption
<1>2. Cardinality(before) \in Nat BY <1>1, FS_CardinalityType
<1>3. ASSUME a \in before <=> a \in after PROVE Cardinality(after) = Cardinality(before)
  BY <1>3, before = after
<1>4. ASSUME a \notin before, a \in after PROVE Cardinality(after) = Cardinality(before) + 1
  <2>1. after = before \cup {a} BY <1>4
  <2>2. QED BY <1>1, <1>4, <2>1, FS_AddElement
<1>5. ASSUME a \in before, a \notin after PROVE Cardinality(after) = Cardinality(before) - 1
  <2>1. after = before \ {a} BY <1>5
  <2>2. QED BY <1>1, <1>5, <2>1, FS_RemoveElement
<1>6. QED BY <1>2, <1>3, <1>4, <1>5 DEF Counts

LeasedIn(act, m) == act.module = m /\ act.slot # 0
CreatesIn(act, m) == act.module = m /\ act.pc = "creating"

(* The leases and creations of a module follow the one that steps. *)
LEMMA LeasesMove ==
  ASSUME ActsTyped, NEW a \in Activations, NEW new, ActStep(a, new), NEW m
  PROVE  /\ Counts(LeasesOf(m), LeasesOf(m)', LeasedIn(acts[a], m), LeasedIn(new, m))
         /\ Counts(CreationsOf(m), CreationsOf(m)', CreatesIn(acts[a], m), CreatesIn(new, m))
<1>1. /\ acts' = [acts EXCEPT ![a] = new] /\ acts'[a] = new
      /\ \A b \in Activations \ {a} : acts'[b] = acts[b]
  BY DEF ActStep, ActsTyped
<1>2. /\ \A b \in Activations : b \in LeasesOf(m) <=> LeasedIn(acts[b], m)
      /\ \A b \in Activations : b \in LeasesOf(m)' <=> LeasedIn(acts'[b], m)
      /\ \A b \in Activations : b \in CreationsOf(m) <=> CreatesIn(acts[b], m)
      /\ \A b \in Activations : b \in CreationsOf(m)' <=> CreatesIn(acts'[b], m)
  BY DEF LeasesOf, CreationsOf, LeasedIn, CreatesIn
<1>3. /\ LeasesOf(m) \in SUBSET Activations /\ LeasesOf(m)' \in SUBSET Activations
      /\ CreationsOf(m) \in SUBSET Activations /\ CreationsOf(m)' \in SUBSET Activations
  BY DEF LeasesOf, CreationsOf
<1>4. Counts(LeasesOf(m), LeasesOf(m)', a \in LeasesOf(m), a \in LeasesOf(m)')
  BY <1>1, <1>2, <1>3, CountMoves
<1>5. Counts(CreationsOf(m), CreationsOf(m)', a \in CreationsOf(m), a \in CreationsOf(m)')
  BY <1>1, <1>2, <1>3, CountMoves
<1>6. QED BY <1>1, <1>2, <1>4, <1>5 DEF Counts

----------------------------------------
(* Bookkeeping. *)

(* The bookkeeping of a module in which an activation moves is written     *)
(* back, and leaves the map when nothing is left in it.                    *)
WritesBack(m, i, s) ==
  /\ i = StateFor(m)
  /\ states' \in Seq(UsesUpTo(slots'))
  /\ Indices' = Indices \cup {i}
  /\ states'[i] = s
  /\ \A j \in Indices \ {i} : states'[j] = states[j]
  /\ poolOf' = [poolOf EXCEPT ![m] = IF ShouldDropState(s) THEN 0 ELSE i]

(* Where an activation counts, after a step. *)
CountedNext(b) ==
  acts'[b].pc \in {"creating", "leased", "effect"} =>
    IF acts'[b].module \in reusable
    THEN acts'[b].state # 0 /\ acts'[b].state = poolOf'[acts'[b].module]
    ELSE acts'[b].state = 0

Active == {"creating", "leased", "effect"}

(* A step that writes one bookkeeping back with its counts right. *)
LEMMA PoolStep ==
  ASSUME PoolInv,
         NEW a \in Activations, NEW m \in reusable, NEW i, NEW s, NEW new,
         ActStep(a, new), acts[a].module = m, new.module = m, reusable' = reusable,
         WritesBack(m, i, s),
         s.inUse = Cardinality(LeasesOf(m)'), s.creating = Cardinality(CreationsOf(m)'),
         Len(s.idle) <= MaxIdle,
         new.slot # 0 <=> new.pc \in {"leased", "effect"},
         new.pc \in Active => new.state = i
  PROVE  MapIsSound' /\ CountsAreKept' /\ \A b \in Activations : CountedNext(b)
<1>1. /\ CompilesTyped /\ StatesTyped /\ ActsTyped /\ RestTyped
      /\ ActsAreSound /\ MapIsSound /\ CountsAreKept
  BY TypeParts DEF PoolInv
<1>2. /\ acts'[a] = new /\ \A b \in Activations \ {a} : acts'[b] = acts[b]
      /\ m \in Modules
  BY <1>1 DEF ActStep, ActsTyped, RestTyped
<1>3. /\ i \in Nat \ {0}
      /\ poolOf[m] # 0 => i = poolOf[m]
      /\ poolOf[m] = 0 => i = Len(states) + 1
      /\ Indices \subseteq Nat \ {0} /\ i \in Indices'
  BY <1>1, <1>2 DEF WritesBack, StateFor, HasState, StatesTyped, Indices
<1>4. /\ \A n \in Modules : poolOf[n] \in Indices \cup {0}
      /\ \A n \in Modules \ {m} : poolOf'[n] = poolOf[n] /\ poolOf[n] # i
      /\ poolOf'[m] = IF ShouldDropState(s) THEN 0 ELSE i
  <2>1. /\ poolOf \in [Modules -> 0..Len(states)] /\ Len(states) \in Nat
        /\ \A n \in Modules : poolOf[n] \in Indices \cup {0}
    BY <1>1 DEF StatesTyped, Indices
  <2>2. \A n \in Modules \ {m} : poolOf[n] # i
    <3>1. CASE poolOf[m] = 0
      BY <1>3, <2>1, <3>1
    <3>2. CASE poolOf[m] # 0
      BY <1>1, <1>2, <1>3, <3>2 DEF MapIsSound
    <3>3. QED BY <3>1, <3>2
  <2>3. QED BY <1>2, <2>1, <2>2 DEF WritesBack
<1>5. \A n \in Modules \ {m} : LeasesOf(n)' = LeasesOf(n) /\ CreationsOf(n)' = CreationsOf(n)
  BY <1>2 DEF LeasesOf, CreationsOf
<1>6. /\ IsFiniteSet(LeasesOf(m)') /\ IsFiniteSet(CreationsOf(m)')
      /\ \A b \in LeasesOf(m)' \cup CreationsOf(m)' : ~ShouldDropState(s)
  <2>1. LeasesOf(m)' \subseteq Activations /\ CreationsOf(m)' \subseteq Activations
    BY DEF LeasesOf, CreationsOf
  <2>2. IsFiniteSet(LeasesOf(m)') /\ IsFiniteSet(CreationsOf(m)')
    BY <2>1, FS_Subset, WasmAssumption
  <2>3. ShouldDropState(s) => LeasesOf(m)' = {} /\ CreationsOf(m)' = {}
    BY <2>2, FS_EmptySet DEF ShouldDropState
  <2>4. QED BY <2>2, <2>3
<1>7. \A b \in Activations : CountedNext(b)
  <2> SUFFICES ASSUME NEW b \in Activations, acts'[b].pc \in Active
               PROVE  IF acts'[b].module \in reusable
                      THEN acts'[b].state # 0 /\ acts'[b].state = poolOf'[acts'[b].module]
                      ELSE acts'[b].state = 0
    BY DEF CountedNext, Active
  <2>1. CASE acts'[b].module = m
    <3>1. acts'[b].slot # 0 <=> acts'[b].pc \in {"leased", "effect"}
      <4>1. \A x \in Activations : acts[x].slot # 0 <=> acts[x].pc \in {"leased", "effect"}
        BY <1>1 DEF ActsAreSound, ActIsSound
      <4>2. CASE b = a
        BY <1>2, <4>2
      <4>3. CASE b # a
        BY <1>2, <4>1, <4>3
      <4>4. QED BY <4>2, <4>3
    <3>2. b \in LeasesOf(m)' \cup CreationsOf(m)'
      BY <2>1, <3>1 DEF LeasesOf, CreationsOf, Active
    <3>3. poolOf'[m] = i BY <1>4, <1>6, <3>2
    <3>4. CASE b = a
      <4>1. acts'[b] = new /\ i # 0 BY <1>2, <1>3, <3>4
      <4>2. new.state = i BY <4>1
      <4>3. QED BY <2>1, <3>3, <4>1, <4>2
    <3>5. CASE b # a
      <4>1. acts[b].state # 0 /\ acts[b].state = poolOf[m]
        BY <1>1, <1>2, <2>1, <3>5 DEF ActsAreSound, ActIsSound, Active
      <4>2. QED
        <5>1. acts'[b].state = poolOf[m] /\ poolOf[m] # 0 BY <1>2, <3>5, <4>1
        <5>2. QED BY <1>3, <2>1, <3>3, <5>1
    <3>6. QED BY <3>4, <3>5
  <2>2. CASE acts'[b].module # m
    <3>1. b # a BY <1>2, <2>2
    <3>2. acts'[b] = acts[b] /\ acts[b].module \in Modules
      BY <1>1, <1>2, <3>1 DEF ActsAreSound, ActIsSound, Active
    <3>3. QED BY <1>1, <1>4, <2>2, <3>2 DEF ActsAreSound, ActIsSound, Active
  <2>3. QED BY <2>1, <2>2
<1>8. CountsAreKept'
  <2> SUFFICES ASSUME NEW n \in Modules PROVE CountsAre(n)'
    BY DEF CountsAreKept
  <2>1. CASE n = m
    BY <1>4, <2>1 DEF CountsAre, WritesBack
  <2>2. CASE n # m
    <3>1. poolOf'[n] = poolOf[n] /\ (poolOf[n] # 0 => states'[poolOf[n]] = states[poolOf[n]])
      BY <1>4, <2>2 DEF WritesBack
    <3>2. CountsAre(n) BY <1>1 DEF CountsAreKept
    <3>3. LeasesOf(n)' = LeasesOf(n) /\ CreationsOf(n)' = CreationsOf(n)
      BY <1>5, <2>2
    <3>4. QED BY <3>1, <3>2, <3>3 DEF CountsAre
  <2>3. QED BY <2>1, <2>2
<1>9. MapIsSound'
  <2>1. \A n \in Modules : poolOf'[n] # 0 => n \in reusable'
    BY <1>1, <1>4 DEF MapIsSound
  <2>2. \A n, k \in Modules : poolOf'[n] = poolOf'[k] /\ poolOf'[n] # 0 => n = k
    <3>1. \A n, k \in Modules : poolOf[n] = poolOf[k] /\ poolOf[n] # 0 => n = k
      BY <1>1 DEF MapIsSound
    <3>2. QED BY <1>4, <3>1
  <2>3. \A j \in Indices' : (\A n \in Modules : poolOf'[n] # j) => states'[j].idle = << >>
    <3> SUFFICES ASSUME NEW j \in Indices', \A n \in Modules : poolOf'[n] # j
                 PROVE  states'[j].idle = << >>
      OBVIOUS
    <3>1. CASE j = i
      BY <1>2, <1>4, <3>1 DEF WritesBack, ShouldDropState
    <3>2. CASE j # i
      <4>1. j \in Indices /\ states'[j] = states[j] BY <3>2 DEF WritesBack
      <4>2. \A n \in Modules : poolOf[n] # j
        <5>1. poolOf[m] # j
          <6>1. j # 0 /\ (poolOf[m] # 0 => poolOf[m] # j) BY <1>3, <3>2, <4>1
          <6>2. QED BY <6>1
        <5>2. \A n \in Modules \ {m} : poolOf[n] # j BY <1>4
        <5>3. QED BY <5>1, <5>2
      <4>3. QED BY <1>1, <4>1, <4>2 DEF MapIsSound
    <3>3. QED BY <3>1, <3>2
  <2>4. QED BY <2>1, <2>2, <2>3 DEF MapIsSound
<1>10. QED BY <1>7, <1>8, <1>9

(* A step that leaves the pool alone, and no module's leases change. *)
LEMMA PoolRests ==
  ASSUME PoolInv, UNCHANGED <<reusable, poolOf, states>>,
         \A m \in reusable : LeasesOf(m)' = LeasesOf(m) /\ CreationsOf(m)' = CreationsOf(m)
  PROVE  MapIsSound' /\ CountsAreKept'
<1>1. MapIsSound /\ CountsAreKept BY DEF PoolInv
<1>2. MapIsSound' BY <1>1 DEF MapIsSound, Indices
<1>3. ASSUME NEW m \in Modules PROVE CountsAre(m)'
  <2>1. CountsAre(m) /\ (poolOf[m] # 0 => m \in reusable)
    BY <1>1 DEF CountsAreKept, MapIsSound
  <2>2. QED BY <2>1 DEF CountsAre
<1>4. QED BY <1>2, <1>3 DEF CountsAreKept

----------------------------------------
(* Instances. *)

(* What is offered was offered before, at the same place. *)
IdleKept ==
  \A i \in Indices' : \A k \in Places(i)' :
    i \in Indices /\ k \in Places(i) /\ states'[i].idle[k] = states[i].idle[k]

(* What lies idle stays offered once when nothing new is offered. *)
LEMMA OffersShrink ==
  ASSUME PoolInv, IdleKept,
         \A b \in Activations : acts'[b].slot = acts[b].slot \/ acts'[b].slot \notin 1..slots,
         \A x \in trapped' : x \in trapped \/ \E b \in Activations : x = acts[b].slot
  PROVE  OfferedOnce'
<1>1. OfferedOnce /\ StatesTyped BY TypeParts DEF PoolInv
<1>2. \A i \in Indices : \A k \in Places(i) : states[i].idle[k] \in 1..slots
  <2> SUFFICES ASSUME NEW i \in Indices, NEW k \in Places(i) PROVE states[i].idle[k] \in 1..slots
    OBVIOUS
  <2>1. states[i] \in UsesUpTo(slots) BY <1>1 DEF StatesTyped, Indices
  <2>2. states[i].idle \in Seq(1..slots) BY <2>1 DEF UsesUpTo
  <2>3. QED BY <2>2, ElementOfSeq DEF Places
<1>3. \A i, j \in Indices' : \A k \in Places(i)', l \in Places(j)' :
        states'[i].idle[k] = states'[j].idle[l] => i = j /\ k = l
  BY <1>1 DEF IdleKept, OfferedOnce
<1>4. ASSUME NEW i \in Indices', NEW k \in Places(i)'
      PROVE  /\ states'[i].idle[k] \notin trapped'
             /\ \A b \in Activations : acts'[b].slot # states'[i].idle[k]
  <2>1. i \in Indices /\ k \in Places(i) /\ states'[i].idle[k] = states[i].idle[k]
    BY <1>4 DEF IdleKept
  <2>2. /\ states[i].idle[k] \notin trapped /\ states[i].idle[k] \in 1..slots
        /\ \A b \in Activations : acts[b].slot # states[i].idle[k]
    BY <1>1, <1>2, <2>1 DEF OfferedOnce
  <2>3. QED BY <2>1, <2>2
<1>5. QED BY <1>3, <1>4 DEF OfferedOnce

(* What the mover must be for all to stay sound. *)
LEMMA ActsNext ==
  ASSUME PoolInv, RestTyped', NEW a \in Activations, NEW new, ActStep(a, new), reusable' = reusable,
         \A b \in Activations : CountedNext(b),
         trapped \subseteq trapped', trapped' \subseteq trapped \cup {acts[a].slot},
         new.slot # 0 <=> new.pc \in {"leased", "effect"}, new.slot \notin trapped',
         new.module \in Modules, new.pc \notin {"new", "compiling"},
         new.slot # 0 => \A b \in Activations \ {a} : acts[b].slot # new.slot
  PROVE  ActsAreSound' /\ SlotsAreApart'
<1>1. ActsTyped /\ RestTyped /\ ActsAreSound /\ SlotsAreApart
  BY TypeParts DEF PoolInv
<1>2. acts'[a] = new /\ \A b \in Activations \ {a} : acts'[b] = acts[b]
  BY <1>1 DEF ActStep, ActsTyped
<1>3. SlotsAreApart' BY <1>1, <1>2 DEF SlotsAreApart
<1>4. ASSUME NEW b \in Activations \ {a} PROVE acts[b].slot \notin trapped'
  <2>1. 0 \notin trapped' /\ acts[b].slot \notin trapped
    BY <1>1 DEF RestTyped, ActsAreSound, ActIsSound
  <2>2. CASE acts[a].slot = acts[b].slot
    BY <1>1, <2>1, <2>2 DEF SlotsAreApart
  <2>3. QED BY <2>1, <2>2
<1>5. ASSUME NEW b \in Activations PROVE ActIsSound(b)'
  <2>1. CASE b = a
    BY <1>2, <2>1 DEF ActIsSound, CountedNext
  <2>2. CASE b # a
    <3>1. acts'[b] = acts[b] /\ ActIsSound(b) /\ acts[b].slot \notin trapped'
      BY <1>1, <1>2, <1>4, <2>2 DEF ActsAreSound
    <3>2. CountedNext(b) OBVIOUS
    <3>3. QED BY <3>1, <3>2 DEF ActIsSound, CountedNext
  <2>3. QED BY <2>1, <2>2
<1>6. QED BY <1>3, <1>5 DEF ActsAreSound

(* A step that leaves the module cache alone. *)
LEMMA CompilesRest ==
  ASSUME CompilesAreSound, UNCHANGED <<entries, compiles, clears>>
  PROVE  CompilesAreSound'
BY DEF CompilesAreSound, EntryIsPending, EpochsArePast, OneCompilationAtATime

(* What a compilation of the cache is. *)
LEMMA CompilationsTyped ==
  ASSUME CompilesTyped, NEW c \in 1..Len(compiles)
  PROVE  /\ compiles[c] \in Compilations
         /\ compiles[c].module \in Modules /\ compiles[c].epoch \in Nat
<1>1. compiles[c] \in Compilations BY ElementOfSeq DEF CompilesTyped
<1>2. QED BY <1>1, WasmAssumption DEF Compilations

----------------------------------------
(* Steps of one activation that leave the pool alone. *)

(* An activation that keeps its instance, its module and its state. *)
LEMMA ActMoves ==
  ASSUME PoolInv, NEW a \in Activations, NEW new, ActStep(a, new),
         UNCHANGED <<reusable, entries, compiles, poolOf, states, slots, trapped, clears>>,
         faults' \in 0..MaxFaults,
         new \in ActsUpTo(Len(compiles), Len(states), slots),
         new.slot = acts[a].slot, new.module = acts[a].module, new.state = acts[a].state,
         new.slot # 0 <=> new.pc \in {"leased", "effect"},
         acts[a].pc # "new", new.pc \notin {"new", "compiling"},
         (new.pc = "creating" <=> acts[a].pc = "creating") \/ acts[a].module \notin reusable,
         (acts[a].pc \in Active) \/ (new.pc \in Active => acts[a].module \notin reusable /\ acts[a].state = 0)
  PROVE  PoolInv'
<1>1. /\ CompilesTyped /\ StatesTyped /\ ActsTyped /\ RestTyped
      /\ ActsAreSound /\ SlotsAreApart /\ MapIsSound /\ CountsAreKept /\ CompilesAreSound
  BY TypeParts DEF PoolInv
<1>2. acts'[a] = new /\ \A b \in Activations \ {a} : acts'[b] = acts[b]
  BY <1>1 DEF ActStep, ActsTyped
<1>3. CompilesTyped' /\ StatesTyped' /\ RestTyped'
  BY <1>1 DEF CompilesTyped, StatesTyped, RestTyped, UsesUpTo, Compilations
<1>4. ActsTyped'
  <2>1. compiles' \in Seq(Compilations) /\ states' \in Seq(UsesUpTo(slots')) /\ slots' \in Nat
    BY <1>1 DEF CompilesTyped, StatesTyped, RestTyped
  <2>2. Len(compiles) <= Len(compiles') /\ Len(states) <= Len(states') /\ slots <= slots'
    BY <2>1
  <2>3. QED BY <1>1, <2>1, <2>2, ActsTypedNext
<1>5. WasmTypeOK' BY <1>3, <1>4, TypePartsNext
<1>6. \A m \in reusable : LeasesOf(m)' = LeasesOf(m) /\ CreationsOf(m)' = CreationsOf(m)
  BY <1>2 DEF LeasesOf, CreationsOf
<1>7. MapIsSound' /\ CountsAreKept' BY <1>6, PoolRests
<1>8. ASSUME NEW b \in Activations PROVE CountedNext(b)
  <2>1. ActIsSound(b) /\ ActIsSound(a) BY <1>1 DEF ActsAreSound
  <2>2. CASE b = a
    BY <1>2, <2>1, <2>2 DEF ActIsSound, CountedNext, Active
  <2>3. CASE b # a
    BY <1>2, <2>1, <2>3 DEF ActIsSound, CountedNext
  <2>4. QED BY <2>2, <2>3
<1>9. ActsAreSound' /\ SlotsAreApart'
  <2>1. ActIsSound(a) /\ \A b \in Activations \ {a} : new.slot # 0 => acts[b].slot # new.slot
    BY <1>1 DEF ActsAreSound, SlotsAreApart
  <2>2. new.slot \notin trapped' /\ new.module \in Modules
    BY <2>1 DEF ActIsSound
  <2>3. QED BY <1>3, <1>8, <2>1, <2>2, ActsNext
<1>10. OfferedOnce'
  <2>1. IdleKept BY DEF IdleKept, Indices, Places
  <2>2. \A b \in Activations : acts'[b].slot = acts[b].slot BY <1>2
  <2>3. QED BY <2>1, <2>2, OffersShrink
<1>11. CompilesAreSound' BY <1>1, CompilesRest
<1>12. QED BY <1>5, <1>7, <1>9, <1>10, <1>11 DEF PoolInv

(* The awaited module failed to compile. *)
LEMMA ModuleFailedStep ==
  ASSUME PoolInv, NEW a \in Activations, ModuleFailed(a)
  PROVE  PoolInv'
<1> DEFINE new == [acts[a] EXCEPT !.pc = "failed"]
<1>1. /\ acts[a] \in ActsUpTo(Len(compiles), Len(states), slots)
      /\ ActIsSound(a) /\ RestTyped
  BY TypeParts DEF PoolInv, ActsTyped, ActsAreSound
<1>2. /\ new \in ActsUpTo(Len(compiles), Len(states), slots)
      /\ new.slot = acts[a].slot /\ new.module = acts[a].module /\ new.state = acts[a].state
      /\ new.pc = "failed" /\ acts[a].pc = "compiling"
  BY <1>1 DEF ModuleFailed, ActsUpTo
<1>3. new.slot # 0 <=> new.pc \in {"leased", "effect"}
  BY <1>1, <1>2 DEF ActIsSound
<1>4. /\ faults' \in 0..MaxFaults /\ ActStep(a, new)
      /\ UNCHANGED <<reusable, entries, compiles, poolOf, states, slots, trapped, clears>>
  BY <1>1 DEF ModuleFailed, RestTyped
<1> HIDE DEF new
<1>5. QED BY <1>2, <1>3, <1>4, ActMoves DEF Active

(* A module that may not reuse gets an instance of its own. *)
LEMMA OneShotStep ==
  ASSUME PoolInv, NEW a \in Activations, AcquireOneShot(a)
  PROVE  PoolInv'
<1> DEFINE new == [acts[a] EXCEPT !.pc = "creating"]
<1>1. /\ acts[a] \in ActsUpTo(Len(compiles), Len(states), slots)
      /\ ActIsSound(a) /\ RestTyped
  BY TypeParts DEF PoolInv, ActsTyped, ActsAreSound
<1>2. /\ new \in ActsUpTo(Len(compiles), Len(states), slots)
      /\ new.slot = acts[a].slot /\ new.module = acts[a].module /\ new.state = acts[a].state
      /\ new.pc = "creating" /\ acts[a].pc = "compiling" /\ acts[a].module \notin reusable
  BY <1>1 DEF AcquireOneShot, ReadyToRun, ActsUpTo
<1>3. /\ new.slot # 0 <=> new.pc \in {"leased", "effect"}
      /\ acts[a].state = 0
  BY <1>1, <1>2 DEF ActIsSound
<1>4. /\ faults' \in 0..MaxFaults /\ ActStep(a, new)
      /\ UNCHANGED <<reusable, entries, compiles, poolOf, states, slots, trapped, clears>>
  BY <1>1 DEF AcquireOneShot, RestTyped
<1> HIDE DEF new
<1>5. QED BY <1>2, <1>3, <1>4, ActMoves DEF Active

(* An activation suspends for a host effect. *)
LEMMA SuspendsStep ==
  ASSUME PoolInv, NEW a \in Activations, Suspends(a)
  PROVE  PoolInv'
<1> DEFINE new == [acts[a] EXCEPT !.pc = "effect", !.child = 0, !.resumptions = @ + 1]
<1>1. /\ acts[a] \in ActsUpTo(Len(compiles), Len(states), slots)
      /\ ActIsSound(a) /\ RestTyped
  BY TypeParts DEF PoolInv, ActsTyped, ActsAreSound
<1>2. acts[a].resumptions + 1 \in 0..MaxResumptions
  BY <1>1, WasmAssumption DEF ActsUpTo, Suspends
<1>3. /\ new \in ActsUpTo(Len(compiles), Len(states), slots)
      /\ new.slot = acts[a].slot /\ new.module = acts[a].module /\ new.state = acts[a].state
      /\ new.pc = "effect" /\ acts[a].pc = "leased"
  BY <1>1, <1>2 DEF Suspends, ActsUpTo
<1>4. new.slot # 0 <=> new.pc \in {"leased", "effect"}
  BY <1>1, <1>3 DEF ActIsSound
<1>5. /\ faults' \in 0..MaxFaults /\ ActStep(a, new)
      /\ UNCHANGED <<reusable, entries, compiles, poolOf, states, slots, trapped, clears>>
  BY <1>1 DEF Suspends, RestTyped
<1> HIDE DEF new
<1>6. QED BY <1>3, <1>4, <1>5, ActMoves DEF Active

(* The effect it waits for is done. *)
LEMMA EffectDoneStep ==
  ASSUME PoolInv, NEW a \in Activations, EffectDone(a)
  PROVE  PoolInv'
<1> DEFINE new == [acts[a] EXCEPT !.pc = "leased"]
<1>1. /\ acts[a] \in ActsUpTo(Len(compiles), Len(states), slots)
      /\ ActIsSound(a) /\ RestTyped
  BY TypeParts DEF PoolInv, ActsTyped, ActsAreSound
<1>2. /\ new \in ActsUpTo(Len(compiles), Len(states), slots)
      /\ new.slot = acts[a].slot /\ new.module = acts[a].module /\ new.state = acts[a].state
      /\ new.pc = "leased" /\ acts[a].pc = "effect"
  BY <1>1 DEF EffectDone, ActsUpTo
<1>3. new.slot # 0 <=> new.pc \in {"leased", "effect"}
  BY <1>1, <1>2 DEF ActIsSound
<1>4. /\ faults' \in 0..MaxFaults /\ ActStep(a, new)
      /\ UNCHANGED <<reusable, entries, compiles, poolOf, states, slots, trapped, clears>>
  BY <1>1 DEF EffectDone, RestTyped
<1> HIDE DEF new
<1>5. QED BY <1>2, <1>3, <1>4, ActMoves DEF Active

(* A tail effect is over: with its child, done or failed as the child is. *)
LEMMA TailDoneStep ==
  ASSUME PoolInv, NEW a \in Activations, TailDone(a)
  PROVE  PoolInv'
<1>1. /\ acts[a] \in ActsUpTo(Len(compiles), Len(states), slots)
      /\ ActIsSound(a) /\ RestTyped /\ acts[a].pc = "tail"
  BY TypeParts DEF PoolInv, ActsTyped, ActsAreSound, TailDone
<1>2. PICK pc \in {"done", "failed"} : Leaves(a, pc)
  <2>1. CASE acts[a].child = 0
    BY <2>1 DEF TailDone
  <2>2. CASE acts[a].child # 0
    BY <2>2 DEF TailDone, ChildOver, Over
  <2>3. QED BY <2>1, <2>2
<1> DEFINE new == [acts[a] EXCEPT !.pc = pc, !.slot = 0, !.child = IF pc = "tail" THEN 0 ELSE @]
<1>3. acts[a].slot = 0 BY <1>1 DEF ActIsSound
<1>4. /\ new \in ActsUpTo(Len(compiles), Len(states), slots)
      /\ new.slot = acts[a].slot /\ new.module = acts[a].module /\ new.state = acts[a].state
      /\ new.pc \in {"done", "failed"}
  BY <1>1, <1>3 DEF ActsUpTo
<1>5. /\ faults' \in 0..MaxFaults /\ ActStep(a, new)
      /\ UNCHANGED <<reusable, entries, compiles, poolOf, states, slots, trapped, clears>>
  BY <1>1, <1>2 DEF TailDone, RestTyped, Leaves
<1> HIDE DEF new
<1>6. QED BY <1>1, <1>3, <1>4, <1>5, ActMoves DEF Active

----------------------------------------
(* The cache of compiled modules. *)

(* Steps that touch neither activations nor the pool. *)
LEMMA CacheMoves ==
  ASSUME PoolInv, UNCHANGED <<reusable, poolOf, states, slots, trapped, acts>>,
         CompilesTyped', CompilesAreSound', faults' \in 0..MaxFaults, clears' \in 0..MaxClears,
         Len(compiles') = Len(compiles)
  PROVE  PoolInv'
<1>1. /\ CompilesTyped /\ StatesTyped /\ ActsTyped /\ RestTyped
      /\ ActsAreSound /\ SlotsAreApart /\ OfferedOnce
  BY TypeParts DEF PoolInv
<1>2. StatesTyped' /\ RestTyped' /\ ActsTyped'
  BY <1>1 DEF StatesTyped, RestTyped, ActsTyped, UsesUpTo, ActsUpTo
<1>3. WasmTypeOK' BY <1>2, TypePartsNext
<1>4. ActsAreSound' /\ SlotsAreApart' /\ OfferedOnce'
  BY <1>1 DEF ActsAreSound, ActIsSound, SlotsAreApart, OfferedOnce, Indices, Places
<1>5. MapIsSound' /\ CountsAreKept' BY PoolRests DEF LeasesOf, CreationsOf
<1>6. QED BY <1>3, <1>4, <1>5 DEF PoolInv

(* A compilation settles; a failed one leaves the cache, if it is the entry. *)
LEMMA SettleStep ==
  ASSUME PoolInv, NEW c \in 1..Len(compiles), Compiled(c) \/ CompileFails(c)
  PROVE  PoolInv'
<1>1. CompilesTyped /\ RestTyped /\ CompilesAreSound BY TypeParts DEF PoolInv
<1>2. PICK o \in {"module", "error"} : compiles' = [compiles EXCEPT ![c].outcome = o]
  BY DEF Compiled, CompileFails
<1>3. /\ compiles[c] \in Compilations /\ compiles[c].outcome = "pending"
      /\ [compiles[c] EXCEPT !.outcome = o] \in Compilations
  <2>1. compiles[c] \in Compilations BY <1>1, CompilationsTyped
  <2>2. QED BY <2>1 DEF Compilations, Compiled, CompileFails
<1>4. /\ compiles' \in Seq(Compilations) /\ Len(compiles') = Len(compiles)
      /\ \A d \in 1..Len(compiles) \ {c} : compiles'[d] = compiles[d]
      /\ compiles'[c] = [compiles[c] EXCEPT !.outcome = o]
  <2>1. compiles' = [compiles EXCEPT ![c] = [compiles[c] EXCEPT !.outcome = o]]
    BY <1>2
  <2>2. QED BY <1>1, <1>3, <2>1, ExceptSeq DEF CompilesTyped
<1>5. /\ UNCHANGED <<reusable, poolOf, states, slots, trapped, acts, clears>>
      /\ faults' \in 0..MaxFaults
      /\ \/ entries' = entries
         \/ entries[compiles[c].module] = c /\ entries' = [entries EXCEPT ![compiles[c].module] = 0]
  BY <1>1, WasmAssumption DEF Compiled, CompileFails, ForgetFailed, Fault, RestTyped
<1>6. entries' \in [Modules -> 0..Len(compiles)]
  <2>1. entries \in [Modules -> 0..Len(compiles)] /\ 0 \in 0..Len(compiles)
    BY <1>1 DEF CompilesTyped
  <2>2. QED BY <1>5, <2>1
<1>7. CompilesTyped' BY <1>4, <1>6 DEF CompilesTyped, Compilations
<1>8. compiles'[c].outcome # "pending" BY <1>3, <1>4 DEF Compilations
<1>9. EntryIsPending'
  <2> SUFFICES ASSUME NEW d \in 1..Len(compiles),
                      compiles'[d].outcome = "pending", compiles'[d].epoch = clears'
               PROVE  entries'[compiles'[d].module] = d
    BY <1>4 DEF EntryIsPending
  <2>1. d # c /\ compiles'[d] = compiles[d] BY <1>4, <1>8
  <2>2. entries[compiles[d].module] = d
    BY <1>1, <1>5, <2>1 DEF CompilesAreSound, EntryIsPending
  <2>3. compiles[d].module \in Modules BY <1>1, CompilationsTyped
  <2>4. QED BY <1>1, <1>5, <2>1, <2>2, <2>3 DEF CompilesTyped
<1>10. OneCompilationAtATime'
  <2> SUFFICES ASSUME NEW d \in 1..Len(compiles), NEW e \in 1..Len(compiles),
                      compiles'[d].outcome = "pending", compiles'[e].outcome = "pending",
                      compiles'[d].module = compiles'[e].module,
                      compiles'[d].epoch = compiles'[e].epoch
               PROVE  d = e
    BY <1>4 DEF OneCompilationAtATime
  <2>1. d # c /\ e # c BY <1>8
  <2>2. compiles'[d] = compiles[d] /\ compiles'[e] = compiles[e] BY <1>4, <2>1
  <2>3. QED BY <1>1, <2>2 DEF CompilesAreSound, OneCompilationAtATime
<1>11. CompilesAreSound'
  <2>1. \A d \in 1..Len(compiles) : compiles'[d].epoch = compiles[d].epoch
    BY <1>3, <1>4 DEF Compilations
  <2>2. EpochsArePast'
    BY <1>1, <1>4, <1>5, <2>1 DEF CompilesAreSound, EpochsArePast
  <2>3. QED BY <1>9, <1>10, <2>2 DEF CompilesAreSound
<1>12. clears' \in 0..MaxClears BY <1>1, <1>5 DEF RestTyped
<1>13. QED BY <1>4, <1>5, <1>7, <1>11, <1>12, CacheMoves

(* The module cache is cleared. *)
LEMMA ClearModulesStep ==
  ASSUME PoolInv, ClearModules
  PROVE  PoolInv'
<1>1. CompilesTyped /\ RestTyped /\ CompilesAreSound BY TypeParts DEF PoolInv
<1>2. /\ UNCHANGED <<reusable, compiles, poolOf, states, slots, trapped, acts, faults>>
      /\ clears' = clears + 1 /\ clears' \in 0..MaxClears
      /\ entries' = [m \in Modules |-> 0]
  BY <1>1, WasmAssumption DEF ClearModules, RestTyped
<1>3. CompilesTyped' BY <1>1, <1>2 DEF CompilesTyped, Compilations
<1>4. CompilesAreSound'
  BY <1>1, <1>2, CompilationsTyped
  DEF CompilesAreSound, EntryIsPending, EpochsArePast, OneCompilationAtATime, RestTyped
<1>5. QED BY <1>1, <1>2, <1>3, <1>4, CacheMoves DEF RestTyped

(* An activation starts: it awaits the entry, or a compilation of its own; *)
(* the one that activates it remembers it as its child.                    *)
LEMMA LookupStep ==
  ASSUME PoolInv, NEW a \in Activations, NEW m \in Modules, NEW others,
         NextNew(a), LookupModule(a, m, others),
         others \in [Activations -> ActsUpTo(Len(compiles), Len(states), slots)],
         others[a] = acts[a],
         \A b \in Activations : \E child \in Activations \cup {0} :
           others[b] = [acts[b] EXCEPT !.child = child]
  PROVE  PoolInv'
<1>1. /\ CompilesTyped /\ StatesTyped /\ ActsTyped /\ RestTyped
      /\ ActsAreSound /\ SlotsAreApart /\ OfferedOnce /\ CompilesAreSound
  BY TypeParts DEF PoolInv
<1>2. /\ Len(compiles) \in Nat /\ Len(compiles') \in Nat /\ Len(compiles) <= Len(compiles')
      /\ CompilesTyped' /\ entries'[m] \in 1..Len(compiles')
      /\ CompilesAreSound'
  <2>1. Len(compiles) \in Nat /\ clears \in 0..MaxClears
    BY <1>1 DEF CompilesTyped, RestTyped
  <2>2. CASE entries[m] # 0
    <3>1. UNCHANGED <<entries, compiles, clears>> BY <2>2 DEF LookupModule
    <3>2. QED BY <1>1, <2>1, <2>2, <3>1, CompilesRest DEF CompilesTyped, Compilations
  <2>3. CASE entries[m] = 0
    <3> DEFINE made == [module |-> m, outcome |-> "pending", epoch |-> clears]
    <3>1. /\ compiles' = Append(compiles, made) /\ entries' = [entries EXCEPT ![m] = Len(compiles')]
          /\ clears' = clears
      BY <2>3 DEF LookupModule
    <3>2. made \in Compilations BY <2>1 DEF Compilations
    <3>3. /\ compiles' \in Seq(Compilations) /\ Len(compiles') = Len(compiles) + 1
          /\ compiles'[Len(compiles')] = made
          /\ \A c \in 1..Len(compiles) : compiles'[c] = compiles[c]
      BY <1>1, <2>1, <3>1, <3>2, AppendProperties DEF CompilesTyped
    <3>4. entries \in [Modules -> 0..Len(compiles')] /\ entries \in [Modules -> Nat]
      BY <1>1, <2>1, <3>3 DEF CompilesTyped
    <3>5. /\ entries' \in [Modules -> 0..Len(compiles')] /\ entries'[m] = Len(compiles')
          /\ \A n \in Modules \ {m} : entries'[n] = entries[n]
      BY <2>1, <3>1, <3>3, <3>4
    <3>6. CompilesTyped' BY <3>3, <3>5 DEF CompilesTyped, Compilations
    <3>7. \A c \in 1..Len(compiles') : c \in 1..Len(compiles) \/ c = Len(compiles')
      BY <2>1, <3>3
    <3>8. EpochsArePast'
      BY <1>1, <2>1, <3>1, <3>3, <3>7 DEF CompilesAreSound, EpochsArePast
    <3>9. \A c \in 1..Len(compiles) :
            compiles[c].outcome = "pending" /\ compiles[c].epoch = clears => compiles[c].module # m
      BY <1>1, <2>3 DEF CompilesAreSound, EntryIsPending
    <3>10. EntryIsPending'
      <4> SUFFICES ASSUME NEW c \in 1..Len(compiles'),
                          compiles'[c].outcome = "pending", compiles'[c].epoch = clears
                   PROVE  entries'[compiles'[c].module] = c
        BY <3>1 DEF EntryIsPending
      <4>1. CASE c = Len(compiles')
        BY <3>3, <3>5, <4>1
      <4>2. CASE c \in 1..Len(compiles)
        <5>1. /\ compiles'[c] = compiles[c] /\ compiles[c].module # m
              /\ entries[compiles[c].module] = c
          BY <1>1, <3>3, <3>9, <4>2 DEF CompilesAreSound, EntryIsPending
        <5>2. QED BY <1>1, <3>5, <4>2, <5>1, CompilationsTyped
      <4>3. QED BY <3>7, <4>1, <4>2
    <3>11. OneCompilationAtATime'
      <4> SUFFICES ASSUME NEW c \in 1..Len(compiles'), NEW d \in 1..Len(compiles'),
                          compiles'[c].outcome = "pending", compiles'[d].outcome = "pending",
                          compiles'[c].module = compiles'[d].module,
                          compiles'[c].epoch = compiles'[d].epoch
                   PROVE  c = d
        BY DEF OneCompilationAtATime
      <4>1. CASE c = Len(compiles')
        BY <3>3, <3>7, <3>9, <4>1
      <4>2. CASE d = Len(compiles')
        BY <3>3, <3>7, <3>9, <4>2
      <4>3. CASE c \in 1..Len(compiles) /\ d \in 1..Len(compiles)
        BY <1>1, <3>3, <4>3 DEF CompilesAreSound, OneCompilationAtATime
      <4>4. QED BY <3>7, <4>1, <4>2, <4>3
    <3>12. QED BY <2>1, <3>3, <3>5, <3>6, <3>8, <3>10, <3>11 DEF CompilesAreSound
  <2>4. QED BY <2>2, <2>3
<1> DEFINE new == [others[a] EXCEPT !.pc = "compiling", !.module = m, !.compile = entries'[m]]
<1>3. /\ acts' = [others EXCEPT ![a] = new]
      /\ UNCHANGED <<reusable, poolOf, states, slots, trapped, faults, clears>>
  BY DEF LookupModule
<1>4. acts[a] \in ActsUpTo(Len(compiles), Len(states), slots) /\ acts[a].pc = "new" /\ ActIsSound(a)
  BY <1>1 DEF NextNew, ActsTyped, ActsAreSound
<1>5. /\ new \in ActsUpTo(Len(compiles'), Len(states), slots)
      /\ new.pc = "compiling" /\ new.module = m /\ new.compile # 0
      /\ new.state = 0 /\ new.slot = 0 /\ acts[a].slot = 0
  <2>1. acts[a].state = 0 /\ acts[a].slot = 0 BY <1>4 DEF ActIsSound
  <2>2. entries'[m] \in 1..Len(compiles') /\ Len(compiles) \in Nat BY <1>2
  <2>3. acts[a] \in ActsUpTo(Len(compiles'), Len(states), slots)
    BY <1>2, <1>4 DEF ActsUpTo
  <2>4. new = [acts[a] EXCEPT !.pc = "compiling", !.module = m, !.compile = entries'[m]]
    OBVIOUS
  <2>5. new \in ActsUpTo(Len(compiles'), Len(states), slots)
    <3>1. entries'[m] \in 0..Len(compiles') BY <2>2
    <3> HIDE DEF new
    <3>2. ASSUME NEW c, NEW e \in 0..c, NEW act \in ActsUpTo(c, Len(states), slots)
          PROVE  [act EXCEPT !.pc = "compiling", !.module = m, !.compile = e]
                   \in ActsUpTo(c, Len(states), slots)
      BY DEF ActsUpTo
    <3>3. QED BY <2>3, <2>4, <3>1, <3>2
  <2>6. new.pc = "compiling" /\ new.module = m /\ new.compile = entries'[m]
    BY <2>3, <2>4 DEF ActsUpTo
  <2>7. new.state = acts[a].state /\ new.slot = acts[a].slot
    BY <2>3, <2>4 DEF ActsUpTo
  <2>8. QED BY <2>1, <2>2, <2>5, <2>6, <2>7
<1>6. ActsTyped'
  <2>1. ActsUpTo(Len(compiles), Len(states), slots) \subseteq ActsUpTo(Len(compiles'), Len(states), slots)
    BY <1>2 DEF ActsUpTo
  <2>2. acts' \in [Activations -> ActsUpTo(Len(compiles'), Len(states), slots)]
    BY <1>3, <1>5, <2>1
  <2>3. QED BY <1>3, <2>2 DEF ActsTyped, ActsUpTo
<1>7. StatesTyped' /\ RestTyped'
  BY <1>1, <1>3 DEF StatesTyped, RestTyped, UsesUpTo
<1>8. WasmTypeOK' BY <1>2, <1>6, <1>7, TypePartsNext
<1>9. ASSUME NEW b \in Activations \ {a}
      PROVE  /\ acts'[b].pc = acts[b].pc /\ acts'[b].module = acts[b].module
             /\ acts'[b].state = acts[b].state /\ acts'[b].slot = acts[b].slot
             /\ acts'[b].compile = acts[b].compile
  <2>1. acts'[b] = others[b] /\ acts[b] \in ActsUpTo(Len(compiles), Len(states), slots)
    BY <1>1, <1>3 DEF ActsTyped
  <2>2. PICK child \in Activations \cup {0} : others[b] = [acts[b] EXCEPT !.child = child]
    OBVIOUS
  <2>3. QED BY <2>1, <2>2 DEF ActsUpTo
<1>10. acts'[a] = new BY <1>3
<1> HIDE DEF new
<1>11. \A b \in Activations : acts'[b].slot = acts[b].slot BY <1>5, <1>9, <1>10
<1>12. ActsAreSound'
  <2>1. ActIsSound(a)' BY <1>1, <1>3, <1>5, <1>10 DEF ActIsSound, RestTyped
  <2>2. ASSUME NEW b \in Activations \ {a} PROVE ActIsSound(b)'
    <3>1. ActIsSound(b) BY <1>1 DEF ActsAreSound
    <3>2. QED BY <1>3, <1>9, <3>1 DEF ActIsSound
  <2>3. QED BY <2>1, <2>2 DEF ActsAreSound
<1>13. SlotsAreApart' BY <1>1, <1>11 DEF SlotsAreApart
<1>14. OfferedOnce' BY <1>1, <1>3, <1>11 DEF OfferedOnce, Indices, Places
<1>15. MapIsSound' /\ CountsAreKept'
  <2>1. \A n : LeasesOf(n)' = LeasesOf(n) BY <1>5, <1>9, <1>10 DEF LeasesOf
  <2>2. \A n : CreationsOf(n)' = CreationsOf(n)
    BY <1>4, <1>5, <1>9, <1>10 DEF CreationsOf
  <2>3. QED BY <1>3, <2>1, <2>2, PoolRests
<1>16. QED BY <1>2, <1>8, <1>12, <1>13, <1>14, <1>15 DEF PoolInv

(* An activation starts. *)
LEMMA ActivateStep ==
  ASSUME PoolInv, NEW a \in Activations, NEW m \in Modules, Activate(a, m)
  PROVE  PoolInv'
<1>1. ActsTyped BY TypeParts DEF PoolInv
<1>2. acts \in [Activations -> ActsUpTo(Len(compiles), Len(states), slots)]
  BY <1>1 DEF ActsTyped
<1>3. ASSUME NEW b \in Activations
      PROVE  \E child \in Activations \cup {0} : acts[b] = [acts[b] EXCEPT !.child = child]
  <2>1. acts[b] \in ActsUpTo(Len(compiles), Len(states), slots) BY <1>2
  <2>2. acts[b] = [acts[b] EXCEPT !.child = acts[b].child] /\ acts[b].child \in Activations \cup {0}
    BY <2>1 DEF ActsUpTo
  <2>3. QED BY <2>2
<1>4. QED BY <1>2, <1>3, LookupStep DEF Activate

(* A host effect starts another activation. *)
LEMMA ActivateNestedStep ==
  ASSUME PoolInv, NEW a \in Activations, NEW m \in Modules, NEW parent \in Activations \ {a},
         ActivateNested(a, m, parent)
  PROVE  PoolInv'
<1> DEFINE others == [acts EXCEPT ![parent].child = a]
<1>1. acts \in [Activations -> ActsUpTo(Len(compiles), Len(states), slots)]
  BY TypeParts DEF PoolInv, ActsTyped
<1>2. [acts[parent] EXCEPT !.child = a] \in ActsUpTo(Len(compiles), Len(states), slots)
  BY <1>1 DEF ActsUpTo
<1>3. /\ others \in [Activations -> ActsUpTo(Len(compiles), Len(states), slots)]
      /\ others[a] = acts[a] /\ others[parent] = [acts[parent] EXCEPT !.child = a]
      /\ \A b \in Activations \ {parent} : others[b] = acts[b]
  BY <1>1, <1>2
<1>4. NextNew(a) /\ LookupModule(a, m, others) BY DEF ActivateNested
<1> HIDE DEF others
<1>5. ASSUME NEW b \in Activations
      PROVE  \E child \in Activations \cup {0} : others[b] = [acts[b] EXCEPT !.child = child]
  <2>1. CASE b = parent
    BY <1>3, <2>1
  <2>2. CASE b # parent
    <3>1. acts[b] \in ActsUpTo(Len(compiles), Len(states), slots) BY <1>1
    <3>2. acts[b] = [acts[b] EXCEPT !.child = acts[b].child] /\ acts[b].child \in Activations \cup {0}
      BY <3>1 DEF ActsUpTo
    <3>3. QED BY <1>3, <2>2, <3>2
  <2>3. QED BY <2>1, <2>2
<1>6. QED BY <1>3, <1>4, <1>5, LookupStep

----------------------------------------
(* Steps of the pool. *)

(* The bookkeeping an acquire finds, or makes, says what is leased. *)
UseIsKept(m) ==
  /\ UseAt(StateFor(m)) \in UsesUpTo(slots)
  /\ UseAt(StateFor(m)).inUse = Cardinality(LeasesOf(m))
  /\ UseAt(StateFor(m)).creating = Cardinality(CreationsOf(m))
  /\ Len(UseAt(StateFor(m)).idle) <= MaxIdle

(* What stateFor() answers is counted right, new or not. *)
LEMMA UsesAreKept ==
  ASSUME PoolInv, NEW m \in reusable
  PROVE  UseIsKept(m)
<1>1. /\ StatesTyped /\ ActsTyped /\ RestTyped /\ ActsAreSound /\ MapIsSound /\ CountsAreKept
      /\ m \in Modules
  BY TypeParts DEF PoolInv, RestTyped
<1>2. poolOf[m] \in 0..Len(states) /\ Len(states) \in Nat
  BY <1>1 DEF StatesTyped
<1>3. CASE poolOf[m] # 0
  <2>1. StateFor(m) = poolOf[m] /\ UseAt(StateFor(m)) = states[poolOf[m]]
    BY <1>2, <1>3 DEF StateFor, HasState, UseAt
  <2>2. states[poolOf[m]] \in UsesUpTo(slots)
    BY <1>1, <1>2, <1>3, ElementOfSeq DEF StatesTyped
  <2>3. CountsAre(m) BY <1>1 DEF CountsAreKept
  <2>4. QED BY <1>3, <2>1, <2>2, <2>3 DEF CountsAre, UseIsKept
<1>4. CASE poolOf[m] = 0
  <2>1. UseAt(StateFor(m)) = NoUse BY <1>2, <1>4 DEF StateFor, HasState, UseAt
  <2>2. LeasesOf(m) = {} /\ CreationsOf(m) = {}
    BY <1>1, <1>4 DEF LeasesOf, CreationsOf, ActsAreSound, ActIsSound
  <2>3. NoUse \in UsesUpTo(slots) /\ NoUse.inUse = 0 /\ NoUse.creating = 0 /\ Len(NoUse.idle) = 0
    BY EmptySeq DEF NoUse, UsesUpTo
  <2>4. QED BY <2>1, <2>2, <2>3, FS_EmptySet, WasmAssumption DEF UseIsKept
<1>5. QED BY <1>2, <1>3, <1>4

(* A step of one activation through the bookkeeping of its module. *)
LEMMA PoolMoves ==
  ASSUME PoolInv, NEW a \in Activations, NEW m \in reusable, NEW i, NEW s, NEW new,
         ActStep(a, new), acts[a].module = m, new.module = m,
         UNCHANGED <<reusable, entries, compiles, clears>>,
         faults' \in 0..MaxFaults, slots' \in Nat, slots <= slots', trapped' \subseteq 1..slots',
         trapped \subseteq trapped', trapped' \subseteq trapped \cup {acts[a].slot},
         WritesBack(m, i, s),
         s.inUse = Cardinality(LeasesOf(m)'), s.creating = Cardinality(CreationsOf(m)'),
         Len(s.idle) <= MaxIdle,
         new \in ActsUpTo(Len(compiles), Len(states'), slots'),
         new.slot # 0 <=> new.pc \in {"leased", "effect"}, new.slot \notin trapped',
         new.slot # 0 => \A b \in Activations \ {a} : acts[b].slot # new.slot,
         new.pc \notin {"new", "compiling"}, new.pc \in Active => new.state = i,
         OfferedOnce'
  PROVE  PoolInv'
<1>1. CompilesTyped /\ StatesTyped /\ ActsTyped /\ RestTyped /\ CompilesAreSound
  BY TypeParts DEF PoolInv
<1>2. RestTyped' BY <1>1 DEF RestTyped
<1>3. /\ states' \in Seq(UsesUpTo(slots')) /\ Len(states) \in Nat /\ Len(states') \in Nat
      /\ Len(states) <= Len(states') /\ i \in 1..Len(states')
  <2>1. states' \in Seq(UsesUpTo(slots')) /\ Len(states) \in Nat /\ Len(states') \in Nat
    BY <1>1 DEF WritesBack, StatesTyped
  <2>2. Indices \subseteq Indices' /\ i \in Indices' BY DEF WritesBack
  <2>3. CASE Len(states) = 0
    BY <2>1, <2>2, <2>3 DEF Indices
  <2>4. CASE Len(states) # 0
    <3>1. Len(states) \in Indices' BY <2>1, <2>2, <2>4 DEF Indices
    <3>2. QED BY <2>1, <2>2, <3>1 DEF Indices
  <2>5. QED BY <2>3, <2>4
<1>4. StatesTyped'
  <2>1. poolOf \in [Modules -> 0..Len(states')] BY <1>1, <1>3 DEF StatesTyped
  <2>2. poolOf' \in [Modules -> 0..Len(states')]
    <3>1. PICK kept \in {0, i} : poolOf' = [poolOf EXCEPT ![m] = kept]
      BY DEF WritesBack
    <3>2. kept \in 0..Len(states') BY <1>3
    <3>3. QED BY <2>1, <3>1, <3>2
  <2>3. QED BY <1>3, <2>2 DEF StatesTyped, UsesUpTo
<1>5. CompilesTyped' BY <1>1 DEF CompilesTyped, Compilations
<1>6. ActsTyped'
  <2>1. compiles' = compiles /\ compiles' \in Seq(Compilations) /\ Len(compiles) <= Len(compiles')
    BY <1>1 DEF CompilesTyped
  <2>2. QED BY <1>1, <1>3, <2>1, ActsTypedNext
<1>7. WasmTypeOK' BY <1>2, <1>4, <1>5, <1>6, TypePartsNext
<1>8. MapIsSound' /\ CountsAreKept' /\ \A b \in Activations : CountedNext(b)
  BY PoolStep
<1>9. new.module \in Modules BY <1>1 DEF RestTyped
<1>10. ActsAreSound' /\ SlotsAreApart' BY <1>2, <1>8, <1>9, ActsNext
<1>11. CompilesAreSound' BY <1>1, CompilesRest
<1>12. QED BY <1>7, <1>8, <1>10, <1>11 DEF PoolInv

(* The write of bookkeeping that is in the map, to what it becomes. *)
LEMMA WritesInMap ==
  ASSUME PoolInv, NEW m \in reusable, poolOf[m] # 0, NEW s,
         slots' \in Nat, slots <= slots', s \in UsesUpTo(slots'),
         states' = [states EXCEPT ![poolOf[m]] = s],
         poolOf' = [poolOf EXCEPT ![m] = IF ShouldDropState(s) THEN 0 ELSE poolOf[m]]
  PROVE  /\ WritesBack(m, poolOf[m], s) /\ Len(states') = Len(states)
         /\ poolOf[m] \in 1..Len(states) /\ Indices' = Indices
<1>1. StatesTyped /\ m \in Modules /\ slots \in Nat
  BY TypeParts DEF PoolInv, RestTyped
<1>2. poolOf[m] \in 1..Len(states) BY <1>1 DEF StatesTyped
<1>3. states \in Seq(UsesUpTo(slots'))
  <2>1. Seq(1..slots) \subseteq Seq(1..slots')
    BY <1>1, 1..slots \subseteq 1..slots'
  <2>2. UsesUpTo(slots) \subseteq UsesUpTo(slots') BY <2>1 DEF UsesUpTo
  <2>3. QED BY <1>1, <2>2, SeqMonotonic DEF StatesTyped
<1>4. /\ states' \in Seq(UsesUpTo(slots')) /\ Len(states') = Len(states)
      /\ \A j \in 1..Len(states) : states'[j] = IF j = poolOf[m] THEN s ELSE states[j]
  BY <1>2, <1>3, ExceptSeq
<1>5. StateFor(m) = poolOf[m] BY DEF StateFor, HasState
<1>6. QED BY <1>2, <1>4, <1>5 DEF WritesBack, Indices

(* Front and Last of what lies idle. *)
LEMMA FrontAndLast ==
  ASSUME NEW S, NEW q \in Seq(S), q # << >>
  PROVE  /\ Front(q) \in Seq(S) /\ Len(Front(q)) = Len(q) - 1 /\ Len(q) \in Nat \ {0}
         /\ \A k \in 1..(Len(q) - 1) : Front(q)[k] = q[k]
         /\ Last(q) = q[Len(q)] /\ Last(q) \in S
<1>1. Len(q) \in Nat \ {0} BY EmptySeq
<1>2. Front(q) = SubSeq(q, 1, Len(q) - 1) BY DEF Front
<1>3. /\ Front(q) \in Seq(S) /\ Len(Front(q)) = Len(q) - 1
      /\ \A k \in 1..(Len(q) - 1) : Front(q)[k] = q[k]
  <2>1. \A k \in 1..(Len(q) - 1) : q[k] \in S BY <1>1, ElementOfSeq
  <2>2. 1 \in Int /\ Len(q) - 1 \in Int BY <1>1
  <2>3. /\ SubSeq(q, 1, Len(q) - 1) \in Seq(S)
        /\ Len(SubSeq(q, 1, Len(q) - 1)) = IF 1 <= Len(q) - 1 THEN Len(q) - 1 - 1 + 1 ELSE 0
        /\ \A k \in 1..(Len(q) - 1 - 1 + 1) : SubSeq(q, 1, Len(q) - 1)[k] = q[1 + k - 1]
    BY <2>1, <2>2, SubSeqProperties
  <2>4. \A k \in 1..(Len(q) - 1) : 1 + k - 1 = k OBVIOUS
  <2>5. Len(q) - 1 - 1 + 1 = Len(q) - 1 BY <1>1
  <2>6. QED BY <1>1, <1>2, <2>3, <2>4, <2>5
<1>4. Last(q) = q[Len(q)] /\ Last(q) \in S BY <1>1, ElementOfSeq DEF Last
<1>5. QED BY <1>1, <1>3, <1>4

(* What the pool holds for one state, field by field. *)
Use(q, x, y) == [idle |-> q, inUse |-> x, creating |-> y]
UsesOf(Q, X, Y) == [idle : Q, inUse : X, creating : Y]

(* The fields of a bookkeeping. *)
LEMMA UseFields ==
  ASSUME NEW q, NEW x, NEW y
  PROVE  /\ Use(q, x, y) \in UsesOf({q}, {x}, {y}) /\ Use(q, x, y).idle = q
         /\ Use(q, x, y).inUse = x /\ Use(q, x, y).creating = y
BY DEF Use, UsesOf

(* One field changed. *)
LEMMA IdleUpdate ==
  ASSUME NEW Q, NEW X, NEW Y, NEW u \in UsesOf(Q, X, Y), NEW new
  PROVE  [u EXCEPT !.idle = new] = Use(new, u.inUse, u.creating)
BY DEF Use, UsesOf

(* The same for the leases. *)
LEMMA InUseUpdate ==
  ASSUME NEW Q, NEW X, NEW Y, NEW u \in UsesOf(Q, X, Y), NEW new
  PROVE  [u EXCEPT !.inUse = new] = Use(u.idle, new, u.creating)
BY DEF Use, UsesOf

(* The same for the creations. *)
LEMMA CreatingUpdate ==
  ASSUME NEW Q, NEW X, NEW Y, NEW u \in UsesOf(Q, X, Y), NEW new
  PROVE  [u EXCEPT !.creating = new] = Use(u.idle, u.inUse, new)
BY DEF Use, UsesOf

(* The bookkeeping after an acquire, an instantiation and a release. *)
LEMMA UseTaken ==
  ASSUME NEW n, NEW u \in UsesUpTo(n)
  PROVE  Taken(u) = Use(Front(u.idle), u.inUse + 1, u.creating)
<1> DEFINE v == [u EXCEPT !.idle = Front(u.idle)]
<1>1. u \in UsesOf(Seq(1..n), Nat, Nat) BY DEF UsesUpTo, UsesOf
<1>2. v = Use(Front(u.idle), u.inUse, u.creating) BY <1>1, IdleUpdate
<1>3. /\ v \in UsesOf({Front(u.idle)}, {u.inUse}, {u.creating})
      /\ v.idle = Front(u.idle) /\ v.creating = u.creating
  BY <1>2, UseFields
<1>4. Taken(u) = [v EXCEPT !.inUse = u.inUse + 1] BY <1>1 DEF Taken
<1> HIDE DEF v
<1>5. [v EXCEPT !.inUse = u.inUse + 1] = Use(v.idle, u.inUse + 1, v.creating)
  BY <1>3, InUseUpdate
<1>6. QED BY <1>3, <1>4, <1>5

(* An instantiation begins. *)
LEMMA UseCreating ==
  ASSUME NEW n, NEW u \in UsesUpTo(n), NEW y
  PROVE  [u EXCEPT !.creating = y] = Use(u.idle, u.inUse, y)
<1>1. u \in UsesOf(Seq(1..n), Nat, Nat) BY DEF UsesUpTo, UsesOf
<1>2. QED BY <1>1, CreatingUpdate

(* An instantiation ends with an instance. *)
LEMMA UseInstantiated ==
  ASSUME NEW n, NEW u \in UsesUpTo(n)
  PROVE  Instantiated(u) = Use(u.idle, u.inUse + 1, u.creating - 1)
<1>y. PICK y : y = u.creating - 1
  OBVIOUS
<1> DEFINE v == [u EXCEPT !.creating = y]
<1>1. u \in UsesOf(Seq(1..n), Nat, Nat) BY DEF UsesUpTo, UsesOf
<1>2. v = Use(u.idle, u.inUse, y) BY UseCreating
<1>3. v \in UsesOf({u.idle}, {u.inUse}, {y}) /\ v.idle = u.idle /\ v.creating = y
  BY <1>2, UseFields
<1>4. Instantiated(u) = [v EXCEPT !.inUse = u.inUse + 1]
  BY <1>y, <1>1 DEF Instantiated
<1> HIDE DEF v
<1>5. [v EXCEPT !.inUse = u.inUse + 1] = Use(v.idle, u.inUse + 1, v.creating)
  BY <1>3, InUseUpdate
<1>6. QED BY <1>y, <1>3, <1>4, <1>5

(* An instance is given back. *)
LEMMA UseReleased ==
  ASSUME NEW n, NEW u \in UsesUpTo(n), NEW q
  PROVE  [u EXCEPT !.inUse = @ - 1, !.idle = q] = Use(q, u.inUse - 1, u.creating)
<1> DEFINE v == [u EXCEPT !.inUse = u.inUse - 1]
<1>1. u \in UsesOf(Seq(1..n), Nat, Nat) BY DEF UsesUpTo, UsesOf
<1>2. v = Use(u.idle, u.inUse - 1, u.creating) BY <1>1, InUseUpdate
<1>3. /\ v \in UsesOf({u.idle}, {u.inUse - 1}, {u.creating})
      /\ v.inUse = u.inUse - 1 /\ v.creating = u.creating
  BY <1>2, UseFields
<1>4. [u EXCEPT !.inUse = @ - 1, !.idle = q] = [v EXCEPT !.idle = q] OBVIOUS
<1> HIDE DEF v
<1>5. [v EXCEPT !.idle = q] = Use(q, v.inUse, v.creating) BY <1>3, IdleUpdate
<1>6. QED BY <1>3, <1>4, <1>5

(* The types of a bookkeeping's fields. *)
LEMMA UseTyped ==
  ASSUME NEW n, NEW u \in UsesUpTo(n)
  PROVE  u.idle \in Seq(1..n) /\ u.inUse \in Nat /\ u.creating \in Nat
BY DEF UsesUpTo

(* A bookkeeping of typed fields is typed. *)
LEMMA UseTypes ==
  ASSUME NEW n, NEW q \in Seq(1..n), NEW x \in Nat, NEW y \in Nat
  PROVE  Use(q, x, y) \in UsesUpTo(n)
BY DEF UsesUpTo, Use

(* A count that follows one activation. *)
Moved(x, y, was, is) ==
  /\ (was <=> is) => y = x
  /\ ~was /\ is => y = x + 1
  /\ was /\ ~is => y = x - 1

(* Counts that follow the step of one activation stay right. *)
LEMMA CountsMoved ==
  ASSUME PoolInv, NEW a \in Activations, NEW m \in reusable, NEW new,
         ActStep(a, new), acts[a].module = m, new.module = m,
         NEW u, u = UseAt(StateFor(m)), NEW s,
         Moved(u.inUse, s.inUse, acts[a].slot # 0, new.slot # 0),
         Moved(u.creating, s.creating, acts[a].pc = "creating", new.pc = "creating")
  PROVE  s.inUse = Cardinality(LeasesOf(m)') /\ s.creating = Cardinality(CreationsOf(m)')
<1>1. /\ Counts(LeasesOf(m), LeasesOf(m)', LeasedIn(acts[a], m), LeasedIn(new, m))
      /\ Counts(CreationsOf(m), CreationsOf(m)', CreatesIn(acts[a], m), CreatesIn(new, m))
  BY TypeParts, LeasesMove DEF PoolInv
<1>2. u.inUse = Cardinality(LeasesOf(m)) /\ u.creating = Cardinality(CreationsOf(m))
  BY UsesAreKept DEF UseIsKept
<1>3. s.inUse = Cardinality(LeasesOf(m)')
  BY <1>1, <1>2 DEF Counts, Moved, LeasedIn
<1>4. s.creating = Cardinality(CreationsOf(m)')
  BY <1>1, <1>2 DEF Counts, Moved, CreatesIn
<1>5. QED BY <1>3, <1>4

(* The places of the next state: those of the bookkeeping that was written *)
(* and those of the others, which stay.                                    *)
LEMMA PlacesNext ==
  ASSUME PoolInv, NEW m \in reusable, NEW i, NEW s, WritesBack(m, i, s)
  PROVE  /\ i \in Nat \ {0} /\ (i \in Indices => UseAt(i) = states[i])
         /\ i \notin Indices => UseAt(i) = NoUse
         /\ states'[i] = s /\ Places(i)' = 1..Len(s.idle)
         /\ \A j \in Indices' \ {i} : j \in Indices /\ states'[j] = states[j] /\ Places(j)' = Places(j)
<1>1. StatesTyped /\ m \in Modules BY TypeParts DEF PoolInv, RestTyped
<1>2. Len(states) \in Nat /\ poolOf[m] \in 0..Len(states)
  BY <1>1 DEF StatesTyped
<1>3. i \in Nat \ {0} /\ (i \in Indices <=> i <= Len(states))
  BY <1>2 DEF WritesBack, StateFor, HasState, Indices
<1>4. QED BY <1>3 DEF WritesBack, UseAt, Indices, Places

(* What a step withdraws from the offers, it may take. *)
LEMMA OffersWithdrawn ==
  ASSUME PoolInv, NEW a \in Activations, NEW m \in reusable, NEW i, NEW s, NEW new,
         ActStep(a, new), WritesBack(m, i, s),
         NEW u, u = UseAt(i), Len(u.idle) \in Nat, Len(s.idle) \in Nat, Len(s.idle) <= Len(u.idle),
         \A k \in 1..Len(s.idle) : s.idle[k] = u.idle[k],
         trapped' \subseteq trapped \cup {acts[a].slot},
         \/ new.slot = acts[a].slot
         \/ new.slot \notin 1..slots
         \/ \E k \in (Len(s.idle) + 1)..Len(u.idle) : new.slot = u.idle[k]
  PROVE  OfferedOnce'
<1>1. OfferedOnce /\ StatesTyped /\ ActsTyped BY TypeParts DEF PoolInv
<1>2. acts'[a] = new /\ \A b \in Activations \ {a} : acts'[b] = acts[b]
  BY <1>1 DEF ActStep, ActsTyped
<1>3. /\ states'[i] = s /\ Places(i)' = 1..Len(s.idle)
      /\ \A j \in Indices' \ {i} : j \in Indices /\ states'[j] = states[j] /\ Places(j)' = Places(j)
      /\ i \in Indices => u = states[i]
      /\ i \notin Indices => u = NoUse
  BY PlacesNext
<1>4. u.idle # << >> => i \in Indices /\ states[i] = u /\ Places(i) = 1..Len(u.idle)
  BY <1>3 DEF NoUse, Places
<1>5. IdleKept
  <2> SUFFICES ASSUME NEW j \in Indices', NEW k \in Places(j)'
               PROVE  j \in Indices /\ k \in Places(j) /\ states'[j].idle[k] = states[j].idle[k]
    BY DEF IdleKept
  <2>1. CASE j # i
    BY <1>3, <2>1
  <2>2. CASE j = i
    <3>1. k \in 1..Len(s.idle) /\ k \in 1..Len(u.idle) /\ u.idle # << >>
      BY <1>3, <2>2
    <3>2. QED BY <1>3, <1>4, <2>2, <3>1
  <2>3. QED BY <2>1, <2>2
<1>6. \A j, l \in Indices' : \A k \in Places(j)', h \in Places(l)' :
        states'[j].idle[k] = states'[l].idle[h] => j = l /\ k = h
  BY <1>1, <1>5 DEF IdleKept, OfferedOnce
<1>7. ASSUME NEW j \in Indices', NEW k \in Places(j)'
      PROVE  /\ states'[j].idle[k] \notin trapped'
             /\ \A b \in Activations : acts'[b].slot # states'[j].idle[k]
  <2>1. /\ j \in Indices /\ k \in Places(j) /\ states'[j].idle[k] = states[j].idle[k]
        /\ states[j].idle[k] \notin trapped
        /\ \A b \in Activations : acts[b].slot # states[j].idle[k]
    BY <1>1, <1>5, <1>7 DEF IdleKept, OfferedOnce
  <2>2. states[j].idle[k] \in 1..slots
    <3>1. states[j] \in UsesUpTo(slots)
      BY <1>1, <2>1, ElementOfSeq DEF StatesTyped, Indices
    <3>2. states[j].idle \in Seq(1..slots) BY <3>1 DEF UsesUpTo
    <3>3. QED BY <2>1, <3>2, ElementOfSeq DEF Places
  <2>3. new.slot # states[j].idle[k]
    <3>1. CASE new.slot = acts[a].slot \/ new.slot \notin 1..slots
      BY <2>1, <2>2, <3>1
    <3>2. CASE \E h \in (Len(s.idle) + 1)..Len(u.idle) : new.slot = u.idle[h]
      <4>1. PICK h \in (Len(s.idle) + 1)..Len(u.idle) : new.slot = u.idle[h]
        BY <3>2
      <4>2. u.idle # << >> /\ h \in 1..Len(u.idle) BY <4>1
      <4>3. i \in Indices /\ h \in Places(i) /\ new.slot = states[i].idle[h]
        BY <1>4, <4>1, <4>2
      <4>4. ~(j = i /\ k = h) BY <1>3, <1>7, <4>1
      <4>5. QED BY <1>1, <2>1, <4>3, <4>4 DEF OfferedOnce
    <3>3. QED BY <3>1, <3>2
  <2>4. QED BY <1>2, <2>1, <2>3
<1>8. QED BY <1>6, <1>7 DEF OfferedOnce

(* An instance that is given back is offered, and nobody holds it. *)
LEMMA OffersReturned ==
  ASSUME PoolInv, NEW a \in Activations, NEW m \in reusable, NEW i, NEW s, NEW new,
         ActStep(a, new), WritesBack(m, i, s),
         NEW u, u = UseAt(i), u.idle \in Seq(1..slots),
         s.idle = Append(u.idle, acts[a].slot),
         acts[a].slot # 0, new.slot = 0, trapped' = trapped
  PROVE  OfferedOnce'
<1>1. OfferedOnce /\ StatesTyped /\ ActsTyped /\ RestTyped /\ ActsAreSound /\ SlotsAreApart
  BY TypeParts DEF PoolInv
<1>2. acts'[a] = new /\ \A b \in Activations \ {a} : acts'[b] = acts[b]
  BY <1>1 DEF ActStep, ActsTyped
<1> DEFINE n == Len(u.idle)
<1>3. acts[a].slot \in 1..slots
  <2>1. acts[a] \in ActsUpTo(Len(compiles), Len(states), slots) /\ slots \in Nat
    BY <1>1 DEF ActsTyped, RestTyped
  <2>2. QED BY <2>1 DEF ActsUpTo
<1>4. /\ n \in Nat /\ Len(s.idle) = n + 1
      /\ \A k \in 1..n : s.idle[k] = u.idle[k]
      /\ s.idle[n + 1] = acts[a].slot
  BY <1>3, AppendProperties
<1>5. /\ states'[i] = s /\ Places(i)' = 1..Len(s.idle)
      /\ \A j \in Indices' \ {i} : j \in Indices /\ states'[j] = states[j] /\ Places(j)' = Places(j)
      /\ i \in Indices => u = states[i]
      /\ i \notin Indices => u = NoUse
  BY PlacesNext
<1>6. u.idle # << >> => i \in Indices /\ states[i] = u /\ Places(i) = 1..n
  BY <1>5 DEF NoUse, Places
<1> HIDE DEF n
<1>7. ASSUME NEW j \in Indices', NEW k \in Places(j)'
      PROVE  \/ j = i /\ k = n + 1 /\ states'[j].idle[k] = acts[a].slot
             \/ j \in Indices /\ k \in Places(j) /\ states'[j].idle[k] = states[j].idle[k]
  <2>1. CASE j # i
    BY <1>5, <2>1
  <2>2. CASE j = i
    <3>1. k \in 1..(n + 1) /\ states'[j] = s BY <1>4, <1>5, <2>2
    <3>2. CASE k = n + 1
      BY <1>4, <2>2, <3>1, <3>2
    <3>3. CASE k # n + 1
      <4>1. k \in 1..n BY <1>4, <3>1, <3>3
      <4>2. u.idle # << >> BY <4>1 DEF n
      <4>3. QED BY <1>4, <1>6, <2>2, <3>1, <4>1, <4>2
    <3>4. QED BY <3>2, <3>3
  <2>3. QED BY <2>1, <2>2
<1>8. \A j \in Indices : \A k \in Places(j) :
        /\ states[j].idle[k] # acts[a].slot /\ states[j].idle[k] \notin trapped
        /\ \A b \in Activations : acts[b].slot # states[j].idle[k]
  BY <1>1 DEF OfferedOnce
<1>9. ASSUME NEW j \in Indices', NEW l \in Indices', NEW k \in Places(j)', NEW h \in Places(l)',
             states'[j].idle[k] = states'[l].idle[h]
      PROVE  j = l /\ k = h
  <2>1. /\ \/ j = i /\ k = n + 1 /\ states'[j].idle[k] = acts[a].slot
           \/ j \in Indices /\ k \in Places(j) /\ states'[j].idle[k] = states[j].idle[k]
        /\ \/ l = i /\ h = n + 1 /\ states'[l].idle[h] = acts[a].slot
           \/ l \in Indices /\ h \in Places(l) /\ states'[l].idle[h] = states[l].idle[h]
    BY <1>7
  <2>2. QED BY <1>1, <1>8, <1>9, <2>1 DEF OfferedOnce
<1>10. ASSUME NEW j \in Indices', NEW k \in Places(j)'
       PROVE  /\ states'[j].idle[k] \notin trapped'
              /\ \A b \in Activations : acts'[b].slot # states'[j].idle[k]
  <2>1. CASE states'[j].idle[k] = acts[a].slot
    <3>1. acts[a].slot \notin trapped /\ \A b \in Activations \ {a} : acts[b].slot # acts[a].slot
      BY <1>1 DEF ActsAreSound, ActIsSound, SlotsAreApart
    <3>2. QED BY <1>2, <2>1, <3>1
  <2>2. CASE states'[j].idle[k] # acts[a].slot
    <3>1. j \in Indices /\ k \in Places(j) /\ states'[j].idle[k] = states[j].idle[k]
      BY <1>7, <2>2
    <3>2. states[j].idle[k] # 0
      <4>1. states[j] \in UsesUpTo(slots)
        BY <1>1, <3>1, ElementOfSeq DEF StatesTyped, Indices
      <4>2. states[j].idle \in Seq(1..slots) BY <4>1 DEF UsesUpTo
      <4>3. states[j].idle[k] \in 1..slots
        BY <3>1, <4>2, ElementOfSeq DEF Places
      <4>4. QED BY <1>1, <4>3 DEF RestTyped
    <3>3. QED BY <1>2, <1>8, <3>1, <3>2
  <2>3. QED BY <2>1, <2>2
<1>11. QED BY <1>9, <1>10 DEF OfferedOnce

(* A step of an activation whose module may reuse. *)
LEMMA PooledStep ==
  ASSUME PoolInv, NEW a \in Activations, NEW m \in reusable, NEW i, NEW s, NEW new,
         ActStep(a, new), acts[a].module = m, new.module = m,
         UNCHANGED <<reusable, entries, compiles, clears>>,
         faults' \in 0..MaxFaults, slots' \in Nat, slots <= slots', trapped' \subseteq 1..slots',
         trapped \subseteq trapped', trapped' \subseteq trapped \cup {acts[a].slot},
         WritesBack(m, i, s), NEW u, u = UseAt(i),
         Moved(u.inUse, s.inUse, acts[a].slot # 0, new.slot # 0),
         Moved(u.creating, s.creating, acts[a].pc = "creating", new.pc = "creating"),
         Len(s.idle) <= MaxIdle,
         new \in ActsUpTo(Len(compiles), Len(states'), slots'),
         new.slot # 0 <=> new.pc \in {"leased", "effect"}, new.slot \notin trapped',
         new.slot # 0 => \A b \in Activations \ {a} : acts[b].slot # new.slot,
         new.pc \notin {"new", "compiling"}, new.pc \in Active => new.state = i,
         OfferedOnce'
  PROVE  PoolInv'
<1>1. i = StateFor(m) BY DEF WritesBack
<1>2. s.inUse = Cardinality(LeasesOf(m)') /\ s.creating = Cardinality(CreationsOf(m)')
  BY <1>1, CountsMoved
<1>3. QED BY <1>2, PoolMoves

(* The bookkeeping of a module that has some in the map. *)
UseInMap(m, i, u) ==
  /\ i \in Indices /\ i = StateFor(m) /\ i = poolOf[m] /\ u = UseAt(i)
  /\ u = states[i] /\ u \in UsesUpTo(slots) /\ Len(u.idle) \in Nat /\ Len(u.idle) <= MaxIdle

(* The bookkeeping the map has for a module. *)
LEMMA InMap ==
  ASSUME PoolInv, NEW m \in reusable, poolOf[m] # 0, NEW i, i = poolOf[m]
  PROVE  UseInMap(m, i, states[i])
<1>1. StatesTyped /\ RestTyped BY TypeParts DEF PoolInv
<1>2. i \in 1..Len(states) /\ Len(states) \in Nat
  BY <1>1 DEF StatesTyped, RestTyped
<1>3. StateFor(m) = i /\ UseAt(i) = states[i]
  BY <1>2 DEF StateFor, HasState, UseAt
<1>4. UseIsKept(m) BY UsesAreKept
<1>5. states[i] \in UsesUpTo(slots) BY <1>3, <1>4 DEF UseIsKept
<1>6. Len(states[i].idle) \in Nat BY <1>5 DEF UsesUpTo
<1>7. QED BY <1>2, <1>3, <1>4, <1>5, <1>6 DEF UseInMap, UseIsKept, Indices

(* The bookkeeping of an activation that counts in one. *)
CountsIn(a, m, i, u) ==
  /\ poolOf[m] # 0 /\ UseInMap(m, i, u)
  /\ acts[a].slot # 0 => u.inUse > 0
  /\ acts[a].pc = "creating" => u.creating > 0

(* An activation with an instance is counted in its bookkeeping. *)
LEMMA CountedIn ==
  ASSUME PoolInv, NEW a \in Activations, acts[a].pc \in Active, Pooled(a),
         NEW m, m = acts[a].module, NEW i, i = acts[a].state
  PROVE  m \in reusable /\ CountsIn(a, m, i, states[i])
<1>1. ActIsSound(a) /\ StatesTyped BY TypeParts DEF PoolInv, ActsAreSound
<1>2. m \in reusable /\ i = poolOf[m] /\ i # 0
  BY <1>1 DEF ActIsSound, Active, Pooled
<1>3. UseInMap(m, i, states[i]) BY <1>2, InMap
<1>4. /\ states[i].inUse = Cardinality(LeasesOf(m))
      /\ states[i].creating = Cardinality(CreationsOf(m))
  BY <1>2, <1>3, UsesAreKept DEF UseIsKept, UseInMap
<1>5. /\ IsFiniteSet(LeasesOf(m)) /\ IsFiniteSet(CreationsOf(m))
      /\ acts[a].slot # 0 => a \in LeasesOf(m)
      /\ acts[a].pc = "creating" => a \in CreationsOf(m)
  <2>1. LeasesOf(m) \subseteq Activations /\ CreationsOf(m) \subseteq Activations
    BY DEF LeasesOf, CreationsOf
  <2>2. QED BY <2>1, FS_Subset, WasmAssumption DEF LeasesOf, CreationsOf
<1>6. acts[a].slot # 0 => Cardinality(LeasesOf(m)) > 0
  BY <1>5, FS_EmptySet, FS_CardinalityType
<1>7. acts[a].pc = "creating" => Cardinality(CreationsOf(m)) > 0
  BY <1>5, FS_EmptySet, FS_CardinalityType
<1>8. QED BY <1>2, <1>3, <1>4, <1>6, <1>7 DEF CountsIn

(* The entry of a module in the map: the one it has, or a new one. *)
LEMMA WritesAt ==
  ASSUME PoolInv, NEW m \in reusable, NEW i, i = StateFor(m), slots' = slots,
         NEW s \in UsesUpTo(slots), ~ShouldDropState(s),
         states' = WithState(i, s), poolOf' = [poolOf EXCEPT ![m] = i]
  PROVE  WritesBack(m, i, s) /\ Len(states) <= Len(states') /\ i \in 1..Len(states')
<1>1. StatesTyped /\ m \in Modules BY TypeParts DEF PoolInv, RestTyped
<1>2. Len(states) \in Nat /\ states \in Seq(UsesUpTo(slots)) /\ poolOf[m] \in 0..Len(states)
  BY <1>1 DEF StatesTyped
<1>3. CASE i <= Len(states)
  <2>1. i \in 1..Len(states) BY <1>2, <1>3 DEF StateFor, HasState
  <2>2. states' = [states EXCEPT ![i] = s] BY <1>3 DEF WithState
  <2>3. /\ states' \in Seq(UsesUpTo(slots)) /\ Len(states') = Len(states)
        /\ \A j \in 1..Len(states) : states'[j] = IF j = i THEN s ELSE states[j]
    BY <1>2, <2>1, <2>2, ExceptSeq
  <2>4. QED BY <1>2, <2>1, <2>3 DEF WritesBack, Indices
<1>4. CASE ~(i <= Len(states))
  <2>1. i = Len(states) + 1 BY <1>2, <1>4 DEF StateFor, HasState
  <2>2. states' = Append(states, s) BY <1>4 DEF WithState
  <2>3. /\ states' \in Seq(UsesUpTo(slots)) /\ Len(states') = Len(states) + 1
        /\ states'[Len(states) + 1] = s
        /\ \A j \in 1..Len(states) : states'[j] = states[j]
    BY <1>2, <2>2, AppendProperties
  <2>4. 1..Len(states') = (1..Len(states)) \cup {i} BY <1>2, <2>1, <2>3
  <2>5. QED BY <1>2, <2>1, <2>3, <2>4 DEF WritesBack, Indices
<1>5. QED BY <1>3, <1>4

(* An idle instance is leased. *)
LEMMA AcquireIdleStep ==
  ASSUME PoolInv, NEW a \in Activations, AcquireIdle(a)
  PROVE  PoolInv'
<1>m. PICK m : m = acts[a].module
  OBVIOUS
<1>i. PICK i : i = poolOf[m]
  OBVIOUS
<1>u. PICK u : u = states[i]
  OBVIOUS
<1>q. PICK q : q = u.idle
  OBVIOUS
<1>slot. PICK slot : slot = Last(q)
  OBVIOUS
<1>s. PICK s : s = Use(Front(q), u.inUse + 1, u.creating)
  OBVIOUS
<1>new. PICK new : new = [acts[a] EXCEPT !.pc = "leased", !.state = i, !.slot = slot]
  OBVIOUS
<1>1. /\ StatesTyped /\ ActsTyped /\ RestTyped /\ OfferedOnce
      /\ acts[a] \in ActsUpTo(Len(compiles), Len(states), slots) /\ ActIsSound(a)
  BY TypeParts DEF PoolInv, ActsAreSound, ActsTyped
<1>2. /\ acts[a].pc = "compiling" /\ m \in reusable /\ i # 0 /\ q # << >>
      /\ UNCHANGED <<reusable, entries, compiles, poolOf, slots, trapped, faults, clears>>
  BY <1>m, <1>i, <1>u, <1>q DEF AcquireIdle, ReadyToRun, HasState
<1>3. UseInMap(m, i, u) BY <1>i, <1>u, <1>2, InMap
<1>4. states' = [states EXCEPT ![i] = Taken(u)]
  BY <1>m, <1>i, <1>u DEF AcquireIdle
<1>5. ActStep(a, new) BY <1>m, <1>i, <1>u, <1>q, <1>slot, <1>new DEF AcquireIdle
<1>6. u \in UsesUpTo(slots) /\ Len(q) <= MaxIdle /\ UseAt(i) = u /\ i \in Indices
  BY <1>q, <1>3 DEF UseInMap
<1>7. slots \in Nat /\ q \in Seq(1..slots) /\ u.inUse \in Nat /\ u.creating \in Nat
  BY <1>q, <1>1, <1>6, UseTyped DEF RestTyped
<1>8. states' = [states EXCEPT ![i] = s]
  <2>1. Taken(u) = s BY <1>q, <1>s, <1>6, UseTaken
  <2>2. QED BY <1>4, <2>1
<1>9. Front(q) \in Seq(1..slots) /\ Len(Front(q)) = Len(q) - 1
  BY <1>2, <1>7, FrontAndLast
<1>10. Len(q) \in Nat /\ Len(q) > 0 BY <1>2, <1>7, FrontAndLast
<1>11. \A k \in 1..(Len(q) - 1) : Front(q)[k] = q[k] BY <1>2, <1>7, FrontAndLast
<1>12. slot = q[Len(q)] /\ slot \in 1..slots
  BY <1>slot, <1>2, <1>7, FrontAndLast
<1>13. s.idle = Front(q) /\ s.inUse = u.inUse + 1 /\ s.creating = u.creating
  BY <1>s DEF Use
<1>14. s \in UsesUpTo(slots) BY <1>s, <1>7, <1>9, UseTypes
<1>15. /\ new \in ActsUpTo(Len(compiles), Len(states), slots)
       /\ new.module = m /\ new.pc = "leased" /\ new.state = i /\ new.slot = slot
  <2>1. i \in 0..Len(states) /\ slot \in 0..slots
    BY <1>6, <1>7, <1>12 DEF Indices
  <2>2. QED BY <1>m, <1>new, <1>1, <2>1 DEF ActsUpTo
<1>16. acts[a].slot = 0 /\ slot # 0 BY <1>1, <1>2, <1>7, <1>12 DEF ActIsSound
<1>17. WritesBack(m, i, s) /\ Len(states') = Len(states)
  <2>1. ~ShouldDropState(s) BY <1>7, <1>13 DEF ShouldDropState
  <2>2. poolOf' = [poolOf EXCEPT ![m] = IF ShouldDropState(s) THEN 0 ELSE poolOf[m]]
    BY <1>1, <1>2, <2>1 DEF StatesTyped
  <2>3. slots' \in Nat /\ slots <= slots' /\ s \in UsesUpTo(slots')
    BY <1>2, <1>7, <1>14
  <2>4. poolOf[m] # 0 /\ states' = [states EXCEPT ![poolOf[m]] = s]
    BY <1>i, <1>2, <1>8
  <2>5. QED BY <1>i, <1>2, <2>2, <2>3, <2>4, WritesInMap
<1>18. slot \notin trapped /\ \A b \in Activations : acts[b].slot # slot
  <2>1. i \in Indices /\ Len(q) \in Places(i) /\ slot = states[i].idle[Len(q)]
    BY <1>u, <1>q, <1>6, <1>10, <1>12 DEF Places
  <2>2. QED BY <1>1, <2>1 DEF OfferedOnce
<1>19. OfferedOnce'
  <2>1. Len(s.idle) \in Nat /\ Len(s.idle) <= Len(q) /\ Len(q) \in (Len(s.idle) + 1)..Len(q)
    BY <1>9, <1>10, <1>13
  <2>2. \A k \in 1..Len(s.idle) : s.idle[k] = q[k] BY <1>9, <1>11, <1>13
  <2>3. \E k \in (Len(s.idle) + 1)..Len(q) : new.slot = q[k]
    BY <1>12, <1>15, <2>1
  <2>4. trapped' \subseteq trapped \cup {acts[a].slot} BY <1>2
  <2>5. QED BY <1>q, <1>2, <1>5, <1>6, <1>10, <1>17, <2>1, <2>2, <2>3, <2>4, OffersWithdrawn
<1>20. /\ Moved(u.inUse, s.inUse, acts[a].slot # 0, new.slot # 0)
       /\ Moved(u.creating, s.creating, acts[a].pc = "creating", new.pc = "creating")
  BY <1>2, <1>13, <1>15, <1>16 DEF Moved
<1>21. /\ faults' \in 0..MaxFaults /\ slots' \in Nat /\ slots <= slots' /\ trapped' \subseteq 1..slots'
       /\ trapped \subseteq trapped' /\ trapped' \subseteq trapped \cup {acts[a].slot}
  BY <1>1, <1>2 DEF RestTyped
<1>22. Len(s.idle) <= MaxIdle BY <1>6, <1>9, <1>10, <1>13, WasmAssumption
<1>23. new \in ActsUpTo(Len(compiles), Len(states'), slots')
  BY <1>2, <1>15, <1>17
<1>24. /\ new.slot # 0 <=> new.pc \in {"leased", "effect"}
       /\ new.slot \notin trapped'
       /\ \A b \in Activations \ {a} : acts[b].slot # new.slot
       /\ new.pc \notin {"new", "compiling"}
  BY <1>2, <1>15, <1>16, <1>18
<1>25. QED
  BY <1>m, <1>2, <1>5, <1>6, <1>15, <1>17, <1>19, <1>20, <1>21, <1>22, <1>23, <1>24, PooledStep

(* No instance is idle and one more may be made. *)
LEMMA AcquireNewStep ==
  ASSUME PoolInv, NEW a \in Activations, AcquireNew(a)
  PROVE  PoolInv'
<1>m. PICK m : m = acts[a].module
  OBVIOUS
<1>i. PICK i : i = StateFor(m)
  OBVIOUS
<1>u. PICK u : u = UseAt(i)
  OBVIOUS
<1>s. PICK s : s = Use(u.idle, u.inUse, u.creating + 1)
  OBVIOUS
<1>new. PICK new : new = [acts[a] EXCEPT !.pc = "creating", !.state = i]
  OBVIOUS
<1>1. /\ StatesTyped /\ ActsTyped /\ RestTyped /\ ActIsSound(a)
      /\ acts[a] \in ActsUpTo(Len(compiles), Len(states), slots)
  BY TypeParts DEF PoolInv, ActsAreSound, ActsTyped
<1>2. /\ acts[a].pc = "compiling" /\ m \in reusable /\ u.idle = << >>
      /\ UNCHANGED <<reusable, entries, compiles, slots, trapped, faults, clears>>
  BY <1>m, <1>i, <1>u DEF AcquireNew, ReadyToRun, MayCreate
<1>3. poolOf' = [poolOf EXCEPT ![m] = i] /\ ActStep(a, new)
  BY <1>m, <1>i, <1>new DEF AcquireNew
<1>4. states' = WithState(i, [u EXCEPT !.creating = u.creating + 1])
  BY <1>m, <1>i, <1>u DEF AcquireNew
<1>5. u \in UsesUpTo(slots) /\ Len(u.idle) <= MaxIdle
  BY <1>i, <1>u, <1>2, UsesAreKept DEF UseIsKept
<1>6. slots \in Nat /\ u.idle \in Seq(1..slots) /\ u.inUse \in Nat /\ u.creating \in Nat
  BY <1>1, <1>5, UseTyped DEF RestTyped
<1>7. [u EXCEPT !.creating = u.creating + 1] = s BY <1>s, <1>5, UseCreating
<1>8. s.idle = u.idle /\ s.inUse = u.inUse /\ s.creating = u.creating + 1
  BY <1>s DEF Use
<1>9. s \in UsesUpTo(slots) BY <1>s, <1>6, UseTypes
<1>10. WritesBack(m, i, s) /\ Len(states) <= Len(states') /\ i \in 1..Len(states')
  <2>1. ~ShouldDropState(s) BY <1>6, <1>8 DEF ShouldDropState
  <2>2. states' = WithState(i, s) /\ slots' = slots BY <1>2, <1>4, <1>7
  <2>3. QED BY <1>i, <1>2, <1>3, <1>9, <2>1, <2>2, WritesAt
<1>11. Len(states) \in Nat /\ Len(states') \in Nat
  BY <1>1, <1>10 DEF StatesTyped, WritesBack
<1>12. /\ new \in ActsUpTo(Len(compiles), Len(states'), slots)
       /\ new.module = m /\ new.pc = "creating" /\ new.state = i /\ new.slot = acts[a].slot
  <2>1. 0..Len(states) \subseteq 0..Len(states') /\ i \in 0..Len(states')
    BY <1>10, <1>11
  <2>2. acts[a] \in ActsUpTo(Len(compiles), Len(states'), slots)
    BY <1>1, <2>1 DEF ActsUpTo
  <2>3. QED BY <1>m, <1>new, <2>1, <2>2 DEF ActsUpTo
<1>13. acts[a].slot = 0 /\ 0 \notin trapped
  BY <1>1, <1>2 DEF ActIsSound, RestTyped
<1>14. OfferedOnce'
  <2>1. Len(u.idle) \in Nat /\ Len(s.idle) \in Nat /\ Len(s.idle) <= Len(u.idle)
    BY <1>6, <1>8
  <2>2. \A k \in 1..Len(s.idle) : s.idle[k] = u.idle[k] BY <1>8
  <2>3. new.slot = acts[a].slot /\ trapped' \subseteq trapped \cup {acts[a].slot}
    BY <1>2, <1>12
  <2>4. QED BY <1>u, <1>2, <1>3, <1>10, <2>1, <2>2, <2>3, OffersWithdrawn
<1>15. /\ Moved(u.inUse, s.inUse, acts[a].slot # 0, new.slot # 0)
       /\ Moved(u.creating, s.creating, acts[a].pc = "creating", new.pc = "creating")
  BY <1>2, <1>8, <1>12, <1>13 DEF Moved
<1>16. /\ faults' \in 0..MaxFaults /\ slots' \in Nat /\ slots <= slots' /\ trapped' \subseteq 1..slots'
       /\ trapped \subseteq trapped' /\ trapped' \subseteq trapped \cup {acts[a].slot}
  BY <1>1, <1>2 DEF RestTyped
<1>17. /\ new.slot = 0 /\ new.slot \notin trapped' /\ new.pc \notin {"new", "compiling"}
       /\ new.pc \notin {"leased", "effect"}
  BY <1>2, <1>12, <1>13
<1>18. new \in ActsUpTo(Len(compiles), Len(states'), slots') /\ Len(s.idle) <= MaxIdle
  BY <1>2, <1>5, <1>8, <1>12
<1>19. new.slot # 0 <=> new.pc \in {"leased", "effect"} BY <1>17
<1>20. new.slot # 0 => \A b \in Activations \ {a} : acts[b].slot # new.slot
  BY <1>17
<1>21. new.slot \notin trapped' /\ new.pc \notin {"new", "compiling"} /\ (new.pc \in Active => new.state = i)
  BY <1>12, <1>17
<1>22. acts[a].module = m /\ new.module = m /\ m \in reusable
       /\ UNCHANGED <<reusable, entries, compiles, clears>>
  BY <1>m, <1>2, <1>12
<1>23. WritesBack(m, i, s) /\ ActStep(a, new) BY <1>3, <1>10
<1>24. QED BY <1>u, <1>14, <1>15, <1>16, <1>18, <1>19, <1>20, <1>21, <1>22, <1>23, PooledStep

(* A step of an activation whose instance is its own and not of the pool. *)
LEMMA UnpooledStep ==
  ASSUME PoolInv, NEW a \in Activations, NEW new, ActStep(a, new),
         UNCHANGED <<reusable, entries, compiles, poolOf, states, clears>>,
         faults' \in 0..MaxFaults, slots' \in Nat, slots <= slots', trapped' \subseteq 1..slots',
         trapped \subseteq trapped', trapped' \subseteq trapped \cup {acts[a].slot},
         acts[a].pc \in Active, acts[a].state = 0,
         new.module = acts[a].module, new.state = 0,
         new \in ActsUpTo(Len(compiles), Len(states), slots'),
         new.slot # 0 <=> new.pc \in {"leased", "effect"}, new.slot \notin trapped',
         new.slot = acts[a].slot \/ new.slot \notin 1..slots,
         new.pc \notin {"new", "compiling"}
  PROVE  PoolInv'
<1>1. /\ CompilesTyped /\ StatesTyped /\ ActsTyped /\ RestTyped
      /\ ActsAreSound /\ SlotsAreApart /\ CompilesAreSound
  BY TypeParts DEF PoolInv
<1>2. acts'[a] = new /\ \A b \in Activations \ {a} : acts'[b] = acts[b]
  BY <1>1 DEF ActStep, ActsTyped
<1>3. ActIsSound(a) /\ acts[a].module \in Modules /\ acts[a].module \notin reusable
  BY <1>1 DEF ActsAreSound, ActIsSound, Active
<1>4. CompilesTyped' /\ RestTyped'
  BY <1>1 DEF CompilesTyped, RestTyped, Compilations
<1>5. states' \in Seq(UsesUpTo(slots')) /\ StatesTyped'
  <2>1. states' \in Seq(UsesUpTo(slots'))
    BY <1>1, UsesWiden DEF StatesTyped, RestTyped
  <2>2. QED BY <1>1, <2>1 DEF StatesTyped, UsesUpTo
<1>6. ActsTyped'
  <2>1. compiles' \in Seq(Compilations) /\ Len(compiles) <= Len(compiles') /\ Len(states) <= Len(states')
    BY <1>1 DEF CompilesTyped, StatesTyped
  <2>2. new \in ActsUpTo(Len(compiles'), Len(states'), slots') OBVIOUS
  <2>3. QED BY <1>1, <1>5, <2>1, <2>2, ActsTypedNext
<1>7. WasmTypeOK' BY <1>4, <1>5, <1>6, TypePartsNext
<1>8. MapIsSound' /\ CountsAreKept'
  <2>1. \A m \in reusable : LeasesOf(m)' = LeasesOf(m) /\ CreationsOf(m)' = CreationsOf(m)
    BY <1>2, <1>3 DEF LeasesOf, CreationsOf
  <2>2. QED BY <2>1, PoolRests
<1>9. ASSUME NEW b \in Activations PROVE CountedNext(b)
  <2>1. CASE b = a
    BY <1>2, <1>3, <2>1 DEF CountedNext
  <2>2. CASE b # a
    <3>1. ActIsSound(b) /\ acts'[b] = acts[b]
      BY <1>1, <1>2, <2>2 DEF ActsAreSound
    <3>2. QED BY <3>1 DEF ActIsSound, CountedNext
  <2>3. QED BY <2>1, <2>2
<1>10. ActsAreSound' /\ SlotsAreApart'
  <2>1. ASSUME new.slot # 0, NEW b \in Activations \ {a} PROVE acts[b].slot # new.slot
    <3>1. CASE new.slot = acts[a].slot
      BY <1>1, <2>1, <3>1 DEF SlotsAreApart
    <3>2. CASE new.slot \notin 1..slots
      <4>1. acts[b].slot \in 0..slots /\ slots \in Nat
        BY <1>1 DEF ActsTyped, ActsUpTo, RestTyped
      <4>2. QED BY <2>1, <3>2, <4>1
    <3>3. QED BY <3>1, <3>2
  <2>2. QED BY <1>3, <1>4, <1>9, <2>1, ActsNext
<1>11. OfferedOnce'
  <2>1. IdleKept BY DEF IdleKept, Indices, Places
  <2>2. \A b \in Activations : acts'[b].slot = acts[b].slot \/ acts'[b].slot \notin 1..slots
    BY <1>2
  <2>3. QED BY <2>1, <2>2, OffersShrink
<1>12. CompilesAreSound' BY <1>1, CompilesRest
<1>13. QED BY <1>7, <1>8, <1>10, <1>11, <1>12 DEF PoolInv

(* A step of an activation that counts in bookkeeping i of its module. *)
LEMMA CountedStep ==
  ASSUME PoolInv, NEW a \in Activations, NEW m \in reusable, NEW i, NEW u, CountsIn(a, m, i, u),
         NEW s, NEW new, ActStep(a, new), acts[a].module = m, new.module = m,
         UNCHANGED <<reusable, entries, compiles, clears>>,
         faults' \in 0..MaxFaults, slots' \in Nat, slots <= slots', trapped' \subseteq 1..slots',
         trapped \subseteq trapped', trapped' \subseteq trapped \cup {acts[a].slot},
         s \in UsesUpTo(slots'), states' = [states EXCEPT ![i] = s],
         poolOf' = [poolOf EXCEPT ![m] = IF ShouldDropState(s) THEN 0 ELSE i],
         Moved(u.inUse, s.inUse, acts[a].slot # 0, new.slot # 0),
         Moved(u.creating, s.creating, acts[a].pc = "creating", new.pc = "creating"),
         Len(s.idle) <= MaxIdle,
         \/ s.idle = u.idle /\ (new.slot = acts[a].slot \/ new.slot \notin 1..slots)
         \/ /\ s.idle = Append(u.idle, acts[a].slot)
            /\ acts[a].slot # 0 /\ new.slot = 0 /\ trapped' = trapped,
         new \in ActsUpTo(Len(compiles), Len(states), slots'),
         new.slot # 0 <=> new.pc \in {"leased", "effect"}, new.slot \notin trapped',
         new.slot = acts[a].slot \/ new.slot \notin 1..slots,
         new.pc \notin {"new", "compiling"}, new.state = i
  PROVE  PoolInv'
<1>1. /\ ActsTyped /\ RestTyped /\ SlotsAreApart BY TypeParts DEF PoolInv
<1>2. /\ poolOf[m] = i /\ poolOf[m] # 0 /\ u = UseAt(i) /\ u.idle \in Seq(1..slots)
      /\ Len(u.idle) \in Nat
  BY DEF CountsIn, UseInMap, UsesUpTo
<1>3. WritesBack(m, i, s) /\ Len(states') = Len(states) BY <1>2, WritesInMap
<1>4. OfferedOnce'
  <2>1. CASE s.idle = u.idle /\ (new.slot = acts[a].slot \/ new.slot \notin 1..slots)
    BY <1>2, <1>3, <2>1, OffersWithdrawn
  <2>2. CASE /\ s.idle = Append(u.idle, acts[a].slot)
             /\ acts[a].slot # 0 /\ new.slot = 0 /\ trapped' = trapped
    BY <1>2, <1>3, <2>2, OffersReturned
  <2>3. QED BY <2>1, <2>2
<1>5. ASSUME new.slot # 0, NEW b \in Activations \ {a} PROVE acts[b].slot # new.slot
  <2>1. CASE new.slot = acts[a].slot
    BY <1>1, <1>5, <2>1 DEF SlotsAreApart
  <2>2. CASE new.slot \notin 1..slots
    <3>1. acts[b].slot \in 0..slots /\ slots \in Nat
      BY <1>1 DEF ActsTyped, ActsUpTo, RestTyped
    <3>2. QED BY <1>5, <2>2, <3>1
  <2>3. QED BY <2>1, <2>2
<1>6. new \in ActsUpTo(Len(compiles), Len(states'), slots') BY <1>3
<1>7. QED BY <1>2, <1>3, <1>4, <1>5, <1>6, PooledStep

(* The new instance is there. *)
LEMMA CreatedStep ==
  ASSUME PoolInv, NEW a \in Activations, Created(a)
  PROVE  PoolInv'
<1>m. PICK m : m = acts[a].module
  OBVIOUS
<1>i. PICK i : i = acts[a].state
  OBVIOUS
<1>slot. PICK slot : slot = slots + 1
  OBVIOUS
<1>new. PICK new : new = [acts[a] EXCEPT !.pc = "leased", !.slot = slot]
  OBVIOUS
<1>1. /\ ActsTyped /\ RestTyped /\ StatesTyped /\ ActIsSound(a)
      /\ acts[a] \in ActsUpTo(Len(compiles), Len(states), slots)
  BY TypeParts DEF PoolInv, ActsAreSound, ActsTyped
<1>2. /\ acts[a].pc = "creating" /\ slots' = slot
      /\ UNCHANGED <<reusable, entries, compiles, poolOf, trapped, faults, clears>>
  BY <1>slot DEF Created
<1>3. ActStep(a, new) BY <1>new, <1>slot DEF Created
<1>4. slots \in Nat /\ slot \in Nat /\ slots <= slot /\ slot \notin 1..slots /\ slot # 0
  BY <1>slot, <1>1 DEF RestTyped
<1>5. /\ new \in ActsUpTo(Len(compiles), Len(states), slot)
      /\ new.module = m /\ new.pc = "leased" /\ new.state = i /\ new.slot = slot
  <2>1. 0..slots \subseteq 0..slot /\ slot \in 0..slot BY <1>4
  <2>2. acts[a] \in ActsUpTo(Len(compiles), Len(states), slot)
    BY <1>1, <2>1 DEF ActsUpTo
  <2>3. QED BY <1>m, <1>i, <1>new, <2>1, <2>2 DEF ActsUpTo
<1>6. acts[a].slot = 0 BY <1>1, <1>2 DEF ActIsSound
<1>7. /\ faults' \in 0..MaxFaults /\ slots' \in Nat /\ slots <= slots' /\ trapped' \subseteq 1..slots'
      /\ trapped \subseteq trapped' /\ trapped' \subseteq trapped \cup {acts[a].slot}
      /\ new.slot \notin trapped'
  BY <1>1, <1>2, <1>4, <1>5 DEF RestTyped
<1>8. new.slot # 0 /\ new.pc \in {"leased", "effect"} /\ new.pc \notin {"new", "compiling"}
  BY <1>4, <1>5
<1>9. CASE Pooled(a)
  <2>u. PICK u : u = states[i]
    OBVIOUS
  <2>s. PICK s : s = Use(u.idle, u.inUse + 1, u.creating - 1)
    OBVIOUS
  <2>1. m \in reusable /\ CountsIn(a, m, i, u) /\ u.creating > 0
    BY <1>m, <1>i, <2>u, <1>2, <1>9, CountedIn DEF Active, CountsIn
  <2>2. u \in UsesUpTo(slots) /\ poolOf[m] = i /\ Len(u.idle) <= MaxIdle
    BY <2>1 DEF CountsIn, UseInMap
  <2>3. u.idle \in Seq(1..slots) /\ u.inUse \in Nat /\ u.creating \in Nat
    BY <2>2, UseTyped
  <2>4. states' = [states EXCEPT ![i] = Instantiated(u)]
    BY <1>i, <2>u, <1>9 DEF Created
  <2>5. Instantiated(u) = s BY <2>s, <2>2, UseInstantiated
  <2>6. s.idle = u.idle /\ s.inUse = u.inUse + 1 /\ s.creating = u.creating - 1
    BY <2>s DEF Use
  <2>7. s \in UsesUpTo(slots')
    <3>1. u.inUse + 1 \in Nat /\ u.creating - 1 \in Nat BY <2>1, <2>3
    <3>2. s \in UsesUpTo(slots) BY <2>s, <2>3, <3>1, UseTypes
    <3>3. QED BY <1>2, <1>4, <3>2, UsesWiden
  <2>8. poolOf' = [poolOf EXCEPT ![m] = IF ShouldDropState(s) THEN 0 ELSE i]
    <3>1. ~ShouldDropState(s) BY <2>3, <2>6 DEF ShouldDropState
    <3>2. QED BY <1>1, <1>2, <2>2, <3>1 DEF StatesTyped
  <2>9. /\ Moved(u.inUse, s.inUse, acts[a].slot # 0, new.slot # 0)
        /\ Moved(u.creating, s.creating, acts[a].pc = "creating", new.pc = "creating")
    BY <1>2, <1>4, <1>5, <1>6, <2>6 DEF Moved
  <2>10. s.idle = u.idle /\ new.slot \notin 1..slots /\ Len(s.idle) <= MaxIdle
    BY <1>4, <1>5, <2>2, <2>6
  <2>11. new \in ActsUpTo(Len(compiles), Len(states), slots') BY <1>2, <1>5
  <2>12. QED
    BY <1>m, <1>2, <1>3, <1>5, <1>7, <1>8, <2>1, <2>4, <2>5, <2>7, <2>8, <2>9, <2>10, <2>11, CountedStep
<1>10. CASE ~Pooled(a)
  <2>1. acts[a].state = 0 /\ acts[a].pc \in Active /\ UNCHANGED states
    BY <1>2, <1>10 DEF Created, Pooled, Active
  <2>2. /\ new.state = 0 /\ new.module = acts[a].module /\ new.slot \notin 1..slots
        /\ new \in ActsUpTo(Len(compiles), Len(states), slots')
    BY <1>m, <1>i, <1>2, <1>4, <1>5, <2>1
  <2>3. QED BY <1>2, <1>3, <1>7, <1>8, <2>1, <2>2, UnpooledStep
<1>11. QED BY <1>9, <1>10

(* The new instance could not be made. *)
LEMMA CreateFailsStep ==
  ASSUME PoolInv, NEW a \in Activations, CreateFails(a)
  PROVE  PoolInv'
<1>m. PICK m : m = acts[a].module
  OBVIOUS
<1>i. PICK i : i = acts[a].state
  OBVIOUS
<1>new. PICK new : new = [acts[a] EXCEPT !.pc = "failed"]
  OBVIOUS
<1>1. /\ ActsTyped /\ RestTyped /\ StatesTyped /\ ActIsSound(a)
      /\ acts[a] \in ActsUpTo(Len(compiles), Len(states), slots)
  BY TypeParts DEF PoolInv, ActsAreSound, ActsTyped
<1>2. /\ acts[a].pc = "creating" /\ faults < MaxFaults /\ faults' = faults + 1
      /\ UNCHANGED <<reusable, entries, compiles, slots, trapped, clears>>
  BY DEF CreateFails, Fault
<1>3. ActStep(a, new) BY <1>new DEF CreateFails
<1>4. acts[a].slot = 0 BY <1>1, <1>2 DEF ActIsSound
<1>5. /\ new \in ActsUpTo(Len(compiles), Len(states), slots)
      /\ new.module = m /\ new.pc = "failed" /\ new.state = i /\ new.slot = acts[a].slot
  BY <1>m, <1>i, <1>new, <1>1 DEF ActsUpTo
<1>6. /\ faults' \in 0..MaxFaults /\ slots' \in Nat /\ slots <= slots' /\ trapped' \subseteq 1..slots'
      /\ trapped \subseteq trapped' /\ trapped' \subseteq trapped \cup {acts[a].slot}
      /\ new.slot \notin trapped'
  BY <1>1, <1>2, <1>4, <1>5, WasmAssumption DEF RestTyped
<1>7. new.slot = 0 /\ new.pc \notin {"leased", "effect"} /\ new.pc \notin {"new", "compiling"}
  BY <1>4, <1>5
<1>8. CASE Pooled(a)
  <2>u. PICK u : u = states[i]
    OBVIOUS
  <2>s. PICK s : s = Use(u.idle, u.inUse, u.creating - 1)
    OBVIOUS
  <2>1. m \in reusable /\ CountsIn(a, m, i, u) /\ u.creating > 0
    BY <1>m, <1>i, <2>u, <1>2, <1>8, CountedIn DEF Active, CountsIn
  <2>2. u \in UsesUpTo(slots) /\ poolOf[m] = i /\ Len(u.idle) <= MaxIdle
    BY <2>1 DEF CountsIn, UseInMap
  <2>3. u.idle \in Seq(1..slots) /\ u.inUse \in Nat /\ u.creating \in Nat /\ u.creating - 1 \in Nat
    BY <2>1, <2>2, UseTyped
  <2>4. SetState(m, i, [u EXCEPT !.creating = u.creating - 1])
    BY <1>m, <1>i, <2>u, <1>8 DEF CreateFails
  <2>5. [u EXCEPT !.creating = u.creating - 1] = s BY <2>s, <2>2, UseCreating
  <2>6. /\ states' = [states EXCEPT ![i] = s]
        /\ poolOf' = IF ShouldDropState(s) /\ poolOf[m] = i THEN [poolOf EXCEPT ![m] = 0] ELSE poolOf
    BY <2>4, <2>5 DEF SetState
  <2>7. poolOf' = [poolOf EXCEPT ![m] = IF ShouldDropState(s) THEN 0 ELSE i]
    BY <1>1, <2>2, <2>6 DEF StatesTyped
  <2>8. s.idle = u.idle /\ s.inUse = u.inUse /\ s.creating = u.creating - 1
    BY <2>s DEF Use
  <2>9. s \in UsesUpTo(slots') BY <2>s, <1>2, <2>3, UseTypes
  <2>10. /\ Moved(u.inUse, s.inUse, acts[a].slot # 0, new.slot # 0)
         /\ Moved(u.creating, s.creating, acts[a].pc = "creating", new.pc = "creating")
    BY <1>2, <1>5, <2>8 DEF Moved
  <2>11. s.idle = u.idle /\ Len(s.idle) <= MaxIdle BY <2>2, <2>8
  <2>12. new \in ActsUpTo(Len(compiles), Len(states), slots') BY <1>2, <1>5
  <2>13. QED
    BY <1>m, <1>2, <1>3, <1>5, <1>6, <1>7, <2>1, <2>6, <2>7, <2>9, <2>10, <2>11, <2>12, CountedStep
<1>9. CASE ~Pooled(a)
  <2>1. acts[a].state = 0 /\ acts[a].pc \in Active /\ UNCHANGED <<poolOf, states>>
    BY <1>2, <1>9 DEF CreateFails, Pooled, Active
  <2>2. /\ new.state = 0 /\ new.module = acts[a].module
        /\ new \in ActsUpTo(Len(compiles), Len(states), slots')
    BY <1>m, <1>i, <1>2, <1>5, <2>1
  <2>3. QED BY <1>2, <1>3, <1>5, <1>6, <1>7, <2>1, <2>2, UnpooledStep
<1>10. QED BY <1>8, <1>9

(* A lease is given back: kept for the next, or dropped for good. *)
LEMMA ReleaseStep ==
  ASSUME PoolInv, NEW a \in Activations, acts[a].pc \in {"leased", "effect"},
         NEW retire \in BOOLEAN, NEW pc \in {"tail", "done", "failed"},
         Release(a, retire), Leaves(a, pc),
         UNCHANGED <<reusable, entries, compiles, slots, clears>>, faults' \in 0..MaxFaults,
         ~retire => trapped' = trapped,
         trapped' = trapped \/ trapped' = trapped \cup {acts[a].slot}
  PROVE  PoolInv'
<1>m. PICK m : m = acts[a].module
  OBVIOUS
<1>i. PICK i : i = acts[a].state
  OBVIOUS
<1>slot. PICK slot : slot = acts[a].slot
  OBVIOUS
<1>new. PICK new : new = [acts[a] EXCEPT !.pc = pc, !.slot = 0,
                                         !.child = IF pc = "tail" THEN 0 ELSE acts[a].child]
  OBVIOUS
<1>1. /\ ActsTyped /\ RestTyped /\ StatesTyped /\ ActIsSound(a)
      /\ acts[a] \in ActsUpTo(Len(compiles), Len(states), slots)
  BY TypeParts DEF PoolInv, ActsAreSound, ActsTyped
<1>2. ActStep(a, new) BY <1>new DEF Leaves
<1>3. slots \in Nat /\ slot \in 1..slots /\ acts[a].slot # 0 /\ slot \notin trapped /\ 0 \notin trapped
  <2>1. slots \in Nat /\ slot \in 0..slots /\ 0 \notin trapped
    BY <1>slot, <1>1 DEF ActsUpTo, RestTyped
  <2>2. acts[a].slot # 0 /\ slot \notin trapped BY <1>slot, <1>1 DEF ActIsSound
  <2>3. QED BY <1>slot, <2>1, <2>2
<1>4. /\ new \in ActsUpTo(Len(compiles), Len(states), slots)
      /\ new.module = m /\ new.pc = pc /\ new.state = i /\ new.slot = 0
  <2>1. PICK child \in Activations \cup {0} :
          new = [acts[a] EXCEPT !.pc = pc, !.slot = 0, !.child = child]
    <3>1. (IF pc = "tail" THEN 0 ELSE acts[a].child) \in Activations \cup {0}
      BY <1>1 DEF ActsUpTo
    <3>2. QED BY <1>new, <3>1
  <2>2. 0 \in 0..slots BY <1>3
  <2>3. QED BY <1>m, <1>i, <1>1, <2>1, <2>2 DEF ActsUpTo
<1>5. /\ slots' \in Nat /\ slots <= slots' /\ trapped' \subseteq 1..slots'
      /\ trapped \subseteq trapped' /\ trapped' \subseteq trapped \cup {acts[a].slot}
      /\ new.slot \notin trapped'
  <2>1. slots' = slots /\ trapped \subseteq 1..slots /\ slots \in Nat
    BY <1>1 DEF RestTyped
  <2>2. trapped \subseteq trapped' /\ trapped' \subseteq trapped \cup {slot}
    BY <1>slot
  <2>3. trapped' \subseteq 1..slots BY <1>3, <2>1, <2>2
  <2>4. new.slot \notin trapped' BY <1>3, <1>4, <2>2
  <2>5. QED BY <1>slot, <2>1, <2>2, <2>3, <2>4
<1>6. new.slot = 0 /\ new.pc \notin {"leased", "effect"} /\ new.pc \notin {"new", "compiling"}
  BY <1>4
<1>7. acts[a].pc \in Active BY DEF Active
<1>8. CASE Pooled(a)
  <2>u. PICK u : u = states[i]
    OBVIOUS
  <2>q. PICK q : q = Kept(u, slot, retire)
    OBVIOUS
  <2>s. PICK s : s = Use(q, u.inUse - 1, u.creating)
    OBVIOUS
  <2>1. m \in reusable /\ CountsIn(a, m, i, u) /\ u.inUse > 0
    BY <1>m, <1>i, <2>u, <1>3, <1>7, <1>8, CountedIn DEF CountsIn
  <2>2. u \in UsesUpTo(slots) /\ poolOf[m] = i /\ Len(u.idle) <= MaxIdle
    BY <2>1 DEF CountsIn, UseInMap
  <2>3. u.idle \in Seq(1..slots) /\ u.inUse \in Nat /\ u.creating \in Nat /\ u.inUse - 1 \in Nat
    BY <2>1, <2>2, UseTyped
  <2>4. \/ q = u.idle
        \/ ~retire /\ Len(u.idle) < MaxIdle /\ q = Append(u.idle, slot)
    BY <2>q DEF Kept
  <2>5. q \in Seq(1..slots) /\ Len(q) <= MaxIdle
    <3>1. CASE q = u.idle
      BY <2>2, <2>3, <3>1
    <3>2. CASE ~retire /\ Len(u.idle) < MaxIdle /\ q = Append(u.idle, slot)
      <4>1. q \in Seq(1..slots) /\ Len(q) = Len(u.idle) + 1 /\ Len(u.idle) \in Nat
        BY <1>3, <2>3, <3>2, AppendProperties
      <4>2. QED BY <3>2, <4>1, WasmAssumption
    <3>3. QED BY <2>4, <3>1, <3>2
  <2>6. SetState(m, i, [u EXCEPT !.inUse = @ - 1, !.idle = q])
    BY <1>m, <1>i, <1>slot, <2>u, <2>q, <1>8 DEF Release
  <2>7. [u EXCEPT !.inUse = @ - 1, !.idle = q] = s BY <2>s, <2>2, UseReleased
  <2>8. /\ states' = [states EXCEPT ![i] = s]
        /\ poolOf' = IF ShouldDropState(s) /\ poolOf[m] = i THEN [poolOf EXCEPT ![m] = 0] ELSE poolOf
    BY <2>6, <2>7 DEF SetState
  <2>9. poolOf' = [poolOf EXCEPT ![m] = IF ShouldDropState(s) THEN 0 ELSE i]
    BY <1>1, <2>2, <2>8 DEF StatesTyped
  <2>10. s.idle = q /\ s.inUse = u.inUse - 1 /\ s.creating = u.creating
    BY <2>s DEF Use
  <2>11. s \in UsesUpTo(slots')
    <3>1. s \in UsesUpTo(slots) BY <2>s, <2>3, <2>5, UseTypes
    <3>2. QED BY <3>1
  <2>12. /\ Moved(u.inUse, s.inUse, acts[a].slot # 0, new.slot # 0)
         /\ Moved(u.creating, s.creating, acts[a].pc = "creating", new.pc = "creating")
    BY <1>3, <1>4, <2>10 DEF Moved
  <2>13. \/ s.idle = u.idle /\ (new.slot = acts[a].slot \/ new.slot \notin 1..slots)
         \/ /\ s.idle = Append(u.idle, acts[a].slot)
            /\ acts[a].slot # 0 /\ new.slot = 0 /\ trapped' = trapped
    BY <1>slot, <1>3, <1>6, <2>4, <2>10
  <2>14. new \in ActsUpTo(Len(compiles), Len(states), slots') /\ Len(s.idle) <= MaxIdle
    BY <1>4, <2>5, <2>10
  <2>15. new.slot # 0 <=> new.pc \in {"leased", "effect"} BY <1>6
  <2>16. /\ new.slot = acts[a].slot \/ new.slot \notin 1..slots
         /\ new.pc \notin {"new", "compiling"} /\ new.state = i
    BY <1>3, <1>4, <1>6
  <2>17. QED
    BY <1>m, <1>2, <1>4, <1>5, <2>1, <2>8, <2>9, <2>11, <2>12, <2>13, <2>14, <2>15, <2>16, CountedStep
<1>9. CASE ~Pooled(a)
  <2>1. acts[a].state = 0 /\ UNCHANGED <<poolOf, states>>
    BY <1>9 DEF Release, Pooled
  <2>2. /\ new.state = 0 /\ new.module = acts[a].module /\ new.slot \notin 1..slots
        /\ new \in ActsUpTo(Len(compiles), Len(states), slots')
    BY <1>m, <1>i, <1>3, <1>4, <2>1
  <2>3. QED BY <1>2, <1>5, <1>6, <1>7, <2>1, <2>2, UnpooledStep
<1>10. QED BY <1>8, <1>9

(* A run ends and gives its instance back. *)
LEMMA ReturnsStep ==
  ASSUME PoolInv, NEW a \in Activations, Returns(a) \/ SuspendsInTail(a)
  PROVE  PoolInv'
<1>1. RestTyped BY TypeParts DEF PoolInv
<1>2. PICK pc \in {"tail", "done", "failed"} : Leaves(a, pc)
  BY DEF Returns, SuspendsInTail
<1>3. /\ acts[a].pc \in {"leased", "effect"} /\ Release(a, FALSE)
      /\ UNCHANGED <<reusable, entries, compiles, slots, clears>>
      /\ faults' \in 0..MaxFaults /\ trapped' = trapped
  BY <1>1 DEF Returns, SuspendsInTail, RestTyped
<1>4. QED BY <1>2, <1>3, ReleaseStep

(* A run that failed drops its instance. *)
LEMMA AbandonStep ==
  ASSUME PoolInv, NEW a \in Activations, SuspendsTooOften(a) \/ Traps(a) \/ EffectFails(a)
  PROVE  PoolInv'
<1>1. RestTyped BY TypeParts DEF PoolInv
<1>2. /\ acts[a].pc \in {"leased", "effect"} /\ Abandon(a)
      /\ faults' = faults \/ Fault
  BY DEF SuspendsTooOften, Traps, EffectFails
<1>3. faults' \in 0..MaxFaults
  BY <1>1, <1>2, WasmAssumption DEF Fault, RestTyped
<1>4. /\ Release(a, TRUE) /\ Leaves(a, "failed") /\ trapped' = trapped \cup {acts[a].slot}
      /\ UNCHANGED <<reusable, entries, compiles, slots, clears>>
  BY <1>2 DEF Abandon
<1>5. QED BY <1>2, <1>3, <1>4, ReleaseStep

(* clear() withdraws what lies idle; bookkeeping that still counts stays. *)
LEMMA ClearPoolStep ==
  ASSUME PoolInv, ClearPool
  PROVE  PoolInv'
<1>1. /\ CompilesTyped /\ StatesTyped /\ ActsTyped /\ RestTyped /\ ActsAreSound /\ SlotsAreApart
      /\ MapIsSound /\ CountsAreKept /\ CompilesAreSound
  BY TypeParts DEF PoolInv
<1>2. /\ UNCHANGED <<reusable, entries, compiles, slots, trapped, acts, faults>>
      /\ clears < MaxClears /\ clears' = clears + 1
  BY DEF ClearPool
<1>3. Len(states) \in Nat /\ \A i \in Indices : states[i] \in UsesUpTo(slots)
  BY <1>1, ElementOfSeq DEF StatesTyped, Indices
<1>4. \A i \in Indices : [states[i] EXCEPT !.idle = << >>]
                           = Use(<< >>, states[i].inUse, states[i].creating)
  <2> SUFFICES ASSUME NEW i \in Indices
               PROVE  [states[i] EXCEPT !.idle = << >>]
                        = Use(<< >>, states[i].inUse, states[i].creating)
    OBVIOUS
  <2>1. states[i] \in UsesOf(Seq(1..slots), Nat, Nat)
    BY <1>3 DEF UsesUpTo, UsesOf
  <2>2. QED BY <2>1, IdleUpdate
<1>5. /\ states' = [i \in Indices |-> states'[i]]
      /\ \A i \in Indices :
           states'[i] = IF \E m \in Modules : poolOf[m] = i
                        THEN Use(<< >>, states[i].inUse, states[i].creating) ELSE states[i]
  BY <1>4 DEF ClearPool, Indices
<1>6. \A i \in Indices : /\ states'[i] \in UsesUpTo(slots)
                         /\ states'[i].inUse = states[i].inUse
                         /\ states'[i].creating = states[i].creating
                         /\ states'[i].idle = << >>
  <2> SUFFICES ASSUME NEW i \in Indices
               PROVE  /\ states'[i] \in UsesUpTo(slots)
                      /\ states'[i].inUse = states[i].inUse
                      /\ states'[i].creating = states[i].creating
                      /\ states'[i].idle = << >>
    OBVIOUS
  <2>1. CASE \E m \in Modules : poolOf[m] = i
    <3>1. states'[i] = Use(<< >>, states[i].inUse, states[i].creating)
      BY <1>5, <2>1
    <3>2. states[i].inUse \in Nat /\ states[i].creating \in Nat
      BY <1>3, UseTyped
    <3>3. Use(<< >>, states[i].inUse, states[i].creating) \in UsesUpTo(slots)
      BY <3>2, UseTypes, EmptySeq
    <3>4. /\ states'[i].inUse = states[i].inUse /\ states'[i].creating = states[i].creating
          /\ states'[i].idle = << >>
      BY <3>1 DEF Use
    <3>5. QED BY <3>1, <3>3, <3>4
  <2>2. CASE \A m \in Modules : poolOf[m] # i
    BY <1>1, <1>3, <1>5, <2>2 DEF MapIsSound
  <2>3. QED BY <2>1, <2>2
<1>7. states' \in Seq(UsesUpTo(slots)) /\ Len(states') = Len(states) /\ Indices' = Indices
  <2>1. states' \in [1..Len(states) -> UsesUpTo(slots)]
    BY <1>5, <1>6 DEF Indices
  <2>2. QED BY <1>3, <2>1, LenProperties, SeqDef DEF Indices
<1>8. poolOf \in [Modules -> Indices \cup {0}]
  BY <1>1, <1>3 DEF StatesTyped, Indices
<1>9. \A m \in Modules : poolOf'[m] = IF poolOf[m] # 0 /\ ShouldDropState(states'[poolOf[m]])
                                      THEN 0 ELSE poolOf[m]
  BY DEF ClearPool, HasState
<1>10. StatesTyped'
  <2>1. poolOf' = [m \in Modules |-> poolOf'[m]] BY DEF ClearPool
  <2>2. \A m \in Modules : poolOf'[m] \in 0..Len(states')
    BY <1>1, <1>7, <1>9 DEF StatesTyped
  <2>3. poolOf' \in [Modules -> 0..Len(states')] BY <2>1, <2>2
  <2>4. QED BY <1>2, <1>7, <2>3 DEF StatesTyped, UsesUpTo
<1>11. WasmTypeOK'
  <2>1. CompilesTyped' /\ RestTyped'
    BY <1>1, <1>2, WasmAssumption DEF CompilesTyped, RestTyped, Compilations
  <2>2. ActsTyped' BY <1>1, <1>2, <1>7 DEF ActsTyped, ActsUpTo
  <2>3. QED BY <1>10, <2>1, <2>2, TypePartsNext
<1>12. OfferedOnce' BY <1>6, <1>7 DEF OfferedOnce, Indices, Places
<1>13. MapIsSound'
  <2>1. \A i \in Indices' : states'[i].idle = << >> BY <1>6, <1>7
  <2>2. QED BY <1>1, <1>2, <1>9, <2>1 DEF MapIsSound
<1>14. \A m : LeasesOf(m)' = LeasesOf(m) /\ CreationsOf(m)' = CreationsOf(m)
  BY <1>2 DEF LeasesOf, CreationsOf
<1>15. ASSUME NEW m \in Modules PROVE CountsAre(m)'
  <2>1. CASE poolOf'[m] = 0
    BY <2>1 DEF CountsAre
  <2>2. CASE poolOf'[m] # 0
    <3>1. poolOf'[m] = poolOf[m] /\ poolOf[m] \in Indices /\ CountsAre(m)
      BY <1>1, <1>8, <1>9, <2>2 DEF CountsAreKept
    <3>2. /\ states'[poolOf[m]].inUse = Cardinality(LeasesOf(m))
          /\ states'[poolOf[m]].creating = Cardinality(CreationsOf(m))
          /\ states'[poolOf[m]].idle = << >>
      BY <1>6, <2>2, <3>1 DEF CountsAre
    <3>3. Len(states'[poolOf[m]].idle) <= MaxIdle BY <3>2, WasmAssumption
    <3>4. QED BY <1>14, <3>1, <3>2, <3>3 DEF CountsAre
  <2>3. QED BY <2>1, <2>2
<1>16. ASSUME NEW a \in Activations PROVE ActIsSound(a)'
  <2>1. ActIsSound(a) BY <1>1 DEF ActsAreSound
  <2>2. ASSUME acts[a].pc \in Active, acts[a].module \in reusable
        PROVE  poolOf'[acts[a].module] = poolOf[acts[a].module]
    <3>m. PICK m : m = acts[a].module
      OBVIOUS
    <3>1. /\ m \in Modules /\ acts[a].state = poolOf[m] /\ poolOf[m] # 0 /\ poolOf[m] \in Indices
          /\ Pooled(a)
      BY <3>m, <1>8, <2>1, <2>2 DEF ActIsSound, Active, Pooled
    <3>2. CountsIn(a, m, poolOf[m], states[poolOf[m]])
      BY <3>m, <2>2, <3>1, CountedIn
    <3>3. states[poolOf[m]].inUse # 0 \/ states[poolOf[m]].creating # 0
      <4>1. acts[a].slot # 0 \/ acts[a].pc = "creating"
        BY <2>1, <2>2 DEF ActIsSound, Active
      <4>2. states[poolOf[m]].inUse > 0 \/ states[poolOf[m]].creating > 0
        BY <3>2, <4>1 DEF CountsIn
      <4>3. QED BY <4>2
    <3>4. ~ShouldDropState(states'[poolOf[m]])
      BY <1>6, <3>1, <3>3 DEF ShouldDropState
    <3>5. QED BY <3>m, <1>9, <3>1, <3>4
  <2>3. QED BY <1>2, <2>1, <2>2 DEF ActIsSound, Active
<1>17. CompilesAreSound'
  <2>1. clears \in Nat BY <1>1 DEF RestTyped
  <2>2. \A c \in 1..Len(compiles) : compiles[c].epoch \in Nat /\ compiles[c].epoch <= clears
    BY <1>1, CompilationsTyped DEF CompilesAreSound, EpochsArePast
  <2>3. QED
    BY <1>1, <1>2, <2>1, <2>2 DEF CompilesAreSound, EntryIsPending, EpochsArePast, OneCompilationAtATime
<1>18. SlotsAreApart' BY <1>1, <1>2 DEF SlotsAreApart
<1>19. QED
  BY <1>11, <1>12, <1>13, <1>15, <1>16, <1>17, <1>18 DEF PoolInv, CountsAreKept, ActsAreSound

----------------------------------------
(* The invariant. *)

(* No activation has an instance at first. *)
LEMMA Initially == WasmInit => PoolInv
<1> SUFFICES ASSUME WasmInit PROVE PoolInv
  OBVIOUS
<1>1. compiles = << >> /\ states = << >> /\ slots = 0 /\ trapped = {} /\ faults = 0 /\ clears = 0
  BY DEF WasmInit
<1>2. CompilesTyped BY EmptySeq DEF WasmInit, CompilesTyped
<1>3. StatesTyped BY EmptySeq DEF WasmInit, StatesTyped
<1>4. RestTyped BY WasmAssumption DEF WasmInit, RestTyped
<1>5. ActsTyped
  <2>1. NotActive \in ActsUpTo(0, 0, 0)
    BY WasmAssumption DEF NotActive, ActsUpTo
  <2>2. QED BY <1>1, <2>1 DEF WasmInit, ActsTyped
<1>6. WasmTypeOK BY <1>2, <1>3, <1>4, <1>5, TypeParts
<1>7. \A a \in Activations : acts[a].pc = "new" /\ acts[a].slot = 0 /\ acts[a].state = 0
  BY DEF WasmInit, NotActive
<1>8. ActsAreSound /\ SlotsAreApart
  BY <1>1, <1>7 DEF ActsAreSound, ActIsSound, SlotsAreApart
<1>9. OfferedOnce /\ MapIsSound /\ CountsAreKept
  BY <1>1 DEF WasmInit, OfferedOnce, MapIsSound, CountsAreKept, CountsAre, Indices
<1>10. CompilesAreSound
  BY <1>1 DEF CompilesAreSound, EntryIsPending, EpochsArePast, OneCompilationAtATime
<1>11. QED BY <1>6, <1>8, <1>9, <1>10 DEF PoolInv

(* A step that changes nothing. *)
LEMMA Stutters == ASSUME PoolInv, UNCHANGED wasmVars PROVE PoolInv'
<1>1. /\ CompilesTyped /\ RestTyped /\ CompilesAreSound
      /\ UNCHANGED <<reusable, entries, compiles, poolOf, states, slots, trapped, acts, faults, clears>>
  BY TypeParts DEF PoolInv, wasmVars
<1>2. CompilesTyped' /\ CompilesAreSound'
  BY <1>1, CompilesRest DEF CompilesTyped, Compilations
<1>3. QED BY <1>1, <1>2, CacheMoves DEF RestTyped

(* Every step keeps the invariant. *)
LEMMA Steps == ASSUME PoolInv, WasmNext PROVE PoolInv'
<1>1. ASSUME NEW a \in Activations, Computes(a) PROVE PoolInv'
  BY <1>1, AcquireIdleStep, AcquireNewStep, OneShotStep, ModuleFailedStep, CreatedStep,
     CreateFailsStep, ReturnsStep, SuspendsStep, AbandonStep, EffectDoneStep, TailDoneStep
  DEF Computes
<1>2. CASE WasmProgress
  BY <1>1, <1>2, SettleStep DEF WasmProgress
<1>3. CASE \E a \in Activations, m \in Modules :
             Activate(a, m) \/ \E parent \in Activations \ {a} : ActivateNested(a, m, parent)
  BY <1>3, ActivateStep, ActivateNestedStep
<1>4. QED BY <1>2, <1>3, ClearModulesStep, ClearPoolStep DEF WasmNext

(* The invariant holds whatever is relied on. *)
LEMMA PoolAlways == WasmInit /\ [][WasmNext]_wasmVars => []PoolInv
<1>1. PoolInv /\ [WasmNext]_wasmVars => PoolInv' BY Stutters, Steps
<1>2. QED BY <1>1, Initially, PTL

(* The inductive invariant holds of every run of the pool, the module      *)
(* cache and the executor (instance-pool.js, module-cache.js).             *)
THEOREM PoolInvariance == WasmSpec => []PoolInv
BY PoolAlways, PTL DEF WasmSpec

(* The pool's invariant contains its types. *)
LEMMA PoolTypes == PoolInv => WasmTypeOK
BY DEF PoolInv

(* Every variable keeps its type, for any activations, modules and bounds. *)
THEOREM PoolTypeCorrect == WasmSpec => []WasmTypeOK
BY PoolInvariance, PoolTypes, PTL

(* The invariant gives what the run checks. *)
LEMMA SoundPool == PoolInv => PoolIsSound
<1> SUFFICES ASSUME PoolInv PROVE PoolIsSound
  OBVIOUS
<1>1. /\ ActsAreSound /\ SlotsAreApart /\ OfferedOnce /\ MapIsSound /\ CountsAreKept
      /\ CompilesAreSound /\ RestTyped /\ StatesTyped
  BY TypeParts DEF PoolInv
<1>2. \A here \in IdlePlaces : /\ here[1] \in Indices /\ here[2] \in Places(here[1])
                               /\ here = <<here[1], here[2]>>
  BY DEF IdlePlaces, Indices, Places
<1>3. InstancesAreExclusive
  <2>1. \A a \in Activations : acts[a].slot \notin trapped
    BY <1>1 DEF ActsAreSound, ActIsSound
  <2>2. \A here \in IdlePlaces : /\ IdleAt(here) \notin trapped
                                 /\ \A a \in Activations : acts[a].slot # IdleAt(here)
    BY <1>1, <1>2 DEF OfferedOnce, IdleAt
  <2>3. \A here, there \in IdlePlaces : IdleAt(here) = IdleAt(there) => here = there
    BY <1>1, <1>2 DEF OfferedOnce, IdleAt
  <2>4. QED BY <1>1, <2>1, <2>2, <2>3 DEF InstancesAreExclusive, SlotsAreApart
<1>4. PoolKeepsCount
  <2> SUFFICES ASSUME NEW m \in reusable
               PROVE  /\ \A a \in LeasesOf(m) \cup CreationsOf(m) : acts[a].state = poolOf[m]
                      /\ HasState(m) =>
                           /\ states[poolOf[m]].inUse = Cardinality(LeasesOf(m))
                           /\ states[poolOf[m]].creating = Cardinality(CreationsOf(m))
                           /\ Len(states[poolOf[m]].idle) <= MaxIdle
    BY DEF PoolKeepsCount
  <2>1. m \in Modules /\ CountsAre(m) BY <1>1 DEF RestTyped, CountsAreKept
  <2>2. \A a \in LeasesOf(m) \cup CreationsOf(m) : acts[a].state = poolOf[m]
    BY <1>1 DEF LeasesOf, CreationsOf, ActsAreSound, ActIsSound
  <2>3. QED BY <2>1, <2>2 DEF CountsAre, HasState
<1>5. QED BY <1>1, <1>3, <1>4 DEF PoolIsSound, CompilesAreSound

(* No two activations have one instance, a trapped instance is never given *)
(* out again, the pool's counts are those of its leases, and a module is   *)
(* compiled once however many ask for it: for any activations, modules,    *)
(* limit of the pool and of resumptions, and any failures and clears.      *)
THEOREM PoolStaysSound == WasmSpec => []PoolIsSound
BY PoolInvariance, SoundPool, PTL


----------------------------------------
(* Promotion.  The inductive invariant: a call's own value is what it was   *)
(* asked for, every other frame of a task is a reservation of the memo.     *)
Frames == [obj : Objs \cup {Caller}, todo : SUBSET Objs, seen : SUBSET Objs]
Programs == [op : {"idle", "boundary", "reading", "writing"}, tasks : SUBSET Tasks,
             values : SUBSET Objs, obj : Objs \cup {Caller}]

FrameAt(t, i) == tasks[t][i]
Holds(t, i) == FrameAt(t, i).obj
Updates(o) == program.op \in {"reading", "writing"} /\ program.obj = o

StoreTyped ==
  /\ links \in [Objs -> SUBSET Objs]
  /\ memo \in [Objs -> {"absent", "in-progress", "complete"}]
  /\ stored \in [Objs -> (SUBSET Objs) \cup {NoRecord}]
  /\ environments \subseteq Closures /\ aliased \subseteq Objs

WorkTyped ==
  /\ tasks \in [Tasks -> Seq(Frames)]
  /\ outcome \in [Tasks -> {"none", "running", "answered", "failed"}]
  /\ program \in Programs
  /\ program.op \in {"reading", "writing"} => program.obj \in Objs
  /\ failures \in Nat /\ mutations \in Nat

(* A task begins with the caller's frame, and no other is the caller's. *)
CallersAreOutermost ==
  \A t \in Tasks : \A i \in DOMAIN tasks[t] : Holds(t, i) = Caller <=> i = 1

(* An object is being promoted by one call at most, and the memo says of   *)
(* which objects that is so.                                               *)
ReservedOnce ==
  \A t, u \in Tasks : \A i \in DOMAIN tasks[t] : \A j \in DOMAIN tasks[u] :
    Holds(t, i) = Holds(u, j) /\ Holds(t, i) # Caller => t = u /\ i = j

ReservationsAreHeld ==
  \A o \in Objs :
    memo[o] = "in-progress" <=> \E t \in Tasks : \E i \in DOMAIN tasks[t] : Holds(t, i) = o

CompleteIsStored ==
  \A o \in Objs : memo[o] = "complete" =>
    stored[o] # NoRecord /\ (o \in Closures => o \in environments)

(* As long as no write failed: the program waits for every task, and none  *)
(* fails.                                                                  *)
TasksAreAwaited ==
  \A t \in Tasks :
    /\ outcome[t] # "failed"
    /\ Busy(t) => /\ outcome[t] = "running" /\ t \in program.tasks
                  /\ program.op \in {"boundary", "writing"}

(* Then no record refers to what the memo does not know, and only the      *)
(* object a write is at work on may differ from its record.                *)
RecordsAreUpToDate ==
  \A o \in Objs : stored[o] # NoRecord =>
    /\ memo[o] = "complete"
    /\ \A x \in stored[o] : Known(x)
    /\ stored[o] = links[o] \/ Updates(o) \/ o \in aliased

(* A promotion has its object's links as they are, and has promoted those  *)
(* that it has left behind.                                                *)
FramesAreUpToDate ==
  \A t \in Tasks : \A i \in DOMAIN tasks[t] : Holds(t, i) # Caller =>
    /\ FrameAt(t, i).seen = links[Holds(t, i)]
    /\ \A x \in FrameAt(t, i).seen : x \in FrameAt(t, i).todo \/ Known(x)

(* A write through the view has the object's new links, and its tasks are  *)
(* at work on those the memo does not know yet.                            *)
WritesAreUpToDate ==
  /\ program.op \in {"reading", "writing"} =>
       memo[program.obj] = "complete" /\ program.values = links[program.obj]
  /\ program.op = "writing" =>
       \A x \in program.values :
         Known(x) \/ \E t \in Tasks : Busy(t) /\ x \in FrameAt(t, 1).todo

Reservations == CallersAreOutermost /\ ReservedOnce /\ ReservationsAreHeld /\ CompleteIsStored
Calm == TasksAreAwaited /\ RecordsAreUpToDate /\ FramesAreUpToDate /\ WritesAreUpToDate

PromotionInv == StoreTyped /\ WorkTyped /\ Reservations /\ (failures = 0 => Calm)

----------------------------------------
(* A stack without its last frame. *)
LEMMA Popped ==
  ASSUME NEW S, NEW s \in Seq(S), s # << >>
  PROVE  /\ Len(s) \in Nat \ {0} /\ DOMAIN s = 1..Len(s)
         /\ Last(s) = s[Len(s)] /\ Last(s) \in S
         /\ Front(s) \in Seq(S) /\ Len(Front(s)) = Len(s) - 1
         /\ DOMAIN Front(s) = 1..Len(s) - 1
         /\ \A i \in 1..Len(s) - 1 : Front(s)[i] = s[i]
<1>1. Len(s) \in Nat \ {0} /\ DOMAIN s = 1..Len(s) BY EmptySeq, LenProperties
<1>2. Last(s) = s[Len(s)] /\ Last(s) \in S BY <1>1, ElementOfSeq DEF Last
<1>3. Front(s) = [i \in 1..Len(s) - 1 |-> s[i]] BY <1>1 DEF Front
<1>4. \A i \in 1..Len(s) - 1 : s[i] \in S BY <1>1, ElementOfSeq
<1>5. Front(s) \in Seq(S) /\ Len(Front(s)) = Len(s) - 1
  <2>1. Len(s) - 1 \in Nat BY <1>1
  <2>2. [i \in 1..Len(s) - 1 |-> s[i]] \in [1..Len(s) - 1 -> S] BY <1>4
  <2>3. Front(s) \in Seq(S) BY <1>3, <2>1, <2>2, SeqDef
  <2>4. QED BY <1>3, <2>1, <2>3, LenProperties
<1>6. QED BY <1>1, <1>2, <1>3, <1>5

(* A stack whose last frame is replaced. *)
LEMMA Replaced ==
  ASSUME NEW S, NEW s \in Seq(S), s # << >>, NEW e \in S
  PROVE  LET r == Append(Front(s), e)
         IN  /\ r \in Seq(S) /\ Len(r) = Len(s) /\ DOMAIN r = 1..Len(s)
             /\ \A i \in 1..Len(s) : r[i] = IF i = Len(s) THEN e ELSE s[i]
<1>1. /\ Len(s) \in Nat \ {0} /\ Front(s) \in Seq(S) /\ Len(Front(s)) = Len(s) - 1
      /\ \A i \in 1..Len(s) - 1 : Front(s)[i] = s[i]
  BY Popped
<1>2. QED BY <1>1, AppendProperties, LenProperties

(* A stack that a frame is put on. *)
LEMMA Pushed ==
  ASSUME NEW S, NEW s \in Seq(S), NEW e \in S
  PROVE  LET r == Append(s, e)
         IN  /\ r \in Seq(S) /\ Len(r) = Len(s) + 1 /\ DOMAIN r = 1..Len(s) + 1
             /\ \A i \in 1..Len(s) + 1 : r[i] = IF i = Len(s) + 1 THEN e ELSE s[i]
BY AppendProperties, LenProperties

(* What is on top of a task at work. *)
LEMMA TopFrame ==
  ASSUME WorkTyped, NEW t \in Tasks, Busy(t)
  PROVE  /\ tasks[t] \in Seq(Frames) /\ tasks[t] # << >>
         /\ Len(tasks[t]) \in Nat \ {0} /\ DOMAIN tasks[t] = 1..Len(tasks[t])
         /\ Top(t) = FrameAt(t, Len(tasks[t])) /\ Top(t) \in Frames
BY Popped DEF WorkTyped, Busy, Top, FrameAt

(* A durable record is not the mark of its absence. *)
LEMMA RecordsAreRecords == \A values \in SUBSET Objs : values # NoRecord
BY PromotionAssumption DEF NoRecord

(* The initial states. *)
LEMMA PromotionBegins == PromotionInit => PromotionInv
<1> SUFFICES ASSUME PromotionInit PROVE PromotionInv
  OBVIOUS
<1> USE DEF PromotionInit
<1>1. StoreTyped BY PromotionAssumption DEF StoreTyped
<1>2. WorkTyped
  <2>1. program \in Programs /\ program.op = "idle" BY DEF Idle, Programs
  <2>2. tasks \in [Tasks -> Seq(Frames)] BY EmptySeq
  <2>3. QED BY <2>1, <2>2 DEF WorkTyped
<1>3. \A t \in Tasks : ~Busy(t) /\ DOMAIN tasks[t] = {} BY EmptySeq DEF Busy
<1>4. Reservations
  BY <1>3 DEF Reservations, CallersAreOutermost, ReservedOnce, ReservationsAreHeld, CompleteIsStored
<1>5. Calm
  BY <1>3 DEF Calm, TasksAreAwaited, RecordsAreUpToDate, FramesAreUpToDate, WritesAreUpToDate, Idle
<1>6. QED BY <1>1, <1>2, <1>4, <1>5 DEF PromotionInv

(* Steps that leave everything as it is. *)
LEMMA PromotionRests == PromotionInv /\ UNCHANGED promotionVars => PromotionInv'
BY DEF PromotionInv, promotionVars, StoreTyped, WorkTyped, Reservations, CallersAreOutermost,
       ReservedOnce, ReservationsAreHeld, CompleteIsStored, Calm, TasksAreAwaited,
       RecordsAreUpToDate, FramesAreUpToDate, WritesAreUpToDate, Busy, Known, FrameAt, Holds, Updates

(* No step that leaves the tasks, the memo, the store and the environments *)
(* alone touches a reservation.                                            *)
LEMMA ReservationsRest ==
  ASSUME Reservations, UNCHANGED <<tasks, memo, stored, environments>>
  PROVE  Reservations'
BY DEF Reservations, CallersAreOutermost, ReservedOnce, ReservationsAreHeld, CompleteIsStored,
       FrameAt, Holds

(* Without failures nothing runs while the program does not wait. *)
LEMMA NothingRuns ==
  ASSUME TasksAreAwaited, ReservationsAreHeld, StoreTyped,
         program.op \in {"idle", "reading"} \/ Answered
  PROVE  /\ \A t \in Tasks : ~Busy(t) /\ DOMAIN tasks[t] = {}
         /\ \A o \in Objs : memo[o] \in {"absent", "complete"}
<1>1. \A t \in Tasks : ~Busy(t) BY DEF TasksAreAwaited, Answered
<1>2. \A t \in Tasks : DOMAIN tasks[t] = {} BY <1>1, EmptySeq DEF Busy
<1>3. QED BY <1>1, <1>2 DEF ReservationsAreHeld, StoreTyped

(* A boundary answers or is rejected. *)
LEMMA SettlesStep == PromotionInv /\ BoundarySettles => PromotionInv'
<1> SUFFICES ASSUME PromotionInv, BoundarySettles PROVE PromotionInv'
  OBVIOUS
<1> USE DEF BoundarySettles
<1>1. StoreTyped /\ WorkTyped /\ Reservations /\ (failures = 0 => Calm)
  BY DEF PromotionInv
<1>2. StoreTyped' BY <1>1 DEF StoreTyped
<1>3. program' = Idle /\ program' \in Programs /\ program'.op = "idle"
  BY DEF Idle, Programs
<1>4. WorkTyped' BY <1>1, <1>3 DEF WorkTyped
<1>5. Reservations' BY <1>1, ReservationsRest
<1>6. ASSUME failures = 0 PROVE Calm'
  <2>1. Calm /\ Answered /\ program.op = "boundary"
    BY <1>1, <1>6 DEF Calm, TasksAreAwaited, Rejected, WorkTyped, Programs
  <2>2. \A t \in Tasks : ~Busy(t) /\ DOMAIN tasks[t] = {}
    BY <1>1, <2>1, NothingRuns DEF Calm, Reservations
  <2>3. TasksAreAwaited' /\ FramesAreUpToDate' /\ WritesAreUpToDate'
    BY <1>3, <2>1, <2>2 DEF Calm, TasksAreAwaited, FramesAreUpToDate, WritesAreUpToDate, Busy
  <2>4. RecordsAreUpToDate'
    BY <1>3, <2>1 DEF Calm, RecordsAreUpToDate, Updates, Known
  <2>5. QED BY <2>3, <2>4 DEF Calm
<1>7. QED BY <1>2, <1>4, <1>5, <1>6 DEF PromotionInv

(* An object is written in the arena, and its record is to follow. *)
LEMMA MutateStep ==
  ASSUME PromotionInv, NEW o \in Objs, NEW new \in SUBSET Objs, Mutate(o, new)
  PROVE  PromotionInv'
<1> USE DEF Mutate
<1>1. StoreTyped /\ WorkTyped /\ Reservations /\ (failures = 0 => Calm)
  BY DEF PromotionInv
<1>2. StoreTyped' BY <1>1 DEF StoreTyped
<1>3. /\ program' \in Programs /\ program'.op \in {"idle", "reading"}
      /\ program'.op = "reading" =>
           program'.obj = o /\ program'.values = new /\ memo[o] # "absent"
      /\ memo[o] # "absent" => program'.op = "reading"
  BY DEF Idle, Programs
<1>4. WorkTyped' BY <1>1, <1>3 DEF WorkTyped
<1>5. Reservations' BY <1>1, ReservationsRest
<1>6. ASSUME failures = 0 PROVE Calm'
  <2>1. Calm BY <1>1, <1>6
  <2>2. /\ \A t \in Tasks : ~Busy(t) /\ DOMAIN tasks[t] = {}
        /\ \A x \in Objs : memo[x] \in {"absent", "complete"}
    BY <1>1, <2>1, NothingRuns DEF Calm, Reservations
  <2>3. links'[o] = new /\ \A x \in Objs \ {o} : links'[x] = links[x]
    BY <1>1 DEF StoreTyped
  <2>4. TasksAreAwaited' /\ FramesAreUpToDate'
    BY <2>1, <2>2 DEF Calm, TasksAreAwaited, FramesAreUpToDate, Busy
  <2>5. WritesAreUpToDate' BY <1>3, <2>2, <2>3 DEF WritesAreUpToDate
  <2>6. RecordsAreUpToDate'
    <3> SUFFICES ASSUME NEW x \in Objs, stored[x] # NoRecord
                 PROVE  /\ memo[x] = "complete"
                        /\ \A y \in stored[x] : Known(y)
                        /\ stored[x] = links'[x] \/ Updates(x)' \/ x \in aliased
      BY DEF RecordsAreUpToDate, Known
    <3>1. /\ memo[x] = "complete" /\ (\A y \in stored[x] : Known(y))
          /\ stored[x] = links[x] \/ x \in aliased
      BY <2>1 DEF Calm, RecordsAreUpToDate, Updates
    <3>2. CASE x = o
      BY <1>3, <3>1, <3>2 DEF Updates
    <3>3. CASE x # o
      BY <2>3, <3>1, <3>3
    <3>4. QED BY <3>1, <3>2, <3>3
  <2>7. QED BY <2>4, <2>5, <2>6 DEF Calm
<1>7. QED BY <1>2, <1>4, <1>5, <1>6 DEF PromotionInv

(* The record follows the object, and its links are known by then. *)
LEMMA WriteThroughStep == PromotionInv /\ WriteThrough => PromotionInv'
<1> SUFFICES ASSUME PromotionInv, WriteThrough PROVE PromotionInv'
  OBVIOUS
<1> DEFINE written == [stored EXCEPT ![program.obj] = program.values]
<1>1. StoreTyped /\ WorkTyped /\ Reservations /\ (failures = 0 => Calm)
  BY DEF PromotionInv
<1>2. /\ program.op = "writing" /\ Answered /\ program' = Idle
      /\ stored' \in {stored, written} /\ failures' \in {failures, failures + 1}
      /\ failures' = failures => stored' = written
      /\ aliased' = aliased \ {program.obj}
      /\ UNCHANGED <<links, memo, environments, tasks, outcome, mutations>>
  <2>1. failures \in Nat BY <1>1 DEF WorkTyped
  <2>2. QED BY <2>1 DEF WriteThrough
<1>3. /\ program.obj \in Objs /\ program.values \in SUBSET Objs
      /\ program' \in Programs /\ program'.op = "idle"
  BY <1>1, <1>2 DEF WorkTyped, Programs, Idle
<1>4. /\ written[program.obj] = program.values
      /\ \A x \in Objs \ {program.obj} : written[x] = stored[x]
      /\ written \in [Objs -> (SUBSET Objs) \cup {NoRecord}]
  BY <1>1, <1>3 DEF StoreTyped
<1>5. StoreTyped' BY <1>1, <1>2, <1>4 DEF StoreTyped
<1>6. WorkTyped' BY <1>1, <1>2, <1>3 DEF WorkTyped
<1>7. CompleteIsStored'
  BY <1>1, <1>2, <1>3, <1>4, RecordsAreRecords DEF Reservations, CompleteIsStored
<1>8. Reservations'
  BY <1>1, <1>2, <1>7 DEF Reservations, CallersAreOutermost, ReservedOnce, ReservationsAreHeld,
     FrameAt, Holds
<1>9. ASSUME failures' = 0 PROVE Calm'
  <2>1. failures = 0 /\ stored' = written /\ Calm
    BY <1>1, <1>2, <1>9 DEF WorkTyped
  <2>2. /\ \A t \in Tasks : ~Busy(t) /\ DOMAIN tasks[t] = {}
        /\ \A x \in Objs : memo[x] \in {"absent", "complete"}
    BY <1>1, <1>2, <2>1, NothingRuns DEF Calm, Reservations
  <2>3. TasksAreAwaited' /\ FramesAreUpToDate' /\ WritesAreUpToDate'
    BY <1>2, <1>3, <2>1, <2>2 DEF Calm, TasksAreAwaited, FramesAreUpToDate, WritesAreUpToDate, Busy
  <2>4. /\ memo[program.obj] = "complete" /\ program.values = links[program.obj]
        /\ \A x \in program.values : Known(x)
    BY <1>2, <2>1, <2>2 DEF Calm, WritesAreUpToDate
  <2>5. RecordsAreUpToDate'
    <3> SUFFICES ASSUME NEW x \in Objs, written[x] # NoRecord
                 PROVE  /\ memo[x] = "complete"
                        /\ \A y \in written[x] : Known(y)
                        /\ written[x] = links[x] \/ x \in aliased'
      BY <1>2, <2>1 DEF RecordsAreUpToDate, Known
    <3>1. CASE x = program.obj
      BY <1>4, <2>4, <3>1
    <3>2. CASE x # program.obj
      BY <1>2, <1>4, <2>1, <3>2 DEF Calm, RecordsAreUpToDate, Updates
    <3>3. QED BY <3>1, <3>2
  <2>6. QED BY <2>3, <2>5 DEF Calm
<1>10. QED BY <1>5, <1>6, <1>8, <1>9 DEF PromotionInv

(* A record is written by its durable ref, with links that are known. *)
LEMMA PutDurableStep ==
  ASSUME PromotionInv, NEW o \in Objs, NEW new \in SUBSET Objs, PutDurable(o, new)
  PROVE  PromotionInv'
<1> DEFINE written == [stored EXCEPT ![o] = new]
<1>1. StoreTyped /\ WorkTyped /\ Reservations /\ (failures = 0 => Calm)
  BY DEF PromotionInv
<1>2. /\ program.op = "idle" /\ (\A x \in new \cup {o} : memo[x] = "complete")
      /\ stored' \in {stored, written} /\ failures' \in {failures, failures + 1}
      /\ failures' = failures => stored' = written
      /\ aliased' = aliased \cup {o} /\ mutations' = mutations + 1
      /\ UNCHANGED <<links, memo, environments, tasks, outcome, program>>
  <2>1. failures \in Nat BY <1>1 DEF WorkTyped
  <2>2. QED BY <2>1 DEF PutDurable
<1>3. /\ written[o] = new /\ \A x \in Objs \ {o} : written[x] = stored[x]
      /\ written \in [Objs -> (SUBSET Objs) \cup {NoRecord}]
  BY <1>1 DEF StoreTyped
<1>4. StoreTyped' BY <1>1, <1>2, <1>3 DEF StoreTyped
<1>5. WorkTyped' BY <1>1, <1>2 DEF WorkTyped
<1>6. CompleteIsStored'
  BY <1>1, <1>2, <1>3, RecordsAreRecords DEF Reservations, CompleteIsStored
<1>7. Reservations'
  BY <1>1, <1>2, <1>6 DEF Reservations, CallersAreOutermost, ReservedOnce, ReservationsAreHeld,
     FrameAt, Holds
<1>8. ASSUME failures' = 0 PROVE Calm'
  <2>1. failures = 0 /\ stored' = written /\ Calm
    BY <1>1, <1>2, <1>8 DEF WorkTyped
  <2>2. TasksAreAwaited' /\ FramesAreUpToDate' /\ WritesAreUpToDate'
    BY <1>2, <2>1 DEF Calm, TasksAreAwaited, FramesAreUpToDate, WritesAreUpToDate, Busy, Known,
       Holds, FrameAt
  <2>3. RecordsAreUpToDate'
    <3> SUFFICES ASSUME NEW x \in Objs, written[x] # NoRecord
                 PROVE  /\ memo[x] = "complete"
                        /\ \A y \in written[x] : Known(y)
                        /\ written[x] = links[x] \/ x \in aliased'
      BY <1>2, <2>1 DEF RecordsAreUpToDate, Known
    <3>1. CASE x = o
      BY <1>2, <1>3, <3>1 DEF Known
    <3>2. CASE x # o
      BY <1>2, <1>3, <2>1, <3>2 DEF Calm, RecordsAreUpToDate, Updates
    <3>3. QED BY <3>1, <3>2
  <2>4. QED BY <2>2, <2>3 DEF Calm
<1>9. QED BY <1>4, <1>5, <1>7, <1>8 DEF PromotionInv

(* The environment of a closure is stored. *)
LEMMA EnvironmentStep ==
  ASSUME PromotionInv, NEW t \in Tasks, PublishEnvironment(t)
  PROVE  PromotionInv'
<1> USE DEF PublishEnvironment
<1>1. StoreTyped /\ WorkTyped /\ Reservations /\ (failures = 0 => Calm)
  BY DEF PromotionInv
<1>2. StoreTyped' /\ WorkTyped' BY <1>1 DEF StoreTyped, WorkTyped
<1>3. Reservations'
  BY <1>1 DEF Reservations, CallersAreOutermost, ReservedOnce, ReservationsAreHeld,
     CompleteIsStored, FrameAt, Holds
<1>4. failures' = 0 => Calm'
  BY <1>1 DEF Calm, TasksAreAwaited, RecordsAreUpToDate, FramesAreUpToDate, WritesAreUpToDate,
     Busy, Known, FrameAt, Holds, Updates
<1>5. QED BY <1>2, <1>3, <1>4 DEF PromotionInv

(* A task has promoted what it was asked for. *)
LEMMA AnswersStep ==
  ASSUME PromotionInv, NEW t \in Tasks, TaskAnswers(t)
  PROVE  PromotionInv'
<1> USE DEF TaskAnswers
<1>1. StoreTyped /\ WorkTyped /\ Reservations /\ (failures = 0 => Calm)
  BY DEF PromotionInv
<1>2. /\ tasks[t] \in Seq(Frames) /\ tasks[t] # << >>
      /\ Len(tasks[t]) \in Nat \ {0} /\ DOMAIN tasks[t] = 1..Len(tasks[t])
      /\ Top(t) = FrameAt(t, Len(tasks[t])) /\ Top(t) \in Frames
  BY <1>1, TopFrame
<1>3. Len(tasks[t]) = 1
  <2>1. Len(tasks[t]) \in DOMAIN tasks[t] /\ Holds(t, Len(tasks[t])) = Caller
    BY <1>2 DEF Holds
  <2>2. QED BY <1>1, <2>1 DEF Reservations, CallersAreOutermost
<1>4. /\ tasks'[t] = << >> /\ DOMAIN tasks'[t] = {}
      /\ \A u \in Tasks \ {t} : tasks'[u] = tasks[u]
      /\ outcome'[t] = "answered" /\ \A u \in Tasks \ {t} : outcome'[u] = outcome[u]
  BY <1>1, EmptySeq DEF WorkTyped
<1>5. DOMAIN tasks[t] = {1} /\ Holds(t, 1) = Caller /\ FrameAt(t, 1).todo = {}
  BY <1>2, <1>3 DEF Holds
<1>6. StoreTyped' BY <1>1 DEF StoreTyped
<1>7. WorkTyped' BY <1>1, EmptySeq DEF WorkTyped
<1>8. Reservations'
  <2>1. CallersAreOutermost'
    BY <1>1, <1>4 DEF Reservations, CallersAreOutermost, Holds, FrameAt
  <2>2. ReservedOnce'
    BY <1>1, <1>4 DEF Reservations, ReservedOnce, Holds, FrameAt
  <2>3. ReservationsAreHeld'
    BY <1>1, <1>4, <1>5, PromotionAssumption DEF Reservations, ReservationsAreHeld, Holds, FrameAt
  <2>4. CompleteIsStored' BY <1>1 DEF Reservations, CompleteIsStored
  <2>5. QED BY <2>1, <2>2, <2>3, <2>4 DEF Reservations
<1>9. ASSUME failures = 0 PROVE Calm'
  <2>1. Calm BY <1>1, <1>9
  <2>2. TasksAreAwaited' BY <1>4, <2>1 DEF Calm, TasksAreAwaited, Busy
  <2>3. RecordsAreUpToDate' BY <2>1 DEF Calm, RecordsAreUpToDate, Known, Updates
  <2>4. FramesAreUpToDate'
    BY <1>4, <2>1 DEF Calm, FramesAreUpToDate, Known, Holds, FrameAt
  <2>5. WritesAreUpToDate'
    BY <1>4, <1>5, <2>1 DEF Calm, WritesAreUpToDate, Known, FrameAt, Busy
  <2>6. QED BY <2>2, <2>3, <2>4, <2>5 DEF Calm
<1>10. QED BY <1>6, <1>7, <1>8, <1>9 DEF PromotionInv

(* Every value that a launch has room for gets a free task of its own. *)
LEMMA SlotsAreFound ==
  ASSUME NEW values \in SUBSET Objs, CanLaunch(values)
  PROVE  /\ Slots(values) \in [values -> FreeTasks]
         /\ \A v, w \in values : Slots(values)[v] = Slots(values)[w] => v = w
<1> DEFINE n == Cardinality(values)
           m == Cardinality(FreeTasks)
<1>1. IsFiniteSet(values) /\ IsFiniteSet(FreeTasks)
  BY PromotionAssumption, FS_Subset DEF FreeTasks
<1>2. n \in Nat /\ m \in Nat /\ n <= m BY <1>1, FS_CardinalityType DEF CanLaunch
<1>3. ExistsBijection(values, 1..n) /\ ExistsBijection(1..m, FreeTasks)
  BY <1>1, FS_CardinalityType, Fun_ExistsBijSymmetric
<1>4. PICK f \in Bijection(values, 1..n) : TRUE
  BY <1>3, Fun_ExistsBij
<1>5. PICK g \in Bijection(1..m, FreeTasks) : TRUE
  BY <1>3, Fun_ExistsBij
<1>6. f \in [values -> 1..n] /\ \A v, w \in values : f[v] = f[w] => v = w
  BY <1>4 DEF Bijection, Injection, IsInjective
<1>7. g \in [1..m -> FreeTasks] /\ \A i, j \in 1..m : g[i] = g[j] => i = j
  BY <1>5 DEF Bijection, Injection, IsInjective
<1> DEFINE slot == [v \in values |-> g[f[v]]]
<1>8. \A v \in values : f[v] \in 1..m BY <1>2, <1>6
<1>9. /\ slot \in [values -> FreeTasks]
      /\ \A v, w \in values : slot[v] = slot[w] => v = w
  BY <1>6, <1>7, <1>8
<1> HIDE DEF slot
<1>10. QED BY <1>9 DEF Slots

(* What a launch does to the tasks. *)
LEMMA Launched ==
  ASSUME WorkTyped, NEW values \in SUBSET Objs, Launch(values)
  PROVE  /\ Started(values) \subseteq FreeTasks
         /\ \A t \in Started(values) :
              /\ outcome'[t] = "running"
              /\ \E v \in values : tasks'[t] = <<Frame(Caller, {v}, {})>>
         /\ \A v \in values : \E t \in Started(values) : tasks'[t] = <<Frame(Caller, {v}, {})>>
         /\ \A t \in Tasks \ Started(values) :
              /\ tasks'[t] = tasks[t]
              /\ outcome'[t] = IF Busy(t) THEN outcome[t] ELSE "none"
         /\ DOMAIN tasks' = Tasks /\ tasks' = [t \in Tasks |-> tasks'[t]]
         /\ DOMAIN outcome' = Tasks /\ outcome' = [t \in Tasks |-> outcome'[t]]
<1> DEFINE slot == Slots(values)
           First(t) == CHOOSE v \in values : slot[v] = t
<1>1. /\ slot \in [values -> FreeTasks]
      /\ \A v, w \in values : slot[v] = slot[w] => v = w
  BY SlotsAreFound DEF Launch
<1>2. Started(values) \subseteq FreeTasks /\ FreeTasks \subseteq Tasks
  BY <1>1 DEF Started, FreeTasks
<1>3. tasks' = [t \in Tasks |-> IF t \in Started(values)
                                THEN <<Frame(Caller, {First(t)}, {})>> ELSE tasks[t]]
  BY DEF Launch
<1>4. outcome' = [t \in Tasks |-> IF t \in Started(values) THEN "running"
                                  ELSE IF Busy(t) THEN outcome[t] ELSE "none"]
  BY DEF Launch
<1>5. \A t \in Started(values) : First(t) \in values /\ slot[First(t)] = t
  BY DEF Started
<1>6. \A v \in values : slot[v] \in Started(values) /\ First(slot[v]) = v
  BY <1>1, <1>5 DEF Started
<1> HIDE DEF slot, First
<1>7. QED BY <1>2, <1>3, <1>4, <1>5, <1>6

(* A boundary and a write that found its record start tasks. *)
LEMMA LaunchStep ==
  ASSUME PromotionInv, NEW values \in SUBSET Objs, Launch(values),
         program.op \in {"idle", "reading"},
         program' \in Programs, program'.tasks = Started(values),
         program'.op \in {"boundary", "writing"},
         program'.op = "writing" =>
           /\ program.op = "reading" /\ program'.obj = program.obj
           /\ program'.values = program.values /\ program.values = values,
         program'.op = "boundary" => program.op = "idle",
         UNCHANGED <<links, memo, stored, environments, failures, mutations, aliased>>
  PROVE  PromotionInv'
<1>1. StoreTyped /\ WorkTyped /\ Reservations /\ (failures = 0 => Calm)
  BY DEF PromotionInv
<1>2. /\ Started(values) \subseteq FreeTasks
      /\ \A t \in Started(values) :
           /\ outcome'[t] = "running"
           /\ \E v \in values : tasks'[t] = <<Frame(Caller, {v}, {})>>
      /\ \A v \in values : \E t \in Started(values) : tasks'[t] = <<Frame(Caller, {v}, {})>>
      /\ \A t \in Tasks \ Started(values) :
           /\ tasks'[t] = tasks[t]
           /\ outcome'[t] = IF Busy(t) THEN outcome[t] ELSE "none"
      /\ tasks' = [t \in Tasks |-> tasks'[t]]
      /\ outcome' = [t \in Tasks |-> outcome'[t]]
  BY <1>1, Launched
<1>3. Started(values) \subseteq Tasks /\ \A t \in Started(values) : ~Busy(t) /\ DOMAIN tasks[t] = {}
  BY <1>2, EmptySeq DEF FreeTasks, Busy
<1>4. \A v \in values : /\ Frame(Caller, {v}, {}) \in Frames
                        /\ Frame(Caller, {v}, {}).obj = Caller
                        /\ Frame(Caller, {v}, {}).todo = {v}
  BY DEF Frame, Frames
<1>5. \A t \in Started(values) :
        /\ tasks'[t] \in Seq(Frames) /\ tasks'[t] # << >>
        /\ DOMAIN tasks'[t] = {1} /\ tasks'[t][1].obj = Caller
  <2> SUFFICES ASSUME NEW t \in Started(values)
               PROVE  /\ tasks'[t] \in Seq(Frames) /\ tasks'[t] # << >>
                      /\ DOMAIN tasks'[t] = {1} /\ tasks'[t][1].obj = Caller
    OBVIOUS
  <2>1. PICK v \in values : tasks'[t] = <<Frame(Caller, {v}, {})>>
    BY <1>2
  <2> DEFINE frame == Frame(Caller, {v}, {})
  <2>2. frame \in Frames /\ frame.obj = Caller BY <1>4
  <2> HIDE DEF frame
  <2>3. <<frame>> \in Seq(Frames) /\ <<frame>> # << >> /\ DOMAIN <<frame>> = {1}
        /\ <<frame>>[1] = frame
    BY <2>2
  <2>4. QED BY <2>1, <2>2, <2>3 DEF frame
<1>6. StoreTyped' BY <1>1 DEF StoreTyped
<1>7. WorkTyped'
  <2>1. \A t \in Tasks : tasks'[t] \in Seq(Frames)
    BY <1>1, <1>2, <1>5 DEF WorkTyped
  <2>2. \A t \in Tasks : outcome'[t] \in {"none", "running", "answered", "failed"}
    BY <1>1, <1>2 DEF WorkTyped
  <2>3. program'.op \in {"reading", "writing"} => program'.obj \in Objs
    BY <1>1 DEF WorkTyped
  <2>4. QED BY <1>1, <1>2, <2>1, <2>2, <2>3 DEF WorkTyped
<1>8. Reservations'
  <2>1. CallersAreOutermost'
    BY <1>1, <1>2, <1>5 DEF Reservations, CallersAreOutermost, Holds, FrameAt
  <2>2. ReservedOnce'
    <3> SUFFICES ASSUME NEW t \in Tasks, NEW u \in Tasks,
                        NEW i \in DOMAIN tasks'[t], NEW j \in DOMAIN tasks'[u],
                        tasks'[t][i].obj = tasks'[u][j].obj, tasks'[t][i].obj # Caller
                 PROVE  t = u /\ i = j
      BY DEF ReservedOnce, Holds, FrameAt
    <3>1. t \notin Started(values) /\ u \notin Started(values) BY <1>5
    <3>2. QED BY <1>1, <1>2, <3>1 DEF Reservations, ReservedOnce, Holds, FrameAt
  <2>3. ReservationsAreHeld'
    <3>1. \A o \in Objs : \A t \in Tasks :
            (\E i \in DOMAIN tasks'[t] : tasks'[t][i].obj = o)
              <=> \E i \in DOMAIN tasks[t] : tasks[t][i].obj = o
      <4> SUFFICES ASSUME NEW o \in Objs, NEW t \in Tasks
                   PROVE  (\E i \in DOMAIN tasks'[t] : tasks'[t][i].obj = o)
                            <=> \E i \in DOMAIN tasks[t] : tasks[t][i].obj = o
        OBVIOUS
      <4>1. CASE t \in Started(values)
        BY <1>3, <1>5, <4>1, PromotionAssumption
      <4>2. CASE t \notin Started(values)
        BY <1>2, <4>2
      <4>3. QED BY <4>1, <4>2
    <3>2. QED BY <1>1, <3>1 DEF Reservations, ReservationsAreHeld, Holds, FrameAt
  <2>4. CompleteIsStored' BY <1>1 DEF Reservations, CompleteIsStored
  <2>5. QED BY <2>1, <2>2, <2>3, <2>4 DEF Reservations
<1>9. ASSUME failures = 0 PROVE Calm'
  <2>1. Calm BY <1>1, <1>9
  <2>2. \A t \in Tasks : ~Busy(t) /\ DOMAIN tasks[t] = {}
    BY <1>1, <2>1, NothingRuns DEF Calm, Reservations
  <2>3. TasksAreAwaited' BY <1>2, <2>1, <2>2 DEF Calm, TasksAreAwaited, Busy
  <2>4. RecordsAreUpToDate' BY <2>1 DEF Calm, RecordsAreUpToDate, Known, Updates
  <2>5. FramesAreUpToDate'
    <3> SUFFICES ASSUME NEW t \in Tasks, NEW i \in DOMAIN tasks'[t], tasks'[t][i].obj # Caller
                 PROVE  FALSE
      BY DEF FramesAreUpToDate, Holds, FrameAt
    <3>1. QED BY <1>2, <1>5, <2>2
  <2>6. WritesAreUpToDate'
    <3> SUFFICES ASSUME program'.op = "writing"
                 PROVE  /\ memo[program'.obj] = "complete"
                        /\ program'.values = links[program'.obj]
                        /\ \A x \in program'.values : \E t \in Tasks : 
                             tasks'[t] # << >> /\ x \in tasks'[t][1].todo
      BY DEF WritesAreUpToDate, Known, FrameAt, Busy
    <3>1. memo[program'.obj] = "complete" /\ program'.values = links[program'.obj]
      BY <2>1 DEF Calm, WritesAreUpToDate
    <3>2. \A x \in values : \E t \in Tasks : tasks'[t] # << >> /\ x \in tasks'[t][1].todo
      <4> SUFFICES ASSUME NEW x \in values
                   PROVE  \E t \in Tasks : tasks'[t] # << >> /\ x \in tasks'[t][1].todo
        OBVIOUS
      <4>1. PICK t \in Started(values) : tasks'[t] = <<Frame(Caller, {x}, {})>>
        BY <1>2
      <4>2. QED BY <1>3, <1>4, <1>5, <4>1
    <3>3. QED BY <3>1, <3>2
  <2>7. QED BY <2>3, <2>4, <2>5, <2>6 DEF Calm
<1>10. QED BY <1>6, <1>7, <1>8, <1>9 DEF PromotionInv

(* A boundary promotes values. *)
LEMMA BoundaryStep ==
  ASSUME PromotionInv, NEW values \in SUBSET Objs, Boundary(values)
  PROVE  PromotionInv'
<1> USE DEF Boundary
<1>1. WorkTyped BY DEF PromotionInv
<1>2. Started(values) \subseteq Tasks BY <1>1, Launched DEF FreeTasks
<1>3. program' \in Programs BY <1>2 DEF Programs
<1>4. QED BY <1>3, LaunchStep

(* The view reads the durable copy of an object that was written. *)
LEMMA ReadStep == PromotionInv /\ ReadDurable => PromotionInv'
<1> SUFFICES ASSUME PromotionInv, ReadDurable PROVE PromotionInv'
  OBVIOUS
<1> USE DEF ReadDurable
<1>1. StoreTyped /\ WorkTyped /\ Reservations /\ (failures = 0 => Calm)
  BY DEF PromotionInv
<1>2. program \in Programs /\ program.values \in SUBSET Objs /\ program.obj \in Objs
  BY <1>1 DEF WorkTyped, Programs
<1>3. CASE stored[program.obj] = NoRecord
  <2>1. program' = Idle /\ UNCHANGED <<tasks, outcome>> BY <1>3
  <2>2. program' \in Programs /\ program'.op = "idle" BY <2>1 DEF Idle, Programs
  <2>3. StoreTyped' BY <1>1 DEF StoreTyped
  <2>4. WorkTyped' BY <1>1, <2>1, <2>2 DEF WorkTyped
  <2>5. Reservations' BY <1>1, <2>1, ReservationsRest
  <2>6. ASSUME failures = 0 PROVE Calm'
    <3>1. memo[program.obj] = "complete"
      BY <1>1, <2>6 DEF Calm, WritesAreUpToDate
    <3>2. QED BY <1>1, <1>2, <1>3, <3>1 DEF Reservations, CompleteIsStored
  <2>7. QED BY <2>3, <2>4, <2>5, <2>6 DEF PromotionInv
<1>4. CASE stored[program.obj] # NoRecord
  <2>1. /\ Launch(program.values)
        /\ program' = [program EXCEPT !.op = "writing", !.tasks = Started(program.values)]
    BY <1>4
  <2>2. Started(program.values) \subseteq Tasks
    BY <1>1, <1>2, <2>1, Launched DEF FreeTasks
  <2>3. /\ program' \in Programs /\ program'.op = "writing" /\ program'.obj = program.obj
        /\ program'.values = program.values /\ program'.tasks = Started(program.values)
    BY <1>2, <2>1, <2>2 DEF Programs
  <2>4. QED BY <1>2, <2>1, <2>3, LaunchStep
<1>5. QED BY <1>3, <1>4

(* The frame on top after the link o. *)
NextTop(t, o) == [Top(t) EXCEPT !.todo = @ \ {o}]
Rest(t, o) == Append(Front(tasks[t]), NextTop(t, o))

(* Nothing but the links still to follow changes there. *)
LEMMA RestFrames ==
  ASSUME WorkTyped, NEW t \in Tasks, Busy(t), NEW o \in Objs
  PROVE  /\ Rest(t, o) \in Seq(Frames) /\ Len(Rest(t, o)) = Len(tasks[t])
         /\ Len(tasks[t]) \in Nat \ {0} /\ Rest(t, o) # << >>
         /\ DOMAIN tasks[t] = 1..Len(tasks[t]) /\ DOMAIN Rest(t, o) = 1..Len(tasks[t])
         /\ \A i \in 1..Len(tasks[t]) :
              /\ Rest(t, o)[i].obj = tasks[t][i].obj
              /\ Rest(t, o)[i].seen = tasks[t][i].seen
              /\ Rest(t, o)[i].todo = IF i = Len(tasks[t]) THEN tasks[t][i].todo \ {o}
                                      ELSE tasks[t][i].todo
<1>1. /\ tasks[t] \in Seq(Frames) /\ tasks[t] # << >>
      /\ Len(tasks[t]) \in Nat \ {0} /\ DOMAIN tasks[t] = 1..Len(tasks[t])
      /\ Top(t) = FrameAt(t, Len(tasks[t])) /\ Top(t) \in Frames
  BY TopFrame
<1>2. /\ NextTop(t, o) \in Frames /\ NextTop(t, o).obj = Top(t).obj
      /\ NextTop(t, o).seen = Top(t).seen /\ NextTop(t, o).todo = Top(t).todo \ {o}
  BY <1>1 DEF NextTop, Frames
<1>3. /\ Rest(t, o) \in Seq(Frames) /\ Len(Rest(t, o)) = Len(tasks[t])
      /\ DOMAIN Rest(t, o) = 1..Len(tasks[t])
      /\ \A i \in 1..Len(tasks[t]) :
           Rest(t, o)[i] = IF i = Len(tasks[t]) THEN NextTop(t, o) ELSE tasks[t][i]
  BY <1>1, <1>2, Replaced DEF Rest
<1>4. Rest(t, o) # << >> BY <1>1, <1>3, EmptySeq
<1>5. QED BY <1>1, <1>2, <1>3, <1>4 DEF FrameAt

(* A link that the memo knows. *)
LEMMA KnownLinkStep ==
  ASSUME PromotionInv, NEW t \in Tasks, Busy(t), NEW o \in Top(t).todo, Known(o),
         tasks' = [tasks EXCEPT ![t] = Rest(t, o)],
         UNCHANGED <<memo, links, stored, environments, outcome, program, failures, mutations, aliased>>
  PROVE  PromotionInv'
<1> DEFINE n == Len(tasks[t])
<1>1. StoreTyped /\ WorkTyped /\ Reservations /\ (failures = 0 => Calm)
  BY DEF PromotionInv
<1>2. /\ Rest(t, o) \in Seq(Frames) /\ n \in Nat \ {0} /\ Rest(t, o) # << >>
      /\ DOMAIN tasks[t] = 1..n /\ DOMAIN Rest(t, o) = 1..n
      /\ \A i \in 1..n :
           /\ Rest(t, o)[i].obj = tasks[t][i].obj
           /\ Rest(t, o)[i].seen = tasks[t][i].seen
           /\ Rest(t, o)[i].todo = IF i = n THEN tasks[t][i].todo \ {o} ELSE tasks[t][i].todo
  <2>1. o \in Objs BY <1>1, TopFrame DEF Frames
  <2>2. QED BY <1>1, <2>1, RestFrames
<1>3. tasks'[t] = Rest(t, o) /\ \A u \in Tasks \ {t} : tasks'[u] = tasks[u]
  BY <1>1 DEF WorkTyped
<1>4. \A u \in Tasks :
        /\ tasks'[u] \in Seq(Frames)
        /\ DOMAIN tasks'[u] = DOMAIN tasks[u]
        /\ tasks'[u] # << >> <=> tasks[u] # << >>
        /\ \A i \in DOMAIN tasks[u] :
             /\ tasks'[u][i].obj = tasks[u][i].obj /\ tasks'[u][i].seen = tasks[u][i].seen
             /\ \A x \in tasks[u][i].todo : x \in tasks'[u][i].todo \/ x = o
  BY <1>1, <1>2, <1>3 DEF WorkTyped, Busy
<1>5. StoreTyped' BY <1>1 DEF StoreTyped
<1>6. WorkTyped' BY <1>1, <1>2 DEF WorkTyped
<1>7. Reservations'
  <2>1. CallersAreOutermost' /\ ReservedOnce'
    BY <1>1, <1>4 DEF Reservations, CallersAreOutermost, ReservedOnce, Holds, FrameAt
  <2>2. ReservationsAreHeld'
    BY <1>1, <1>4 DEF Reservations, ReservationsAreHeld, Holds, FrameAt
  <2>3. CompleteIsStored' BY <1>1 DEF Reservations, CompleteIsStored
  <2>4. QED BY <2>1, <2>2, <2>3 DEF Reservations
<1>8. ASSUME failures = 0 PROVE Calm'
  <2>1. Calm BY <1>1, <1>8
  <2>2. TasksAreAwaited' BY <1>4, <2>1 DEF Calm, TasksAreAwaited, Busy
  <2>3. RecordsAreUpToDate' BY <2>1 DEF Calm, RecordsAreUpToDate, Known, Updates
  <2>4. FramesAreUpToDate'
    BY <1>4, <2>1 DEF Calm, FramesAreUpToDate, Known, Holds, FrameAt
  <2>5. WritesAreUpToDate'
    <3>1. \A x, u : u \in Tasks /\ Busy(u) /\ x \in FrameAt(u, 1).todo
                    => Known(x) \/ (Busy(u)' /\ x \in FrameAt(u, 1).todo')
      <4> SUFFICES ASSUME NEW x, NEW u \in Tasks, Busy(u), x \in tasks[u][1].todo
                   PROVE  Known(x) \/ (tasks'[u] # << >> /\ x \in tasks'[u][1].todo)
        BY DEF FrameAt, Busy
      <4>1. 1 \in DOMAIN tasks[u] BY <1>1, TopFrame
      <4>2. QED BY <1>4, <4>1 DEF Busy
    <3>2. QED BY <2>1, <3>1 DEF Calm, WritesAreUpToDate, Known
  <2>6. QED BY <2>2, <2>3, <2>4, <2>5 DEF Calm
<1>9. QED BY <1>5, <1>6, <1>7, <1>8 DEF PromotionInv

(* A link that nobody has begun to promote. *)
LEMMA NewLinkStep ==
  ASSUME PromotionInv, NEW t \in Tasks, Busy(t), NEW o \in Top(t).todo, memo[o] = "absent",
         memo' = [memo EXCEPT ![o] = "in-progress"],
         tasks' = [tasks EXCEPT ![t] = Append(Rest(t, o), Frame(o, links[o], links[o]))],
         UNCHANGED <<links, stored, environments, outcome, program, failures, mutations, aliased>>
  PROVE  PromotionInv'
<1> DEFINE n == Len(tasks[t])
           new == Frame(o, links[o], links[o])
           pile == Append(Rest(t, o), new)
<1>1. StoreTyped /\ WorkTyped /\ Reservations /\ (failures = 0 => Calm)
  BY DEF PromotionInv
<1>2. o \in Objs /\ o # Caller BY <1>1, TopFrame, PromotionAssumption DEF Frames
<1>3. /\ Rest(t, o) \in Seq(Frames) /\ n \in Nat \ {0} /\ Len(Rest(t, o)) = n
      /\ DOMAIN tasks[t] = 1..n
      /\ \A i \in 1..n :
           /\ Rest(t, o)[i].obj = tasks[t][i].obj
           /\ Rest(t, o)[i].seen = tasks[t][i].seen
           /\ Rest(t, o)[i].todo = IF i = n THEN tasks[t][i].todo \ {o} ELSE tasks[t][i].todo
  BY <1>1, <1>2, RestFrames
<1>4. new \in Frames /\ new.obj = o /\ new.todo = links[o] /\ new.seen = links[o]
  BY <1>1, <1>2 DEF StoreTyped, Frame, Frames
<1> HIDE DEF new
<1>5. /\ pile \in Seq(Frames) /\ Len(pile) = n + 1 /\ DOMAIN pile = 1..n + 1
      /\ \A i \in 1..n + 1 : pile[i] = IF i = n + 1 THEN new ELSE Rest(t, o)[i]
  BY <1>3, <1>4, Pushed
<1>6. pile # << >> BY <1>3, <1>5, EmptySeq
<1>7. tasks' = [tasks EXCEPT ![t] = pile] BY DEF new
<1> HIDE DEF pile
<1>8. tasks'[t] = pile /\ \A u \in Tasks \ {t} : tasks'[u] = tasks[u]
  BY <1>1, <1>7 DEF WorkTyped
<1>9. memo'[o] = "in-progress" /\ \A x \in Objs \ {o} : memo'[x] = memo[x]
  BY <1>1, <1>2 DEF StoreTyped
<1>10. \A u \in Tasks :
         /\ tasks'[u] # << >> <=> tasks[u] # << >>
         /\ DOMAIN tasks[u] \subseteq DOMAIN tasks'[u]
         /\ \A i \in DOMAIN tasks[u] :
              /\ tasks'[u][i].obj = tasks[u][i].obj /\ tasks'[u][i].seen = tasks[u][i].seen
              /\ \A x \in tasks[u][i].todo : x \in tasks'[u][i].todo \/ x = o
         /\ \A i \in DOMAIN tasks'[u] : i \notin DOMAIN tasks[u] =>
              /\ u = t /\ i = n + 1 /\ tasks'[u][i] = new
  <2> SUFFICES ASSUME NEW u \in Tasks
               PROVE  /\ tasks'[u] # << >> <=> tasks[u] # << >>
                      /\ DOMAIN tasks[u] \subseteq DOMAIN tasks'[u]
                      /\ \A i \in DOMAIN tasks[u] :
                           /\ tasks'[u][i].obj = tasks[u][i].obj
                           /\ tasks'[u][i].seen = tasks[u][i].seen
                           /\ \A x \in tasks[u][i].todo : x \in tasks'[u][i].todo \/ x = o
                      /\ \A i \in DOMAIN tasks'[u] : i \notin DOMAIN tasks[u] =>
                           /\ u = t /\ i = n + 1 /\ tasks'[u][i] = new
    OBVIOUS
  <2>1. CASE u # t
    BY <1>8, <2>1
  <2>2. CASE u = t
    <3>1. 1..n \subseteq 1..n + 1 /\ \A i \in 1..n : pile[i] = Rest(t, o)[i]
      BY <1>3, <1>5
    <3>2. \A i \in 1..n + 1 : i \notin 1..n => i = n + 1 /\ pile[i] = new
      BY <1>3, <1>5
    <3>3. \A i \in 1..n : \A x \in tasks[t][i].todo : x \in Rest(t, o)[i].todo \/ x = o
      BY <1>3
    <3>4. tasks[t] # << >> /\ tasks'[t] = pile /\ DOMAIN pile = 1..n + 1
          /\ DOMAIN tasks[t] = 1..n
      BY <1>3, <1>5, <1>8 DEF Busy
    <3>5. \A i \in 1..n : /\ Rest(t, o)[i].obj = tasks[t][i].obj
                          /\ Rest(t, o)[i].seen = tasks[t][i].seen
      BY <1>3
    <3> HIDE DEF n
    <3>6. tasks'[u] # << >> <=> tasks[u] # << >> BY <1>6, <2>2, <3>4
    <3>7. DOMAIN tasks[u] \subseteq DOMAIN tasks'[u] BY <2>2, <3>1, <3>4
    <3>8. \A i \in DOMAIN tasks[u] :
            /\ tasks'[u][i].obj = tasks[u][i].obj
            /\ tasks'[u][i].seen = tasks[u][i].seen
            /\ \A x \in tasks[u][i].todo : x \in tasks'[u][i].todo \/ x = o
      BY <2>2, <3>1, <3>3, <3>4, <3>5
    <3>9. \A i \in DOMAIN tasks'[u] : i \notin DOMAIN tasks[u] =>
            /\ u = t /\ i = n + 1 /\ tasks'[u][i] = new
      BY <2>2, <3>2, <3>4
    <3>10. QED BY <3>6, <3>7, <3>8, <3>9
  <2>3. QED BY <2>1, <2>2
<1>11. n + 1 \in DOMAIN tasks'[t] /\ tasks'[t][n + 1].obj = o /\ n + 1 # 1
  BY <1>3, <1>4, <1>5, <1>8
<1>12. \A u \in Tasks : \A i \in DOMAIN tasks[u] : tasks[u][i].obj # o
  BY <1>1, <1>2 DEF Reservations, ReservationsAreHeld, Holds, FrameAt
<1>13. \A x \in Objs : Known(x) => Known(x)' BY <1>9 DEF Known
<1>14. StoreTyped' BY <1>1 DEF StoreTyped
<1>15. WorkTyped' BY <1>1, <1>5, <1>7 DEF WorkTyped
<1>16. Reservations'
  <2>1. CallersAreOutermost'
    BY <1>1, <1>2, <1>4, <1>10, <1>11 DEF Reservations, CallersAreOutermost, Holds, FrameAt
  <2>2. ReservedOnce'
    <3> SUFFICES ASSUME NEW u \in Tasks, NEW w \in Tasks,
                        NEW i \in DOMAIN tasks'[u], NEW j \in DOMAIN tasks'[w],
                        tasks'[u][i].obj = tasks'[w][j].obj, tasks'[u][i].obj # Caller
                 PROVE  u = w /\ i = j
      BY DEF ReservedOnce, Holds, FrameAt
    <3>1. CASE i \in DOMAIN tasks[u] /\ j \in DOMAIN tasks[w]
      BY <1>1, <1>10, <3>1 DEF Reservations, ReservedOnce, Holds, FrameAt
    <3>2. CASE i \notin DOMAIN tasks[u]
      BY <1>4, <1>10, <1>12, <3>2
    <3>3. CASE j \notin DOMAIN tasks[w]
      BY <1>4, <1>10, <1>12, <3>3
    <3>4. QED BY <3>1, <3>2, <3>3
  <2>3. ReservationsAreHeld'
    <3> SUFFICES ASSUME NEW x \in Objs
                 PROVE  memo'[x] = "in-progress"
                          <=> \E u \in Tasks : \E i \in DOMAIN tasks'[u] : tasks'[u][i].obj = x
      BY DEF ReservationsAreHeld, Holds, FrameAt
    <3>1. CASE x = o
      BY <1>9, <1>11, <3>1
    <3>2. CASE x # o
      BY <1>1, <1>4, <1>9, <1>10, <3>2 DEF Reservations, ReservationsAreHeld, Holds, FrameAt
    <3>3. QED BY <3>1, <3>2
  <2>4. CompleteIsStored' BY <1>1, <1>9 DEF Reservations, CompleteIsStored
  <2>5. QED BY <2>1, <2>2, <2>3, <2>4 DEF Reservations
<1>17. ASSUME failures = 0 PROVE Calm'
  <2>1. Calm BY <1>1, <1>17
  <2>2. TasksAreAwaited' BY <1>10, <2>1 DEF Calm, TasksAreAwaited, Busy
  <2>3. RecordsAreUpToDate'
    <3> SUFFICES ASSUME NEW x \in Objs, stored[x] # NoRecord
                 PROVE  /\ memo'[x] = "complete"
                        /\ \A y \in stored[x] : Known(y)'
                        /\ stored[x] = links[x] \/ Updates(x) \/ x \in aliased
      BY DEF RecordsAreUpToDate, Updates, Known
    <3>1. /\ memo[x] = "complete" /\ (\A y \in stored[x] : Known(y))
          /\ stored[x] = links[x] \/ Updates(x) \/ x \in aliased
      BY <2>1 DEF Calm, RecordsAreUpToDate
    <3>2. stored[x] \subseteq Objs BY <1>1 DEF StoreTyped
    <3>3. QED BY <1>9, <1>13, <3>1, <3>2
  <2>4. FramesAreUpToDate'
    <3> SUFFICES ASSUME NEW u \in Tasks, NEW i \in DOMAIN tasks'[u], tasks'[u][i].obj # Caller
                 PROVE  /\ tasks'[u][i].seen = links[tasks'[u][i].obj]
                        /\ \A x \in tasks'[u][i].seen : x \in tasks'[u][i].todo \/ Known(x)'
      BY DEF FramesAreUpToDate, Holds, FrameAt, Known
    <3>1. CASE i \notin DOMAIN tasks[u]
      BY <1>4, <1>10, <3>1
    <3>2. CASE i \in DOMAIN tasks[u]
      <4>1. /\ tasks[u][i].seen = links[tasks[u][i].obj]
            /\ \A x \in tasks[u][i].seen : x \in tasks[u][i].todo \/ Known(x)
        BY <1>10, <2>1, <3>2 DEF Calm, FramesAreUpToDate, Holds, FrameAt
      <4>2. tasks[u][i].seen \subseteq Objs
        <5>1. tasks[u] \in Seq(Frames) BY <1>1 DEF WorkTyped
        <5>2. tasks[u][i] \in Frames BY <3>2, <5>1
        <5>3. QED BY <5>2 DEF Frames
      <4>3. Known(o)' BY <1>9 DEF Known
      <4>4. QED BY <1>10, <1>13, <3>2, <4>1, <4>2, <4>3
    <3>3. QED BY <3>1, <3>2
  <2>5. WritesAreUpToDate'
    <3>1. program.op \in {"reading", "writing"} =>
            memo'[program.obj] = "complete" /\ program.values = links[program.obj]
      BY <1>1, <1>9, <2>1 DEF Calm, WritesAreUpToDate, WorkTyped
    <3>2. ASSUME program.op = "writing", NEW x \in program.values
          PROVE  \/ Known(x)'
                 \/ \E u \in Tasks : tasks'[u] # << >> /\ x \in tasks'[u][1].todo
      <4>1. x \in Objs BY <1>1, <3>2 DEF WorkTyped, Programs
      <4>2. CASE Known(x) \/ x = o
        BY <1>9, <1>13, <4>1, <4>2 DEF Known
      <4>3. CASE \E u \in Tasks : Busy(u) /\ x \in FrameAt(u, 1).todo
        <5>1. PICK u \in Tasks : Busy(u) /\ x \in tasks[u][1].todo
          BY <4>3 DEF FrameAt
        <5>2. 1 \in DOMAIN tasks[u] BY <1>1, <5>1, TopFrame
        <5>3. QED BY <1>9, <1>10, <5>1, <5>2 DEF Busy, Known
      <4>4. QED BY <2>1, <3>2, <4>2, <4>3 DEF Calm, WritesAreUpToDate
    <3>3. QED BY <3>1, <3>2 DEF WritesAreUpToDate, FrameAt, Busy, Known
  <2>6. QED BY <2>2, <2>3, <2>4, <2>5 DEF Calm
<1>18. QED BY <1>14, <1>15, <1>16, <1>17 DEF PromotionInv

(* A promotion goes on to the next link. *)
LEMMA NextStep ==
  ASSUME PromotionInv, NEW t \in Tasks, PromoteNext(t)
  PROVE  PromotionInv'
<1>1. Busy(t) BY DEF PromoteNext
<1>2. PICK o \in Top(t).todo :
        \/ Known(o) /\ tasks' = [tasks EXCEPT ![t] = Rest(t, o)] /\ UNCHANGED memo
        \/ /\ memo[o] = "absent" /\ memo' = [memo EXCEPT ![o] = "in-progress"]
           /\ tasks' = [tasks EXCEPT ![t] = Append(Rest(t, o), Frame(o, links[o], links[o]))]
  BY DEF PromoteNext, Rest, NextTop
<1>3. UNCHANGED <<links, stored, environments, outcome, program, failures, mutations, aliased>>
  BY DEF PromoteNext
<1>4. QED BY <1>1, <1>2, <1>3, KnownLinkStep, NewLinkStep

(* The record of the object on top is stored. *)
LEMMA PublishStep ==
  ASSUME PromotionInv, NEW t \in Tasks, Publish(t)
  PROVE  PromotionInv'
<1> DEFINE n == Len(tasks[t])
           o == Top(t).obj
           seen == Top(t).seen
<1>1. StoreTyped /\ WorkTyped /\ Reservations /\ (failures = 0 => Calm)
  BY DEF PromotionInv
<1>2. /\ Busy(t) /\ Top(t).todo = {} /\ o # Caller /\ o \notin Closures \ environments
      /\ stored' = [stored EXCEPT ![o] = seen]
      /\ memo' = [memo EXCEPT ![o] = "complete"]
      /\ tasks' = [tasks EXCEPT ![t] = Front(tasks[t])]
      /\ UNCHANGED <<links, environments, outcome, program, failures, mutations, aliased>>
  BY DEF Publish, Publishable, Ready
<1>3. /\ tasks[t] \in Seq(Frames) /\ tasks[t] # << >> /\ n \in Nat \ {0}
      /\ DOMAIN tasks[t] = 1..n /\ Top(t) = tasks[t][n] /\ Top(t) \in Frames
  BY <1>1, <1>2, TopFrame DEF FrameAt
<1>4. o \in Objs /\ seen \in SUBSET Objs /\ seen # NoRecord
  BY <1>2, <1>3, RecordsAreRecords DEF Frames
<1>5. n # 1
  BY <1>1, <1>2, <1>3 DEF Reservations, CallersAreOutermost, Holds, FrameAt
<1> DEFINE pile == Front(tasks[t])
<1>6. /\ pile \in Seq(Frames) /\ DOMAIN pile = 1..n - 1 /\ Len(pile) = n - 1
      /\ \A i \in 1..n - 1 : pile[i] = tasks[t][i]
  BY <1>3, Popped
<1> HIDE DEF pile
<1>7. pile # << >>
  <2>1. n - 1 # 0 BY <1>3, <1>5
  <2>2. Len(pile) # 0 BY <1>6, <2>1
  <2>3. QED BY <2>2, EmptySeq
<1>8. tasks'[t] = pile /\ \A u \in Tasks \ {t} : tasks'[u] = tasks[u]
  BY <1>1, <1>2 DEF WorkTyped, pile
<1>9. memo'[o] = "complete" /\ \A x \in Objs \ {o} : memo'[x] = memo[x]
  BY <1>1, <1>2, <1>4 DEF StoreTyped
<1>10. stored'[o] = seen /\ \A x \in Objs \ {o} : stored'[x] = stored[x]
  BY <1>1, <1>2, <1>4 DEF StoreTyped
<1>11. \A u \in Tasks :
         /\ tasks'[u] # << >> <=> tasks[u] # << >>
         /\ DOMAIN tasks'[u] \subseteq DOMAIN tasks[u]
         /\ \A i \in DOMAIN tasks'[u] : tasks'[u][i] = tasks[u][i]
         /\ \A i \in DOMAIN tasks[u] : i \in DOMAIN tasks'[u] \/ (u = t /\ i = n)
  <2> SUFFICES ASSUME NEW u \in Tasks
               PROVE  /\ tasks'[u] # << >> <=> tasks[u] # << >>
                      /\ DOMAIN tasks'[u] \subseteq DOMAIN tasks[u]
                      /\ \A i \in DOMAIN tasks'[u] : tasks'[u][i] = tasks[u][i]
                      /\ \A i \in DOMAIN tasks[u] : i \in DOMAIN tasks'[u] \/ (u = t /\ i = n)
    OBVIOUS
  <2>1. CASE u # t
    BY <1>8, <2>1
  <2>2. CASE u = t
    <3>1. 1..n - 1 \subseteq 1..n /\ \A i \in 1..n : i \in 1..n - 1 \/ i = n
      BY <1>3
    <3>2. QED BY <1>3, <1>6, <1>7, <1>8, <2>2, <3>1
  <2>3. QED BY <2>1, <2>2
<1>12. \A u \in Tasks : \A i \in DOMAIN tasks[u] : tasks[u][i].obj = o => u = t /\ i = n
  BY <1>1, <1>2, <1>3 DEF Reservations, ReservedOnce, Holds, FrameAt
<1>13. n \notin DOMAIN tasks'[t] BY <1>3, <1>6, <1>8
<1>14. memo[o] = "in-progress"
  <2>1. n \in DOMAIN tasks[t] /\ Holds(t, n) = o BY <1>3 DEF Holds, FrameAt
  <2>2. QED BY <1>1, <1>4, <2>1 DEF Reservations, ReservationsAreHeld
<1>15. StoreTyped' BY <1>1, <1>2, <1>4 DEF StoreTyped
<1>16. WorkTyped'
  <2>1. tasks' \in [Tasks -> Seq(Frames)]
    BY <1>1, <1>2, <1>6 DEF WorkTyped, pile
  <2>2. QED BY <1>1, <1>2, <2>1 DEF WorkTyped
<1>17. Reservations'
  <2>1. CallersAreOutermost' /\ ReservedOnce'
    BY <1>1, <1>11 DEF Reservations, CallersAreOutermost, ReservedOnce, Holds, FrameAt
  <2>2. ReservationsAreHeld'
    <3> SUFFICES ASSUME NEW x \in Objs
                 PROVE  memo'[x] = "in-progress"
                          <=> \E u \in Tasks : \E i \in DOMAIN tasks'[u] : tasks'[u][i].obj = x
      BY DEF ReservationsAreHeld, Holds, FrameAt
    <3>1. CASE x = o
      BY <1>9, <1>11, <1>12, <1>13, <3>1
    <3>2. CASE x # o
      BY <1>1, <1>3, <1>9, <1>11, <3>2 DEF Reservations, ReservationsAreHeld, Holds, FrameAt
    <3>3. QED BY <3>1, <3>2
  <2>3. CompleteIsStored'
    BY <1>1, <1>2, <1>4, <1>9, <1>10 DEF Reservations, CompleteIsStored
  <2>4. QED BY <2>1, <2>2, <2>3 DEF Reservations
<1>18. ASSUME failures = 0 PROVE Calm'
  <2>1. Calm BY <1>1, <1>18
  <2>2. \A x \in Objs : Known(x) => Known(x)' BY <1>9 DEF Known
  <2>3. TasksAreAwaited' BY <1>2, <1>11, <2>1 DEF Calm, TasksAreAwaited, Busy
  <2>4. seen = links[o] /\ \A x \in seen : Known(x)
    <3>1. n \in DOMAIN tasks[t] /\ Holds(t, n) = o /\ FrameAt(t, n) = Top(t)
      BY <1>3 DEF Holds, FrameAt
    <3>2. QED BY <1>2, <2>1, <3>1 DEF Calm, FramesAreUpToDate
  <2>5. RecordsAreUpToDate'
    <3> SUFFICES ASSUME NEW x \in Objs, stored'[x] # NoRecord
                 PROVE  /\ memo'[x] = "complete"
                        /\ \A y \in stored'[x] : Known(y)'
                        /\ stored'[x] = links[x] \/ Updates(x) \/ x \in aliased
      BY <1>2 DEF RecordsAreUpToDate, Updates, Known
    <3>1. CASE x = o
      BY <1>4, <1>9, <1>10, <2>2, <2>4, <3>1
    <3>2. CASE x # o
      <4>1. /\ memo[x] = "complete" /\ (\A y \in stored[x] : Known(y))
            /\ stored[x] = links[x] \/ Updates(x) \/ x \in aliased
        BY <1>10, <2>1, <3>2 DEF Calm, RecordsAreUpToDate
      <4>2. stored[x] \subseteq Objs BY <1>1, <1>10, <3>2 DEF StoreTyped
      <4>3. QED BY <1>9, <1>10, <2>2, <3>2, <4>1, <4>2
    <3>3. QED BY <3>1, <3>2
  <2>6. FramesAreUpToDate'
    <3> SUFFICES ASSUME NEW u \in Tasks, NEW i \in DOMAIN tasks'[u], tasks'[u][i].obj # Caller
                 PROVE  /\ tasks'[u][i].seen = links[tasks'[u][i].obj]
                        /\ \A x \in tasks'[u][i].seen : x \in tasks'[u][i].todo \/ Known(x)'
      BY <1>2 DEF FramesAreUpToDate, Holds, FrameAt, Known
    <3>1. i \in DOMAIN tasks[u] /\ tasks'[u][i] = tasks[u][i] BY <1>11
    <3>2. /\ tasks[u][i].seen = links[tasks[u][i].obj]
          /\ \A x \in tasks[u][i].seen : x \in tasks[u][i].todo \/ Known(x)
      BY <2>1, <3>1 DEF Calm, FramesAreUpToDate, Holds, FrameAt
    <3>3. tasks[u][i].seen \subseteq Objs
      <4>1. tasks[u] \in Seq(Frames) BY <1>1 DEF WorkTyped
      <4>2. tasks[u][i] \in Frames BY <3>1, <4>1
      <4>3. QED BY <4>2 DEF Frames
    <3>4. QED BY <2>2, <3>1, <3>2, <3>3
  <2>7. WritesAreUpToDate'
    <3>1. program.op \in {"reading", "writing"} =>
            memo'[program.obj] = "complete" /\ program.values = links[program.obj]
      BY <1>1, <1>9, <2>1 DEF Calm, WritesAreUpToDate, WorkTyped
    <3>2. ASSUME program.op = "writing", NEW x \in program.values
          PROVE  \/ Known(x)'
                 \/ \E u \in Tasks : tasks'[u] # << >> /\ x \in tasks'[u][1].todo
      <4>1. x \in Objs BY <1>1, <3>2 DEF WorkTyped, Programs
      <4>2. CASE Known(x)
        BY <2>2, <4>1, <4>2
      <4>3. CASE \E u \in Tasks : Busy(u) /\ x \in FrameAt(u, 1).todo
        <5>1. PICK u \in Tasks : tasks[u] # << >> /\ x \in tasks[u][1].todo
          BY <4>3 DEF FrameAt, Busy
        <5>2. 1 \in DOMAIN tasks[u] BY <1>1, <5>1, TopFrame DEF Busy
        <5>3. 1 \in DOMAIN tasks'[u] BY <1>5, <1>11, <5>2
        <5>4. QED BY <1>11, <5>1, <5>3
      <4>4. QED BY <2>1, <3>2, <4>2, <4>3 DEF Calm, WritesAreUpToDate
    <3>3. QED BY <1>2, <3>1, <3>2 DEF WritesAreUpToDate, FrameAt, Busy, Known
  <2>8. QED BY <2>3, <2>5, <2>6, <2>7 DEF Calm
<1>19. QED BY <1>2, <1>15, <1>16, <1>17, <1>18 DEF PromotionInv

(* A failure: the task's reservations go with it. *)
LEMMA FailStep ==
  ASSUME PromotionInv, NEW t \in Tasks, Busy(t), FailTask(t),
         stored' \in [Objs -> (SUBSET Objs) \cup {NoRecord}],
         \A o \in Objs : stored[o] # NoRecord => stored'[o] # NoRecord,
         environments \subseteq environments', environments' \subseteq Closures,
         failures' \in Nat \ {0}
  PROVE  PromotionInv'
<1>1. StoreTyped /\ WorkTyped /\ Reservations BY DEF PromotionInv
<1>2. /\ memo' = Unreserve(t) /\ tasks' = [tasks EXCEPT ![t] = <<>>]
      /\ outcome' = [outcome EXCEPT ![t] = "failed"] /\ UNCHANGED <<links, program, mutations, aliased>>
  BY DEF FailTask
<1>3. /\ tasks'[t] = << >> /\ DOMAIN tasks'[t] = {}
      /\ \A u \in Tasks \ {t} : tasks'[u] = tasks[u]
  BY <1>1, <1>2, EmptySeq DEF WorkTyped
<1>4. \A o \in Objs : memo'[o] = IF \E i \in DOMAIN tasks[t] : tasks[t][i].obj = o
                                 THEN "absent" ELSE memo[o]
  BY <1>2, PromotionAssumption DEF Unreserve, Reserved
<1>5. StoreTyped'
  <2>1. memo' \in [Objs -> {"absent", "in-progress", "complete"}]
    BY <1>1, <1>2 DEF StoreTyped, Unreserve
  <2>2. QED BY <1>1, <1>2, <2>1 DEF StoreTyped
<1>6. WorkTyped' BY <1>1, <1>2, EmptySeq DEF WorkTyped
<1>7. CallersAreOutermost'
  BY <1>1, <1>3 DEF Reservations, CallersAreOutermost, Holds, FrameAt
<1>8. ReservedOnce' BY <1>1, <1>3 DEF Reservations, ReservedOnce, Holds, FrameAt
<1>9. ReservationsAreHeld'
  <2> SUFFICES ASSUME NEW o \in Objs
               PROVE  memo'[o] = "in-progress"
                        <=> \E u \in Tasks : \E i \in DOMAIN tasks'[u] : tasks'[u][i].obj = o
    BY DEF ReservationsAreHeld, Holds, FrameAt
  <2>1. memo[o] = "in-progress" <=> \E u \in Tasks : \E i \in DOMAIN tasks[u] : tasks[u][i].obj = o
    BY <1>1 DEF Reservations, ReservationsAreHeld, Holds, FrameAt
  <2>2. CASE \E i \in DOMAIN tasks[t] : tasks[t][i].obj = o
    <3>1. \A u \in Tasks : \A i \in DOMAIN tasks[u] : tasks[u][i].obj = o => u = t
      BY <1>1, <2>2, PromotionAssumption DEF Reservations, ReservedOnce, Holds, FrameAt
    <3>2. QED BY <1>3, <1>4, <2>2, <3>1
  <2>3. CASE ~\E i \in DOMAIN tasks[t] : tasks[t][i].obj = o
    BY <1>3, <1>4, <2>1, <2>3
  <2>4. QED BY <2>2, <2>3
<1>10. CompleteIsStored' BY <1>1, <1>4 DEF Reservations, CompleteIsStored
<1>11. QED BY <1>5, <1>6, <1>7, <1>8, <1>9, <1>10 DEF PromotionInv, Reservations

(* The store refuses a write, or loses the answer to one. *)
LEMMA PublishFailsStep ==
  ASSUME PromotionInv, NEW t \in Tasks, PublishFails(t)
  PROVE  PromotionInv'
<1>1. StoreTyped /\ WorkTyped BY DEF PromotionInv
<1>2. /\ Busy(t) /\ FailTask(t) /\ failures' = failures + 1
      /\ \/ UNCHANGED <<stored, environments>>
         \/ /\ stored[Top(t).obj] = NoRecord /\ UNCHANGED environments
            /\ stored' = [stored EXCEPT ![Top(t).obj] = Top(t).seen]
         \/ /\ Top(t).obj \in Closures /\ UNCHANGED stored
            /\ environments' = environments \cup {Top(t).obj}
  <2>1. Ready(t) /\ FailTask(t) /\ failures' = failures + 1 BY DEF PublishFails
  <2>2. Publishable(t) \/ Top(t).obj \in Closures BY <2>1 DEF Publishable
  <2>3. QED BY <2>1, <2>2 DEF PublishFails, Ready
<1>3. Top(t).obj \in Objs \cup {Caller} /\ Top(t).seen \in SUBSET Objs /\ Top(t).seen # NoRecord
  BY <1>1, <1>2, TopFrame, RecordsAreRecords DEF Frames
<1>4. failures' \in Nat \ {0} BY <1>1, <1>2 DEF WorkTyped
<1>5. /\ stored' \in [Objs -> (SUBSET Objs) \cup {NoRecord}]
      /\ \A o \in Objs : stored[o] # NoRecord => stored'[o] # NoRecord
  BY <1>1, <1>2, <1>3 DEF StoreTyped
<1>6. environments \subseteq environments' /\ environments' \subseteq Closures
  BY <1>1, <1>2 DEF StoreTyped
<1>7. QED BY <1>2, <1>4, <1>5, <1>6, FailStep

(* Another record is there: only after a failure. *)
LEMMA ConflictStep ==
  ASSUME PromotionInv, NEW t \in Tasks, Conflict(t)
  PROVE  PromotionInv'
<1>1. StoreTyped /\ WorkTyped /\ Reservations /\ (failures = 0 => Calm)
  BY DEF PromotionInv
<1>2. /\ Busy(t) /\ Top(t).obj # Caller /\ stored[Top(t).obj] # NoRecord
      /\ FailTask(t) /\ UNCHANGED <<stored, environments, failures>>
  BY DEF Conflict, Publishable, Ready
<1>3. failures # 0
  <2> SUFFICES ASSUME failures = 0 PROVE FALSE
    OBVIOUS
  <2>1. /\ Top(t) \in Frames /\ Top(t) = FrameAt(t, Len(tasks[t]))
        /\ Len(tasks[t]) \in DOMAIN tasks[t]
    BY <1>1, <1>2, TopFrame
  <2>2. Top(t).obj \in Objs BY <1>2, <2>1 DEF Frames
  <2>3. memo[Top(t).obj] = "in-progress"
    BY <1>1, <2>1, <2>2 DEF Reservations, ReservationsAreHeld, Holds
  <2>4. QED BY <1>1, <1>2, <2>2, <2>3 DEF Calm, RecordsAreUpToDate
<1>4. failures' \in Nat \ {0} BY <1>1, <1>2, <1>3 DEF WorkTyped
<1>5. QED BY <1>1, <1>2, <1>4, FailStep DEF StoreTyped

(* Every step keeps the invariant. *)
LEMMA PromotionSteps == PromotionInv /\ PromotionNext => PromotionInv'
<1> SUFFICES ASSUME PromotionInv, PromotionNext PROVE PromotionInv'
  OBVIOUS
<1>1. CASE \E values \in SUBSET Objs \ {{}} : Boundary(values)
  BY <1>1, BoundaryStep
<1>2. CASE \E o \in Objs, new \in SUBSET Objs : Mutate(o, new) \/ PutDurable(o, new)
  BY <1>2, MutateStep, PutDurableStep
<1>3. CASE ReadDurable
  BY <1>3, ReadStep
<1>4. CASE WriteThrough
  BY <1>4, WriteThroughStep
<1>5. CASE BoundarySettles
  BY <1>5, SettlesStep
<1>6. CASE \E t \in Tasks : TaskStep(t)
  BY <1>6, NextStep, EnvironmentStep, PublishStep, PublishFailsStep, ConflictStep, AnswersStep
     DEF TaskStep
<1>7. QED BY <1>1, <1>2, <1>3, <1>4, <1>5, <1>6 DEF PromotionNext, PromotionProgress

(* The invariant holds whatever is relied on. *)
LEMMA PromotionAlways == PromotionInit /\ [][PromotionNext]_promotionVars => []PromotionInv
<1>1. PromotionInv /\ [PromotionNext]_promotionVars => PromotionInv'
  BY PromotionRests, PromotionSteps
<1>2. QED BY <1>1, PromotionBegins, PTL

(* The invariant holds of every run of an execution's promotions           *)
(* (closure-promotion.js, lexical-cells.js).                               *)
THEOREM PromotionInvariance == PromotionSpec => []PromotionInv
BY PromotionAlways, PTL DEF PromotionSpec

(* The promotions' invariant contains their types. *)
LEMMA PromotionTypes == PromotionInv => PromotionTypeOK
<1> SUFFICES ASSUME PromotionInv PROVE PromotionTypeOK
  OBVIOUS
<1>1. StoreTyped /\ WorkTyped BY DEF PromotionInv
<1>2. \A t \in Tasks : \A i \in DOMAIN tasks[t] : tasks[t][i] \in Frames
  <2> SUFFICES ASSUME NEW t \in Tasks, NEW i \in DOMAIN tasks[t] PROVE tasks[t][i] \in Frames
    OBVIOUS
  <2>1. tasks[t] \in Seq(Frames) BY <1>1 DEF WorkTyped
  <2>2. QED BY <2>1
<1>3. QED BY <1>1, <1>2 DEF PromotionTypeOK, StoreTyped, WorkTyped, Frames

(* The arena, the memo, the store and the tasks keep their types. *)
THEOREM PromotionTypeCorrect == PromotionSpec => []PromotionTypeOK
BY PromotionInvariance, PromotionTypes, PTL

(* An entry in progress is at work in one place. *)
LEMMA HonouredMemo == PromotionInv => MemoIsHonoured
<1> SUFFICES ASSUME PromotionInv PROVE MemoIsHonoured
  OBVIOUS
<1>1. Reservations BY DEF PromotionInv
<1> DEFINE At(o) == {here \in PromoteCalls : tasks[here[1]][here[2]].obj = o}
<1>2. \A here : here \in PromoteCalls <=>
        \E t \in Tasks : \E i \in DOMAIN tasks[t] : here = <<t, i>>
  BY DEF PromoteCalls
<1>3. ASSUME NEW o \in Objs, memo[o] = "in-progress" PROVE Cardinality(At(o)) = 1
  <2>1. PICK t \in Tasks : \E i \in DOMAIN tasks[t] : tasks[t][i].obj = o
    BY <1>1, <1>3 DEF Reservations, ReservationsAreHeld, Holds, FrameAt
  <2>2. PICK i \in DOMAIN tasks[t] : tasks[t][i].obj = o
    BY <2>1
  <2>3. \A u \in Tasks : \A j \in DOMAIN tasks[u] : tasks[u][j].obj = o => u = t /\ j = i
    BY <1>1, <2>2, PromotionAssumption DEF Reservations, ReservedOnce, Holds, FrameAt
  <2>4. At(o) = {<<t, i>>} BY <1>2, <2>2, <2>3
  <2>5. QED BY <2>4, FS_Singleton
<1>4. ASSUME NEW o \in Objs, memo[o] # "in-progress" PROVE At(o) = {}
  BY <1>1, <1>2, <1>4 DEF Reservations, ReservationsAreHeld, Holds, FrameAt
<1>5. QED BY <1>1, <1>3, <1>4 DEF MemoIsHonoured, Reservations, CompleteIsStored

(* When nothing runs, what is known is stored. *)
LEMMA WholeGraph == PromotionInv => DurableGraphIsWhole
<1> SUFFICES ASSUME PromotionInv, failures = 0, Quiet, NEW o \in Durable
             PROVE  stored[o] \subseteq Durable /\ (stored[o] = links[o] \/ o \in aliased)
  BY DEF DurableGraphIsWhole
<1>1. StoreTyped /\ Reservations /\ Calm BY DEF PromotionInv
<1>2. program.op = "idle" /\ o \in Objs /\ stored[o] # NoRecord
  BY DEF Quiet, Idle, Durable
<1>3. stored[o] \subseteq Objs BY <1>1, <1>2 DEF StoreTyped
<1>4. \A x \in Objs : memo[x] \in {"absent", "complete"}
  BY <1>1, <1>2, NothingRuns DEF Calm, Reservations
<1>5. (\A x \in stored[o] : Known(x)) /\ (stored[o] = links[o] \/ o \in aliased)
  BY <1>1, <1>2 DEF Calm, RecordsAreUpToDate, Updates
<1>6. \A x \in stored[o] : stored[x] # NoRecord
  BY <1>1, <1>3, <1>4, <1>5 DEF Known, Reservations, CompleteIsStored
<1>7. QED BY <1>3, <1>5, <1>6 DEF Durable

(* The memo means what it says whatever the store refuses, and as long as  *)
(* it refuses nothing every durable graph is closed and up to date: for    *)
(* any objects, cycles and sharing, tasks at once and writes in between.   *)
THEOREM PromotionsStayWhole == PromotionSpec => []PromotionsAreWhole
<1>1. PromotionInv => PromotionsAreWhole
  BY HonouredMemo, WholeGraph DEF PromotionsAreWhole
<1>2. QED BY <1>1, PromotionInvariance, PTL

----------------------------------------
(* What runs beside it does not change a part of the workload: a behaviour *)
(* of the whole is one of each part, whatever is relied on.                *)
LEMMA PartsAreThemselves ==
  SessionsSpec => /\ WasmInit /\ [][WasmNext]_wasmVars
                  /\ RuntimesInit /\ [][RuntimesNext]_runtimeVars
                  /\ LabInit /\ [][LabNext]_labVars
                  /\ PromotionInit /\ [][PromotionNext]_promotionVars
                  /\ ConditionsInit /\ [][ConditionsNext]_conditionVars
<1>1. SessionsInit => WasmInit /\ RuntimesInit /\ LabInit /\ PromotionInit /\ ConditionsInit
  BY DEF SessionsInit
<1>2. [SessionsNext]_sessionsVars => [WasmNext]_wasmVars
  BY DEF SessionsNext, sessionsVars
<1>3. [SessionsNext]_sessionsVars => [RuntimesNext]_runtimeVars
  BY DEF SessionsNext, sessionsVars
<1>4. [SessionsNext]_sessionsVars => [LabNext]_labVars
  BY DEF SessionsNext, sessionsVars
<1>5. [SessionsNext]_sessionsVars => [PromotionNext]_promotionVars
  BY DEF SessionsNext, sessionsVars
<1>6. [SessionsNext]_sessionsVars => [ConditionsNext]_conditionVars
  BY DEF SessionsNext, sessionsVars
<1> QED BY <1>1, <1>2, <1>3, <1>4, <1>5, <1>6, PTL DEF SessionsSpec

(* The five inductive invariants hold side by side. *)
LEMMA PartsAreSound ==
  SessionsSpec => [](PoolInv /\ GuestInv /\ LabInv /\ PromotionInv /\ ConditionsInv)
BY PartsAreThemselves, PoolAlways, GuestsAlways, LabAlways, PromotionAlways, ConditionsAlways, PTL

(* The types of the pool and the module cache, the foreign runtimes, the   *)
(* lab suite, a promotion and the condition runtime together.              *)
THEOREM SessionsTypeCorrect == SessionsSpec => []SessionsTypeOK
<1>1. PoolInv /\ GuestInv /\ LabInv /\ PromotionInv /\ ConditionsInv => SessionsTypeOK
  BY PoolTypes, GuestTypes, LabTypes, PromotionTypes, ConditionsTyped DEF SessionsTypeOK
<1> QED BY <1>1, PartsAreSound, PTL

(* Among the guests of MCSessions: an answer is the call's own, a stop     *)
(* waits for the calls accepted before it, no process is without an owner  *)
(* (foreign-runtime/service.js, line-process-runner.js).                   *)
THEOREM GuestsStayAccountedFor == SessionsSpec => []GuestsAreAccountedFor
<1>1. GuestInv => GuestsAreAccountedFor
  BY AccountedGuests DEF GuestsAreAccountedFor
<1> QED BY <1>1, PartsAreSound, PTL

(* In the lab runs of MCSessions the verdict is honest and work is shared  *)
(* (lab-suite.mjs).                                                        *)
THEOREM VerdictsStayHonest == SessionsSpec => []VerdictsAreHonest
<1>1. LabInv => VerdictsAreHonest
  BY HonestVerdict, SharedWork DEF VerdictsAreHonest
<1> QED BY <1>1, PartsAreSound, PTL

(* The pool of MCSessions is sound and its promotions are whole, as in     *)
(* runs of their own (instance-pool.js, closure-promotion.js).             *)
THEOREM SessionsLendAndPromote == SessionsSpec => [](PoolIsSound /\ PromotionsAreWhole)
<1>1. PoolInv /\ PromotionInv => PoolIsSound /\ PromotionsAreWhole
  BY SoundPool, HonouredMemo, WholeGraph DEF PromotionsAreWhole
<1> QED BY <1>1, PartsAreSound, PTL

(* In every execution of MCSessions the condition runtime mirrors the call *)
(* stack, transfers land, cleanups run once and handlers keep to their own *)
(* scope and authority (conditions.js, activation-executor.js).            *)
THEOREM HandlersStaySound == SessionsSpec => []HandlersAreSound
<1>1. ConditionsInv => HandlersAreSound
  BY RuntimeMirrors, AllTransfersLand, EveryCleanupOnce, HandlersAreApart DEF HandlersAreSound
<1> QED BY <1>1, PartsAreSound, PTL

========================================
