----------------------------- MODULE Conditions -----------------------------
(***************************************************************************)
(* Conditions, unwinding and non-local return in one execution             *)
(* (execution/conditions.js and ActivationExecutor.execute).               *)
(*                                                                         *)
(* stack is the chain of activations the host has entered and not left:    *)
(* methods and Blocks, and the primitives that wait for a Block: on:do:    *)
(* ("on"), ensure: and ifCurtailed: ("protect"), signal ("signal").        *)
(* scopes and occurrences are the ConditionRuntime's two stacks, kept      *)
(* apart from it: what is to be shown is that they never disagree with it. *)
(* mode says how control moves: the top activation runs its own code, a    *)
(* value is on its way down, or a thrown transfer or failure is.           *)
(***************************************************************************)
EXTENDS Integers, SequencesExt

CONSTANTS
  Classes,     \* condition classes a handler may name
  Signals,     \* condition objects a program may signal
  KindsOf,     \* per condition object, the classes it is a kind of
  Authorities, \* authority contexts in force, by strength (a set of naturals)
  MaxDepth,    \* activations the depth limit admits (MAX_ACTIVATION_DEPTH + 1)
  MaxMinted    \* bound: scopes, occurrences and home frames one execution mints

ASSUME ConditionsAssumption ==
  /\ KindsOf \in [Signals -> SUBSET Classes]
  /\ Authorities \subseteq Nat /\ Authorities # {}
  /\ MaxDepth \in Nat \ {0} /\ MaxMinted \in Nat

VARIABLES
  stack,       \* activations, outermost first
  scopes,      \* ConditionRuntime.#scopes, outermost first
  occurrences, \* ConditionRuntime.#occurrences, oldest first
  homes,       \* ActivationExecutor.#homeActivations, per frame minted
  mode,        \* what the host is doing: running code, answering, throwing
  protections, \* history: what each ensure: and ifCurtailed: has run so far
  minted       \* ids given out

conditionVars == <<stack, scopes, occurrences, homes, mode, protections, minted>>

----------------------------------------
(* Control moving down the stack. *)
Running == [what |-> "run", target |-> 0]
Answering == [what |-> "value", target |-> 0]
Failing == [what |-> "error", target |-> 0]
Transfer(kind, target) == [what |-> kind, target |-> target]

Depth == Len(stack)
TopActivation == Last(stack)
Below == Front(stack)
NextId == minted + 1
CanMint == minted < MaxMinted

IsCode(f) == f.type \in {"method", "block"}
InCode == mode = Running /\ stack # <<>>

Method(id, auth) == [type |-> "method", id |-> id, home |-> id, auth |-> auth]
Block(home, auth) == [type |-> "block", id |-> 0, home |-> home, auth |-> auth]
OnDoOf(id, caller) == [type |-> "on", id |-> id, home |-> caller.home, auth |-> caller.auth]
Protection(kind, id, caller) ==
  [type |-> "protect", id |-> id, home |-> caller.home, auth |-> caller.auth,
   kind |-> kind, phase |-> "protected", primary |-> Answering]
SignalTo(scope, id, caller) ==
  [type |-> "signal", id |-> id, home |-> caller.home, auth |-> caller.auth, scope |-> scope]

With(f, id, value) == [x \in DOMAIN f \cup {id} |-> IF x = id THEN value ELSE f[x]]

\* ActivationExecutor.execute refuses an activation past the depth limit:
\* the caller sees an ordinary host failure.
Enter(st, frame) ==
  IF Len(st) < MaxDepth THEN stack' = Append(st, frame) /\ mode' = Running
                        ELSE stack' = st /\ mode' = Failing

\* A value that reaches code lets it go on; one that reaches a primitive is
\* still on its way.
Answer(st, m) ==
  IF m = Answering /\ st # <<>> /\ IsCode(Last(st)) THEN Running ELSE m

----------------------------------------
(* ConditionRuntime. *)
Scope(kind, class, caller) ==
  [id |-> NextId, kind |-> kind, class |-> class, active |-> TRUE,
   home |-> caller.home, auth |-> caller.auth]

\* leave: truncates at the scope, so that nothing established inside it stays.
LeaveScope(id) ==
  IF \E i \in DOMAIN scopes : scopes[i].id = id
  THEN SubSeq(scopes, 1, (CHOOSE i \in DOMAIN scopes : scopes[i].id = id) - 1)
  ELSE scopes

Applicable(c) ==
  {i \in DOMAIN scopes : /\ scopes[i].kind = "handler"
                         /\ scopes[i].active
                         /\ scopes[i].class \in KindsOf[c]}

Innermost(c) == CHOOSE i \in Applicable(c) : \A j \in Applicable(c) : j <= i

\* withDisabled.
SetActive(id, flag) ==
  [i \in DOMAIN scopes |->
     IF scopes[i].id = id THEN [scopes[i] EXCEPT !.active = flag] ELSE scopes[i]]

\* endOccurrence: takes out the one entry of that id.
EndOccurrence(id) ==
  IF \E i \in DOMAIN occurrences : occurrences[i].id = id
  THEN RemoveAt(occurrences, CHOOSE i \in DOMAIN occurrences : occurrences[i].id = id)
  ELSE occurrences

\* activeOccurrenceFor: the newest occurrence of this condition object.
OccurrencesOf(c) == {i \in DOMAIN occurrences : occurrences[i].cond = c}
Newest(c) == occurrences[CHOOSE i \in OccurrencesOf(c) :
                           \A j \in OccurrencesOf(c) : j <= i]

----------------------------------------
(* What running code may do. *)

\* An ordinary dispatched send: its callee owns a new home frame. An executor
\* may ask for a narrower authority, never a wider one.
CallMethod(a) ==
  /\ InCode /\ CanMint
  /\ a <= TopActivation.auth
  /\ Enter(stack, Method(NextId, a))
  /\ IF Depth < MaxDepth
     THEN homes' = With(homes, NextId, "live") /\ minted' = NextId
     ELSE UNCHANGED <<homes, minted>>
  /\ UNCHANGED <<scopes, occurrences, protections>>

\* invokeBlock: a Block the program kept, whose home may still run or not.
CallBlock(home) ==
  /\ InCode
  /\ Enter(stack, Block(home, TopActivation.auth))
  /\ UNCHANGED <<scopes, occurrences, homes, protections, minted>>

\* runConditionHandler up to the invocation of the protected Block.
OnDo(class) ==
  /\ InCode /\ CanMint /\ Depth < MaxDepth
  /\ scopes' = Append(scopes, Scope("handler", class, TopActivation))
  /\ Enter(Append(stack, OnDoOf(NextId, TopActivation)), Block(TopActivation.home, TopActivation.auth))
  /\ minted' = NextId
  /\ UNCHANGED <<occurrences, homes, protections>>

\* runUnwindProtection up to the invocation of the protected Block.
Protect(kind) ==
  /\ InCode /\ CanMint /\ Depth < MaxDepth
  /\ scopes' = Append(scopes, Scope(kind, kind, TopActivation))
  /\ Enter(Append(stack, Protection(kind, NextId, TopActivation)),
           Block(TopActivation.home, TopActivation.auth))
  /\ protections' = With(protections, NextId, [kind |-> kind, began |-> Depth + 1 < MaxDepth,
                                                curtailed |-> FALSE, cleaned |-> 0])
  /\ minted' = NextId
  /\ UNCHANGED <<occurrences, homes>>

\* The handler Block: the home and the authority of the activation that wrote
\* on:do: (the captured token), entered on top of the signalling one.
HandlerBlock(s) == Block(s.home, s.auth)

\* signalConditionOccurrence up to the invocation of the handler.
Signal(c) ==
  /\ InCode /\ CanMint /\ Depth < MaxDepth
  /\ Applicable(c) # {}
  /\ LET s == scopes[Innermost(c)] IN
     /\ occurrences' = Append(occurrences, [id |-> NextId, cond |-> c, scope |-> s.id])
     /\ scopes' = SetActive(s.id, FALSE)
     /\ Enter(Append(stack, SignalTo(s.id, NextId, TopActivation)), HandlerBlock(s))
  /\ minted' = NextId
  /\ UNCHANGED <<homes, protections>>

\* Control leaves the code of the top activation, nothing else changes.
Throw(m) ==
  /\ mode' = m
  /\ UNCHANGED <<stack, scopes, occurrences, homes, protections, minted>>

\* No handler applies: UnhandledConditionError, a host failure. A primitive the
\* depth limit refuses fails the same way.
SignalFails(c) == InCode /\ (Applicable(c) = {} \/ Depth = MaxDepth) /\ Throw(Failing)

\* transferConditionOccurrence: return: and resume: name a condition object.
TransferOccurrence(c, kind) ==
  /\ InCode
  /\ Throw(IF OccurrencesOf(c) = {} THEN Failing
           ELSE Transfer(kind, IF kind = "resume" THEN Newest(c).id ELSE Newest(c).scope))

\* Mutant of NonLocalReturn: whether the home still runs is not asked.
ReturnAnyway == InCode /\ Throw(Transfer("nonlocal", TopActivation.home))

\* performNonLocalReturn: only a home that still runs can be returned from.
NonLocalReturn ==
  /\ InCode
  /\ Throw(IF homes[TopActivation.home] = "dead" THEN Failing ELSE Transfer("nonlocal", TopActivation.home))

\* The code of the top activation ends with a value, or the host fails in it.
Finish(m) == InCode /\ m \in {Answering, Failing} /\ Throw(m)

----------------------------------------
(* Control passing down through the top activation. *)

Passing(type) == mode # Running /\ stack # <<>> /\ TopActivation.type = type

\* ActivationExecutor.execute's catch and finally: only the owner of a frame
\* stops a return that names it, and it is dead from then on.
LeaveMethod ==
  /\ Passing("method")
  /\ stack' = Below
  /\ mode' = Answer(Below, IF mode = Transfer("nonlocal", TopActivation.id) THEN Answering ELSE mode)
  /\ homes' = [homes EXCEPT ![TopActivation.id] = "dead"]
  /\ UNCHANGED <<scopes, occurrences, protections, minted>>

LeaveBlock ==
  /\ Passing("block")
  /\ stack' = Below
  /\ mode' = Answer(Below, mode)
  /\ UNCHANGED <<scopes, occurrences, homes, protections, minted>>

\* runConditionHandler's catch and finally.
LeaveOn ==
  /\ Passing("on")
  /\ scopes' = LeaveScope(TopActivation.id)
  /\ stack' = Below
  /\ mode' = Answer(Below, IF mode = Transfer("return", TopActivation.id) THEN Answering ELSE mode)
  /\ UNCHANGED <<occurrences, homes, protections, minted>>

\* runUnwindProtection when the protected Block is left: the scope goes first,
\* so that the cleanup Block signals outward of it.
EndProtected ==
  /\ Passing("protect") /\ TopActivation.phase = "protected"
  /\ scopes' = LeaveScope(TopActivation.id)
  /\ IF mode = Answering /\ TopActivation.kind = "ifCurtailed"
     THEN /\ stack' = Below
          /\ mode' = Answer(Below, mode)
          /\ UNCHANGED protections
     ELSE /\ Enter(Append(Below, [TopActivation EXCEPT !.phase = "cleanup", !.primary = mode]),
                   Block(TopActivation.home, TopActivation.auth))
          /\ protections' = [protections EXCEPT
               ![TopActivation.id].curtailed = mode # Answering,
               ![TopActivation.id].cleaned = @ + IF Depth < MaxDepth THEN 1 ELSE 0]
  /\ UNCHANGED <<occurrences, homes, minted>>

\* After the cleanup Block: its own throw replaces what was on its way.
EndCleanup ==
  /\ Passing("protect") /\ TopActivation.phase = "cleanup"
  /\ stack' = Below
  /\ mode' = Answer(Below, IF mode = Answering THEN TopActivation.primary ELSE mode)
  /\ UNCHANGED <<scopes, occurrences, homes, protections, minted>>

\* The rest of signalConditionOccurrence: a handler that falls off its end
\* returns from its on:do:, one that resumed answers the signaller.
LeaveSignal ==
  /\ Passing("signal")
  /\ occurrences' = EndOccurrence(TopActivation.id)
  /\ scopes' = SetActive(TopActivation.scope, TRUE)
  /\ stack' = Below
  /\ mode' = Answer(Below, CASE mode = Answering -> Transfer("return", TopActivation.scope)
                             [] mode = Transfer("resume", TopActivation.id) -> Answering
                             [] OTHER -> mode)
  /\ UNCHANGED <<homes, protections, minted>>

----------------------------------------
(* The root activation of one execution: a method. *)
ConditionsInit ==
  /\ \E a \in Authorities : stack = <<Method(1, a)>>
  /\ scopes = <<>> /\ occurrences = <<>>
  /\ homes = [frame \in {1} |-> "live"]
  /\ mode = Running
  /\ protections = <<>>
  /\ minted = 1

ConditionsNext ==
  \/ \E a \in Authorities : CallMethod(a)
  \/ \E home \in DOMAIN homes : CallBlock(home)
  \/ \E class \in Classes : OnDo(class)
  \/ \E kind \in {"ensure", "ifCurtailed"} : Protect(kind)
  \/ \E c \in Signals : Signal(c) \/ SignalFails(c)
  \/ \E c \in Signals, kind \in {"return", "resume"} : TransferOccurrence(c, kind)
  \/ NonLocalReturn
  \/ \E m \in {Answering, Failing} : Finish(m)
  \/ LeaveMethod \/ LeaveBlock \/ LeaveOn \/ EndProtected \/ EndCleanup \/ LeaveSignal

ConditionsSpec == ConditionsInit /\ [][ConditionsNext]_conditionVars

----------------------------------------
Modes == {Running, Answering, Failing}
           \cup {Transfer(k, i) : k \in {"return", "resume", "nonlocal"}, i \in 1..minted}

\* The types of the execution's state.
ConditionsTypeOK ==
  /\ \A i \in DOMAIN stack :
       /\ stack[i].type \in {"method", "block", "on", "protect", "signal"}
       /\ stack[i].home \in DOMAIN homes /\ stack[i].auth \in Authorities
  /\ Depth <= MaxDepth
  /\ mode \in Modes
  /\ \A i \in DOMAIN scopes : scopes[i].kind \in {"handler", "ensure", "ifCurtailed"}
  /\ \A h \in DOMAIN homes : homes[h] \in {"live", "dead"}

HoldsScope(f) == f.type = "on" \/ (f.type = "protect" /\ f.phase = "protected")
WithScope == {i \in DOMAIN stack : HoldsScope(stack[i])}
InSignal == {i \in DOMAIN stack : stack[i].type = "signal"}

\* The entries are those of the activations at the places, in their order.
Mirrors(entries, places) ==
  /\ {entries[m].id : m \in DOMAIN entries} = {stack[i].id : i \in places}
  /\ \A m, n \in DOMAIN entries : m < n =>
       \E i, j \in places : i < j /\ entries[m].id = stack[i].id /\ entries[n].id = stack[j].id

\* The condition runtime's two stacks, kept beside the call stack, always name
\* exactly the on:do:, ensure: and signal activations the host is inside of, in
\* their order, and a home frame is live exactly while its method runs: no
\* unwinding, however it skipped what lay between, leaves a scope behind that a
\* later signal would find (leave, beginOccurrence, #markHomeActivation).
RuntimeMirrorsTheStack ==
  /\ Mirrors(scopes, WithScope)
  /\ Mirrors(occurrences, InSignal)
  /\ {h \in DOMAIN homes : homes[h] = "live"}
       = {stack[i].id : i \in {j \in DOMAIN stack : stack[j].type = "method"}}

\* The activation that stops a transfer.
Receives(f, m) ==
  /\ f.id = m.target
  /\ f.type = (CASE m.what = "return" -> "on"
                 [] m.what = "resume" -> "signal"
                 [] m.what = "nonlocal" -> "method")

\* A transfer lands: one of the n outermost activations stops it.
Lands(m, n) ==
  m.what \in {"run", "value", "error"} \/ \E i \in 1..n : Receives(stack[i], m)

\* Every transfer on its way, and every one that waits for a cleanup Block,
\* still has the activation it names below it: no return:, resume: or ^ can
\* run off the stack past the point it was for, whatever cleanup Blocks and
\* handlers do on the way (performNonLocalReturn's liveness check,
\* activeOccurrenceFor).
TransfersLand ==
  /\ Lands(mode, Depth)
  /\ \A i \in DOMAIN stack : stack[i].type = "protect" => Lands(stack[i].primary, i - 1)

InProtected(id) ==
  \E i \in DOMAIN stack : stack[i].id = id /\ stack[i].type = "protect"
                            /\ stack[i].phase = "protected"

\* A cleanup Block runs exactly once after its protected Block began, however
\* that ended (a failure of the host, a transfer past it, another cleanup's
\* throw); one of ifCurtailed: only when it was curtailed (runUnwindProtection).
CleanupsRunOnce ==
  \A id \in DOMAIN protections :
    LET p == protections[id] IN
    p.cleaned = IF p.began /\ ~InProtected(id) /\ (p.kind = "ensure" \/ p.curtailed)
                THEN 1 ELSE 0

\* A handler never runs inside itself: of the signals in progress no two are
\* handled by one on:do:, so a condition signalled in a handler goes outward
\* (withDisabled).
NoHandlerReenters ==
  \A i, j \in DOMAIN stack :
    stack[i].type = "signal" /\ stack[j].type = "signal" /\ stack[i].scope = stack[j].scope
      => i = j

\* A handler Block runs with the authority that was in force where on:do: was
\* written, never with that of the code that signals (captureAuthority, ADR
\* 0054 decision on authority).
HandlersKeepTheirAuthority ==
  \A i \in DOMAIN stack :
    stack[i].type = "signal" /\ i < Depth =>
      \E j \in 1..(i - 1) : /\ stack[j].type = "on" /\ stack[j].id = stack[i].scope
                            /\ stack[i + 1].auth = stack[j].auth
========================================
