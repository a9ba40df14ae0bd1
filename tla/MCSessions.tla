----------------------------- MODULE MCSessions ------------------------------
(***************************************************************************)
(* Work that the host starts and must see end, each on its own: WASM       *)
(* activations with their module cache and instance pool, the guests of a  *)
(* foreign runtime, the workers of the lab suite, the promotion of a       *)
(* transient graph, the conditions and frames of an execution.  One of the *)
(* parts runs, the others rest where they began.                           *)
(*                                                                         *)
(* Two activations of one module, one of which may suspend to call the     *)
(* other; two calls, two starts and a stop of one runtime; two workers,    *)
(* one with room for both jobs, that break, fail and crash; cycles through *)
(* objects and a closure, promoted by two tasks; two signals, one of them  *)
(* an Error.                                                               *)
(***************************************************************************)
EXTENDS WasmActivations, ForeignRuntimes, LabSuite, Promotion, Conditions

CONSTANTS Parts, obj1, obj2, clo, c1, c2

VARIABLE part

sessionsVars == <<part, wasmVars, runtimeVars, labVars, promotionVars, conditionVars>>

SlotsPerWorker == [w \in Workers |-> w]
FasterThan(x, y) == x < y
TwoKinds == (c1 :> {"Exception"}) @@ (c2 :> {"Exception", "Error"})
JobsMayEnd == <<{"pass", "fail", "crash"}, {"pass", "crash"}>>

Cycles ==
  {[x \in Objs |-> CASE x = obj1 -> {obj2} [] x = obj2 -> {obj1} [] OTHER -> {obj1}],
   [x \in Objs |-> CASE x = obj1 -> {obj2, clo} [] x = obj2 -> {clo} [] OTHER -> {obj2}]}

SessionsInit ==
  /\ part \in Parts
  /\ WasmInit /\ (part = "wasm" \/ reusable = {})
  /\ RuntimesInit
  /\ LabInit
  /\ PromotionInit /\ (part = "promotion" \/ clo \notin links[obj1])
  /\ ConditionsInit /\ (part = "conditions" \/ stack[1].auth = 1)

SessionsNext ==
  /\ UNCHANGED part
  /\ \/ part = "wasm" /\ WasmNext /\ UNCHANGED <<runtimeVars, labVars, promotionVars, conditionVars>>
     \/ part = "guests" /\ RuntimesNext /\ UNCHANGED <<wasmVars, labVars, promotionVars, conditionVars>>
     \/ part = "lab" /\ LabNext /\ UNCHANGED <<wasmVars, runtimeVars, promotionVars, conditionVars>>
     \/ part = "promotion" /\ PromotionNext /\ UNCHANGED <<wasmVars, runtimeVars, labVars, conditionVars>>
     \/ part = "conditions" /\ ConditionsNext /\ UNCHANGED <<wasmVars, runtimeVars, labVars, promotionVars>>

(* The event loop runs what is ready, compilations, writes and sessions    *)
(* settle and timers fire.  That some such step is taken is enough: no     *)
(* activation, call or task has to be favoured.  Nothing is assumed of     *)
(* clients, of a guest, or of the program that is executed.                *)
SessionsFairness ==
  /\ WF_wasmVars(part = "wasm" /\ WasmProgress)
  /\ WF_runtimeVars(part = "guests" /\ HostProgress)
  /\ WF_labVars(part = "lab" /\ LabProgress)
  /\ WF_promotionVars(part = "promotion" /\ PromotionProgress)

SessionsSpec == SessionsInit /\ [][SessionsNext]_sessionsVars /\ SessionsFairness

----------------------------------------
(* The variables of the part that runs have their types.                   *)
SessionsTypeOK ==
  /\ part = "wasm" => WasmTypeOK
  /\ part = "guests" => RuntimesTypeOK
  /\ part = "lab" => LabTypeOK
  /\ part = "promotion" => PromotionTypeOK
  /\ part = "conditions" => ConditionsTypeOK

(* A call's answer is the guest's answer to it, a stop waits for the calls *)
(* accepted before it, and every process that runs belongs to a start, an  *)
(* instance or a stop (foreign-runtime/service.js, line-process-runner.js). *)
GuestsAreAccountedFor ==
  part = "guests" => AnswersAreTheCallsOwn /\ AcceptedCallsOutliveStops /\ GuestsHaveAnOwner

(* A green verdict means that every file passed on some worker, whatever   *)
(* sessions broke, and no file is run twice at once or left waiting beside *)
(* an idle worker (lab-suite.mjs).                                         *)
VerdictsAreHonest == part = "lab" => VerdictIsHonest /\ WorkIsShared

(* The condition runtime's scopes are those of the stack; a transfer lands *)
(* where it was aimed, runs each cleanup on its way once, and never a      *)
(* handler within itself or under another authority than the one that      *)
(* established it (execution/conditions.js, activation-executor.js).       *)
HandlersAreSound ==
  part = "conditions" =>
    /\ RuntimeMirrorsTheStack
    /\ TransfersLand
    /\ CleanupsRunOnce
    /\ NoHandlerReenters
    /\ HandlersKeepTheirAuthority

(* Whatever began has ended: every activation, every call, stop and close, *)
(* the lab run, the boundary the program waits for.                        *)
NothingIsPending ==
  /\ part = "wasm" => \A x \in Activations : acts[x].pc = "new" \/ Over(x)
  /\ part = "guests" =>
       /\ \A c \in Calls : Settled(c)
       /\ \A n \in Attempts : stopping[n] = "no"
       /\ closer.phase # "closing"
  /\ part = "lab" => RunIsOver
  /\ part = "promotion" => program = Idle

(* Everything ends: recursion into a module whose instances are all        *)
(* suspended makes another one, a silent guest is given up and killed, no  *)
(* session is waited for that nobody told to end, a broken one's jobs go   *)
(* to another, a promotion never waits for one that waits for it           *)
(* (instance-pool.js, service.js, lab-suite.mjs, closure-promotion.js).    *)
EverythingEnds == []<>NothingIsPending
========================================
