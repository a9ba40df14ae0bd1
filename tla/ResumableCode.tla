---------------------------- MODULE ResumableCode ----------------------------
(***************************************************************************)
(* The two WASM lanes of lagrange-code/v1 and v2 (src/wasm/compiler-v1.js  *)
(* and resumable-compiler-v2.js, and their executors) against the meaning  *)
(* src/execution/neutral-expression-v1.js gives the same program.          *)
(*                                                                         *)
(* A guest cannot wait, so the resumable compiler cuts a program at every  *)
(* host effect (a send, an application, the making of a closure) into      *)
(* segments; a segment gets the values computed so far as parameters and   *)
(* the effect's answer as the last.  Cells are read and written where the  *)
(* program does so and are never among those parameters, because the host  *)
(* may write them while the guest is suspended.                            *)
(*                                                                         *)
(* Values are numbers, and booleans where a condition is computed; errors  *)
(* of type (adding a boolean) are left out, and so is the binary encoding: *)
(* code is a sequence of instructions, a plan a tree of named values.      *)
(***************************************************************************)
EXTENDS Integers, Sequences, SequencesExt, TLC

CONSTANTS
  Cells,     \* the binding ids of the mutable cells a program uses
  Programs   \* the bodies compiled: expressions over Cells

VARIABLES
  body,      \* the program
  lane,      \* which backend compiled it
  activation \* the executor's loop over the guest's segments

codeVars == <<body, lane, activation>>

(* The names of the parameters of a program's first segment.               *)
ReceiverVar == -3
CaptureVar == -2
ArgumentVar == -1
RootParameters == <<ReceiverVar, ArgumentVar, CaptureVar>>
RootHandles == <<1, 2, 3>>

(* What an activation has done: its cells, and the effects it asked for.   *)
Untouched == [cells |-> [c \in Cells |-> 0], trace |-> << >>]

(* The host's side of an effect: a fresh answer, and while the activation  *)
(* is suspended the callee writes every cell its closures captured.        *)
EffectAnswer(s) == 10 + Len(s.trace)
AfterEffect(s, request) ==
  [cells |-> [c \in Cells |-> 20 + Len(s.trace)], trace |-> Append(s.trace, request)]

----------------------------------------
(* The meaning of a program: evaluate of neutral-expression-v1.js, left to *)
(* right.  The result has the value, the cells and the effects.            *)

Yields(value, s) == [value |-> value, s |-> s]

RECURSIVE EvaluateBody(_, _), EvaluateAll(_, _, _)

EvaluateBody(e, s) ==
  CASE e.op = "literal" -> Yields(e.value, s)
    [] e.op = "receiver" -> Yields(RootHandles[1], s)
    [] e.op = "argument" -> Yields(RootHandles[2], s)
    [] e.op = "capture" -> Yields(RootHandles[3], s)
    [] e.op = "cell" -> Yields(s.cells[e.id], s)
    [] e.op = "write" ->
         LET r == EvaluateBody(e.value, s) IN
         Yields(r.value, [r.s EXCEPT !.cells = [@ EXCEPT ![e.id] = r.value]])
    [] e.op = "sequence" -> EvaluateBody(e.second, EvaluateBody(e.first, s).s)
    [] e.op = "integer-add" ->
         LET l == EvaluateBody(e.left, s)  r == EvaluateBody(e.right, l.s) IN Yields(l.value + r.value, r.s)
    [] e.op = "equals" ->
         LET l == EvaluateBody(e.left, s)  r == EvaluateBody(e.right, l.s) IN Yields(l.value = r.value, r.s)
    [] e.op = "if" ->
         LET c == EvaluateBody(e.condition, s) IN
         IF c.value THEN EvaluateBody(e.then, c.s) ELSE EvaluateBody(e.else, c.s)
    [] e.op = "effect" ->
         LET r == EvaluateAll(e.operands, << >>, s) IN
         Yields(EffectAnswer(r.s), AfterEffect(r.s, r.value))

EvaluateAll(es, values, s) ==
  IF es = << >> THEN Yields(values, s)
  ELSE LET r == EvaluateBody(Head(es), s) IN EvaluateAll(Tail(es), Append(values, r.value), r.s)

----------------------------------------
(* The simple backend: stack code, effects in tail position only.          *)

(* analyzeEffects accepts the program.                                     *)
RECURSIVE TailOnly(_, _)
TailOnly(e, tail) ==
  CASE e.op = "write" -> TailOnly(e.value, FALSE)
    [] e.op = "sequence" -> TailOnly(e.first, FALSE) /\ TailOnly(e.second, tail)
    [] e.op \in {"integer-add", "equals"} -> TailOnly(e.left, FALSE) /\ TailOnly(e.right, FALSE)
    [] e.op = "if" -> /\ TailOnly(e.condition, FALSE)
                      /\ TailOnly(e.then, tail) /\ TailOnly(e.else, tail)
    [] e.op = "effect" -> tail /\ \A i \in 1..Len(e.operands) : TailOnly(e.operands[i], FALSE)
    [] OTHER -> TRUE

(* compileExpression of compiler-v1.js.                                    *)
RECURSIVE StackCode(_)
StackCode(e) ==
  CASE e.op = "literal" -> <<[i |-> "const", value |-> e.value]>>
    [] e.op = "receiver" -> <<[i |-> "local", index |-> 1]>>
    [] e.op = "argument" -> <<[i |-> "local", index |-> 2]>>
    [] e.op = "capture" -> <<[i |-> "local", index |-> 3]>>
    [] e.op = "cell" -> <<[i |-> "cell-get", id |-> e.id]>>
    [] e.op = "write" -> StackCode(e.value) \o <<[i |-> "cell-set", id |-> e.id]>>
    [] e.op = "sequence" -> StackCode(e.first) \o <<[i |-> "drop"]>> \o StackCode(e.second)
    [] e.op \in {"integer-add", "equals"} ->
         StackCode(e.left) \o StackCode(e.right) \o <<[i |-> e.op]>>
    [] e.op = "if" ->
         StackCode(e.condition) \o
           <<[i |-> "if", then |-> StackCode(e.then), else |-> StackCode(e.else)]>>
    [] e.op = "effect" ->
         FlattenSeq([k \in 1..Len(e.operands) |-> StackCode(e.operands[k])]) \o
           <<[i |-> "effect", arity |-> Len(e.operands)]>>

(* A run of stack code; an effect import only records the request and      *)
(* leaves the reserved handle 0 (recordPending).                           *)
Segment(stack, cells, pending) == [stack |-> stack, cells |-> cells, pending |-> pending]

Pop(m, k) == SubSeq(m.stack, 1, Len(m.stack) - k)
Operands(m, k) == SubSeq(m.stack, Len(m.stack) - k + 1, Len(m.stack))

RECURSIVE RunStack(_, _)
RunStack(code, m) ==
  IF code = << >> THEN m
  ELSE
    LET c == Head(code)
        push(k, v) == [m EXCEPT !.stack = Append(Pop(m, k), v)]
        two == Operands(m, 2) IN
    RunStack(Tail(code),
      CASE c.i = "const" -> push(0, c.value)
        [] c.i = "local" -> push(0, RootHandles[c.index])
        [] c.i = "cell-get" -> push(0, m.cells[c.id])
        [] c.i = "cell-set" -> [m EXCEPT !.cells = [@ EXCEPT ![c.id] = Last(m.stack)]]
        [] c.i = "drop" -> [m EXCEPT !.stack = Pop(m, 1)]
        [] c.i = "integer-add" -> push(2, two[1] + two[2])
        [] c.i = "equals" -> push(2, two[1] = two[2])
        [] c.i = "if" -> RunStack(IF Last(m.stack) THEN c.then ELSE c.else,
                                  [m EXCEPT !.stack = Pop(m, 1)])
        [] c.i = "effect" -> [m EXCEPT !.stack = Append(Pop(m, c.arity), 0),
                                       !.pending = <<Operands(m, c.arity)>>])

----------------------------------------
(* The resumable backend.  lowerExpression is written in continuation-     *)
(* passing style; a continuation is here the sequence of what remains.     *)

Lowered(plan, next) == [plan |-> plan, next |-> next]

LetNode(id, op, of, rest) ==
  Lowered([kind |-> "let", id |-> id, op |-> op, of |-> of, next |-> rest.plan], rest.next)

RECURSIVE Lower(_, _, _), Continue(_, _, _)

Lower(e, k, n) ==
  CASE e.op = "literal" -> LetNode(n, "literal", <<e.value>>, Continue(k, n, n + 1))
    [] e.op = "receiver" -> Continue(k, ReceiverVar, n)
    [] e.op = "argument" -> Continue(k, ArgumentVar, n)
    [] e.op = "capture" -> Continue(k, CaptureVar, n)
    [] e.op = "cell" -> LetNode(n, "cell-get", <<e.id>>, Continue(k, n, n + 1))
    [] e.op = "write" -> Lower(e.value, <<[after |-> "write", id |-> e.id]>> \o k, n)
    [] e.op = "sequence" -> Lower(e.first, <<[after |-> "first", second |-> e.second]>> \o k, n)
    [] e.op \in {"integer-add", "equals"} ->
         Lower(e.left, <<[after |-> "left", op |-> e.op, right |-> e.right]>> \o k, n)
    [] e.op = "if" ->
         Lower(e.condition, <<[after |-> "condition", then |-> e.then, else |-> e.else]>> \o k, n)
    [] e.op = "effect" ->
         Continue(<<[after |-> "operand", operands |-> e.operands, values |-> << >>]>> \o k, 0, n)

(* Value v is there: go on with what remains.  An operand frame starts     *)
(* without a value of its own.                                             *)
Continue(k, v, n) ==
  IF k = << >> THEN Lowered([kind |-> "return", value |-> v], n)
  ELSE
    LET f == Head(k)  rest == Tail(k) IN
    CASE f.after = "write" -> LetNode(n, "cell-set", <<f.id, v>>, Continue(rest, n, n + 1))
      [] f.after = "first" -> Lower(f.second, rest, n)
      [] f.after = "left" ->
           Lower(f.right, <<[after |-> "right", op |-> f.op, left |-> v]>> \o rest, n)
      [] f.after = "right" -> LetNode(n, f.op, <<f.left, v>>, Continue(rest, n, n + 1))
      [] f.after = "condition" ->
           LET then == Lower(f.then, rest, n)  else == Lower(f.else, rest, then.next) IN
           Lowered([kind |-> "if", condition |-> v, then |-> then.plan, else |-> else.plan], else.next)
      [] f.after = "operand" ->
           LET values == IF v = 0 THEN f.values ELSE Append(f.values, v) IN
           IF Len(values) < Len(f.operands)
           THEN Lower(f.operands[Len(values) + 1], <<[f EXCEPT !.values = values]>> \o rest, n)
           ELSE LET next == Continue(rest, n, n + 1) IN
                Lowered([kind |-> "effect", id |-> n, request |-> values, next |-> next.plan], next.next)

(* The result of the effect is the result of the program.                  *)
DirectEffectReturn(plan) == plan.next.kind = "return" /\ plan.next.value = plan.id

NoSegment == [kind |-> "none"]

(* splitPlan: everything available is saved, by name and in order.         *)
RECURSIVE Split(_, _)
Split(plan, available) ==
  CASE plan.kind = "let" -> [plan EXCEPT !.next = Split(@, Append(available, plan.id))]
    [] plan.kind = "if" -> [plan EXCEPT !.then = Split(@, available), !.else = Split(@, available)]
    [] plan.kind = "return" -> plan
    [] plan.kind = "effect" ->
         IF DirectEffectReturn(plan)
         THEN [kind |-> "effect-terminal", request |-> plan.request, saved |-> << >>,
               parameters |-> << >>, resume |-> NoSegment]
         ELSE LET parameters == Append(available, plan.id) IN
              [kind |-> "effect-terminal", request |-> plan.request, saved |-> Front(parameters),
               parameters |-> parameters, resume |-> Split(plan.next, parameters)]

Segments(e) == Split(Lower(e, << >>, 1).plan, RootParameters)

(* A run of one segment (compilePlan): env has the locals.                 *)
EndsWith(how, value, cells, plan, env) ==
  [how |-> how, value |-> value, cells |-> cells, plan |-> plan,
   saved |-> [k \in 1..Len(plan.saved) |-> env[plan.saved[k]]]]

RECURSIVE RunSegment(_, _, _)
RunSegment(plan, env, cells) ==
  CASE plan.kind = "let" ->
         LET value == CASE plan.op = "literal" -> plan.of[1]
                        [] plan.op = "cell-get" -> cells[plan.of[1]]
                        [] plan.op = "cell-set" -> env[plan.of[2]]
                        [] plan.op = "integer-add" -> env[plan.of[1]] + env[plan.of[2]]
                        [] plan.op = "equals" -> env[plan.of[1]] = env[plan.of[2]] IN
         RunSegment(plan.next, (plan.id :> value) @@ env,
                    IF plan.op = "cell-set" THEN [cells EXCEPT ![plan.of[1]] = value] ELSE cells)
    [] plan.kind = "if" -> RunSegment(IF env[plan.condition] THEN plan.then ELSE plan.else, env, cells)
    [] plan.kind = "return" ->
         EndsWith("returns", env[plan.value], cells, [saved |-> << >>], env)
    [] plan.kind = "effect-terminal" ->
         EndsWith(IF plan.resume = NoSegment THEN "tail" ELSE "suspends",
              [k \in 1..Len(plan.request) |-> env[plan.request[k]]], cells, plan, env)

----------------------------------------
(* The executors (executor-v1.js, resumable-executor-v2.js).               *)

Lanes(e) == {"resumable"} \cup (IF TailOnly(e, TRUE) THEN {"simple"} ELSE {})

AtEntry ==
  [pc |-> "enter", s |-> Untouched, value |-> 0,
   plan |-> IF lane = "simple" THEN NoSegment ELSE Segments(body),
   parameters |-> RootParameters, handles |-> RootHandles]

CodeInit == body \in Programs /\ lane \in Lanes(body) /\ activation = AtEntry

Goes(pc, value, s) == [activation EXCEPT !.pc = pc, !.value = value, !.s = s]

(* One entry into the simple backend's only function.                      *)
EnterSimple ==
  /\ activation.pc = "enter" /\ lane = "simple"
  /\ LET m == RunStack(StackCode(body), Segment(<< >>, activation.s.cells, << >>))
         s == [activation.s EXCEPT !.cells = m.cells] IN
     activation' = IF m.pending = << >> THEN Goes("done", Last(m.stack), s)
                   ELSE Goes("tail", m.pending[1], s)
  /\ UNCHANGED <<body, lane>>

(* One entry into a segment, from bind to unbind.                          *)
EnterSegment ==
  /\ activation.pc = "enter" /\ lane = "resumable"
  /\ LET env == [v \in Range(activation.parameters) |->
                   activation.handles[CHOOSE k \in 1..Len(activation.parameters) :
                                        activation.parameters[k] = v]]
         end == RunSegment(activation.plan, env, activation.s.cells)
         s == [activation.s EXCEPT !.cells = end.cells] IN
     activation' = CASE end.how = "returns" -> Goes("done", end.value, s)
                     [] end.how = "tail" -> Goes("tail", end.value, s)
                     [] end.how = "suspends" ->
                          [Goes("effect", end.value, s) EXCEPT
                             !.plan = end.plan.resume, !.parameters = end.plan.parameters,
                             !.handles = end.saved]
  /\ UNCHANGED <<body, lane>>

(* The handles a resumption gets: those saved, then the effect's result.   *)
(* Mutant: the saved handles already have a place for the result.          *)
ResumedTwice(saved, result) == saved \o <<result, result>>

Resumed(saved, result) == Append(saved, result)

(* performHostEffect, in the loop or for the tail effect after it.         *)
HostEffect ==
  /\ activation.pc \in {"effect", "tail"}
  /\ LET s == activation.s  request == activation.value IN
     activation' = IF activation.pc = "tail" THEN Goes("done", EffectAnswer(s), AfterEffect(s, request))
                   ELSE [Goes("enter", 0, AfterEffect(s, request)) EXCEPT
                           !.handles = Resumed(@, EffectAnswer(s))]
  /\ UNCHANGED <<body, lane>>

CodeNext == EnterSimple \/ EnterSegment \/ HostEffect

----------------------------------------
(* Properties.                                                             *)

CodeTypeOK ==
  /\ lane \in Lanes(body)
  /\ activation.pc \in {"enter", "effect", "tail", "done"}
  /\ activation.s.cells \in [Cells -> Int]
  /\ Len(activation.handles) <= Len(activation.parameters)

(* Whichever backend compiled it, an activation asks the host for the same *)
(* effects with the same operands in the same order as the interpreter     *)
(* would, sees the cells the host wrote meanwhile, and ends with the same  *)
(* value and the same cells.                                               *)
CompiledCodeMeansTheSame ==
  LET meant == EvaluateBody(body, Untouched) IN
  /\ IsPrefix(activation.s.trace, meant.s.trace)
  /\ activation.pc \in {"effect", "tail"} =>
       IsPrefix(Append(activation.s.trace, activation.value), meant.s.trace)
  /\ activation.pc = "done" => activation.value = meant.value /\ activation.s = meant.s
========================================
