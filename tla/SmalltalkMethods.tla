-------------------------- MODULE SmalltalkMethods --------------------------
(***************************************************************************)
(* Symmetric Smalltalk methods: the compiler (symmetric-smalltalk-semantic  *)
(* .js), the dispatcher and what an activation does with the compiled code. *)
(*                                                                         *)
(* A name is a parameter, a temporary, an instance variable, a class        *)
(* variable or a global, in that order from the inside out.  A block        *)
(* captures parameters, self and intrinsics as snapshots and temporaries as *)
(* cells.  Instance variables, super and ^ become sends of kernel           *)
(* primitives, which act for the frame in force: a dispatched method owns a *)
(* frame, a primitive inherits its caller's, a block restores the one it    *)
(* was made in.                                                            *)
(*                                                                         *)
(* CompileNode is the compiler, Runs the execution, Says what the method says   *)
(* in Smalltalk.  note: stands for any host operation that can be observed. *)
(* A program is a set of classes and one message to an instance.            *)
(***************************************************************************)
EXTENDS Integers, Sequences, SequencesExt, FiniteSets, Functions, TLC

CONSTANTS
    MethodPrograms      \* [classes, object, message]: what is sent to an instance of which class

VARIABLE methodProgram

NilObject == [object |-> "nil"]
SmallInt(n) == [integer |-> n]
Bool(b) == [boolean |-> b]
NoValues == <<>>            \* the empty function

----------------------------------------
(* Syntax *)

Literal(v) == [k |-> "literal", v |-> v]
Name(x) == [k |-> "name", x |-> x]
SelfName == [k |-> "self"]
Assign(x, e) == [k |-> "assign", x |-> x, e |-> e]
Return(e) == [k |-> "return", e |-> e]
Send(to, selector, args) == [k |-> "send", to |-> to, selector |-> selector, args |-> args]
Super(selector, args) == [k |-> "super", selector |-> selector, args |-> args]
Cascade(to, messages) == [k |-> "cascade", to |-> to, messages |-> messages]
BlockOf(params, temps, body) == [k |-> "block", params |-> params, temps |-> temps, body |-> body]
SourceMethod(params, temps, body) == [params |-> params, temps |-> temps, body |-> body]

\* needsMutableLexicalState: what the source does, not what the parser made of it.
RECURSIVE NeedsState(_)

BodyNeedsState(body, temps) ==
    temps # <<>> \/ Len(body) > 1 \/ \E i \in DOMAIN body : NeedsState(body[i])

\* ^ wraps an ordinary expression, so what that needs must still be seen.
ReturnNeedsState(e) == NeedsState(e.e)

NeedsState(e) ==
    CASE e.k \in {"assign", "cascade"} -> TRUE
      [] e.k = "block" -> BodyNeedsState(e.body, e.temps)
      [] e.k = "return" -> ReturnNeedsState(e)
      [] e.k = "send" -> NeedsState(e.to) \/ \E i \in DOMAIN e.args : NeedsState(e.args[i])
      [] e.k = "super" -> \E i \in DOMAIN e.args : NeedsState(e.args[i])
      [] OTHER -> FALSE

Representation(m) == IF BodyNeedsState(m.body, m.temps) THEN "v1" ELSE "v0"

----------------------------------------
(* Neutral code.  An id is a parameter, a temporary - the source's or a cascade's -, self, or a *)
(* root capture: an intrinsic or the binding of a class variable or a global.                   *)

LiteralCode(v) == [op |-> "literal", v |-> v]
Argument(i) == [op |-> "argument", i |-> i]
Receiver == [op |-> "receiver"]
Read(id) == [op |-> "read", id |-> id]
Write(id, c) == [op |-> "write", id |-> id, c |-> c]
Sequence(s) == IF Len(s) = 1 THEN s[1] ELSE [op |-> "sequence", s |-> s]
SendCode(to, selector, args) == [op |-> "send", to |-> to, selector |-> selector, args |-> args]

Id(path, kind, x) == [path |-> path, kind |-> kind, x |-> x]
RootId(x) == Id(<<>>, "root", x)
SelfId == Id(<<>>, "self", "self")
NeedsCell(id) == id.kind \in {"temporary", "cascade receiver", "cascade answer"}

RECURSIVE IdsUsed(_)
IdsUsed(c) ==
    CASE c.op = "read" -> {c.id}
      [] c.op = "write" -> {c.id} \cup IdsUsed(c.c)
      [] c.op = "sequence" -> UNION {IdsUsed(c.s[i]) : i \in DOMAIN c.s}
      [] c.op = "send" -> IdsUsed(c.to) \cup UNION {IdsUsed(c.args[i]) : i \in DOMAIN c.args}
      [] c.op = "block" -> UNION {IdsUsed(k.from) : k \in c.captures}
      [] OTHER -> {}

\* The operations the code is made of; temporaries and cell captures are "cells".
RECURSIVE Ops(_)
Ops(c) ==
    {c.op} \cup
    CASE c.op = "write" -> Ops(c.c)
      [] c.op = "sequence" -> UNION {Ops(c.s[i]) : i \in DOMAIN c.s}
      [] c.op = "send" -> Ops(c.to) \cup UNION {Ops(c.args[i]) : i \in DOMAIN c.args}
      [] c.op = "block" -> Ops(c.body) \cup IF c.temps # {} \/ \E k \in c.captures : k.cell THEN {"cells"} ELSE {}
      [] OTHER -> {}

----------------------------------------
(* The image: its own classes and those of the program *)

ImageClass(c) ==
    [super |-> IF c = "Object" THEN "nil" ELSE "Object",
     slots |-> IF c = "Binding" THEN {"value"} ELSE {},
     vars |-> {},
     methods |->
        IF c = "UndefinedObject"
        THEN "ifNil:" :> SourceMethod(<<"b">>, <<>>, <<Return(Send(Name("b"), "value", <<>>))>>)
             @@ "ifNotNil:" :> SourceMethod(<<"b">>, <<>>, <<Return(Literal(NilObject))>>)
        ELSE IF c = "Object"
        THEN "ifNil:" :> SourceMethod(<<"b">>, <<>>, <<Return(SelfName)>>)
             @@ "ifNotNil:" :> SourceMethod(<<"b">>, <<>>,
                    <<Return(Send(Name("b"), "valueWithPossibleArgument:", <<SelfName>>))>>)
        ELSE IF c = "Binding"
        THEN "value" :> SourceMethod(<<>>, <<>>, <<Name("value")>>)
             @@ "value:" :> SourceMethod(<<"v">>, <<>>, <<Assign("value", Name("v"))>>)
        ELSE NoValues]

MethodClasses ==
    methodProgram.classes
        @@ [c \in {"True", "False", "UndefinedObject", "Integer", "Binding", "Object"} |-> ImageClass(c)]

SuperOf(c) == MethodClasses[c].super

\* CONDITIONAL_PROTOCOL: each arm evaluates an argument, answers nil or answers a boolean.
Evaluate(i) == SendCode(Argument(i), "value", <<>>)
AnswerNil == Read(RootId("nil"))
AnswerBool(b) == LiteralCode(Bool(b))

ConditionalArm(selector) ==
    CASE selector = "ifTrue:" -> [params |-> 1, True |-> Evaluate(1), False |-> AnswerNil]
      [] selector = "ifFalse:" -> [params |-> 1, True |-> AnswerNil, False |-> Evaluate(1)]
      [] selector = "ifTrue:ifFalse:" -> [params |-> 2, True |-> Evaluate(1), False |-> Evaluate(2)]
      [] selector = "ifFalse:ifTrue:" -> [params |-> 2, True |-> Evaluate(2), False |-> Evaluate(1)]
      [] selector = "not" -> [params |-> 0, True |-> AnswerBool(FALSE), False |-> AnswerBool(TRUE)]
      [] selector = "and:" -> [params |-> 1, True |-> Evaluate(1), False |-> AnswerBool(FALSE)]
      [] selector = "or:" -> [params |-> 1, True |-> AnswerBool(TRUE), False |-> Evaluate(1)]

ConditionalSelectors == {"ifTrue:", "ifFalse:", "ifTrue:ifFalse:", "ifFalse:ifTrue:", "not", "and:", "or:"}

\* lookupSelector: the nearest class of the chain that has the method, nil when none has.
RECURSIVE Lookup(_, _)
Lookup(c, selector) ==
    IF c = "nil" THEN "nil"
    ELSE IF selector \in DOMAIN MethodClasses[c].methods
            \/ (c \in {"True", "False"} /\ selector \in ConditionalSelectors) THEN c
    ELSE Lookup(SuperOf(c), selector)

\* visibleInstanceShape: what a method of the class may name, its ancestors' slots included.
RECURSIVE Layout(_)
Layout(c) == IF c = "nil" THEN {} ELSE MethodClasses[c].slots \cup Layout(SuperOf(c))

\* classVariableDeclarations: the binding of the nearest class that declares the variable.
RECURSIVE VariableBinding(_, _)
VariableBinding(c, x) ==
    IF c = "nil" THEN "" ELSE IF x \in MethodClasses[c].vars THEN c \o " " \o x ELSE VariableBinding(SuperOf(c), x)

GlobalBinding(x) == "global " \o x

----------------------------------------
(* CompileNode(e, sc, at): the code of an expression.  sc is the class and the scopes from the      *)
(* method to the block at hand, at the place of the expression, which names its block and its   *)
(* hidden temporaries.                                                                          *)

MethodScope(path, params, temps) == [path |-> path, params |-> params, temps |-> temps]

InnermostWith(sc, x) ==
    LET levels == {d \in DOMAIN sc.scopes : x \in Range(sc.scopes[d].params) \cup Range(sc.scopes[d].temps)}
    IN  IF levels = {} THEN 0 ELSE CHOOSE d \in levels : \A e \in levels : e <= d

LexicalId(sc, d, x) ==
    LET s == sc.scopes[d] IN Id(s.path, IF x \in Range(s.params) THEN "parameter" ELSE "temporary", x)

ArgumentOf(scope, x) == Argument(IndexFirstSubSeq(<<x>>, scope.params))

ResolveSelf(sc) == IF Len(sc.scopes) = 1 THEN Receiver ELSE Read(SelfId)

Intrinsic(name) == Read(RootId(name))

SlotReadCode(sc, x) == SendCode(Intrinsic("slotRead"), "value:value:", <<ResolveSelf(sc), LiteralCode(x)>>)

SlotWriteCode(sc, x, c) ==
    SendCode(Intrinsic("slotWrite"), "value:value:value:", <<ResolveSelf(sc), LiteralCode(x), c>>)

ResolveName(sc, x) ==
    LET d == InnermostWith(sc, x)
        id == LexicalId(sc, d, x)
        variable == VariableBinding(sc.class, x)
    IN  IF d # 0
        THEN IF id.kind = "parameter" /\ d = Len(sc.scopes) THEN ArgumentOf(Last(sc.scopes), x) ELSE Read(id)
        ELSE IF x \in Layout(sc.class) THEN SlotReadCode(sc, x)
        ELSE SendCode(Intrinsic(IF variable # "" THEN variable ELSE GlobalBinding(x)), "value", <<>>)

CompileAssign(x, c, sc) ==
    LET d == InnermostWith(sc, x)
        id == LexicalId(sc, d, x)
        variable == VariableBinding(sc.class, x)
    IN  IF d # 0 THEN IF NeedsCell(id) THEN Write(id, c) ELSE [op |-> "refused"]
        ELSE IF x \in Layout(sc.class) THEN SlotWriteCode(sc, x, c)
        ELSE IF variable # "" THEN SendCode(Intrinsic(variable), "value:", <<c>>)
        ELSE [op |-> "refused"]

\* captureInitializers: where the enclosing activation finds what the block captures.
CaptureFrom(id, sc) ==
    LET parent == Last(sc.scopes)
    IN  IF id = SelfId THEN ResolveSelf(sc)
        ELSE IF id.kind = "parameter" /\ id.path = parent.path THEN ArgumentOf(parent, id.x) ELSE Read(id)

CaptureByValue(id, sc) == [id |-> id, cell |-> FALSE, from |-> CaptureFrom(id, sc)]

CaptureOf(id, sc) == [id |-> id, cell |-> NeedsCell(id), from |-> CaptureFrom(id, sc)]

OwnIds(path, temps, body) ==
    {Id(path, "temporary", x) : x \in Range(temps)}
        \cup {id \in IdsUsed(body) : NeedsCell(id) /\ id.path = path}

RECURSIVE CompileNode(_, _, _)

CompileNodes(es, sc, at) == [i \in DOMAIN es |-> CompileNode(es[i], sc, Append(at, i))]

CompileBlockNode(e, sc, at) ==
    LET inner == [sc EXCEPT !.scopes = Append(@, MethodScope(at, e.params, e.temps))]
        body == Sequence(CompileNodes(e.body, inner, at))
        own == OwnIds(at, e.temps, body)
    IN  [op |-> "block", params |-> Len(e.params), temps |-> own, body |-> body,
         captures |-> {CaptureOf(id, sc) : id \in IdsUsed(body) \ own}]

\* The receiver once into a temporary, every message to it, the first message's answer.
CompileCascade(e, sc, at) ==
    LET path == Last(sc.scopes).path
        receiver == Id(path, "cascade receiver", ToString(at))
        answer == Id(path, "cascade answer", ToString(at))
        sent == [i \in DOMAIN e.messages |->
                    SendCode(Read(receiver), e.messages[i].selector,
                             CompileNodes(e.messages[i].args, sc, at \o <<i, 0>>))]
    IN  Sequence(<<Write(receiver, CompileNode(e.to, sc, Append(at, 0))), Write(answer, sent[1])>>
                    \o Tail(sent) \o <<Read(answer)>>)

CompileNode(e, sc, at) ==
    CASE e.k = "literal" -> IF e.v = NilObject THEN Intrinsic("nil") ELSE LiteralCode(e.v)
      [] e.k = "self" -> ResolveSelf(sc)
      [] e.k = "name" -> ResolveName(sc, e.x)
      [] e.k = "assign" -> CompileAssign(e.x, CompileNode(e.e, sc, Append(at, 1)), sc)
      [] e.k = "return" -> SendCode(Intrinsic("nonLocalReturn"), "value:", <<CompileNode(e.e, sc, Append(at, 1))>>)
      [] e.k = "send" -> SendCode(CompileNode(e.to, sc, Append(at, 0)), e.selector, CompileNodes(e.args, sc, at))
      [] e.k = "super" -> SendCode(Intrinsic("superSend"), "value:", <<LiteralCode(e.selector)>> \o CompileNodes(e.args, sc, at))
      [] e.k = "cascade" -> CompileCascade(e, sc, at)
      [] e.k = "block" -> CompileBlockNode(e, sc, at)

CompileMethod(c, m) ==
    LET sc == [class |-> c, scopes |-> <<MethodScope(<<>>, m.params, m.temps)>>]
        body == Sequence(CompileNodes(m.body, sc, <<>>))
    IN  [op |-> "block", params |-> Len(m.params), temps |-> OwnIds(<<>>, m.temps, body), body |-> body,
         captures |-> {}]

\* The method Block lookup finds: compiled from source, or an arm of the conditional protocol.
MethodBlock(c, selector) ==
    IF selector \in DOMAIN MethodClasses[c].methods THEN CompileMethod(c, MethodClasses[c].methods[selector])
    ELSE LET arm == ConditionalArm(selector)
         IN  [op |-> "block", params |-> arm.params, temps |-> {}, captures |-> {},
              body |-> IF c = "True" THEN arm.True ELSE arm.False]

----------------------------------------
(* Execution.  st: the cells, the slots of the objects, what was noted, the activations          *)
(* numbered so far and those that have ended.  An outcome is a value, a failure, or a return on  *)
(* its way to the activation of its method.                                                      *)

Result(kind, v, to, st) == [kind |-> kind, v |-> v, to |-> to, st |-> st]
Gives(v, st) == Result("value", v, 0, st)
GivesUp(st) == Result("fails", NilObject, 0, st)
AndThen(r, Goes(_, _)) == IF r.kind = "value" THEN Goes(r.v, r.st) ELSE r

NoFrame == [nr |-> 0]

ClassOfObject(o) ==
    CASE o = "nil" -> "UndefinedObject"
      [] o = "true" -> "True"
      [] o = "false" -> "False"
      [] o \in DOMAIN methodProgram.objects -> methodProgram.objects[o]
      [] OTHER -> "Binding"

\* behaviorRefFor: a boolean stands for the image's true or false, which becomes the receiver.
Bridged(v) == IF "boolean" \in DOMAIN v THEN [object |-> IF v.boolean THEN "true" ELSE "false"] ELSE v

ClassOf(v) == IF "integer" \in DOMAIN v THEN "Integer" ELSE ClassOfObject(v.object)

RootValue(x) ==
    IF x = "nil" THEN NilObject
    ELSE IF x \in {"slotRead", "slotWrite", "superSend", "nonLocalReturn"} THEN [primitive |-> x]
    ELSE [object |-> x]

\* The kernel's primitive methods; note: stands for any host operation.
HostSelectors == {"+", "<", "note:"}

HostMethod(self, selector, args, st) ==
    CASE selector = "note:" -> Gives(args[1], [st EXCEPT !.noted = Append(@, args[1])])
      [] "integer" \notin DOMAIN self \/ "integer" \notin DOMAIN args[1] -> GivesUp(st)
      [] selector = "+" -> Gives(SmallInt(self.integer + args[1].integer), st)
      [] selector = "<" -> Gives(Bool(self.integer < args[1].integer), st)

\* createClosure: it keeps the frame it was made in.
CloseOver(c, fr, st) ==
    LET cells == {k \in c.captures : k.cell}
        from(k) == CASE k.from.op = "argument" -> fr.args[k.from.i]
                     [] k.from.op = "receiver" -> fr.self
                     [] k.from.id \in DOMAIN fr.cells -> st.heap[fr.cells[k.from.id]]
                     [] k.from.id.kind = "root" -> RootValue(k.from.id.x)
                     [] OTHER -> fr.snaps[k.from.id]
    IN  [block |-> c, frame |-> fr.frame,
         cells |-> [id \in {k.id : k \in cells} |-> fr.cells[id]],
         snaps |-> [id \in {k.id : k \in c.captures \ cells} |-> from(CHOOSE k \in c.captures : k.id = id)]]

RECURSIVE Runs(_, _, _)
RECURSIVE Dispatch(_, _, _, _, _)

RunsAll(cs, fr, st) ==
    FoldLeft(LAMBDA done, c :
                IF done.kind # "value" THEN done
                ELSE AndThen(Runs(c, fr, done.st), LAMBDA v, at : Gives(Append(done.v, v), at)),
             Gives(<<>>, st), cs)

\* execute: temporaries get cells of their own, holding nil.
Execute(code, self, args, cells, snaps, frame, st) ==
    LET base == Len(st.heap)
        temps == SetToSeq(code.temps)
        own == [id \in code.temps |-> base + IndexFirstSubSeq(<<id>>, temps)]
    IN  IF Len(args) # code.params THEN GivesUp(st)
        ELSE Runs(code.body, [self |-> self, args |-> args, cells |-> own @@ cells, snaps |-> snaps, frame |-> frame],
                  [st EXCEPT !.heap = @ \o [i \in DOMAIN temps |-> NilObject]])

\* A dispatched method owns its frame: it ends the return that names it, and with it the frame dies.
Owns(r, nr) == r.kind = "returns" /\ r.to = nr
Dies(st, nr) == [st EXCEPT !.ended = @ \cup {nr}]
Finishes(r, nr) == IF Owns(r, nr) THEN Gives(r.v, Dies(r.st, nr)) ELSE [r EXCEPT !.st = Dies(@, nr)]

InvokeMethod(c, selector, self, args, st) ==
    LET frame == [nr |-> st.nr + 1, self |-> self, class |-> c]
    IN  Finishes(Execute(MethodBlock(c, selector), self, args, NoValues, NoValues, frame, [st EXCEPT !.nr = @ + 1]),
              frame.nr)

\* A block restores the frame it was made in, whoever invokes it.
InvokeBlock(b, args, st) == Execute(b.block, NilObject, args, b.cells, b.snaps, b.frame, st)

SlotAccess(frame, target, slot) ==
    frame # NoFrame /\ target = frame.self /\ slot \in Layout(frame.class)

ReturnHome(frame, v, st) ==
    IF frame = NoFrame \/ frame.nr \in st.ended THEN GivesUp(st) ELSE Result("returns", v, frame.nr, st)

\* Lookup starts above the class that defines the running method; the receiver is still its self.
SuperStart(frame) == SuperOf(frame.class)

SuperSend(frame, selector, args, st) ==
    LET c == Lookup(SuperStart(frame), selector)
    IN  IF frame = NoFrame \/ c = "nil" THEN GivesUp(st) ELSE InvokeMethod(c, selector, frame.self, args, st)

RunPrimitive(name, args, frame, st) ==
    CASE name = "nonLocalReturn" -> ReturnHome(frame, args[1], st)
      [] name = "superSend" -> SuperSend(frame, args[1], Tail(args), st)
      [] ~SlotAccess(frame, args[1], args[2]) -> GivesUp(st)
      [] name = "slotRead" -> Gives(st.slots[args[1].object][args[2]], st)
      [] name = "slotWrite" -> Gives(args[3], [st EXCEPT !.slots[args[1].object][args[2]] = args[3]])

IsBlock(v) == "block" \in DOMAIN v

EnsureBlock(body, cleanup, always, st) ==
    LET r == InvokeBlock(body, <<>>, st)
        c == InvokeBlock(cleanup, <<>>, r.st)
    IN  IF ~always /\ r.kind = "value" THEN r
        ELSE IF c.kind = "value" THEN [r EXCEPT !.st = c.st] ELSE c

RECURSIVE Loop(_, _, _, _)
Loop(condition, body, wanted, st) ==
    AndThen(InvokeBlock(condition, <<>>, st), LAMBDA v, at :
         IF "boolean" \notin DOMAIN v THEN GivesUp(at)
         ELSE IF v.boolean # wanted THEN Gives(NilObject, at)
         ELSE AndThen(InvokeBlock(body, <<>>, at), LAMBDA w, on : Loop(condition, body, wanted, on)))

ValueSelector(n) == <<"value", "value:", "value:value:">>[n + 1]

\* A Block has no class: loops, protection and value are all it understands.
SendToBlock(b, selector, args, st) ==
    CASE selector \in {"whileTrue:", "whileFalse:"} ->
            IF IsBlock(args[1]) THEN Loop(b, args[1], selector = "whileTrue:", st) ELSE GivesUp(st)
      [] selector \in {"ensure:", "ifCurtailed:"} ->
            IF IsBlock(args[1]) THEN EnsureBlock(b, args[1], selector = "ensure:", st) ELSE GivesUp(st)
      [] selector = "valueWithPossibleArgument:" ->
            InvokeBlock(b, IF b.block.params = 0 THEN <<>> ELSE args, st)
      [] OTHER -> IF selector = ValueSelector(Len(args)) THEN InvokeBlock(b, args, st) ELSE GivesUp(st)

Dispatch(v, selector, args, frame, st) ==
    IF "primitive" \in DOMAIN v THEN RunPrimitive(v.primitive, args, frame, st)
    ELSE IF IsBlock(v) THEN SendToBlock(v, selector, args, st)
    ELSE IF selector \in HostSelectors THEN HostMethod(v, selector, args, st)
    ELSE LET self == Bridged(v)
             c == Lookup(ClassOf(self), selector)
         IN  IF c = "nil" THEN GivesUp(st) ELSE InvokeMethod(c, selector, self, args, st)

Runs(c, fr, st) ==
    CASE c.op = "literal" -> Gives(c.v, st)
      [] c.op = "argument" -> Gives(fr.args[c.i], st)
      [] c.op = "receiver" -> Gives(fr.self, st)
      [] c.op = "read" ->
            Gives(IF c.id \in DOMAIN fr.cells THEN st.heap[fr.cells[c.id]]
                  ELSE IF c.id \in DOMAIN fr.snaps THEN fr.snaps[c.id] ELSE RootValue(c.id.x), st)
      [] c.op = "write" ->
            AndThen(Runs(c.c, fr, st), LAMBDA v, at :
                 IF c.id \in DOMAIN fr.cells THEN Gives(v, [at EXCEPT !.heap[fr.cells[c.id]] = v]) ELSE GivesUp(at))
      [] c.op = "sequence" -> AndThen(RunsAll(c.s, fr, st), LAMBDA v, at : Gives(Last(v), at))
      [] c.op = "send" ->
            AndThen(RunsAll(<<c.to>> \o c.args, fr, st), LAMBDA v, at : Dispatch(v[1], c.selector, Tail(v), fr.frame, at))
      [] c.op = "block" -> Gives(CloseOver(c, fr, st), st)
      [] c.op = "refused" -> GivesUp(st)

----------------------------------------
(* Says(e, env, home, st): what Smalltalk says of the expression.  Every variable has a place,   *)
(* made anew by each activation; a block knows the places around it and the activation of its    *)
(* method, whose self is its self; ^ ends that activation, wherever it is run.                   *)

RECURSIVE Says(_, _, _, _)

SaysAll(es, env, home, st) ==
    FoldLeft(LAMBDA done, e :
                IF done.kind # "value" THEN done
                ELSE AndThen(Says(e, env, home, done.st), LAMBDA v, at : Gives(Append(done.v, v), at)),
             Gives(<<>>, st), es)

SaysBody(m, args, env, home, st) ==
    LET names == m.params \o m.temps
        places == [x \in Range(names) |-> Len(st.heap) + IndexFirstSubSeq(<<x>>, names)]
    IN  IF Len(args) # Len(m.params) THEN GivesUp(st)
        ELSE AndThen(SaysAll(m.body, places @@ env, home,
                          [st EXCEPT !.heap = @ \o args \o [i \in DOMAIN m.temps |-> NilObject]]),
                  LAMBDA v, at : Gives(Last(v), at))

SaysMethod(c, selector, self, args, st) ==
    LET home == [nr |-> st.nr + 1, self |-> self, class |-> c]
    IN  Finishes(SaysBody(MethodClasses[c].methods[selector], args, NoValues, home, [st EXCEPT !.nr = @ + 1]),
              home.nr)

Does(v, args, st) == IF "body" \in DOMAIN v THEN SaysBody(v, args, v.env, v.home, st) ELSE GivesUp(st)

SaysConditional(b, selector, args, st) ==
    LET taken == CASE selector = "ifTrue:ifFalse:" -> IF b THEN 1 ELSE 2
                   [] selector = "ifFalse:ifTrue:" -> IF b THEN 2 ELSE 1
                   [] OTHER -> IF (selector \in {"ifTrue:", "and:"}) = b THEN 1 ELSE 0
    IN  IF selector = "not" THEN Gives(Bool(~b), st)
        ELSE IF taken # 0 THEN Does(args[taken], <<>>, st)
        ELSE Gives(IF selector \in {"and:", "or:"} THEN Bool(b) ELSE NilObject, st)

RECURSIVE SaysLoop(_, _, _, _)
SaysLoop(condition, body, wanted, st) ==
    AndThen(Does(condition, <<>>, st), LAMBDA v, at :
         IF v \notin {Bool(TRUE), Bool(FALSE)} THEN GivesUp(at)
         ELSE IF v # Bool(wanted) THEN Gives(NilObject, at)
         ELSE AndThen(Does(body, <<>>, at), LAMBDA w, on : SaysLoop(condition, body, wanted, on)))

CleanedUp(r, c) == IF c.kind = "value" THEN [r EXCEPT !.st = c.st] ELSE c
Protected(r, cleanup, always) ==
    IF always \/ r.kind # "value" THEN CleanedUp(r, Does(cleanup, <<>>, r.st)) ELSE r

SaysProtected(body, cleanup, always, st) ==
    IF "body" \notin DOMAIN cleanup THEN GivesUp(st) ELSE Protected(Does(body, <<>>, st), cleanup, always)

SaysToBlock(b, selector, args, st) ==
    CASE selector \in {"whileTrue:", "whileFalse:"} ->
            IF "body" \in DOMAIN args[1] THEN SaysLoop(b, args[1], selector = "whileTrue:", st) ELSE GivesUp(st)
      [] selector \in {"ensure:", "ifCurtailed:"} -> SaysProtected(b, args[1], selector = "ensure:", st)
      [] selector \in {"value", "value:", "value:value:"} -> Does(b, args, st)
      [] OTHER -> GivesUp(st)

SaysNil(v, selector, args, st) ==
    LET isNil == v = NilObject
    IN  IF (selector = "ifNil:") # isNil THEN Gives(v, st)
        ELSE IF isNil THEN Does(args[1], <<>>, st)
        ELSE Does(args[1], IF "body" \in DOMAIN args[1] /\ args[1].params = <<>> THEN <<>> ELSE <<v>>, st)

SaysSend(v, selector, args, st) ==
    LET c == IF "boolean" \in DOMAIN v THEN "Object" ELSE Lookup(ClassOf(v), selector)
    IN  IF "body" \in DOMAIN v THEN SaysToBlock(v, selector, args, st)
        ELSE IF selector \in HostSelectors THEN HostMethod(v, selector, args, st)
        ELSE IF selector \in {"ifNil:", "ifNotNil:"} THEN SaysNil(v, selector, args, st)
        ELSE IF "boolean" \in DOMAIN v
        THEN IF selector \in ConditionalSelectors THEN SaysConditional(v.boolean, selector, args, st) ELSE GivesUp(st)
        ELSE IF c = "nil" THEN GivesUp(st) ELSE SaysMethod(c, selector, v, args, st)

SaysName(x, env, home, st) ==
    LET variable == VariableBinding(home.class, x)
    IN  IF x \in DOMAIN env THEN st.heap[env[x]]
        ELSE IF x \in Layout(home.class) THEN st.slots[home.self.object][x]
        ELSE st.slots[IF variable # "" THEN variable ELSE GlobalBinding(x)]["value"]

SaysAssign(x, v, env, home, st) ==
    IF x \in DOMAIN env THEN [st EXCEPT !.heap[env[x]] = v]
    ELSE IF x \in Layout(home.class) THEN [st EXCEPT !.slots[home.self.object][x] = v]
    ELSE [st EXCEPT !.slots[VariableBinding(home.class, x)]["value"] = v]

LastAnswer(done, i, r) == IF r.kind = "value" /\ i > 1 THEN [done EXCEPT !.st = r.st] ELSE r

SaysCascade(e, env, home, st) ==
    AndThen(Says(e.to, env, home, st), LAMBDA to, at :
         FoldLeft(LAMBDA done, i :
                    IF done.kind # "value" THEN done
                    ELSE LastAnswer(done, i,
                             AndThen(SaysAll(e.messages[i].args, env, home, done.st), LAMBDA args, on :
                                  SaysSend(to, e.messages[i].selector, args, on))),
                  Gives(NilObject, at), [i \in DOMAIN e.messages |-> i]))

SaysSuper(e, env, home, st) ==
    LET c == Lookup(SuperOf(home.class), e.selector)
    IN  AndThen(SaysAll(e.args, env, home, st), LAMBDA args, at :
             IF c = "nil" THEN GivesUp(at)
             ELSE IF e.selector \in {"ifNil:", "ifNotNil:"} THEN SaysNil(home.self, e.selector, args, at)
             ELSE SaysMethod(c, e.selector, home.self, args, at))

Says(e, env, home, st) ==
    CASE e.k = "literal" -> Gives(e.v, st)
      [] e.k = "self" -> Gives(home.self, st)
      [] e.k = "name" -> Gives(SaysName(e.x, env, home, st), st)
      [] e.k = "assign" -> AndThen(Says(e.e, env, home, st), LAMBDA v, at : Gives(v, SaysAssign(e.x, v, env, home, at)))
      [] e.k = "return" ->
            AndThen(Says(e.e, env, home, st), LAMBDA v, at :
                 IF home.nr \in at.ended THEN GivesUp(at) ELSE Result("returns", v, home.nr, at))
      [] e.k = "send" ->
            AndThen(SaysAll(<<e.to>> \o e.args, env, home, st), LAMBDA v, at : SaysSend(v[1], e.selector, Tail(v), at))
      [] e.k = "super" -> SaysSuper(e, env, home, st)
      [] e.k = "cascade" -> SaysCascade(e, env, home, st)
      [] e.k = "block" ->
            Gives([params |-> e.params, temps |-> e.temps, body |-> e.body, env |-> env, home |-> home], st)

----------------------------------------
(* Every program of MethodPrograms *)

MethodsInit == methodProgram \in MethodPrograms
MethodsNext == UNCHANGED methodProgram

AllBindings ==
    UNION {{c \o " " \o x : x \in MethodClasses[c].vars} : c \in DOMAIN methodProgram.classes}
        \cup {GlobalBinding(o) : o \in DOMAIN methodProgram.objects}

StartState ==
    LET objects == methodProgram.objects
    IN  [heap |-> <<>>, noted |-> <<>>, nr |-> 0, ended |-> {},
         slots |-> [o \in DOMAIN objects |-> [x \in Layout(objects[o]) |-> SmallInt(0)]]
                    @@ [b \in AllBindings |->
                          [value |-> IF \E o \in DOMAIN objects : b = GlobalBinding(o)
                                     THEN [object |-> CHOOSE o \in DOMAIN objects : b = GlobalBinding(o)]
                                     ELSE SmallInt(0)]]]

\* A boolean and the image's object for it are the same to a program; a block is only a block.
Seen(v) ==
    IF "block" \in DOMAIN v \/ "body" \in DOMAIN v THEN [aBlock |-> TRUE]
    ELSE IF v = [object |-> "true"] THEN Bool(TRUE) ELSE IF v = [object |-> "false"] THEN Bool(FALSE) ELSE v

Observed(r) ==
    [kind |-> r.kind, v |-> IF r.kind = "value" THEN Seen(r.v) ELSE NilObject,
     noted |-> [i \in DOMAIN r.st.noted |-> Seen(r.st.noted[i])],
     slots |-> [o \in DOMAIN r.st.slots |-> [x \in DOMAIN r.st.slots[o] |-> Seen(r.st.slots[o][x])]]]

AllMethods == UNION {{<<c, selector>> : selector \in DOMAIN MethodClasses[c].methods} : c \in DOMAIN MethodClasses}

\* Only a temporary, an instance variable and a class variable can be assigned to; fixed are the
\* names whose innermost binding is a parameter.
RECURSIVE Assigns(_, _)
Assigns(e, fixed) ==
    CASE e.k = "assign" -> e.x \in fixed \/ Assigns(e.e, fixed)
      [] e.k = "return" -> Assigns(e.e, fixed)
      [] e.k = "send" -> Assigns(e.to, fixed) \/ \E i \in DOMAIN e.args : Assigns(e.args[i], fixed)
      [] e.k = "super" -> \E i \in DOMAIN e.args : Assigns(e.args[i], fixed)
      [] e.k = "cascade" ->
            Assigns(e.to, fixed)
            \/ \E i \in DOMAIN e.messages : \E j \in DOMAIN e.messages[i].args : Assigns(e.messages[i].args[j], fixed)
      [] e.k = "block" ->
            \E i \in DOMAIN e.body : Assigns(e.body[i], (fixed \ Range(e.temps)) \cup Range(e.params))
      [] OTHER -> FALSE

Refused == [kind |-> "refused"]

RanMethods ==
    IF \E m \in AllMethods : "refused" \in Ops(CompileMethod(m[1], MethodClasses[m[1]].methods[m[2]])) THEN Refused
    ELSE Observed(Dispatch([object |-> "o"], methodProgram.message, <<SmallInt(5)>>, NoFrame, StartState))

SaidMethods ==
    IF \E m \in AllMethods :
            LET method == MethodClasses[m[1]].methods[m[2]]
            IN  \E i \in DOMAIN method.body : Assigns(method.body[i], Range(method.params))
    THEN Refused
    ELSE Observed(Says(Send(Literal([object |-> "o"]), methodProgram.message, <<Literal(SmallInt(5))>>),
                       NoValues, NoFrame, StartState))

\* Compiled and dispatched, a method does what it says: the same answer or failure, the same
\* effects in the same order, whatever blocks, shadowing names, returns out of blocks, protected
\* blocks, super sends and cascades it is made of (ADR 0043, 0050, 0055, 0089).
CompiledMethodsSayTheSame == RanMethods = SaidMethods

\* Code classed as lagrange-code/v0 uses nothing that only v1 has: a nested program shares its
\* parent's representation and the closed v0 grammar refuses anything else (semantic.js 45-92).
RepresentationFits ==
    \A m \in AllMethods :
        LET method == MethodClasses[m[1]].methods[m[2]]
            code == CompileMethod(m[1], method)
        IN  Representation(method) = "v0" => Ops(code) \cap {"write", "sequence", "cells"} = {}

========================================
