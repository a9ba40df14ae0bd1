------------------------------ MODULE LispForms ------------------------------
(***************************************************************************)
(* Common Lisp forms as lists and atoms, the lambda lists, and what a form   *)
(* does.  The compiler proper knows a few special forms and functions        *)
(* (LispControl is about how it compiles those); everything else is a macro  *)
(* (module LispMacros).  Eval evaluates a form in one of two ways:           *)
(*   - core: as the image executes an expanded form, with the functions of   *)
(*     the library (common-lisp.js STANDARD_LIBRARY_SOURCE);                 *)
(*   - direct: as Common Lisp says, every macro by its meaning.              *)
(***************************************************************************)
EXTENDS Integers, Sequences, SequencesExt, FiniteSets, TLC

S(x) == [sym |-> x]
N(n) == [int |-> n]
Key(x) == [key |-> x]
L(s) == IF s = <<>> THEN S("nil") ELSE [list |-> s]
Form(x, args) == L(<<S(x)>> \o args)
Nil == S("nil")
True == S("t")
Bool(b) == IF b THEN True ELSE Nil
Quote(d) == Form("quote", <<d>>)
LambdaForm(params, body) == Form("lambda", <<params>> \o body)

IsList(f) == "list" \in DOMAIN f
IsSymbol(f) == DOMAIN f \in {{"sym"}, {"setf"}, {"fresh", "at"}} /\ f \notin {Nil, True}
From(a, i) == SubSeq(a, i, Len(a))
FormParts(f) == IF IsList(f) THEN f.list ELSE <<>>
Named(f) == IF "sym" \in DOMAIN f THEN f.sym ELSE ""
HeadName(f) == IF IsList(f) THEN Named(f.list[1]) ELSE ""

\* DEFSETF's short form: the reader and the function that writes what it reads.
ShortSetters == [peek |-> "poke"]

\* The test that ends a numeric LOOP variable.
Past == [to |-> ">", upto |-> ">", below |-> ">=", downto |-> "<", above |-> "<="]

\* canonicalSetfFunctionName: (setf reader) names the function %SETF-FN:reader.
FunctionName(f) == IF HeadName(f) = "setf" THEN [setf |-> f.list[2].sym] ELSE f

NoPlaces == [x \in {} |-> 0]

----------------------------------------
(* Lambda lists.  A required or rest parameter may be a pattern.  mode: where the list is. *)

Spec(item) ==
    LET p == IF IsList(item) THEN item.list ELSE <<item>>
    IN  [name |-> p[1], init |-> IF Len(p) > 1 THEN p[2] ELSE Nil, given |-> IF Len(p) > 2 THEN p[3] ELSE Nil]

LambdaKeywords == {"&optional", "&rest", "&body", "&key"}

ParseLambdaList(params) ==
    FoldLeft(LAMBDA done, item :
                IF Named(item) \in LambdaKeywords THEN [done EXCEPT !.mode = Named(item)]
                ELSE CASE done.mode = "required" -> [done EXCEPT !.required = Append(@, item)]
                       [] done.mode = "&optional" -> [done EXCEPT !.optional = Append(@, Spec(item))]
                       [] done.mode = "&key" -> [done EXCEPT !.keys = Append(@, Spec(item))]
                       [] OTHER -> [done EXCEPT !.rest = item, !.mode = "after rest"],
             [required |-> <<>>, optional |-> <<>>, rest |-> Nil, keys |-> <<>>, mode |-> "required"],
             FormParts(params))

HasRestOrKey(ll) == ll.rest # Nil \/ ll.keys # <<>>

IsSimple(ll) ==
    ll.optional = <<>> /\ ~HasRestOrKey(ll) /\ \A i \in DOMAIN ll.required : IsSymbol(ll.required[i])

----------------------------------------
(* State and outcomes.  A form returns its values, fails, or is leaving for a block.  vars holds *)
(* what the variables and local functions of an environment are bound to.                         *)

Outcome(kind, vs, to, st) == [kind |-> kind, vs |-> vs, to |-> to, st |-> st]
Single(v, st) == Outcome("value", <<v>>, 0, st)
Fails(st) == Outcome("fails", <<>>, 0, st)
Primary(r) == IF r.vs = <<>> THEN Nil ELSE r.vs[1]
Then(r, Goes(_, _)) == IF r.kind = "value" THEN Goes(Primary(r), r.st) ELSE r
ThenAll(r, Goes(_, _)) == IF r.kind = "value" THEN Goes(r.vs, r.st) ELSE r

NewCons(a, d, st) == Single([cell |-> Len(st.heap) + 1], [st EXCEPT !.heap = Append(@, [car |-> a, cdr |-> d])])

ListOnto(vs, tail, st) == FoldRight(LAMBDA v, r : NewCons(v, Primary(r), r.st), vs, Single(tail, st))
ListOf(vs, st) == ListOnto(vs, Nil, st)

IsPair(v) == "cell" \in DOMAIN v

RECURSIVE ListElements(_, _)
ListElements(v, st) == IF IsPair(v) THEN <<st.heap[v.cell].car>> \o ListElements(st.heap[v.cell].cdr, st) ELSE <<>>

RECURSIVE NthCdr(_, _, _)
NthCdr(n, v, st) == IF n <= 0 \/ ~IsPair(v) THEN v ELSE NthCdr(n - 1, st.heap[v.cell].cdr, st)

FormCar(v, st) == IF IsPair(v) THEN st.heap[v.cell].car ELSE Nil
FormCdr(v, st) == IF IsPair(v) THEN st.heap[v.cell].cdr ELSE Nil

\* %plist-has-key and %plist-get: the first occurrence counts.
RECURSIVE PlistFind(_, _)
PlistFind(vs, key) ==
    IF vs = <<>> THEN <<>> ELSE IF vs[1] = key THEN vs ELSE PlistFind(From(vs, 3), key)

\* What can be told of a value from outside.
RECURSIVE Datum(_, _)
Datum(v, st) ==
    IF IsPair(v) THEN [car |-> Datum(st.heap[v.cell].car, st), cdr |-> Datum(st.heap[v.cell].cdr, st)]
    ELSE IF DOMAIN v \in {{"sym"}, {"int"}, {"key"}} THEN v ELSE [opaque |-> TRUE]

RECURSIVE QuotedForm(_, _)
QuotedForm(d, st) ==
    FoldRight(LAMBDA item, r : Then(r, LAMBDA tail, at : Then(QuotedForm(item, at), LAMBDA v, on : NewCons(v, tail, on))),
              FormParts(d), Single(IF IsList(d) THEN Nil ELSE d, st))

Bind(env, names, values, st) ==
    [env |-> [env EXCEPT !.vars = [x \in ToSet(names) |-> Len(st.vars) + (CHOOSE i \in DOMAIN names : names[i] = x)] @@ @],
     st |-> [st EXCEPT !.vars = @ \o values]]

----------------------------------------
(* %values and %capture-mv of the library keep the values of the last VALUES in a global list;  *)
(* a capture takes them if the thunk's value is still their first.                              *)

SetValues(vs, st) == Single(IF vs = <<>> THEN Nil ELSE vs[1], [st EXCEPT !.mv = <<vs>>])

CaptureTakes(r) ==
    /\ r.st.mv # <<>>
    /\ Primary(r) = IF r.st.mv[1] = <<>> THEN Nil ELSE r.st.mv[1][1]

Captured(r) ==
    ThenAll([r EXCEPT !.vs = IF CaptureTakes(r) THEN r.st.mv[1] ELSE <<Primary(r)>>],
            LAMBDA vs, at : ListOf(vs, [at EXCEPT !.mv = <<>>]))

----------------------------------------
(* The functions the image has *)

Arithmetic(f, a, b) ==
    CASE f = "+" -> N(a + b) [] f = "-" -> N(a - b)
      [] f = "<" -> Bool(a < b) [] f = ">" -> Bool(a > b)
      [] f = "<=" -> Bool(a <= b) [] f = ">=" -> Bool(a >= b) [] f = "=" -> Bool(a = b)

ArithmeticNames == {"+", "-", "<", ">", "<=", ">=", "="}

TypeP(v, type) ==
    CASE type = "integer" -> "int" \in DOMAIN v
      [] type = "symbol" -> DOMAIN v \in {{"sym"}, {"key"}}
      [] type = "cons" -> IsPair(v)
      [] type = "list" -> IsPair(v) \/ v = Nil
      [] type = "null" -> v = Nil
      [] type = "atom" -> ~IsPair(v)
      [] type = "function" -> DOMAIN v \in {{"params", "body", "env"}, {"builtin"}}

RECURSIVE Builtin(_, _, _), Apply(_, _, _), Reduced(_, _, _, _), Mapped(_, _, _, _)

Reduced(f, acc, ws, st) ==
    IF ws = <<>> THEN Single(acc, st)
    ELSE Then(Apply(f, <<acc, ws[1]>>, st), LAMBDA v, at : Reduced(f, v, Tail(ws), at))

Mapped(f, vs, ws, st) ==
    IF ws = <<>> THEN ListOf(vs, st)
    ELSE Then(Apply(f, <<ws[1]>>, st), LAMBDA v, at : Mapped(f, Append(vs, v), Tail(ws), at))

\* find-restart and invoke-restart look the name up in the list of active restarts.
RestartNamed(name, st) == SelectSeq(ListElements(st.restarts, st), LAMBDA p : FormCar(p, st) = name)

Builtin(f, v, st) ==
    CASE f \in ArithmeticNames ->
            IF Len(v) = 2 /\ \A i \in 1..2 : "int" \in DOMAIN v[i] THEN Single(Arithmetic(f, v[1].int, v[2].int), st) ELSE Fails(st)
      [] f \in {"1+", "1-"} -> Builtin(IF f = "1+" THEN "+" ELSE "-", <<v[1], N(1)>>, st)
      [] f = "note" -> Single(v[1], [st EXCEPT !.noted = Append(@, Datum(v[1], st))])
      [] f = "cons" -> NewCons(v[1], v[2], st)
      [] f = "list" -> ListOf(v, st)
      [] f = "list*" -> ListOnto(Front(v), Last(v), st)
      [] f = "append" -> ListOnto(ListElements(v[1], st), v[2], st)
      [] f \in {"car", "first"} -> Single(FormCar(v[1], st), st)
      [] f \in {"cdr", "rest"} -> Single(FormCdr(v[1], st), st)
      [] f \in {"cadr", "second"} -> Single(FormCar(NthCdr(1, v[1], st), st), st)
      [] f = "third" -> Single(FormCar(NthCdr(2, v[1], st), st), st)
      [] f = "nth" -> Single(FormCar(NthCdr(v[1].int, v[2], st), st), st)
      [] f = "null" -> Single(Bool(v[1] = Nil), st)
      [] f = "consp" -> Single(Bool(IsPair(v[1])), st)
      [] f = "eql" -> Single(Bool(v[1] = v[2]), st)
      [] f \in {"rplaca", "rplacd"} ->
            IF ~IsPair(v[1]) THEN Fails(st)
            ELSE Single(v[1], IF f = "rplaca" THEN [st EXCEPT !.heap[v[1].cell].car = v[2]]
                                              ELSE [st EXCEPT !.heap[v[1].cell].cdr = v[2]])
      [] f = "%set-nth" ->
            LET c == NthCdr(v[1].int, v[2], st)
            IN  IF IsPair(c) THEN Single(v[3], [st EXCEPT !.heap[c.cell].car = v[3]]) ELSE Fails(st)
      [] f = "%unsupplied" -> Single([unsupplied |-> TRUE], st)
      [] f = "%unsupplied-p" -> Single(Bool(v[1] = [unsupplied |-> TRUE]), st)
      [] f = "%plist-has-key" -> Single(Bool(PlistFind(ListElements(v[1], st), v[2]) # <<>>), st)
      [] f = "%plist-get" ->
            LET found == PlistFind(ListElements(v[1], st), v[2])
            IN  Single(IF Len(found) < 2 THEN v[3] ELSE found[2], st)
      [] f = "%values" -> SetValues(ListElements(v[1], st), st)
      [] f = "%capture-mv" -> Captured(Apply(v[1], <<>>, [st EXCEPT !.mv = <<>>]))
      [] f = "%apply-list" -> Apply(v[1], ListElements(v[2], st), st)
      [] f = "reduce" -> Reduced(v[1], v[3], ListElements(v[2], st), st)
      [] f = "reverse" -> ListOf(Reverse(ListElements(v[1], st)), st)
      [] f = "length" -> Single(N(Len(ListElements(v[1], st))), st)
      [] f = "mapcar" -> Mapped(v[1], <<>>, ListElements(v[2], st), st)
      [] f = "find-restart" -> Single(IF RestartNamed(v[1], st) = <<>> THEN Nil ELSE v[1], st)
      [] f = "invoke-restart" ->
            LET found == RestartNamed(v[1], st)
            IN  IF found = <<>> THEN Fails(st) ELSE Apply(FormCdr(found[1], st), Tail(v), st)
      [] f \in {t \o "p" : t \in {"integer", "symbol", "list", "function"}} ->
            Single(Bool(\E t \in {"integer", "symbol", "list", "function"} : f = t \o "p" /\ TypeP(v[1], t)), st)
      [] f = "atom" -> Single(Bool(TypeP(v[1], "atom")), st)
      [] OTHER -> Fails(st)

----------------------------------------
(* Eval: env is [vars, funs, blocks, direct].  A block's tag is its number.         *)

MacroNames ==
    {"prog2", "return", "apply", "%while", "dolist", "dotimes", "case", "ecase", "destructuring-bind",
     "setf", "incf", "decf", "push", "pop", "concatenate", "typep", "restart-case", "loop", "values",
     "values-list", "multiple-value-list", "multiple-value-bind", "multiple-value-call", "nth-value",
     "multiple-value-prog1"}

SpecialForms ==
    {"quote", "progn", "prog1", "if", "when", "unless", "cond", "and", "or", "not", "let", "let*", "setq",
     "lambda", "function", "flet", "labels", "block", "return-from", "unwind-protect", "funcall"}

RECURSIVE Eval(_, _, _), Direct(_, _, _), EvalBody(_, _, _), EvalOnto(_, _, _, _), BindInOrder(_, _, _, _)

\* vs: the values of the forms before.
EvalOnto(vs, fs, env, st) ==
    IF fs = <<>> THEN Outcome("value", vs, 0, st)
    ELSE Then(Eval(fs[1], env, st), LAMBDA v, at : EvalOnto(Append(vs, v), Tail(fs), env, at))
EvalAll(fs, env, st) == EvalOnto(<<>>, fs, env, st)

EvalRest(r, fs, env) == IF fs = <<>> THEN r ELSE Then(r, LAMBDA v, at : EvalBody(fs, env, at))
EvalBody(fs, env, st) ==
    IF fs = <<>> THEN Single(Nil, st) ELSE EvalRest(Eval(fs[1], env, st), Tail(fs), env)

\* Each name is bound to what its form is where the names before it are; an environment is the value.
Binds(env, x, v, st) == LET b == Bind(env, <<x>>, <<v>>, st) IN Outcome("value", <<b.env>>, 0, b.st)
BindInOrder(names, fs, env, st) ==
    IF fs = <<>> THEN Outcome("value", <<env>>, 0, st)
    ELSE Then(Eval(fs[1], env, st), LAMBDA v, at :
              Then(Binds(env, names[1], v, at), LAMBDA e, on : BindInOrder(Tail(names), Tail(fs), e, on)))

Assign(x, v, env, st) ==
    IF x = S("%active-restarts") THEN Single(v, [st EXCEPT !.restarts = v])
    ELSE IF x \in DOMAIN env.vars THEN Single(v, [st EXCEPT !.vars[env.vars[x]] = v]) ELSE Fails(st)

FormClosure(params, body, env) == [params |-> params, body |-> body, env |-> env]

\* A lambda list bound as Common Lisp says: from left to right, each default in what is bound.
RECURSIVE BindAll(_, _, _, _, _), BindPatterns(_, _, _), BindDefaults(_, _)

BindPattern(x, v, env, st) ==
    IF IsSymbol(x) THEN Binds(env, x, v, st) ELSE BindAll(x, ListElements(v, st), env, st, FALSE)
BindPatterns(r, xs, vs) ==
    IF xs = <<>> \/ r.kind # "value" THEN r
    ELSE BindPatterns(BindPattern(xs[1], IF vs = <<>> THEN Nil ELSE vs[1], Primary(r), r.st), Tail(xs), From(vs, 2))

\* [spec, given, v]: an optional or keyword parameter, whether there is an argument for it, and which.
BindGiven(s, w, env, st) ==
    LET own == IF s.spec.given = Nil THEN <<>> ELSE <<s.spec.given>>
        b == Bind(env, <<s.spec.name>> \o own, <<w>> \o [i \in DOMAIN own |-> Bool(s.given)], st)
    IN  Outcome("value", <<b.env>>, 0, b.st)
BindDefault(s, env, st) ==
    Then(IF s.given THEN Single(s.v, st) ELSE Eval(s.spec.init, env, st), LAMBDA w, at : BindGiven(s, w, env, at))
BindDefaults(r, specs) ==
    IF specs = <<>> \/ r.kind # "value" THEN r
    ELSE BindDefaults(BindDefault(specs[1], Primary(r), r.st), Tail(specs))

BindList(ll, args, env, st, exact) ==
    LET nRequired == Len(ll.required)
        nBound == nRequired + Len(ll.optional)
        rest == SubSeq(args, nBound + 1, Len(args))
        optional == [i \in DOMAIN ll.optional |->
            LET given == nRequired + i <= Len(args)
            IN  [spec |-> ll.optional[i], given |-> given, v |-> IF given THEN args[nRequired + i] ELSE Nil]]
        keys == [i \in DOMAIN ll.keys |->
            LET found == PlistFind(rest, Key(ll.keys[i].name.sym))
            IN  [spec |-> ll.keys[i], given |-> found # <<>>, v |-> IF Len(found) > 1 THEN found[2] ELSE Nil]]
        restBound(e, at) ==
            IF ll.rest = Nil THEN Outcome("value", <<e>>, 0, at)
            ELSE Then(ListOf(rest, at), LAMBDA v, on : BindPattern(ll.rest, v, e, on))
    IN  IF exact /\ (Len(args) < nRequired \/ (Len(args) > nBound /\ ~HasRestOrKey(ll))) THEN Fails(st)
        ELSE BindDefaults(Then(BindDefaults(BindPatterns(Outcome("value", <<env>>, 0, st), ll.required, args), optional),
                               restBound), keys)

BindAll(params, args, env, st, exact) == BindList(ParseLambdaList(params), args, env, st, exact)

\* A compiled function takes its required parameters, and as many arguments as those.
BindSimple(ll, args, env, st) ==
    IF ~IsSimple(ll) \/ Len(args) # Len(ll.required) THEN Fails(st)
    ELSE LET b == Bind(env, ll.required, args, st) IN Outcome("value", <<b.env>>, 0, b.st)
RunBody(r, body) == IF r.kind = "value" THEN EvalBody(body, Primary(r), r.st) ELSE r

Apply(f, args, st) ==
    IF "builtin" \in DOMAIN f THEN Builtin(f.builtin, args, st)
    ELSE IF "restart" \in DOMAIN f THEN Outcome("exit", args, f.restart, st)
    ELSE IF "params" \notin DOMAIN f \/ st.fuel = 0 THEN Fails(st)
    ELSE LET at == [st EXCEPT !.fuel = @ - 1]
         IN  RunBody(IF f.env.direct THEN BindAll(f.params, args, f.env, at, TRUE)
                     ELSE BindSimple(ParseLambdaList(f.params), args, f.env, at), f.body)

\* A block ends where something leaves for it, however far in.
Left(r, tag) == IF r.kind = "exit" /\ r.to = tag THEN Outcome("value", r.vs, 0, r.st) ELSE r
InBlock(name, env, st, Body(_, _)) ==
    LET tag == st.tags + 1
    IN  Left(Body([env EXCEPT !.blocks = (name :> tag) @@ @], [st EXCEPT !.tags = tag]), tag)

Kept(r, c) == IF c.kind = "value" THEN [r EXCEPT !.st = c.st] ELSE c
Protected(r, cleanup, env) == Kept(r, EvalBody(cleanup, env, r.st))

\* FLET and LABELS: a local function is a block of its own name; only LABELS sees itself.
LocalFunctions(defs, env, own, st) ==
    LET names == [i \in DOMAIN defs |-> FunctionName(defs[i].list[1])]
        inner == [env EXCEPT !.funs = [x \in ToSet(names) |-> Len(st.vars) + (CHOOSE i \in DOMAIN names : names[i] = x)] @@ @]
        of(d) == LET body == SubSeq(d.list, 3, Len(d.list))
                     block == IF "setf" \in DOMAIN FunctionName(d.list[1]) THEN S(FunctionName(d.list[1]).setf) ELSE d.list[1]
                 IN  FormClosure(d.list[2], IF env.direct THEN <<Form("block", <<block>> \o body)>> ELSE body,
                             IF own THEN inner ELSE env)
    IN  [env |-> inner, st |-> [st EXCEPT !.vars = @ \o [i \in DOMAIN defs |-> of(defs[i])]]]

FunctionOf(f, env, st) ==
    IF HeadName(f) = "lambda" THEN FormClosure(f.list[2], SubSeq(f.list, 3, Len(f.list)), env)
    ELSE IF FunctionName(f) \in DOMAIN env.funs THEN st.vars[env.funs[FunctionName(f)]]
    ELSE [builtin |-> f.sym]

RECURSIVE Cond(_, _, _), SomeForm(_, _, _), EveryForm(_, _, _)

Cond(clauses, env, st) ==
    IF clauses = <<>> THEN Single(Nil, st)
    ELSE Then(Eval(clauses[1].list[1], env, st), LAMBDA v, at :
              IF v = Nil THEN Cond(Tail(clauses), env, at)
              ELSE IF Len(clauses[1].list) = 1 THEN Single(v, at) ELSE EvalBody(Tail(clauses[1].list), env, at))

SomeForm(fs, env, st) ==
    IF Len(fs) <= 1 THEN EvalBody(fs, env, st)
    ELSE Then(Eval(fs[1], env, st), LAMBDA v, at : IF v # Nil THEN Single(v, at) ELSE SomeForm(Tail(fs), env, at))

EveryForm(fs, env, st) ==
    IF fs = <<>> THEN Single(True, st) ELSE IF Len(fs) = 1 THEN Eval(fs[1], env, st)
    ELSE Then(Eval(fs[1], env, st), LAMBDA v, at : IF v = Nil THEN Single(Nil, at) ELSE EveryForm(Tail(fs), env, at))

EvalSpecial(name, a, env, st) ==
    LET bindings == FormParts(a[1])
        names == [i \in DOMAIN bindings |-> bindings[i].list[1]]
    IN  CASE name = "quote" -> QuotedForm(a[1], st)
          [] name = "progn" -> EvalBody(a, env, st)
          [] name = "prog1" ->
                Then(Eval(a[1], env, st), LAMBDA v, at : Then(EvalBody(Tail(a), env, at), LAMBDA w, on : Single(v, on)))
          [] name = "if" ->
                Then(Eval(a[1], env, st), LAMBDA v, at :
                     IF v # Nil THEN Eval(a[2], env, at) ELSE EvalBody(From(a, 3), env, at))
          [] name \in {"when", "unless"} ->
                Then(Eval(a[1], env, st), LAMBDA v, at :
                     IF (v # Nil) = (name = "when") THEN EvalBody(Tail(a), env, at) ELSE Single(Nil, at))
          [] name = "cond" -> Cond(a, env, st)
          [] name = "or" -> SomeForm(a, env, st)
          [] name = "and" -> EveryForm(a, env, st)
          [] name = "not" -> Then(Eval(a[1], env, st), LAMBDA v, at : Single(Bool(v = Nil), at))
          [] name = "let" ->
                ThenAll(EvalAll([i \in DOMAIN bindings |-> bindings[i].list[2]], env, st), LAMBDA vs, at :
                        LET b == Bind(env, names, vs, at) IN EvalBody(Tail(a), b.env, b.st))
          [] name = "let*" ->
                Then(BindInOrder(names, [i \in DOMAIN bindings |-> bindings[i].list[2]], env, st), LAMBDA e, at :
                     EvalBody(Tail(a), e, at))
          [] name = "setq" -> Then(Eval(a[2], env, st), LAMBDA v, at : Assign(a[1], v, env, at))
          [] name = "lambda" -> Single(FormClosure(a[1], Tail(a), env), st)
          [] name = "function" -> Single(FunctionOf(a[1], env, st), st)
          [] name \in {"flet", "labels"} ->
                LET local == LocalFunctions(bindings, env, name = "labels", st) IN EvalBody(Tail(a), local.env, local.st)
          [] name = "block" -> InBlock(a[1], env, st, LAMBDA e, at : EvalBody(Tail(a), e, at))
          [] name = "return-from" ->
                IF a[1] \notin DOMAIN env.blocks THEN Fails(st)
                ELSE ThenAll(EvalBody(Tail(a), env, st), LAMBDA vs, at : Outcome("exit", vs, env.blocks[a[1]], at))
          [] name = "unwind-protect" -> Protected(Eval(a[1], env, st), Tail(a), env)
          [] name = "funcall" -> ThenAll(EvalAll(a, env, st), LAMBDA vs, at : Apply(vs[1], Tail(vs), at))

Eval(f, env, st) ==
    IF ~IsList(f)
    THEN IF f = S("%active-restarts") THEN Single(st.restarts, st)
         ELSE IF ~IsSymbol(f) THEN Single(f, st)
         ELSE IF f \in DOMAIN env.vars THEN Single(st.vars[env.vars[f]], st) ELSE Fails(st)
    ELSE LET h == f.list[1]
             a == Tail(f.list)
         IN  IF IsList(h)
             THEN ThenAll(EvalAll(a, env, st), LAMBDA vs, at : Apply(FunctionOf(h, env, at), vs, at))
             ELSE IF h \in DOMAIN env.funs
             THEN ThenAll(EvalAll(a, env, st), LAMBDA vs, at : Apply(at.vars[env.funs[h]], vs, at))
             ELSE IF Named(h) \in SpecialForms THEN EvalSpecial(h.sym, a, env, st)
             ELSE IF env.direct /\ Named(h) \in MacroNames THEN Direct(f, env, st)
             ELSE ThenAll(EvalAll(a, env, st), LAMBDA vs, at : Apply([builtin |-> Named(h)], vs, at))

----------------------------------------
(* What each macro means.  A place is found by evaluating its subforms once, from left to right. *)

PlaceReader == [first |-> "car", rest |-> "cdr", second |-> "cadr", third |-> "third", nth |-> "nth", car |-> "car", cdr |-> "cdr"]

Call(f, args, env, st) ==
    Apply(IF S(f) \in DOMAIN env.funs THEN st.vars[env.funs[S(f)]] ELSE [builtin |-> f], args, st)

Locate(place, env, st) ==
    IF IsSymbol(place) THEN Single([var |-> place], st)
    ELSE ThenAll(EvalAll(Tail(place.list), env, st), LAMBDA vs, at : Single([op |-> HeadName(place), of |-> vs], at))

ReadPlace(d, env, st) ==
    IF "var" \in DOMAIN d THEN Eval(d.var, env, st)
    ELSE Call(IF d.op \in DOMAIN PlaceReader THEN PlaceReader[d.op] ELSE d.op, d.of, env, st)

WritePlace(d, v, env, st) ==
    IF "var" \in DOMAIN d THEN Assign(d.var, v, env, st)
    ELSE IF [setf |-> d.op] \in DOMAIN env.funs THEN Apply(st.vars[env.funs[[setf |-> d.op]]], <<v>> \o d.of, st)
    ELSE IF d.op \in DOMAIN ShortSetters THEN Call(ShortSetters[d.op], Append(d.of, v), env, st)
    ELSE LET far == CASE d.op = "second" -> 1 [] d.op = "third" -> 2 [] d.op = "nth" -> d.of[1].int [] OTHER -> 0
             cell == NthCdr(far, Last(d.of), st)
         IN  IF ~IsPair(cell) THEN Fails(st)
             ELSE Single(v, IF d.op \in {"cdr", "rest"} THEN [st EXCEPT !.heap[cell.cell].cdr = v]
                                                        ELSE [st EXCEPT !.heap[cell.cell].car = v])

\* INCF, DECF, PUSH and POP read and write one place.
Modify(place, env, st, New(_, _)) ==
    Then(Locate(place, env, st), LAMBDA d, at : Then(ReadPlace(d, env, at), LAMBDA old, on :
        Then(New(old, on), LAMBDA v, then : WritePlace(d, v, env, then))))

RECURSIVE SetAll(_, _, _), CaseOf(_, _, _, _), EachOf(_, _, _, _, _), Collected(_, _, _, _), Rounds(_, _, _, _), Clause(_, _, _)

SetPlace(place, f, env, st) ==
    Then(Locate(place, env, st), LAMBDA d, at : Then(Eval(f, env, at), LAMBDA v, on : WritePlace(d, v, env, on)))
SetAll(a, env, st) ==
    IF Len(a) = 2 THEN SetPlace(a[1], a[2], env, st)
    ELSE Then(SetPlace(a[1], a[2], env, st), LAMBDA v, at : SetAll(From(a, 3), env, at))

CaseOf(v, clauses, env, st) ==
    IF clauses = <<>> THEN Single(Nil, st)
    ELSE LET keys == clauses[1].list[1]
             hit == IF IsList(keys) THEN v \in ToSet(keys.list)
                    ELSE (Len(clauses) = 1 /\ keys \in {True, S("otherwise")}) \/ (v = keys /\ keys # Nil)
         IN  IF hit THEN EvalBody(Tail(clauses[1].list), env, st) ELSE CaseOf(v, Tail(clauses), env, st)

\* The body of DOLIST and DOTIMES for each of the values.
EachOf(vs, var, body, env, st) ==
    IF vs = <<>> THEN Single(Nil, st)
    ELSE Then(Assign(var, vs[1], env, st), LAMBDA v, at :
         Then(EvalBody(body, env, at), LAMBDA w, on : EachOf(Tail(vs), var, body, env, on)))

Iteration(a, env, st, Values(_, _), final(_)) ==
    LET spec == a[1].list
        var == spec[1]
    IN  InBlock(Nil, env, st, LAMBDA e, at : Then(Eval(spec[2], e, at), LAMBDA v, on :
            LET b == Bind(e, <<var>>, <<Nil>>, on)
            IN  Then(EachOf(Values(v, on), var, Tail(a), b.env, b.st), LAMBDA w, then :
                Then(Assign(var, final(v), b.env, then), LAMBDA x, last :
                    EvalBody(From(spec, 3), b.env, last)))))

\* All the values of all the forms, for MULTIPLE-VALUE-CALL.
Collected(vs, fs, env, st) ==
    IF fs = <<>> THEN Outcome("value", vs, 0, st)
    ELSE ThenAll(Eval(fs[1], env, st), LAMBDA more, at : Collected(vs \o more, Tail(fs), env, at))

RestartCase(a, env, st) ==
    LET n == Len(a) - 1
        tag(i) == st.tags + i
        clause(i) == a[i + 1].list
        entries == FoldRight(LAMBDA i, r : Then(r, LAMBDA tail, at : ThenAll(NewCons(clause(i)[1], [restart |-> tag(i)], at),
                                LAMBDA pair, on : NewCons(pair[1], tail, on))),
                             [i \in 1..n |-> i], Single(st.restarts, [st EXCEPT !.tags = @ + n]))
        r == Then(entries, LAMBDA all, at : Eval(a[1], env, [at EXCEPT !.restarts = all]))
        back == [r.st EXCEPT !.restarts = st.restarts]
    IN  IF r.kind = "exit" /\ \E i \in 1..n : r.to = tag(i)
        THEN LET c == clause(CHOOSE i \in 1..n : r.to = tag(i))
             IN  Apply(FormClosure(c[2], From(c, 3), env), r.vs, back)
        ELSE [r EXCEPT !.st = back]

----------------------------------------
(* LOOP: the clauses are [c |-> kind, ...]; a loop form carries them beside its words.          *)

Hidden(i, what) == [fresh |-> what, at |-> i]
LoopEnd == [fresh |-> "end", at |-> 0]
Total == [fresh |-> "total", at |-> 0]

\* What a clause adds up in, if it does: the variable and what it starts as.
RECURSIVE Sums(_)
Sums(c) ==
    CASE c.c \in {"collect", "append", "maximize", "minimize"} -> <<[name |-> IF c.into = Nil THEN Total ELSE c.into, init |-> Nil]>>
      [] c.c \in {"sum", "count"} -> <<[name |-> IF c.into = Nil THEN Total ELSE c.into, init |-> N(0)]>>
      [] c.c \in {"always", "never"} -> <<[name |-> Total, init |-> True]>>
      [] c.c = "if" -> FlattenSeq([i \in DOMAIN c.then |-> Sums(c.then[i])]) \o FlattenSeq([i \in DOMAIN c.else |-> Sums(c.else[i])])
      [] OTHER -> <<>>

LeavesBlock(block, v, env, st) == Outcome("exit", <<v>>, env.blocks[block], st)
EndsIf(b, env, st) == IF b THEN LeavesBlock(LoopEnd, Nil, env, st) ELSE Single(Nil, st)

\* The driver of one variable: its first value or its next one, and the test that ends the loop.
Drive(c, i, first, env, st) ==
    LET hidden == Hidden(i, "at")
        set(x, f, at) == Then(Eval(f, env, at), LAMBDA v, on : Assign(x, v, env, on))
        tested(x, f, at, Ends(_, _)) == Then(set(x, f, at), LAMBDA v, on : EndsIf(Ends(v, on), env, on))
    IN  CASE c.c = "repeat" ->
                tested(hidden, IF first THEN c.form ELSE Form("1-", <<hidden>>), st, LAMBDA v, on : v.int <= 0)
          [] c.c = "for" /\ c.how \in {"in", "on"} ->
                Then(tested(hidden, IF first THEN c.form ELSE Form("cdr", <<hidden>>), st, LAMBDA v, on : v = Nil), LAMBDA v, at :
                     set(c.var, IF c.how = "in" THEN Form("car", <<hidden>>) ELSE hidden, at))
          [] c.c = "for" /\ c.how = "=" -> set(c.var, IF first \/ c.then = Nil THEN c.form ELSE c.then, st)
          [] c.c = "for" /\ c.how = "from" ->
                LET limit == Hidden(i, "limit")
                    began == IF first THEN Then(set(c.var, c.form, st), LAMBDA v, at : set(limit, c.limit, at))
                             ELSE set(c.var, Form(IF c.down THEN "-" ELSE "+", <<c.var, c.by>>), st)
                IN  Then(began, LAMBDA v, at :
                        IF c.to = "" THEN Single(Nil, at)
                        ELSE Then(Eval(Form(Past[c.to], <<c.var, limit>>), env, at), LAMBDA past, on : EndsIf(past # Nil, env, on)))
          [] OTHER -> Single(Nil, st)

AddTo(c, env, st) ==
    LET x == IF c.into = Nil THEN Total ELSE c.into
        add(f) == Then(Eval(f, env, st), LAMBDA v, at : Assign(x, v, env, at))
    IN  CASE c.c = "collect" -> add(Form("append", <<x, Form("list", <<c.form>>)>>))
          [] c.c = "append" -> add(Form("append", <<x, c.form>>))
          [] c.c = "sum" -> add(Form("+", <<x, c.form>>))
          [] c.c = "count" -> Then(Eval(c.form, env, st), LAMBDA v, at : IF v = Nil THEN Single(Nil, at) ELSE
                                   Then(Eval(Form("1+", <<x>>), env, at), LAMBDA w, on : Assign(x, w, env, on)))
          [] OTHER -> Then(Eval(c.form, env, st), LAMBDA v, at : Then(Eval(x, env, at), LAMBDA best, on :
                          IF best = Nil \/ (IF c.c = "maximize" THEN v.int > best.int ELSE v.int < best.int)
                          THEN Assign(x, v, env, on) ELSE Single(Nil, on)))

RECURSIVE Clauses(_, _, _), Drivers(_, _, _, _, _)
Clauses(cs, env, st) ==
    IF cs = <<>> THEN Single(Nil, st) ELSE Then(Clause(cs[1], env, st), LAMBDA v, at : Clauses(Tail(cs), env, at))
Drivers(cs, i, first, env, st) ==
    IF i > Len(cs) THEN Single(Nil, st)
    ELSE Then(Drive(cs[i], i, first, env, st), LAMBDA v, at : Drivers(cs, i + 1, first, env, at))

Clause(c, env, st) ==
    CASE c.c = "do" -> EvalBody(c.forms, env, st)
      [] c.c = "return" -> Then(Eval(c.form, env, st), LAMBDA v, at : LeavesBlock(env.loop, v, env, at))
      [] c.c \in {"while", "until"} ->
            Then(Eval(c.form, env, st), LAMBDA v, at : EndsIf((v = Nil) = (c.c = "while"), env, at))
      [] c.c \in {"always", "never"} ->
            Then(Eval(c.form, env, st), LAMBDA v, at :
                 IF (v = Nil) = (c.c = "always") THEN LeavesBlock(env.loop, Nil, env, at) ELSE Single(Nil, at))
      [] c.c = "thereis" ->
            Then(Eval(c.form, env, st), LAMBDA v, at : IF v # Nil THEN LeavesBlock(env.loop, v, env, at) ELSE Single(Nil, at))
      [] c.c = "if" ->
            Then(Eval(c.form, env, st), LAMBDA v, at : Clauses(IF (v = Nil) = c.unless THEN c.then ELSE c.else, env, at))
      [] Sums(c) # <<>> -> AddTo(c, env, st)
      [] OTHER -> Single(Nil, st)

Rounds(cs, first, env, st) ==
    IF st.fuel = 0 THEN Fails(st)
    ELSE Then(Drivers(cs, 1, first, env, [st EXCEPT !.fuel = @ - 1]), LAMBDA v, at :
         Then(Clauses(cs, env, at), LAMBDA w, on : Rounds(cs, FALSE, env, on)))

LoopOf(cs, env, st) ==
    LET of(kind) == SelectSeq(cs, LAMBDA c : c.c = kind)
        name == IF of("named") = <<>> THEN Nil ELSE of("named")[1].form
        sums == FlattenSeq([i \in DOMAIN cs |-> Sums(cs[i])])
        driven == [i \in DOMAIN of("for") |-> of("for")[i].var]
        hidden == FlattenSeq([i \in DOMAIN cs |-> <<Hidden(i, "at"), Hidden(i, "limit")>>])
        forms(kind) == FlattenSeq([i \in DOMAIN of(kind) |-> of(kind)[i].forms])
        started(e, at) ==
            LET b == Bind(e, driven \o hidden \o [i \in DOMAIN sums |-> sums[i].name],
                          [i \in 1..Len(driven \o hidden) |-> Nil] \o [i \in DOMAIN sums |-> sums[i].init], at)
                with == of("with")
            IN  BindInOrder([i \in DOMAIN with |-> with[i].var], [i \in DOMAIN with |-> with[i].form], b.env, b.st)
    IN  InBlock(name, [env EXCEPT !.loop = name], st, LAMBDA e, at : Then(started(e, at), LAMBDA inner, on :
            Then(EvalBody(forms("initially"), inner, on), LAMBDA v, then :
            Then(InBlock(LoopEnd, inner, then, LAMBDA l, here : Rounds(cs, TRUE, l, here)), LAMBDA w, over :
            Then(EvalBody(forms("finally"), inner, over), LAMBDA x, last :
                 IF Total \in DOMAIN inner.vars THEN Eval(Total, inner, last) ELSE Single(Nil, last))))))

Direct(f, env, st) ==
    LET name == HeadName(f)
        a == Tail(f.list)
    IN  CASE name = "prog2" -> Then(Eval(a[1], env, st), LAMBDA v, at : EvalSpecial("prog1", Tail(a), env, at))
          [] name = "return" -> EvalSpecial("return-from", <<Nil>> \o a, env, st)
          [] name = "apply" -> ThenAll(EvalAll(a, env, st), LAMBDA vs, at :
                                       Apply(vs[1], SubSeq(vs, 2, Len(vs) - 1) \o ListElements(Last(vs), at), at))
          [] name = "dolist" -> Iteration(a, env, st, ListElements, LAMBDA v : Nil)
          [] name = "dotimes" -> Iteration(a, env, st, LAMBDA v, at : [i \in 1..v.int |-> N(i - 1)], LAMBDA v : v)
          [] name = "case" -> Then(Eval(a[1], env, st), LAMBDA v, at : CaseOf(v, Tail(a), env, at))
          [] name = "ecase" ->
                Then(Eval(a[1], env, st), LAMBDA v, at : CaseOf(v, Append(Tail(a), L(<<True, Form("error", <<>>)>>)), env, at))
          [] name = "destructuring-bind" ->
                Then(Eval(a[2], env, st), LAMBDA v, at : RunBody(BindAll(a[1], ListElements(v, at), env, at, FALSE), From(a, 3)))
          [] name = "setf" -> SetAll(a, env, st)
          [] name \in {"incf", "decf"} ->
                Modify(a[1], env, st, LAMBDA old, at :
                       Then(IF Len(a) > 1 THEN Eval(a[2], env, at) ELSE Single(N(1), at), LAMBDA by, on :
                            Apply([builtin |-> IF name = "incf" THEN "+" ELSE "-"], <<old, by>>, on)))
          [] name = "push" ->
                Then(Eval(a[1], env, st), LAMBDA item, at : Modify(a[2], env, at, LAMBDA old, on : NewCons(item, old, on)))
          [] name = "pop" ->
                Then(Locate(a[1], env, st), LAMBDA d, at : Then(ReadPlace(d, env, at), LAMBDA old, on :
                     Then(WritePlace(d, FormCdr(old, on), env, on), LAMBDA v, then : Single(FormCar(old, then), then))))
          [] name = "concatenate" ->
                ThenAll(EvalAll(Tail(a), env, st), LAMBDA vs, at : ListOf(FlattenSeq([i \in DOMAIN vs |-> ListElements(vs[i], at)]), at))
          [] name = "typep" -> Then(Eval(a[1], env, st), LAMBDA v, at :
                                    Single(Bool(IF IsList(a[2].list[2]) THEN v = a[2].list[2].list[2] ELSE TypeP(v, a[2].list[2].sym)), at))
          [] name = "restart-case" -> RestartCase(a, env, st)
          [] name = "loop" -> IF "loop" \in DOMAIN f THEN LoopOf(f.loop, env, st)
                              ELSE LoopOf(<<[c |-> "do", forms |-> a]>>, env, st)
          [] name = "values" -> EvalAll(a, env, st)
          [] name = "values-list" -> Then(Eval(a[1], env, st), LAMBDA v, at : Outcome("value", ListElements(v, at), 0, at))
          [] name = "multiple-value-list" -> ThenAll(Eval(a[1], env, st), ListOf)
          [] name = "multiple-value-bind" ->
                ThenAll(Eval(a[2], env, st), LAMBDA vs, at :
                    LET names == FormParts(a[1])
                        b == Bind(env, names, [i \in DOMAIN names |-> IF i <= Len(vs) THEN vs[i] ELSE Nil], at)
                    IN  EvalBody(From(a, 3), b.env, b.st))
          [] name = "multiple-value-call" ->
                Then(Eval(a[1], env, st), LAMBDA g, at : ThenAll(Collected(<<>>, Tail(a), env, at), LAMBDA vs, on :
                     IF "builtin" \in DOMAIN g /\ g.builtin = "values" THEN Outcome("value", vs, 0, on)
                     ELSE IF "builtin" \in DOMAIN g /\ g.builtin = "+" THEN
                         Single(N(FoldLeft(LAMBDA sum, v : sum + v.int, 0, vs)), on)
                     ELSE Apply(g, vs, on)))
          [] name = "nth-value" ->
                Then(Eval(a[1], env, st), LAMBDA n, at : ThenAll(Eval(a[2], env, at), LAMBDA vs, on :
                     Single(IF n.int < Len(vs) THEN vs[n.int + 1] ELSE Nil, on)))
          [] name = "multiple-value-prog1" ->
                ThenAll(Eval(a[1], env, st), LAMBDA vs, at : Then(EvalBody(Tail(a), env, at), LAMBDA w, on : Outcome("value", vs, 0, on)))

========================================
