----------------------------- MODULE LispMacros -----------------------------
(***************************************************************************)
(* Macro expansion (common-lisp.js BUILT_IN_MACROS, expandLoopMacro,         *)
(* expandAllMacrosInForm): every form is rewritten into the few the compiler *)
(* knows before it is compiled.  Expansion renames by fresh names, opens     *)
(* lambda lists into plain parameters with a LET*, and adapts the calls whose*)
(* function it can see.  The expanded form must do what the form says.       *)
(***************************************************************************)
EXTENDS LispForms

CONSTANT MacroForms   \* the forms to expand

\* A fresh name: at is the place of the expansion that made it.
Fresh(prefix, at) == [fresh |-> prefix, at |-> at]

Let(bindings, body) == Form("let", <<L([i \in DOMAIN bindings |-> L(bindings[i])])>> \o body)
LetInOrder(bindings, body) == Form("let*", <<L([i \in DOMAIN bindings |-> L(bindings[i])])>> \o body)
Setq(x, f) == Form("setq", <<x, f>>)
Thunk(f) == LambdaForm(Nil, <<f>>)
Capture(f) == Form("%capture-mv", <<Thunk(f)>>)
Labels(name, body, call) == Form("labels", <<L(<<L(<<name, Nil, body>>)>>), call>>)
Progn(fs) == Form("progn", fs)
ReturnFrom(name, f) == Form("return-from", <<name, f>>)
If(test, then, else) == Form("if", <<test, then, else>>)

----------------------------------------
(* Generalized places *)

NormalizedPlace(p) ==
    LET of(h, f) == Form(h, <<f>>)
    IN  CASE HeadName(p) = "first" -> of("car", p.list[2])
          [] HeadName(p) = "rest" -> of("cdr", p.list[2])
          [] HeadName(p) \in {"second", "cadr"} -> of("car", of("cdr", p.list[2]))
          [] HeadName(p) = "third" -> of("car", of("cdr", of("cdr", p.list[2])))
          [] OTHER -> p

IsConstantPlaceArg(f) == ~(IsSymbol(f) \/ (IsList(f) /\ HeadName(f) # "quote"))

\* The arguments of a place, each evaluated once into a name of its own unless it is a constant.
Temporaries(prefix, args, at) ==
    LET temp(i) == IF IsConstantPlaceArg(args[i]) THEN args[i] ELSE Fresh(prefix, Append(at, i))
    IN  [args |-> [i \in DOMAIN args |-> temp(i)],
         bindings |-> FlattenSeq([i \in DOMAIN args |-> IF IsConstantPlaceArg(args[i]) THEN <<>> ELSE <<<<temp(i), args[i]>>>>])]

\* A writer function gets the place's arguments and the new value from names bound before it.
CallsWriter(args, value, at, Writer(_, _)) ==
    LET t == Temporaries("setf arg", args, at)
        direct == IsConstantPlaceArg(value) /\ t.bindings = <<>>
        v == IF direct THEN value ELSE Fresh("setf value", at)
    IN  IF direct THEN Writer(t.args, v) ELSE LetInOrder(Append(t.bindings, <<v, value>>), <<Writer(t.args, v)>>)

ExpandSetf(place, value, at, ctx) ==
    LET p == NormalizedPlace(place)
        name == HeadName(p)
        cell == Fresh("cell", at)
        v == Fresh("value", at)
    IN  IF IsSymbol(place) THEN Setq(place, value)
        ELSE CASE name \in {"car", "cdr"} ->
                    Let(<<<<cell, p.list[2]>>, <<v, value>>>>, <<Form(IF name = "car" THEN "rplaca" ELSE "rplacd", <<cell, v>>), v>>)
               [] name = "nth" -> Form("%set-nth", <<p.list[2], p.list[3], value>>)
               [] name \in ctx.setfs ->
                    CallsWriter(Tail(p.list), value, at, LAMBDA args, w : L(<<[setf |-> name], w>> \o args))
               [] name \notin ctx.setfs /\ name \in DOMAIN ShortSetters ->
                    CallsWriter(Tail(p.list), value, at, LAMBDA args, w : Form(ShortSetters[name], Append(args, w)))
               [] OTHER -> Form("%set-" \o name, Append(Tail(p.list), value))

\* withGeneralizedPlace: Body gets the place with its arguments in names, to read and to write.
WithPlace(place, at, Body(_)) ==
    IF IsSymbol(place) THEN Body(place)
    ELSE LET p == NormalizedPlace(place)
             t == Temporaries("place arg", Tail(p.list), at)
             inner == Body(L(<<p.list[1]>> \o t.args))
         IN  IF t.bindings = <<>> THEN inner ELSE Let(t.bindings, <<inner>>)

----------------------------------------
(* Lambda lists opened into bindings *)

\* A pattern is taken apart by a cursor over the list.
RECURSIVE Destructure(_, _, _)
TakeApart(ll, value, at) ==
    LET cursor == Fresh("cursor", at)
        car == Form("car", <<cursor>>)
        next == <<cursor, Form("cdr", <<cursor>>)>>
        more == Form("consp", <<cursor>>)
        required == FlattenSeq([i \in DOMAIN ll.required |-> Append(Destructure(ll.required[i], car, Append(at, i)), next)])
        optional(s) ==
           (IF s.given = Nil THEN <<>> ELSE <<<<s.given, If(more, True, Nil)>>>>)
           \o <<<<s.name, If(more, car, s.init)>>, next>>
        key(i) ==
           LET s == ll.keys[i]
               has == IF s.given = Nil THEN Fresh("has key", Append(at, i)) ELSE s.given
           IN  <<<<has, Form("%plist-has-key", <<cursor, Key(s.name.sym)>>)>>,
                 <<s.name, If(has, Form("%plist-get", <<cursor, Key(s.name.sym), Nil>>), s.init)>>>>
    IN  <<<<cursor, value>>>> \o required
        \o FlattenSeq([i \in DOMAIN ll.optional |-> optional(ll.optional[i])])
        \o (IF ll.rest = Nil THEN <<>> ELSE Destructure(ll.rest, cursor, Append(at, 0)))
        \o FlattenSeq([i \in DOMAIN ll.keys |-> key(i)])
Destructure(pattern, value, at) ==
    IF pattern = Nil THEN <<>>
    ELSE IF IsSymbol(pattern) THEN <<<<pattern, value>>>> ELSE TakeApart(ParseLambdaList(pattern), value, at)

\* Only the text of a body is looked at: a RETURN-FROM for the name that no inner BLOCK of it takes.
RECURSIVE ContainsReturnFrom(_, _)
ContainsReturnFrom(f, name) ==
    /\ IsList(f)
    /\ HeadName(f) # "quote"
    /\ ~(HeadName(f) = "block" /\ f.list[2] = name)
    /\ \/ HeadName(f) = "return-from" /\ f.list[2] = name
       \/ \E i \in DOMAIN f.list : ContainsReturnFrom(f.list[i], name)

RECURSIVE ExpandAll(_, _, _)

NoneVisible == [shadowed |-> {}, sigs |-> NoPlaces, setfs |-> {}]

Normalized(ll, body, at, block) ==
    LET wrapped == IF block # Nil /\ \E i \in DOMAIN body : ContainsReturnFrom(body[i], block)
                   THEN <<Form("block", <<block>> \o body)>> ELSE body
        temp(i) == IF IsSymbol(ll.required[i]) THEN ll.required[i] ELSE Fresh("required", Append(at, i))
        optional(i) == Fresh("optional", Append(at, i))
        rest == Fresh("rest", at)
        \* The default of a parameter is expanded as if it stood alone.
        default(s, i) == ExpandAll(s.init, at \o <<0, i>>, NoneVisible)
        given(s, i) == IF s.given = Nil THEN Fresh("given", Append(at, i)) ELSE s.given
        nth(i) == Len(ll.optional) + i
        opened ==
            FlattenSeq([i \in DOMAIN ll.required |->
                IF IsSymbol(ll.required[i]) THEN <<>> ELSE Destructure(ll.required[i], temp(i), Append(at, i))])
            \o FlattenSeq([i \in DOMAIN ll.optional |->
                LET s == ll.optional[i]
                IN  <<<<given(s, i), Form("not", <<Form("%unsupplied-p", <<optional(i)>>)>>)>>,
                      <<s.name, If(given(s, i), optional(i), default(s, i))>>>>])
            \o (IF ll.rest = Nil THEN <<>> ELSE Destructure(ll.rest, rest, Append(at, 0)))
            \o FlattenSeq([i \in DOMAIN ll.keys |->
                LET s == ll.keys[i]
                IN  <<<<given(s, nth(i)), Form("%plist-has-key", <<rest, Key(s.name.sym)>>)>>,
                      <<s.name, If(given(s, nth(i)), Form("%plist-get", <<rest, Key(s.name.sym), Nil>>), default(s, nth(i)))>>>>])
    IN  [params |-> L([i \in DOMAIN ll.required |-> temp(i)] \o [i \in DOMAIN ll.optional |-> optional(i)]
                      \o (IF HasRestOrKey(ll) THEN <<rest>> ELSE <<>>)),
         body |-> IF opened = <<>> THEN wrapped ELSE <<LetInOrder(opened, wrapped)>>]
NormalizeDefinition(params, body, at, block) == Normalized(ParseLambdaList(params), body, at, block)

\* The calls of a function whose lambda list is known are made to fit it.
AdaptArguments(args, ll) ==
    LET nRequired == Len(ll.required)
        nBound == nRequired + Len(ll.optional)
        rest == From(args, nBound + 1)
    IN  IF IsSimple(ll) THEN args
        ELSE [i \in 1..nBound |-> IF i <= Len(args) THEN args[i] ELSE Form("%unsupplied", <<>>)]
             \o (IF ~HasRestOrKey(ll) THEN rest ELSE <<IF rest = <<>> THEN Nil ELSE Form("list", rest)>>)

----------------------------------------
(* LOOP: the words are read from left to right into the parts of one block.      *)

WordAt(t, i) == IF i <= Len(t) THEN Named(t[i]) ELSE ""

TopWords ==
    {"named", "with", "initially", "finally", "for", "as", "repeat", "while", "until", "always", "never", "thereis",
     "do", "return", "collect", "append", "sum", "count", "maximize", "minimize", "when", "if", "unless"}

NoParts == [i |-> 1, block |-> Nil, outer |-> <<>>, initially |-> <<>>, finally |-> <<>>,
            before |-> <<>>, body |-> <<>>, after |-> <<>>, total |-> <<>>, form |-> Nil]

Declare(p, x, init) ==
    IF \E i \in DOMAIN p.outer : p.outer[i][1] = x THEN p ELSE [p EXCEPT !.outer = Append(@, <<x, init>>)]

\* A clause adds up in the variable it names, or in the one they all share.
AddsIn(p, into, init, at) ==
    IF into # Nil THEN Declare(p, into, init)
    ELSE IF p.total # <<>> THEN p
    ELSE Declare([p EXCEPT !.total = <<Fresh("total", at)>>], Fresh("total", at), init)

BodyExit(at) == Fresh("body exit", at)
EndsWithoutFinally(test, at) == Form("when", <<test, ReturnFrom(Nil, Nil)>>)

Ends(test, at) == Form("when", <<test, ReturnFrom(BodyExit(at), Nil)>>)

\* The words of a numeric variable, in any order.
RECURSIVE Counting(_, _)
Counting(t, o) ==
    LET w == WordAt(t, o.i)
        on == [o EXCEPT !.i = @ + 2]
    IN  CASE w \in {"from", "upfrom"} -> Counting(t, [on EXCEPT !.start = t[o.i + 1]])
          [] w = "downfrom" -> Counting(t, [on EXCEPT !.start = t[o.i + 1], !.down = TRUE])
          [] w \in {"to", "upto", "below"} -> Counting(t, [on EXCEPT !.limit = <<t[o.i + 1]>>, !.to = w])
          [] w \in {"downto", "above"} -> Counting(t, [on EXCEPT !.limit = <<t[o.i + 1]>>, !.to = w, !.down = TRUE])
          [] w = "by" -> Counting(t, [on EXCEPT !.step = t[o.i + 1]])
          [] OTHER -> o

\* A list variable, with a function that gives the rest of the list after BY.
ForList(t, p, x, on, list, at) ==
    LET by == WordAt(t, p.i + 3) = "by"
    IN  [Declare(Declare(p, list, t[p.i + 2]), x, Nil) EXCEPT
            !.i = @ + (IF by THEN 5 ELSE 3),
            !.before = @ \o <<Ends(Form("null", <<list>>), at), Setq(x, IF on THEN list ELSE Form("car", <<list>>))>>,
            !.after = Append(@, Setq(list, IF by THEN Form("funcall", <<t[p.i + 4], list>>) ELSE Form("cdr", <<list>>)))]

ForValue(t, p, x, first) ==
    IF WordAt(t, p.i + 3) # "then"
    THEN [Declare(p, x, Nil) EXCEPT !.i = @ + 3, !.before = Append(@, Setq(x, t[p.i + 2]))]
    ELSE [Declare(Declare(p, first, True), x, Nil) EXCEPT
            !.i = @ + 5,
            !.before = Append(@, If(first, Progn(<<Setq(x, t[p.i + 2]), Setq(first, Nil)>>), Setq(x, t[p.i + 4])))]

Limited(p, x, o, limit, at) ==
    IF o.limit = <<>> THEN p
    ELSE [Declare(p, limit, o.limit[1]) EXCEPT !.before = Append(@, Ends(Form(Past[o.to], <<x, limit>>), at))]

ForNumber(p, x, o, here, at) ==
    LET step == Fresh("step", here)
    IN  [Declare(Limited(Declare(p, x, o.start), x, o, Fresh("limit", here), at), step, o.step) EXCEPT
            !.i = o.i, !.after = Append(@, Setq(x, Form(IF o.down THEN "-" ELSE "+", <<x, step>>)))]

\* parseForSingle, at the variable of one FOR.
ParseFor(t, p, at) ==
    LET x == t[p.i]
        how == WordAt(t, p.i + 1)
        here == Append(at, p.i)
    IN  CASE how \in {"in", "on"} -> ForList(t, p, x, how = "on", Fresh("list", here), at)
          [] how = "=" -> ForValue(t, p, x, Fresh("first", here))
          [] OTHER ->
                ForNumber(p, x, Counting(t, [i |-> p.i + 1, start |-> N(0), limit |-> <<>>, to |-> "", step |-> N(1), down |-> FALSE]),
                          here, at)

RECURSIVE ParseFors(_, _, _), ParseAction(_, _, _), ParseActions(_, _, _, _), ParseLoop(_, _, _), ParseWiths(_, _)

MoreFors(t, q, at) == IF WordAt(t, q.i) = "and" THEN ParseFors(t, [q EXCEPT !.i = @ + 1], at) ELSE q
ParseFors(t, p, at) == MoreFors(t, ParseFor(t, p, at), at)

MoreWiths(t, q) == IF WordAt(t, q.i) = "and" THEN ParseWiths(t, [q EXCEPT !.i = @ + 1]) ELSE q
ParseWiths(t, p) ==
    LET init == WordAt(t, p.i + 1) = "="
    IN  MoreWiths(t, [Declare(p, t[p.i], IF init THEN t[p.i + 2] ELSE Nil) EXCEPT !.i = @ + (IF init THEN 3 ELSE 1)])

\* The forms up to the next word of the kinds given.
FormsUntil(t, i, words) ==
    LET ends == {j \in i..Len(t) : WordAt(t, j) \in words}
        last == IF ends = {} THEN Len(t) ELSE (CHOOSE j \in ends : \A k \in ends : j <= k) - 1
    IN  SubSeq(t, i, last)

\* Actions joined by AND, from the word p is at.
MoreActions(t, q, forms, at) ==
    IF WordAt(t, q.i) = "and" THEN ParseActions(t, [q EXCEPT !.i = @ + 1], forms, at) ELSE [q EXCEPT !.form = Progn(forms)]
ActionsFrom(t, q, done, at) == MoreActions(t, q, Append(done, q.form), at)
ParseActions(t, p, done, at) == ActionsFrom(t, ParseAction(t, p, at), done, at)

Doing(p, forms) == [p EXCEPT !.i = @ + 1 + Len(forms), !.form = Progn(forms)]

\* What a clause that adds up does to its variable.
Adding(w, x, f, best) ==
    CASE w = "collect" -> Setq(x, Form("append", <<x, Form("list", <<f>>)>>))
      [] w = "append" -> Setq(x, Form("append", <<x, f>>))
      [] w = "sum" -> Setq(x, Form("+", <<x, f>>))
      [] w = "count" -> Form("when", <<f, Setq(x, Form("1+", <<x>>))>>)
      [] w \in {"maximize", "minimize"} ->
            Let(<<<<best, f>>>>,
                <<Form("when", <<Form("or", <<Form("null", <<x>>), Form(IF w = "maximize" THEN ">" ELSE "<", <<best, x>>)>>),
                                 Setq(x, best)>>)>>)
Added(q, w, into, f, best) ==
    [q EXCEPT !.form = Adding(w, IF into = Nil THEN q.total[1] ELSE into, f, best)]

\* WHEN, IF and UNLESS with the actions they choose between.
Chosen(t, w, f, yes, no) ==
    [no EXCEPT !.i = IF WordAt(t, @) = "end" THEN @ + 1 ELSE @,
               !.form = IF w = "unless" THEN If(f, @, yes.form) ELSE If(f, yes.form, @)]
ElseActions(t, w, f, yes, at) ==
    Chosen(t, w, f, yes, IF WordAt(t, yes.i) = "else" THEN ParseActions(t, [yes EXCEPT !.i = @ + 1], <<>>, at)
                         ELSE [yes EXCEPT !.form = Nil])

ParseAction(t, p, at) ==
    LET w == WordAt(t, p.i)
        f == t[p.i + 1]
        into == IF WordAt(t, p.i + 2) = "into" THEN t[p.i + 3] ELSE Nil
    IN  CASE w = "do" -> Doing(p, FormsUntil(t, p.i + 1, TopWords \union {"and", "else", "end"}))
          [] w = "return" -> [p EXCEPT !.i = @ + 2, !.form = ReturnFrom(p.block, f)]
          [] w \in {"when", "if", "unless"} -> ElseActions(t, w, f, ParseActions(t, [p EXCEPT !.i = @ + 2], <<>>, at), at)
          [] w \in {"collect", "append", "sum", "count", "maximize", "minimize"} ->
                Added([AddsIn(p, into, IF w \in {"sum", "count"} THEN N(0) ELSE Nil, at)
                          EXCEPT !.i = @ + (IF into = Nil THEN 2 ELSE 4)], w, into, f, Fresh("best", Append(at, p.i)))

Acts(q) == [q EXCEPT !.body = Append(@, q.form)]

ParseClause(t, p, at) ==
    LET w == WordAt(t, p.i)
        f == t[p.i + 1]
        on == [p EXCEPT !.i = @ + 2]
        leave(v) == ReturnFrom(p.block, v)
        counter == Fresh("repeat", Append(at, p.i))
        it == Fresh("it", Append(at, p.i))
        doing == WordAt(t, p.i + 1) = "do"
        forms == FormsUntil(t, p.i + (IF doing THEN 2 ELSE 1), TopWords)
        addsBody(q, form) == [q EXCEPT !.i = p.i + 2, !.body = Append(@, form)]
    IN  CASE w = "named" -> [on EXCEPT !.block = f]
          [] w = "with" -> ParseWiths(t, [p EXCEPT !.i = @ + 1])
          [] w = "initially" -> [p EXCEPT !.i = @ + 1 + Len(forms), !.initially = @ \o forms]
          [] w = "finally" /\ WordAt(t, p.i + 1) = "return" -> [p EXCEPT !.i = @ + 3, !.finally = Append(@, leave(t[p.i + 2]))]
          [] w = "finally" /\ WordAt(t, p.i + 1) # "return" ->
                [p EXCEPT !.i = @ + (IF doing THEN 2 ELSE 1) + Len(forms), !.finally = @ \o forms]
          [] w \in {"for", "as"} -> ParseFors(t, [p EXCEPT !.i = @ + 1], at)
          [] w = "repeat" ->
                [Declare(on, counter, f) EXCEPT !.before = Append(@, Ends(Form("<=", <<counter, N(0)>>), at)),
                                                !.after = Append(@, Setq(counter, Form("1-", <<counter>>)))]
          [] w = "while" -> addsBody(p, Form("unless", <<f, ReturnFrom(BodyExit(at), Nil)>>))
          [] w = "until" -> addsBody(p, Ends(f, at))
          [] w = "always" -> addsBody(AddsIn(p, Nil, True, at), Form("unless", <<f, leave(Nil)>>))
          [] w = "never" -> addsBody(AddsIn(p, Nil, True, at), Form("when", <<f, leave(Nil)>>))
          [] w = "thereis" ->
                addsBody(AddsIn(p, Nil, Nil, at), Let(<<<<it, f>>>>, <<Form("when", <<it, leave(it)>>)>>))
          [] OTHER -> Acts(ParseAction(t, p, at))

ParseLoop(t, p, at) == IF p.i > Len(t) THEN p ELSE ParseLoop(t, ParseClause(t, p, at), at)

LoopBlock(p, at) ==
    Form("block", <<p.block, LetInOrder(p.outer,
        p.initially \o <<Form("block", <<BodyExit(at), Form("%while", <<True>> \o p.before \o p.body \o p.after)>>)>>
        \o p.finally \o <<IF p.total = <<>> THEN Nil ELSE p.total[1]>>)>>)
ExpandLoop(t, at) ==
    IF t = <<>> \/ IsList(t[1]) THEN Form("block", <<Nil, Form("%while", <<True>> \o t)>>)
    ELSE LoopBlock(ParseLoop(t, NoParts, at), at)

----------------------------------------
(* The other macros *)

ExpandWhile(a, at) ==
    LET loop == Fresh("while", at)
    IN  Labels(loop, If(a[1], Progn(Append(Tail(a), L(<<loop>>))), Nil), L(<<loop>>))

ExpandDolist(a, at) ==
    LET spec == a[1].list
        x == spec[1]
        rest == Fresh("rest", at)
        loop == Fresh("dolist", at)
        again == L(<<loop>>)
    IN  Form("block", <<Nil, Let(<<<<rest, spec[2]>>, <<x, Nil>>>>, <<Labels(loop,
            If(Form("null", <<rest>>),
               Progn(<<Setq(x, Nil), IF Len(spec) > 2 THEN spec[3] ELSE Nil>>),
               Progn(<<Setq(x, Form("car", <<rest>>)), Setq(rest, Form("cdr", <<rest>>))>> \o Tail(a) \o <<again>>)), again)>>)>>)

ExpandDotimes(a, at) ==
    LET spec == a[1].list
        x == spec[1]
        limit == Fresh("limit", at)
        loop == Fresh("dotimes", at)
        again == L(<<loop>>)
    IN  Form("block", <<Nil, Let(<<<<limit, spec[2]>>, <<x, N(0)>>>>, <<Labels(loop,
            If(Form(">=", <<x, limit>>), IF Len(spec) > 2 THEN spec[3] ELSE Nil,
               Progn(Tail(a) \o <<Setq(x, Form("+", <<x, N(1)>>)), again>>)), again)>>)>>)

ExpandCase(key, clauses, at) ==
    LET k == Fresh("key", at)
        eql(datum) == Form("eql", <<k, Quote(datum)>>)
        test(i, keys) ==
            IF i = Len(clauses) /\ keys \in {True, S("otherwise")} THEN True
            ELSE IF keys = Nil THEN Nil
            ELSE IF IsList(keys) THEN Form("or", [j \in DOMAIN keys.list |-> eql(keys.list[j])])
            ELSE eql(keys)
        clause(i) == LET c == clauses[i].list
                     IN  L(<<test(i, c[1])>> \o (IF Len(c) > 1 THEN Tail(c) ELSE <<Nil>>))
    IN  Let(<<<<k, key>>>>, <<Form("cond", [i \in DOMAIN clauses |-> clause(i)])>>)

ExpandPop(place, at, ctx) ==
    LET list == Fresh("list", at)
    IN  WithPlace(place, at, LAMBDA p : Let(<<<<list, p>>>>,
            <<Form("prog1", <<Form("car", <<list>>), ExpandSetf(p, Form("cdr", <<list>>), at, ctx)>>)>>))

TypePredicate == [null |-> "null", cons |-> "consp", list |-> "listp", atom |-> "atom", symbol |-> "symbolp",
                  integer |-> "integerp", function |-> "functionp"]

ExpandTypep(a) ==
    LET spec == a[2].list[2]
    IN  IF IsList(spec) THEN Form("eql", <<a[1], Quote(spec.list[2])>>)
        ELSE IF spec \in {True, Nil} THEN Progn(<<a[1], spec>>)
        ELSE Form(TypePredicate[spec.sym], <<a[1]>>)

\* The restarts are pairs on a list in a global variable; a clause leaves the block when it is called.
ExpandRestartCase(a, at) ==
    LET block == Fresh("restart case", at)
        saved == Fresh("saved", at)
        active == S("%active-restarts")
        pair(c) == Form("cons", <<Quote(c.list[1]), LambdaForm(c.list[2], <<ReturnFrom(block, Progn(From(c.list, 3)))>>)>>)
        all == FoldRight(LAMBDA c, rest : Form("cons", <<pair(c), rest>>), Tail(a), saved)
    IN  IF Len(a) = 1 THEN a[1]
        ELSE Form("block", <<block, Let(<<<<saved, active>>>>,
                <<Form("unwind-protect", <<Progn(<<Setq(active, all), a[1]>>), Setq(active, saved)>>)>>)>>)

ExpandMultipleValueBind(a, at) ==
    LET names == FormParts(a[1])
        list == Fresh("values", at)
        nth(i) == CASE i = 1 -> Form("car", <<list>>) [] i = 2 -> Form("cadr", <<list>>)
                    [] i = 3 -> Form("third", <<list>>) [] OTHER -> Form("nth", <<N(i - 1), list>>)
    IN  IF names = <<>> THEN Progn(<<Capture(a[2])>> \o From(a, 3))
        ELSE LetInOrder(<<<<list, Capture(a[2])>>>> \o [i \in DOMAIN names |-> <<names[i], nth(i)>>], From(a, 3))

ExpandMultipleValueCall(a, at) ==
    LET lists == [i \in 1..Len(a) - 1 |-> Capture(a[i + 1])]
        all == FoldRight(LAMBDA f, rest : Form("append", <<f, rest>>), Front(lists), Last(lists))
        known == IF HeadName(a[1]) = "function" THEN Named(a[1].list[2]) ELSE ""
        function == Fresh("function", at)
    IN  IF Len(a) = 1 THEN Form("funcall", a)
        ELSE CASE known = "list" -> all
               [] known = "values" -> Form("%values", <<all>>)
               [] known = "+" -> Form("reduce", <<Form("function", <<S("+")>>), all, N(0)>>)
               [] OTHER -> Let(<<<<function, a[1]>>>>, <<Form("%apply-list", <<function, all>>)>>)

SetfPairs(a, at, ctx) ==
    LET step(i) == ExpandSetf(a[2 * i - 1], a[2 * i], Append(at, i), ctx)
    IN  IF Len(a) = 2 THEN step(1) ELSE Progn([i \in 1..Len(a) \div 2 |-> step(i)])

ExpandValues(name, a) ==
    IF name = "values-list" THEN Form("%values", a) ELSE Form("%values", <<IF a = <<>> THEN Nil ELSE Form("list", a)>>)

\* One step of expansion: the form a macro call stands for.
Expand(f, at, ctx) ==
    LET name == HeadName(f)
        a == Tail(f.list)
        by == IF Len(a) > 1 THEN a[2] ELSE N(1)
        item == Fresh("item", at)
        list == Fresh("values", at)
    IN  CASE name = "prog2" -> Progn(<<a[1], Form("prog1", Tail(a))>>)
          [] name = "return" -> ReturnFrom(Nil, IF a = <<>> THEN Nil ELSE a[1])
          [] name = "apply" -> Form("%apply-list", <<a[1], IF Len(a) = 2 THEN a[2] ELSE Form("list*", Tail(a))>>)
          [] name = "%while" -> ExpandWhile(a, at)
          [] name = "dolist" -> ExpandDolist(a, at)
          [] name = "dotimes" -> ExpandDotimes(a, at)
          [] name = "case" -> ExpandCase(a[1], Tail(a), at)
          [] name = "ecase" -> ExpandCase(a[1], Append(Tail(a), L(<<S("otherwise"), Form("error", <<>>)>>)), at)
          [] name = "destructuring-bind" -> LetInOrder(Destructure(a[1], a[2], at), From(a, 3))
          [] name = "setf" -> SetfPairs(a, at, ctx)
          [] name \in {"incf", "decf"} ->
                WithPlace(a[1], at, LAMBDA p : ExpandSetf(p, Form(IF name = "incf" THEN "+" ELSE "-", <<p, by>>), at, ctx))
          [] name = "push" ->
                Let(<<<<item, a[1]>>>>, <<WithPlace(a[2], at, LAMBDA p : ExpandSetf(p, Form("cons", <<item, p>>), at, ctx))>>)
          [] name = "pop" -> ExpandPop(a[1], at, ctx)
          [] name = "concatenate" ->
                IF Len(a) = 1 THEN Nil ELSE FoldLeft(LAMBDA all, g : Form("append", <<all, g>>), a[2], From(a, 3))
          [] name = "typep" -> ExpandTypep(a)
          [] name = "restart-case" -> ExpandRestartCase(a, at)
          [] name = "loop" -> ExpandLoop(a, at)
          [] name \in {"values", "values-list"} -> ExpandValues(name, a)
          [] name = "multiple-value-list" -> Capture(a[1])
          [] name = "multiple-value-bind" -> ExpandMultipleValueBind(a, at)
          [] name = "multiple-value-call" -> ExpandMultipleValueCall(a, at)
          [] name = "nth-value" -> Form("nth", <<a[1], Capture(a[2])>>)
          [] name = "multiple-value-prog1" ->
                IF Len(a) = 1 THEN a[1]
                ELSE Let(<<<<list, Capture(a[1])>>>>, Tail(a) \o <<Form("%values", <<list>>)>>)

----------------------------------------
(* The whole form: ctx holds the local functions in sight, their lambda lists, and the readers a *)
(* local (setf reader) writes for.                                                                *)

ExpandEach(fs, at, ctx) == [i \in DOMAIN fs |-> ExpandAll(fs[i], Append(at, i), ctx)]

DefinitionName(d) == FunctionName(d.list[1])

\* FLET and LABELS: the definitions of LABELS are expanded in sight of themselves.
WithLocal(ctx, defs) ==
    LET names == {DefinitionName(defs[i]) : i \in DOMAIN defs}
        listOf(x) == defs[CHOOSE i \in DOMAIN defs : DefinitionName(defs[i]) = x].list[2]
    IN  [shadowed |-> ctx.shadowed \union names,
         sigs |-> [x \in names |-> ParseLambdaList(listOf(x))] @@ ctx.sigs,
         setfs |-> ctx.setfs \union {x.setf : x \in {y \in names : "setf" \in DOMAIN y}}]

Defining(name, d) == L(<<name, d.params>> \o d.body)
ExpandLocal(head, defs, body, at, ctx) ==
    LET inside == WithLocal(ctx, defs)
        definition(i) ==
            LET name == DefinitionName(defs[i])
                block == IF "setf" \in DOMAIN name THEN S(name.setf) ELSE name
            IN  Defining(name, NormalizeDefinition(defs[i].list[2],
                        ExpandEach(From(defs[i].list, 3), at \o <<1, i>>, IF head = "labels" THEN inside ELSE ctx), at \o <<2, i>>, block))
    IN  Form(head, <<L([i \in DOMAIN defs |-> definition(i)])>> \o ExpandEach(body, Append(at, 3), inside))

\* A local function takes the name of a macro from the forms in its sight.
IsMacroCall(f, ctx) == HeadName(f) \in MacroNames /\ f.list[1] \notin ctx.shadowed

ExpandLambda(f, at, ctx) == NormalizeDefinition(f.list[2], ExpandEach(From(f.list, 3), Append(at, 1), ctx), Append(at, 2), Nil)

ExpandAll(f, at, ctx) ==
    IF ~IsList(f) \/ HeadName(f) = "quote" THEN f
    ELSE LET h == f.list[1]
             a == Tail(f.list)
             lambda == ExpandLambda(IF IsList(h) THEN h ELSE f, at, ctx)
         IN  IF IsMacroCall(f, ctx) THEN ExpandAll(Expand(f, at, ctx), Append(at, 0), ctx)
             ELSE IF IsList(h)
             THEN L(<<LambdaForm(lambda.params, lambda.body)>> \o AdaptArguments(ExpandEach(a, at, ctx), ParseLambdaList(h.list[2])))
             ELSE CASE HeadName(f) = "lambda" -> LambdaForm(lambda.params, lambda.body)
                    [] HeadName(f) = "function" -> IF IsList(a[1]) /\ HeadName(a[1]) = "lambda" THEN Form("function", <<ExpandAll(a[1], Append(at, 1), ctx)>>) ELSE f
                    [] HeadName(f) \in {"let", "let*"} ->
                          LET bs == FormParts(a[1])
                          IN  Form(h.sym, <<L([i \in DOMAIN bs |-> L(<<bs[i].list[1], ExpandAll(bs[i].list[2], at \o <<1, i>>, ctx)>>)])>>
                                          \o ExpandEach(Tail(a), Append(at, 2), ctx))
                    [] HeadName(f) \in {"flet", "labels"} -> ExpandLocal(h.sym, FormParts(a[1]), Tail(a), at, ctx)
                    [] HeadName(f) = "cond" -> Form("cond", [i \in DOMAIN a |-> L(ExpandEach(a[i].list, Append(at, i), ctx))])
                    [] HeadName(f) \in {"block", "return-from"} -> Form(h.sym, <<a[1]>> \o ExpandEach(Tail(a), at, ctx))
                    [] OTHER -> LET args == ExpandEach(a, at, ctx)
                                IN  L(<<h>> \o IF h \in DOMAIN ctx.sigs THEN AdaptArguments(args, ctx.sigs[h]) ELSE args)

----------------------------------------
(* What a form is seen to do: what it returns or that it fails, and what it notes on the way. *)

Fuel == 40
Beginning == [vars |-> <<>>, heap |-> <<>>, noted |-> <<>>, mv |-> <<>>, restarts |-> Nil, tags |-> 0, fuel |-> Fuel]
Global(direct) == [vars |-> NoPlaces, funs |-> NoPlaces, blocks |-> NoPlaces, loop |-> Nil, direct |-> direct]

Observed(r) == [kind |-> r.kind, value |-> IF r.kind = "value" THEN Datum(Primary(r), r.st) ELSE Nil, noted |-> r.st.noted]

\* A form is run as the body of a function without parameters.
Run(f, direct) == Observed(Apply(FormClosure(Nil, <<f>>, Global(direct)), <<>>, Beginning))
Meant(f) == Run(f, TRUE)
Done(f) == Run(ExpandAll(f, <<>>, NoneVisible), FALSE)

VARIABLE form

MacrosInit == form \in MacroForms

\* An expanded form returns what the form means, fails when it does, and has the same effects in
\* the same order: a place's subforms once, defaults only when they are needed, updates after the
\* body, a block left by the name it was meant for.
ExpandedFormsMeanTheSame == Done(form) = Meant(form)

----------------------------------------
(***************************************************************************)
(* The bodies of macros run while a program is compiled, in an evaluator of  *)
(* their own (common-lisp.js bindMacroLambdaList, evalMacroForm,             *)
(* evalMacroCallByName): forms are the data, an environment is a table that  *)
(* every LET, LAMBDA and local function copies, blocks are found by name.    *)
(* A macro must compute what its body computes as a function.                *)
(***************************************************************************)
CONSTANT MacroPrograms   \* [functions, params, body, args]: the functions defined before, a macro and its call

VARIABLE macro

\* A state is [envs, fuel]: each environment is what the names are bound to.
Copied(e, ms) == [id |-> Len(ms.envs) + 1, ms |-> [ms EXCEPT !.envs = Append(@, ms.envs[e])]]
Set(e, x, v, ms) == [ms EXCEPT !.envs[e] = (x :> v) @@ @]
Sets(e, x, v, ms) == Single(v, Set(e, x, v, ms))

----------------------------------------
(* MacroForms as data *)

ACons(h, t) ==
    IF t = Nil THEN L(<<h>>) ELSE IF IsList(t) THEN [t EXCEPT !.list = <<h>> \o @] ELSE [list |-> <<h>>, dotted |-> t]
ACar(v) == IF IsList(v) THEN v.list[1] ELSE Nil
ACdr(v) ==
    IF ~IsList(v) THEN Nil
    ELSE IF Len(v.list) > 1 THEN [v EXCEPT !.list = Tail(@)]
    ELSE IF "dotted" \in DOMAIN v THEN v.dotted ELSE Nil
IsListOrNil(v) == IsList(v) \/ v = Nil

RECURSIVE AppendAll(_), NthRest(_, _), AsDatum(_)
AppendAll(vs) ==
    IF vs = <<>> THEN Nil ELSE IF Len(vs) = 1 THEN vs[1]
    ELSE FoldRight(ACons, FormParts(vs[1]), AppendAll(Tail(vs)))
NthRest(n, v) == IF n <= 0 THEN v ELSE NthRest(n - 1, ACdr(v))

AsDatum(v) ==
    IF IsList(v) THEN [car |-> AsDatum(ACar(v)), cdr |-> AsDatum(ACdr(v))]
    ELSE IF DOMAIN v \in {{"sym"}, {"int"}, {"key"}} THEN v ELSE [opaque |-> TRUE]

----------------------------------------
(* The evaluator *)

RECURSIVE EvalMacro(_, _, _), EvalMacroBody(_, _, _), EvalMacroArgs(_, _, _, _)
RECURSIVE MacroCall(_, _, _, _), MacroApply(_, _, _, _), BindMacro(_, _, _, _)

EvalMacroBody(fs, e, ms) ==
    IF fs = <<>> THEN Single(Nil, ms)
    ELSE IF Len(fs) = 1 THEN EvalMacro(fs[1], e, ms)
    ELSE Then(EvalMacro(fs[1], e, ms), LAMBDA v, at : EvalMacroBody(Tail(fs), e, at))

\* vs: the values of the arguments before.
EvalMacroArgs(fs, vs, e, ms) ==
    IF fs = <<>> THEN Outcome("value", vs, 0, ms)
    ELSE Then(EvalMacro(fs[1], e, ms), LAMBDA v, at : EvalMacroArgs(Tail(fs), Append(vs, v), e, at))

KeyArgument(rest, name) ==
    LET at == {i \in DOMAIN rest : i % 2 = 1 /\ i < Len(rest) /\ rest[i] \in {Key(name), S(name)}}
    IN  IF at = {} THEN <<>> ELSE <<rest[(CHOOSE i \in at : \A j \in at : i <= j) + 1]>>

RECURSIVE BindRequired(_, _, _, _), BindSpecs(_, _, _)

BindOne(x, v, e, ms) ==
    IF IsSymbol(x) THEN Sets(e, x, v, ms)
    ELSE IF IsListOrNil(v) THEN BindMacro(x, FormParts(v), e, ms) ELSE Fails(ms)

BindRequired(xs, args, e, ms) ==
    IF xs = <<>> THEN Single(Nil, ms)
    ELSE IF args = <<>> THEN Fails(ms)
    ELSE Then(BindOne(xs[1], args[1], e, ms), LAMBDA v, at : BindRequired(Tail(xs), Tail(args), e, at))

\* Optional and keyword parameters, each with the argument found for it; a default sees the ones before.
Specified(s, found, v, e, ms) ==
    LET named == Set(e, s.name, v, ms)
    IN  IF s.given = Nil THEN named ELSE Set(e, s.given, Bool(found # <<>>), named)
BindSpecs(specs, e, ms) ==
    IF specs = <<>> THEN Single(Nil, ms)
    ELSE LET s == specs[1].spec
             found == specs[1].found
         IN  Then(IF found # <<>> THEN Single(found[1], ms) ELSE EvalMacro(s.init, e, ms),
                  LAMBDA v, at : BindSpecs(Tail(specs), e, Specified(s, found, v, e, at)))

\* bindMacroLambdaList: arguments left over are nobody's.
BindParsed(ll, args, e, ms) ==
    LET n == Len(ll.required)
        rest == From(args, n + Len(ll.optional) + 1)
        optional == [i \in DOMAIN ll.optional |->
            [spec |-> ll.optional[i], found |-> IF n + i <= Len(args) THEN <<args[n + i]>> ELSE <<>>]]
        keys == [i \in DOMAIN ll.keys |-> [spec |-> ll.keys[i], found |-> KeyArgument(rest, ll.keys[i].name.sym)]]
    IN  Then(BindRequired(ll.required, args, e, ms), LAMBDA u, at :
             Then(BindSpecs(optional, e, at), LAMBDA v, on :
                  Then(IF ll.rest = Nil THEN Single(Nil, on) ELSE BindOne(ll.rest, L(rest), e, on), LAMBDA w, then :
                       BindSpecs(keys, e, then))))

BindMacro(params, args, e, ms) ==
    IF params = Nil THEN IF args = <<>> THEN Single(Nil, ms) ELSE Fails(ms)
    ELSE IF IsSymbol(params) THEN Sets(e, params, L(args), ms)
    ELSE BindParsed(ParseLambdaList(params), args, e, ms)

\* A closure runs in a copy of the environment it was made in, as that is now.
Invoke(f, args, ms) ==
    IF ms.fuel = 0 THEN Fails(ms)
    ELSE LET c == Copied(f.env, [ms EXCEPT !.fuel = @ - 1])
         IN  Then(BindMacro(f.params, args, c.id, c.ms), LAMBDA v, at : EvalMacroBody(f.body, c.id, at))

IsClosure(v) == "params" \in DOMAIN v

\* A function defined by the program before: it sees nothing of the macro, and is a block of its name.
InvokeUser(f, args, ms) ==
    LET fresh == [ms EXCEPT !.envs = Append(@, NoPlaces), !.fuel = @ - 1]
        r == Then(BindMacro(f[2], args, Len(fresh.envs), fresh), LAMBDA v, at : EvalMacroBody(From(f, 3), Len(fresh.envs), at))
    IN  IF ms.fuel = 0 THEN Fails(ms) ELSE IF r.kind = "exit" /\ r.to = f[1] THEN Outcome("value", r.vs, 0, r.st) ELSE r

MacroApply(f, args, e, ms) ==
    IF IsClosure(f) THEN Invoke(f, args, ms)
    ELSE IF "called" \in DOMAIN f THEN MacroCall(f.called, args, f.env, ms)
    ELSE IF IsSymbol(f) THEN MacroCall(f, args, e, ms) ELSE Fails(ms)

ACar2(v) == ACar(ACdr(v))
NthOf(n, v) == IF n >= 0 THEN ACar(NthRest(n, v)) ELSE ACar(v)

MacroArithmetic(name, vs) ==
    CASE name = "+" -> N(FoldLeft(LAMBDA sum, v : sum + v.int, 0, vs))
      [] name = "-" -> IF Len(vs) = 1 THEN N(-vs[1].int) ELSE N(FoldLeft(LAMBDA left, v : left - v.int, vs[1].int, Tail(vs)))
      [] name = "1+" -> N(vs[1].int + 1)
      [] name = "1-" -> N(vs[1].int - 1)
      [] OTHER -> Arithmetic(name, vs[1].int, vs[2].int)

RECURSIVE MacroMap(_, _, _, _, _)
MacroMap(fn, items, done, e, ms) ==
    IF items = <<>> THEN Single(L(done), ms)
    ELSE Then(MacroApply(fn, <<items[1]>>, e, ms), LAMBDA v, at : MacroMap(fn, Tail(items), Append(done, v), e, at))

\* evalMacroCallByName: local functions, the program's functions, then the ones the evaluator knows.
MacroCall(name, vs, e, ms) ==
    LET bound == ms.envs[e]
        user == SelectSeq(macro.functions, LAMBDA f : f[1] = name)
        known == Named(name)
        gives(v) == Single(v, ms)
    IN  IF name \in DOMAIN bound /\ IsClosure(bound[name]) THEN Invoke(bound[name], vs, ms)
        ELSE IF user # <<>> THEN InvokeUser(user[1], vs, ms)
        ELSE CASE known = "gensym" -> Single(Fresh("g", <<Len(ms.envs), ms.fuel>>), [ms EXCEPT !.envs = Append(@, NoPlaces)])
               [] known = "values" -> gives(vs[1])
               [] known = "cons" -> gives(ACons(vs[1], vs[2]))
               [] known = "list" -> gives(L(vs))
               [] known = "list*" -> gives(FoldRight(ACons, Front(vs), Last(vs)))
               [] known = "append" -> IF \E i \in 1..Len(vs) - 1 : ~IsListOrNil(vs[i]) THEN Fails(ms) ELSE gives(AppendAll(vs))
               [] known \in {"car", "first", "cdr", "rest", "cadr", "second"} ->
                     IF ~IsListOrNil(vs[1]) THEN Fails(ms)
                     ELSE gives(IF known \in {"car", "first"} THEN ACar(vs[1]) ELSE IF known \in {"cdr", "rest"} THEN ACdr(vs[1]) ELSE ACar2(vs[1]))
               [] known = "nth" -> gives(NthOf(vs[1].int, vs[2]))
               [] known = "length" -> IF IsListOrNil(vs[1]) THEN gives(N(Len(FormParts(vs[1])))) ELSE Fails(ms)
               [] known = "reverse" -> IF IsListOrNil(vs[1]) THEN gives(L(Reverse(FormParts(vs[1])))) ELSE Fails(ms)
               [] known = "mapcar" -> IF IsListOrNil(vs[2]) THEN MacroMap(vs[1], FormParts(vs[2]), <<>>, e, ms) ELSE Fails(ms)
               [] known = "funcall" -> MacroApply(vs[1], Tail(vs), e, ms)
               [] known \in {"apply", "%apply-list"} -> MacroApply(vs[1], SubSeq(vs, 2, Len(vs) - 1) \o FormParts(Last(vs)), e, ms)
               [] known \in {"null", "not"} -> gives(Bool(vs[1] = Nil))
               [] known = "consp" -> gives(Bool(IsList(vs[1])))
               [] known = "atom" -> gives(Bool(~IsList(vs[1])))
               [] known = "listp" -> gives(Bool(IsListOrNil(vs[1])))
               [] known = "symbolp" -> gives(Bool(DOMAIN vs[1] \in {{"sym"}, {"key"}, {"fresh", "at"}}))
               [] known = "integerp" -> gives(Bool("int" \in DOMAIN vs[1]))
               [] known \in {"eql", "equal"} -> gives(Bool(vs[1] = vs[2]))
               [] known \in ArithmeticNames \union {"1+", "1-"} ->
                     IF \A i \in DOMAIN vs : "int" \in DOMAIN vs[i] THEN gives(MacroArithmetic(known, vs)) ELSE Fails(ms)
               [] OTHER -> Fails(ms)

RECURSIVE MacroCond(_, _, _), MacroOr(_, _, _), MacroAnd(_, _, _, _), MacroSetq(_, _, _, _)

MacroCond(clauses, e, ms) ==
    IF clauses = <<>> THEN Single(Nil, ms)
    ELSE LET c == clauses[1].list
         IN  Then(EvalMacro(c[1], e, ms), LAMBDA v, at :
                  IF v = Nil THEN MacroCond(Tail(clauses), e, at)
                  ELSE IF Len(c) = 1 THEN Single(v, at) ELSE EvalMacroBody(Tail(c), e, at))

MacroOr(fs, e, ms) ==
    IF fs = <<>> THEN Single(Nil, ms)
    ELSE Then(EvalMacro(fs[1], e, ms), LAMBDA v, at : IF v # Nil THEN Single(v, at) ELSE MacroOr(Tail(fs), e, at))

MacroAnd(fs, last, e, ms) ==
    IF fs = <<>> THEN Single(last, ms)
    ELSE Then(EvalMacro(fs[1], e, ms), LAMBDA v, at : IF v = Nil THEN Single(Nil, at) ELSE MacroAnd(Tail(fs), v, e, at))

MacroSetq(a, last, e, ms) ==
    IF a = <<>> THEN Single(last, ms)
    ELSE Then(EvalMacro(a[2], e, ms), LAMBDA v, at : MacroSetq(From(a, 3), v, e, Set(e, a[1], v, at)))

RECURSIVE MacroLetInOrder(_, _, _, _)
MacroLetInOrder(bindings, body, e, ms) ==
    IF bindings = <<>> THEN EvalMacroBody(body, e, ms)
    ELSE Then(EvalMacro(bindings[1].list[2], e, ms), LAMBDA v, at :
              MacroLetInOrder(Tail(bindings), body, e, Set(e, bindings[1].list[1], v, at)))

\* The bindings of LET see none of each other, those of LET* (above) the ones before.
MacroLet(bindings, body, e, ms) ==
    ThenAll(EvalMacroArgs([i \in DOMAIN bindings |-> bindings[i].list[2]], <<>>, e, ms), LAMBDA vs, at :
        LET c == Copied(e, at)
        IN  EvalMacroBody(body, c.id, [c.ms EXCEPT !.envs[c.id] =
                [x \in {bindings[i].list[1] : i \in DOMAIN bindings} |-> vs[CHOOSE i \in DOMAIN bindings : bindings[i].list[1] = x]] @@ @]))

MacroLocal(head, defs, body, e, ms) ==
    LET c == Copied(e, ms)
        closure(d) == FormClosure(d.list[2], From(d.list, 3), IF head = "labels" THEN c.id ELSE e)
    IN  EvalMacroBody(body, c.id, [c.ms EXCEPT !.envs[c.id] =
            [x \in {d.list[1] : d \in ToSet(defs)} |-> closure(CHOOSE d \in ToSet(defs) : d.list[1] = x)] @@ @])

MacroFunction(f, e, ms) ==
    IF HeadName(f) = "lambda" THEN EvalMacro(f, e, ms)
    ELSE IF f \in DOMAIN ms.envs[e] THEN Single(ms.envs[e][f], ms)
    ELSE Single([called |-> f, env |-> e], ms)

EvalMacro(f, e, ms) ==
    IF ~IsList(f)
    THEN IF ~IsSymbol(f) THEN Single(f, ms)
         ELSE IF f \in DOMAIN ms.envs[e] THEN Single(ms.envs[e][f], ms) ELSE Fails(ms)
    ELSE LET h == HeadName(f)
             a == Tail(f.list)
         IN  CASE h = "quote" -> Single(a[1], ms)
               [] h = "progn" -> EvalMacroBody(a, e, ms)
               [] h = "prog1" ->
                     Then(EvalMacro(a[1], e, ms), LAMBDA v, at : Then(EvalMacroBody(Tail(a), e, at), LAMBDA w, on : Single(v, on)))
               [] h = "prog2" ->
                     Then(EvalMacro(a[1], e, ms), LAMBDA u, now : Then(EvalMacro(a[2], e, now), LAMBDA v, at :
                         Then(EvalMacroBody(From(a, 3), e, at), LAMBDA w, on : Single(v, on))))
               [] h = "if" ->
                     Then(EvalMacro(a[1], e, ms), LAMBDA v, at : IF v # Nil THEN EvalMacro(a[2], e, at) ELSE EvalMacroBody(From(a, 3), e, at))
               [] h \in {"when", "unless"} ->
                     Then(EvalMacro(a[1], e, ms), LAMBDA v, at :
                          IF (v # Nil) = (h = "when") THEN EvalMacroBody(Tail(a), e, at) ELSE Single(Nil, at))
               [] h = "cond" -> MacroCond(a, e, ms)
               [] h = "and" -> MacroAnd(a, True, e, ms)
               [] h = "or" -> MacroOr(a, e, ms)
               [] h = "let" -> MacroLet(FormParts(a[1]), Tail(a), e, ms)
               [] h = "let*" -> LET c == Copied(e, ms) IN MacroLetInOrder(FormParts(a[1]), Tail(a), c.id, c.ms)
               [] h = "setq" -> MacroSetq(a, Nil, e, ms)
               [] h = "destructuring-bind" ->
                     Then(EvalMacro(a[2], e, ms), LAMBDA v, at :
                         LET c == Copied(e, at)
                         IN  Then(BindMacro(a[1], FormParts(v), c.id, c.ms), LAMBDA w, on : EvalMacroBody(From(a, 3), c.id, on)))
               [] h \in {"flet", "labels"} -> MacroLocal(h, FormParts(a[1]), Tail(a), e, ms)
               [] h = "block" ->
                     LET r == EvalMacroBody(Tail(a), e, ms)
                     IN  IF r.kind = "exit" /\ r.to = a[1] THEN Outcome("value", r.vs, 0, r.st) ELSE r
               [] h = "return-from" -> Then(EvalMacroBody(Tail(a), e, ms), LAMBDA v, at : Outcome("exit", <<v>>, a[1], at))
               [] h = "lambda" -> Single(FormClosure(a[1], Tail(a), e), ms)
               [] h = "function" -> MacroFunction(a[1], e, ms)
               [] IsMacroCall(f, NoneVisible) -> EvalMacro(Expand(f, <<Len(ms.envs), ms.fuel>>, NoneVisible), e, [ms EXCEPT !.envs = Append(@, NoPlaces)])
               [] IsList(f.list[1]) ->
                     ThenAll(EvalMacroArgs(a, <<>>, e, ms), LAMBDA vs, at : Invoke(FormClosure(f.list[1].list[2], From(f.list[1].list, 3), e), vs, at))
               [] OTHER -> ThenAll(EvalMacroArgs(a, <<>>, e, ms), LAMBDA vs, at : MacroCall(f.list[1], vs, e, at))

----------------------------------------

MacroTimeInit == macro \in MacroPrograms

\* The macro's own environment holds nothing but its parameters.
MacroOutcome(r) == [kind |-> r.kind, value |-> IF r.kind = "value" THEN AsDatum(Primary(r)) ELSE Nil]
MacroCallForm(m) == L(<<LambdaForm(m.params, m.body)>> \o [i \in DOMAIN m.args |-> Quote(m.args[i])])
MacroValue == MacroOutcome(EvalMacro(MacroCallForm(macro), 1, [envs |-> <<NoPlaces>>, fuel |-> Fuel]))

\* The same body as a function of the same arguments.
AsFunction(m) ==
    LET definitions == L([i \in DOMAIN m.functions |-> L(m.functions[i])])
    IN  Restrict(Meant(Form("labels", <<definitions, MacroCallForm(m)>>)), {"kind", "value"})

\* A macro expands into what its body says as an ordinary function: a default sees the parameters
\* before it, a local function the variables around it, a block is left from inside its functions.
MacrosComputeAsFunctions == MacroValue = AsFunction(macro)
========================================
