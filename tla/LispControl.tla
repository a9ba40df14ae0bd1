---------------------------- MODULE LispControl ----------------------------
(***************************************************************************)
(* The Common Lisp compiler's control and scope (language/common-lisp.js    *)
(* compileCommonLispSemanticProgram).  It turns a form into neutral code:   *)
(* locals become temporaries, a nested function a block with captures -     *)
(* snapshots, or live cells for names some SETQ changes - BLOCK, the        *)
(* handlers and UNWIND-PROTECT become on:do: and ensure:, and LET of a      *)
(* special variable an ensure: that puts the old value back.                *)
(*                                                                         *)
(* CompileForm is the compiler; Run is what the execution does with its code    *)
(* (Conditions and Promotion are about that machinery itself); Means is     *)
(* what the form means in Common Lisp.  The property compares the two for   *)
(* every program of a set.  Macros are expanded; a program is one form and  *)
(* the functions it calls, each compiled on its own.                        *)
(***************************************************************************)
EXTENDS Integers, Sequences, SequencesExt, FiniteSets, Functions, TLC

CONSTANTS
    LispPrograms,   \* the programs: [main, functions]
    Proclaimed      \* variables some DEFVAR proclaimed special

VARIABLE lispForm   \* the program at hand

Nil == [nil |-> TRUE]
Number(n) == [int |-> n]

None == <<>>            \* the empty function

----------------------------------------
(* The neutral code *)

Lit(v) == [op |-> "literal", v |-> v]
Arg(i) == [op |-> "argument", i |-> i]
Get(id) == [op |-> "binding", id |-> id]
Put(id, e) == [op |-> "write", id |-> id, e |-> e]
Seq2(s) == IF Len(s) = 1 THEN s[1] ELSE [op |-> "sequence", s |-> s]
If(l, r, a, b) == [op |-> "if", l |-> l, r |-> r, a |-> a, b |-> b]
Apply(f, args) == [op |-> "apply", f |-> f, args |-> args]
OnDoNode(p, class, h) == [op |-> "onDo", p |-> p, class |-> class, h |-> h]

\* A global: the binding of a function, a special variable or a condition class.
Root(name) == [root |-> name]

RECURSIVE IdsIn(_)
IdsIn(c) ==
    CASE c.op = "binding" -> {c.id}
      [] c.op = "write" -> {c.id} \cup IdsIn(c.e)
      [] c.op = "sequence" -> UNION {IdsIn(c.s[i]) : i \in DOMAIN c.s}
      [] c.op = "if" -> IdsIn(c.l) \cup IdsIn(c.r) \cup IdsIn(c.a) \cup IdsIn(c.b)
      [] c.op = "apply" -> IdsIn(c.f) \cup UNION {IdsIn(c.args[i]) : i \in DOMAIN c.args}
      [] c.op = "onDo" -> IdsIn(c.p) \cup IdsIn(c.class) \cup IdsIn(c.h)
      [] c.op = "block" -> {k.id : k \in {x \in c.captures : x.from.op = "binding"}}
      [] c.op = "host" -> UNION {IdsIn(c.args[i]) : i \in DOMAIN c.args}
      [] OTHER -> {}

\* What the host does with values: signal, resume, note, add, the parts of a BlockExit, the
\* value of a global's binding.
Host(do, args) == [op |-> "host", do |-> do, args |-> args]

----------------------------------------
(* Scopes: a sequence of [params, locals, specials], innermost last *)

ScopeDepth(sc) == Len(sc.scopes)
Inner(sc) == sc.scopes[ScopeDepth(sc)]

WithLocal(sc, x, id) ==
    [sc EXCEPT !.scopes[ScopeDepth(sc)].locals = (x :> id) @@ @]

Temporary(sc, x, n, forced) ==
    [n |-> n + 1, x |-> x, depth |-> ScopeDepth(sc), cell |-> forced \/ x \in sc.mutated]

\* lookupLexical: the innermost scope that knows the name, unless it is special on the way.
Knows(scope, x) == x \in DOMAIN scope.locals \cup DOMAIN scope.params

Level(sc, x) ==
    LET known == {d \in 1..ScopeDepth(sc) : Knows(sc.scopes[d], x) \/ x \in sc.scopes[d].specials}
    IN  IF known = {} THEN 0
        ELSE LET d == CHOOSE d \in known : \A e \in known : e <= d
             IN  IF x \in sc.scopes[d].specials THEN 0 ELSE d

IdOf(sc, x) ==
    LET d == Level(sc, x)
        scope == sc.scopes[d]
    IN  IF x \in DOMAIN scope.locals THEN scope.locals[x]
        ELSE [param |-> scope.params[x], x |-> x, depth |-> d, cell |-> FALSE]

IsParameterHere(sc, x) == Level(sc, x) = ScopeDepth(sc) /\ x \notin DOMAIN Inner(sc).locals

Variable(sc, x) ==
    IF Level(sc, x) = 0 THEN Host("value", <<Get(Root(x))>>)
    ELSE IF IsParameterHere(sc, x) THEN Arg(Inner(sc).params[x])
    ELSE Get(IdOf(sc, x))

\* The captures of a block: every binding its code needs from outside.
Capture(depth, id) ==
    [id |-> id,
     from |-> IF "param" \in DOMAIN id /\ id.depth = depth - 1 THEN Arg(id.param) ELSE Get(id)]

BlockNode(depth, arity, body) ==
    LET ids == IdsIn(body)
        own == {id \in ids : "n" \in DOMAIN id /\ id.depth = depth}
    IN  [op |-> "block", arity |-> arity, body |-> body, temps |-> own,
         captures |-> {Capture(depth, id) : id \in ids \ own}]

----------------------------------------
(* Forms *)

Progn(s) == [k |-> "progn", s |-> s]
Var(x) == [k |-> "var", x |-> x]
Setq(x, e) == [k |-> "setq", x |-> x, e |-> e]
Lambda(ps, body) == [k |-> "lambda", ps |-> ps, body |-> body]
NilForm == [k |-> "nil"]

SubForms(f) ==
    CASE f.k \in {"progn", "or", "and", "prog1"} -> f.s
      [] f.k = "cond" -> FlattenSeq([i \in DOMAIN f.cs |-> <<f.cs[i].t>> \o f.cs[i].s])
      [] f.k = "not" -> <<f.e>>
      [] f.k = "if" -> <<f.c, f.a, f.b>>
      [] f.k \in {"add", "eq"} -> <<f.a, f.b>>
      [] f.k \in {"let", "let*"} -> [i \in DOMAIN f.bs |-> f.bs[i].e] \o <<f.body>>
      [] f.k \in {"setq", "return", "note"} -> <<f.e>>
      [] f.k \in {"lambda", "block", "ignore"} -> <<f.body>>
      [] f.k \in {"flet", "labels"} -> [i \in DOMAIN f.defs |-> f.defs[i].body] \o <<f.body>>
      [] f.k = "funcall" -> <<f.f>> \o f.args
      [] f.k = "call" -> f.args
      [] f.k = "protect" -> <<f.e, f.cleanup>>
      [] f.k = "case" -> <<f.e>> \o [i \in DOMAIN f.clauses |-> f.clauses[i].body]
      [] f.k = "bind" -> [i \in DOMAIN f.hs |-> f.hs[i].f] \o <<f.body>>
      [] f.k = "usevalue" -> <<f.c, f.e>>
      [] OTHER -> <<>>

\* collectMutatedVariables: by name, wherever in the program the name is changed.
RECURSIVE Mutated(_)
Mutated(f) ==
    (CASE f.k = "setq" -> {f.x}
       [] f.k = "labels" -> {f.defs[i].x : i \in DOMAIN f.defs}
       [] OTHER -> {})
        \cup UNION {Mutated(SubForms(f)[i]) : i \in DOMAIN SubForms(f)}

\* containsReturnFrom: an inner BLOCK of the name hides what is in it.
RECURSIVE Returns(_, _)
Returns(f, b) ==
    \/ f.k = "return" /\ f.b = b
    \/ ~(f.k = "block" /\ f.b = b) /\ \E i \in DOMAIN SubForms(f) : Returns(SubForms(f)[i], b)

----------------------------------------
(* CompileForm(f, sc, n): the code of a form and the temporaries numbered so far *)

T == Number(1)     \* T, and any other true value a test gives

TruthBranch(test, a, b) ==
    IF test.op = "if" /\ test.a = Lit(T) /\ test.b = Lit(Nil) THEN If(test.l, test.r, a, b)
    ELSE IF test.op = "if" /\ test.a = Lit(Nil) /\ test.b = Lit(T) THEN If(test.l, test.r, b, a)
    ELSE If(test, Lit(Nil), b, a)

Code(c, n) == [c |-> c, n |-> n]

RECURSIVE CompileForm(_, _, _)

CompileAll(fs, sc, n) ==
    FoldLeft(LAMBDA done, f : LET r == CompileForm(f, sc, done.n)
                              IN  Code(Append(done.c, r.c), r.n),
             Code(<<>>, n), fs)

\* A parameter some SETQ changes is copied to a cell on entry.
CompileLambda(ps, body, sc, n) ==
    LET changed == {i \in DOMAIN ps : ps[i] \in sc.mutated}
        depth == ScopeDepth(sc) + 1
        cells == [i \in changed |-> [n |-> n + Cardinality({j \in changed : j <= i}),
                                     x |-> ps[i], depth |-> depth, cell |-> TRUE]]
        scope == [params |-> [x \in {ps[i] : i \in DOMAIN ps \ changed}
                                |-> CHOOSE i \in DOMAIN ps : ps[i] = x],
                  locals |-> [x \in {ps[i] : i \in changed}
                                |-> cells[CHOOSE i \in changed : ps[i] = x]],
                  specials |-> {}]
        entry == SelectSeq([i \in DOMAIN ps |-> IF i \in changed THEN Put(cells[i], Arg(i)) ELSE Lit(Nil)],
                           LAMBDA c : c.op = "write")
    IN  [CompileForm(body, [sc EXCEPT !.scopes = Append(@, scope)], n + Cardinality(changed))
            EXCEPT !.c = BlockNode(depth, Len(ps), Seq2(Append(entry, @)))]

\* LET: the values first, then the names.  A special variable's value and the value it had go to
\* temporaries, and the body becomes an UNWIND-PROTECT that puts the old ones back.
NameFor(what, n) == "__CL_" \o what \o ToString(n + 1)

DeclareOne(done, x, value) ==
    LET id == Temporary(done.sc, x, done.n, FALSE)
        init == NameFor("INIT", done.n)
        old == NameFor("OLD", done.n + 1)
        initId == Temporary(done.sc, init, done.n, FALSE)
        oldId == Temporary(done.sc, old, done.n + 1, FALSE)
    IN  IF x \notin Proclaimed
        THEN [done EXCEPT !.n = @ + 1, !.writes = Append(@, Put(id, value)), !.sc = WithLocal(@, x, id)]
        ELSE [done EXCEPT !.n = @ + 2,
                 !.writes = @ \o <<Put(initId, value), Put(oldId, Host("value", <<Get(Root(x))>>))>>,
                 !.sc = [WithLocal(WithLocal(@, init, initId), old, oldId)
                            EXCEPT !.scopes[ScopeDepth(done.sc)].specials = @ \cup {x}],
                 !.news = Append(@, Setq(x, Var(init))), !.olds = <<Setq(x, Var(old))>> \o @]

CompileLet(f, sc, n) ==
    LET inits == CompileAll([i \in DOMAIN f.bs |-> f.bs[i].e], sc, n)
        done == FoldLeft(LAMBDA d, i : DeclareOne(d, f.bs[i].x, inits.c[i]),
                         [sc |-> sc, n |-> inits.n, writes |-> <<>>, news |-> <<>>, olds |-> <<>>],
                         [i \in DOMAIN f.bs |-> i])
        body == IF done.news = <<>> THEN f.body
                ELSE [k |-> "protect", e |-> Progn(Append(done.news, f.body)), cleanup |-> Progn(done.olds)]
        r == CompileForm(body, done.sc, done.n)
    IN  Code(Seq2(Append(done.writes, r.c)), r.n)

\* LET*: each value sees the names before it; with a special variable, one LET in another.
CompileLetStar(f, sc, n) ==
    CompileForm(FoldRight(LAMBDA b, body : [k |-> "let", bs |-> <<b>>, body |-> body], f.bs, f.body), sc, n)

CompileSetq(f, sc, n) ==
    LET r == CompileForm(f.e, sc, n)
    IN  Code(IF Level(sc, f.x) # 0 THEN Put(IdOf(sc, f.x), r.c)
             ELSE Host("set", <<Get(Root(f.x)), r.c>>), r.n)

\* FLET compiles the functions before it names them; LABELS names them first, as cells.
CompileFlet(f, sc, n) ==
    LET fns == FoldLeft(LAMBDA done, d : LET r == CompileLambda(d.ps, d.body, sc, done.n)
                                         IN  Code(Append(done.c, r.c), r.n), Code(<<>>, n), f.defs)
        done == FoldLeft(LAMBDA d, i : DeclareOne(d, f.defs[i].x, fns.c[i]),
                         [sc |-> sc, n |-> fns.n, writes |-> <<>>, news |-> <<>>, olds |-> <<>>],
                         [i \in DOMAIN f.defs |-> i])
        r == CompileForm(f.body, done.sc, done.n)
    IN  Code(Seq2(Append(done.writes, r.c)), r.n)

CompileLabels(f, sc, n) ==
    LET named == FoldLeft(LAMBDA d, def : [sc |-> WithLocal(d.sc, def.x, Temporary(d.sc, def.x, d.n, TRUE)),
                                           n |-> d.n + 1],
                          [sc |-> sc, n |-> n], f.defs)
        fns == FoldLeft(LAMBDA done, d : LET r == CompileLambda(d.ps, d.body, named.sc, done.n)
                                         IN  Code(Append(done.c, Put(IdOf(named.sc, d.x), r.c)), r.n),
                        Code(<<>>, named.n), f.defs)
        r == CompileForm(f.body, named.sc, fns.n)
    IN  Code(Seq2(Append(fns.c, r.c)), r.n)

\* A test whose value is wanted goes to a temporary: the earlier tests of OR, a COND clause of one form.
Kept(test, else, sc, n) ==
    LET id == Temporary(sc, "or", n, FALSE)
        r == CompileForm(test, sc, n + 1)
    IN  Code(Seq2(<<Put(id, r.c), TruthBranch(Get(id), Get(id), else)>>), r.n)

CompileOr(f, sc, n) ==
    FoldLeft(LAMBDA done, i : Kept(f.s[i], done.c, sc, done.n),
             CompileForm(Last(f.s), sc, n), Reverse([i \in 1..Len(f.s) - 1 |-> i]))

CompileAnd(f, sc, n) ==
    FoldLeft(LAMBDA done, i : LET r == CompileForm(f.s[i], sc, done.n)
                              IN  Code(TruthBranch(r.c, done.c, Lit(Nil)), r.n),
             CompileForm(Last(f.s), sc, n), Reverse([i \in 1..Len(f.s) - 1 |-> i]))

CompileCond(f, sc, n) ==
    LET Clause(done, c) ==
            LET t == CompileForm(c.t, sc, done.n)
                s == CompileAll(c.s, sc, t.n)
            IN  IF c.s = <<>> THEN Kept(c.t, done.c, sc, done.n)
                ELSE IF c.t.k = "t" THEN Code(Seq2(s.c), s.n)
                ELSE Code(TruthBranch(t.c, Seq2(s.c), done.c), s.n)
    IN  FoldLeft(Clause, Code(Lit(Nil), n), Reverse(f.cs))

CompileProg1(f, sc, n) ==
    LET id == Temporary(sc, "prog1", n, FALSE)
        r == CompileAll(f.s, sc, n + 1)
    IN  Code(Seq2(<<Put(id, r.c[1])>> \o Tail(r.c) \o <<Get(id)>>), r.n)

CompileEqual(f, sc, n) ==
    LET r == CompileAll(<<f.a, f.b>>, sc, n) IN Code(If(r.c[1], r.c[2], Lit(T), Lit(Nil)), r.n)

CompileNot(f, sc, n) ==
    LET r == CompileForm(f.e, sc, n) IN Code(If(r.c, Lit(Nil), Lit(T), Lit(Nil)), r.n)

CompileIf(f, sc, n) ==
    LET r == CompileAll(<<f.c, f.a, f.b>>, sc, n)
    IN  Code(TruthBranch(r.c[1], r.c[2], r.c[3]), r.n)

\* A BLOCK some RETURN-FROM leaves: its tag is a literal text, made when the block is compiled.
TagOf(b, n) == [text |-> "__CL_BLOCK_TAG_" \o b \o ToString(n)]

\* The handler answers the value of an exit that carries its own tag and signals any other again.
HandlerOfBlock(depth, tag) ==
    BlockNode(depth, 1,
        If(Host("tag", <<Arg(1)>>), Get(tag), Host("value of", <<Arg(1)>>), Host("signal", <<Arg(1)>>)))

CompileBlockForm(f, sc, n) ==
    LET tag == Temporary(sc, "tag", n, FALSE)
        body == CompileLambda(<<>>, f.body, WithLocal(sc, "block " \o f.b, tag), n + 1)
    IN  IF ~Returns(f.body, f.b) THEN CompileForm(f.body, sc, n)
        ELSE Code(Seq2(<<Put(tag, Lit(TagOf(f.b, n + 1))),
                         OnDoNode(body.c, Get(Root("exit")), HandlerOfBlock(ScopeDepth(sc) + 1, tag))>>), body.n)

CompileReturn(f, sc, n) ==
    LET r == CompileForm(f.e, sc, n)
    IN  Code(Host("exit", <<Variable(sc, "block " \o f.b), r.c>>), r.n)

CompileProtect(f, sc, n) ==
    LET p == CompileLambda(<<>>, f.e, sc, n)
        c == CompileLambda(<<>>, f.cleanup, sc, p.n)
    IN  Code(Host("ensure", <<p.c, c.c>>), c.n)

\* HANDLER-CASE: the handler only notes which clause to run; it is run once on:do: has returned.
\* The clauses nest, the last one innermost; an outer one gets the inner code as its body in place
\* of the form it was compiled from.
CompileCase(f, sc, n) ==
    LET thunk == NameFor("THUNK", n)
        thunkId == Temporary(sc, thunk, n, TRUE)
        result == Temporary(sc, "result", n + 1, FALSE)
        inner == WithLocal(sc, thunk, thunkId)
        start == CompileForm(f.e, inner, n + 2)
        Nest(done, i) ==
            LET clause == f.clauses[i]
                h == CompileLambda(<<clause.x>>, Progn(<<Setq(thunk, Lambda(<<>>, clause.body)), NilForm>>),
                                   inner, done.n)
                p == CompileLambda(<<>>, f.e, inner, h.n)
            IN  Code(OnDoNode(IF i < Len(f.clauses) THEN [p.c EXCEPT !.body = done.c] ELSE p.c,
                          Get(Root(clause.type)), h.c), p.n)
        tried == FoldLeft(Nest, start, Reverse([i \in DOMAIN f.clauses |-> i]))
        run == CompileForm([k |-> "if", c |-> Var(thunk), a |-> [k |-> "funcall", f |-> Var(thunk), args |-> <<>>],
                        b |-> NilForm], inner, tried.n)
    IN  Code(Seq2(<<Put(thunkId, Lit(Nil)), Put(result, tried.c), [run.c EXCEPT !.a = Get(result)]>>), run.n)

\* HANDLER-BIND: a handler that returns has declined, and the condition is signalled again.
CompileBind(f, sc, n) ==
    LET Nest(done, i) ==
            LET cond == NameFor("COND", done.n)
                h == CompileLambda(<<cond>>, Progn(<<[k |-> "funcall", f |-> f.hs[i].f, args |-> <<Var(cond)>>],
                                                     [k |-> "signal", c |-> Var(cond)]>>), sc, done.n)
                p == CompileLambda(<<>>, f.body, sc, h.n)
            IN  Code(OnDoNode(IF i < Len(f.hs) THEN [p.c EXCEPT !.body = done.c] ELSE p.c,
                          Get(Root(f.hs[i].type)), h.c), p.n)
    IN  FoldLeft(Nest, Code(Lit(Nil), n), Reverse([i \in DOMAIN f.hs |-> i]))

CompileIgnore(f, sc, n) ==
    LET p == CompileLambda(<<>>, f.body, sc, n)
        h == CompileLambda(<<"ignored">>, NilForm, sc, p.n)
    IN  Code(OnDoNode(p.c, Get(Root("error")), h.c), h.n)

CompileCall(callee, args, sc, n) ==
    LET r == CompileAll(args, sc, n) IN Code(Apply(callee, r.c), r.n)

CompileForm(f, sc, n) ==
    CASE f.k = "int" -> Code(Lit(Number(f.v)), n)
      [] f.k = "nil" -> Code(Lit(Nil), n)
      [] f.k = "var" -> Code(Variable(sc, f.x), n)
      [] f.k = "progn" -> LET r == CompileAll(f.s, sc, n) IN Code(Seq2(r.c), r.n)
      [] f.k = "if" -> CompileIf(f, sc, n)
      [] f.k = "or" -> CompileOr(f, sc, n)
      [] f.k = "and" -> CompileAnd(f, sc, n)
      [] f.k = "cond" -> CompileCond(f, sc, n)
      [] f.k = "prog1" -> CompileProg1(f, sc, n)
      [] f.k = "eq" -> CompileEqual(f, sc, n)
      [] f.k = "not" -> CompileNot(f, sc, n)
      [] f.k = "t" -> Code(Lit(T), n)
      [] f.k = "add" -> LET r == CompileAll(<<f.a, f.b>>, sc, n) IN Code(Host("add", r.c), r.n)
      [] f.k = "note" -> LET r == CompileForm(f.e, sc, n) IN Code(Host("note", <<r.c>>), r.n)
      [] f.k = "let" -> CompileLet(f, sc, n)
      [] f.k = "let*" -> CompileLetStar(f, sc, n)
      [] f.k = "setq" -> CompileSetq(f, sc, n)
      [] f.k = "lambda" -> CompileLambda(f.ps, f.body, sc, n)
      [] f.k = "flet" -> CompileFlet(f, sc, n)
      [] f.k = "labels" -> CompileLabels(f, sc, n)
      [] f.k = "funcall" -> LET r == CompileAll(<<f.f>> \o f.args, sc, n)
                            IN  Code(Apply(Head(r.c), Tail(r.c)), r.n)
      [] f.k = "call" -> CompileCall(Variable(sc, f.g), f.args, sc, n)
      [] f.k = "block" -> CompileBlockForm(f, sc, n)
      [] f.k = "return" -> CompileReturn(f, sc, n)
      [] f.k = "protect" -> CompileProtect(f, sc, n)
      [] f.k = "case" -> CompileCase(f, sc, n)
      [] f.k = "bind" -> CompileBind(f, sc, n)
      [] f.k = "ignore" -> CompileIgnore(f, sc, n)
      [] f.k = "error" -> Code(Host("error", <<Lit([class |-> f.type])>>), n)
      [] f.k = "signal" -> LET r == CompileForm(f.c, sc, n) IN Code(Host("signal", <<r.c>>), r.n)
      [] f.k = "usevalue" -> LET r == CompileAll(<<f.c, f.e>>, sc, n) IN Code(Host("resume", r.c), r.n)

\* A DEFUN, or the program's own form: a function of its own in no scope; a name that some
\* RETURN-FROM of the body gives is a block.
Unit(name, ps, body) ==
    LET whole == IF Returns(body, name) THEN [k |-> "block", b |-> name, body |-> body] ELSE body
    IN  CompileLambda(ps, whole, [scopes |-> <<>>, mutated |-> Mutated(whole)], 0).c

----------------------------------------
(* Run(c, fr, st): the code's outcome.  fr has the activation's arguments, cells and snapshots,  *)
(* the handlers established and the conditions being handled; st the cells' values, the special  *)
(* variables' values, what was noted, the functions' code and the numbers given so far.          *)

Outcome(kind, v, to, st) == [kind |-> kind, v |-> v, to |-> to, st |-> st]
Value(v, st) == Outcome("value", v, 0, st)
Fails(st) == Outcome("fails", Nil, 0, st)

Numbered(st) == [st EXCEPT !.nr = @ + 1]
Handles(class, cond) == class = cond.class \/ (class = "error" /\ cond.class # "exit")

IsCell(id) == "cell" \in DOMAIN id /\ id.cell

Look(c, fr, st) ==
    IF c.op = "argument" THEN Value(fr.args[c.i], st)
    ELSE IF c.id \in DOMAIN fr.cells THEN Value(st.heap[fr.cells[c.id]], st)
    ELSE IF c.id \in DOMAIN fr.snaps THEN Value(fr.snaps[c.id], st) ELSE Fails(st)

\* createClosure: every capture is there when the closure is made, or it is not made.
Closure(c, fr, st) ==
    LET cells == {k \in c.captures : IsCell(k.id)}
        snaps == c.captures \ cells
    IN  IF (\A k \in cells : k.id \in DOMAIN fr.cells) /\ (\A k \in snaps : Look(k.from, fr, st).kind = "value")
        THEN Value([fn |-> c,
                    cells |-> [id \in {k.id : k \in cells} |-> fr.cells[id]],
                    snaps |-> [id \in {k.id : k \in snaps}
                                 |-> Look((CHOOSE k \in snaps : k.id = id).from, fr, st).v]], st)
        ELSE Fails(st)

RECURSIVE Run(_, _, _)

RunAll(cs, fr, st) ==
    FoldLeft(LAMBDA done, c :
                IF done.kind # "value" THEN done
                ELSE LET r == Run(c, fr, done.st)
                     IN  IF r.kind = "value" THEN [r EXCEPT !.v = Append(done.v, r.v)] ELSE r,
             Value(<<>>, st), cs)

Call(f, args, fr, st) ==
    IF "fn" \notin DOMAIN f \/ Len(args) # f.fn.arity THEN Fails(st)
    ELSE LET base == Len(st.heap)
             own == [id \in f.fn.temps |-> base + Cardinality({t \in f.fn.temps : t.n <= id.n})]
         IN  Run(f.fn.body, [fr EXCEPT !.args = args, !.cells = own @@ f.cells, !.snaps = f.snaps],
                 [st EXCEPT !.heap = @ \o [i \in 1..Cardinality(f.fn.temps) |-> Nil]])

\* The innermost active handler of the class, itself not active while it runs.
SignalCondition(cond, fr, st) ==
    LET hit == {i \in DOMAIN fr.handlers : fr.handlers[i].active /\ Handles(fr.handlers[i].class, cond)}
        i == CHOOSE i \in hit : \A j \in hit : j <= i
        at == Numbered(st)
        r == Call(fr.handlers[i].h, <<cond>>,
                  [fr EXCEPT !.handlers[i].active = FALSE, !.handling = Append(@, [cond |-> cond, nr |-> at.nr])], at)
    IN  IF hit = {} THEN Fails(st)
        ELSE IF r.kind = "value" THEN Outcome("exits", r.v, fr.handlers[i].id, r.st)
        ELSE IF r.kind = "resumes" /\ r.to = at.nr THEN Value(r.v, r.st) ELSE r

Resume(cond, v, fr, st) ==
    LET own == SelectSeq(fr.handling, LAMBDA o : o.cond = cond)
    IN  IF own = <<>> THEN Fails(st) ELSE Outcome("resumes", v, Last(own).nr, st)

Ensure(p, cleanup, fr, st) ==
    LET r == Call(p, <<>>, fr, st)
        c == Call(cleanup, <<>>, fr, r.st)
    IN  IF c.kind = "value" THEN [r EXCEPT !.st = c.st] ELSE c

GlobalValue(name, st) ==
    IF name \in DOMAIN st.specials THEN st.specials[name]
    ELSE IF name \in DOMAIN st.code
         THEN [fn |-> st.code[name], cells |-> None,
               snaps |-> [id \in {k.id : k \in st.code[name].captures} |-> id]]
         ELSE [class |-> name]

RunHost(do, v, fr, st) ==
    CASE do = "value" -> Value(GlobalValue(v[1].root, st), st)
      [] do = "set" -> Value(v[2], [st EXCEPT !.specials[v[1].root] = v[2]])
      [] do = "add" -> Value(Number(v[1].int + v[2].int), st)
      [] do = "note" -> Value(v[1], [st EXCEPT !.trace = Append(@, v[1])])
      [] do = "tag" -> Value(v[1].tag, st)
      [] do = "value of" -> Value(v[1].v, st)
      [] do = "signal" -> SignalCondition(v[1], fr, st)
      [] do = "error" -> SignalCondition([class |-> v[1].class, nr |-> st.nr + 1], fr, Numbered(st))
      [] do = "exit" -> SignalCondition([class |-> "exit", nr |-> st.nr + 1, tag |-> v[1], v |-> v[2]], fr, Numbered(st))
      [] do = "resume" -> Resume(v[1], v[2], fr, st)
      [] do = "ensure" -> Ensure(v[1], v[2], fr, st)

OnRunning(v, class, fr, st) ==
    LET at == Numbered(st)
        r == Call(v[1], <<>>, [fr EXCEPT !.handlers =
                    Append(@, [id |-> at.nr, class |-> class, h |-> v[2], active |-> TRUE])], at)
    IN  IF r.kind = "exits" /\ r.to = at.nr THEN Value(r.v, r.st) ELSE r

Then(r, Next(_, _)) == IF r.kind = "value" THEN Next(r.v, r.st) ELSE r

Run(c, fr, st) ==
    CASE c.op = "literal" -> Value(c.v, st)
      [] c.op \in {"argument", "binding"} -> Look(c, fr, st)
      [] c.op = "write" ->
            Then(Run(c.e, fr, st), LAMBDA v, at :
                 IF c.id \in DOMAIN fr.cells THEN Value(v, [at EXCEPT !.heap[fr.cells[c.id]] = v]) ELSE Fails(at))
      [] c.op = "sequence" -> Then(RunAll(c.s, fr, st), LAMBDA v, at : Value(Last(v), at))
      [] c.op = "if" -> Then(RunAll(<<c.l, c.r>>, fr, st), LAMBDA v, at :
                             Run(IF v[1] = v[2] THEN c.a ELSE c.b, fr, at))
      [] c.op = "apply" -> Then(RunAll(<<c.f>> \o c.args, fr, st), LAMBDA v, at : Call(v[1], Tail(v), fr, at))
      [] c.op = "block" -> Closure(c, fr, st)
      [] c.op = "onDo" -> Then(RunAll(<<c.p, c.h>>, fr, st), LAMBDA v, at :
                               Then(Look(c.class, fr, at), LAMBDA root, on : OnRunning(v, root.root, fr, on)))
      [] c.op = "host" -> Then(RunAll(c.args, fr, st), LAMBDA v, at : RunHost(c.do, v, fr, at))

----------------------------------------
(* Means(f, env, dyn, st): what Common Lisp says of the form.  A lexical name has a place of its *)
(* own for every time it is bound, a block a tag for every time it is entered, and a special     *)
(* variable the place its innermost LET gave it in the dynamic extent, which ends with the LET.  *)

PlaceOf(x, env, dyn) == IF x \in DOMAIN env THEN env[x] ELSE dyn.specials[x]

RECURSIVE Means(_, _, _, _)

MeansAll(fs, env, dyn, st) ==
    FoldLeft(LAMBDA done, f :
                IF done.kind # "value" THEN done
                ELSE LET r == Means(f, env, dyn, done.st)
                     IN  IF r.kind = "value" THEN [r EXCEPT !.v = Append(done.v, r.v)] ELSE r,
             Value(<<>>, st), fs)

Places(names, st) == [x \in Range(names) |-> Len(st.heap) + CHOOSE i \in DOMAIN names : names[i] = x]
Holding(values, st) == [st EXCEPT !.heap = @ \o values]

Applied(f, args, dyn, st) ==
    IF "body" \notin DOMAIN f \/ Len(args) # Len(f.ps) THEN Fails(st)
    ELSE Means(f.body, Places(f.ps, st) @@ f.env, dyn, Holding(args, st))

Bound(names, values, body, env, dyn, st) ==
    LET at == Places(names, st)
        special == Range(names) \cap Proclaimed
    IN  Means(body, [x \in Range(names) \ special |-> at[x]] @@ env,
              [dyn EXCEPT !.specials = [x \in special |-> at[x]] @@ @], Holding(values, st))

\* A signal visits the handlers from the innermost out, each with only those outside it in force.
RECURSIVE Visit(_, _, _, _, _)
Visit(cond, i, j, dyn, st) ==
    LET h == dyn.handlers[i]
        r == Applied(h.fs[j], <<cond>>, [dyn EXCEPT !.handlers = SubSeq(@, 1, i - 1)], st)
    IN  IF i = 0 THEN Fails(st)
        ELSE IF j > Len(h.types) THEN Visit(cond, i - 1, 1, dyn, st)
        ELSE IF ~Handles(h.types[j], cond) THEN Visit(cond, i, j + 1, dyn, st)
        ELSE IF h.leaves THEN Outcome("exits", [clause |-> j, cond |-> cond], h.id, st)
        ELSE IF r.kind = "value" THEN Visit(cond, i, j + 1, dyn, r.st) ELSE r

Signalled(cond, dyn, st) ==
    LET at == Numbered(st)
        r == Visit(cond, Len(dyn.handlers), 1,
                   [dyn EXCEPT !.handling = Append(@, [cond |-> cond, nr |-> at.nr])], at)
    IN  IF r.kind = "resumes" /\ r.to = at.nr THEN Value(r.v, r.st) ELSE r

MeansTry(f, clauses, env, dyn, st) ==
    LET at == Numbered(st)
        r == Means(f, env, [dyn EXCEPT !.handlers =
                Append(@, [id |-> at.nr, types |-> [j \in DOMAIN clauses |-> clauses[j].type],
                           leaves |-> TRUE, fs |-> <<>>])], at)
        clause == clauses[r.v.clause]
    IN  IF r.kind = "exits" /\ r.to = at.nr
        THEN Applied([ps |-> <<clause.x>>, body |-> clause.body, env |-> env], <<r.v.cond>>, dyn, r.st)
        ELSE r

MeansBind(f, env, dyn, st) ==
    Then(MeansAll([j \in DOMAIN f.hs |-> f.hs[j].f], env, dyn, st), LAMBDA fs, at :
         Means(f.body, env, [dyn EXCEPT !.handlers =
                Append(@, [id |-> at.nr + 1, types |-> [j \in DOMAIN f.hs |-> f.hs[j].type],
                           leaves |-> FALSE, fs |-> fs])], Numbered(at)))

MeansBlock(b, body, env, dyn, st) ==
    LET at == Numbered(st)
        r == Means(body, ("block " \o b :> at.nr) @@ env, dyn, at)
    IN  IF r.kind = "exits" /\ r.to = at.nr THEN Value(r.v, r.st) ELSE r

MeansProtect(f, env, dyn, st) ==
    LET r == Means(f.e, env, dyn, st)
        c == Means(f.cleanup, env, dyn, r.st)
    IN  IF c.kind = "value" THEN [r EXCEPT !.st = c.st] ELSE c

MeansLabels(f, env, dyn, st) ==
    LET names == [i \in DOMAIN f.defs |-> f.defs[i].x]
        inner == Places(names, st) @@ env
    IN  Means(f.body, inner, dyn,
              Holding([i \in DOMAIN f.defs |-> [ps |-> f.defs[i].ps, body |-> f.defs[i].body, env |-> inner]], st))

MeansCond(f, env, dyn, st) ==
    IF f.cs = <<>> THEN Value(Nil, st)
    ELSE Then(Means(f.cs[1].t, env, dyn, st), LAMBDA v, at :
              IF v = Nil THEN Means([f EXCEPT !.cs = Tail(@)], env, dyn, at)
              ELSE IF f.cs[1].s = <<>> THEN Value(v, at) ELSE Means(Progn(f.cs[1].s), env, dyn, at))

MeansCall(f, env, dyn, st) ==
    Then(MeansAll(f.args, env, dyn, st), LAMBDA v, at :
         IF f.g \in DOMAIN env THEN Applied(at.heap[env[f.g]], v, dyn, at)
         ELSE LET d == lispForm.defs[f.g]
              IN  Applied([ps |-> d.ps, body |-> [k |-> "block", b |-> f.g, body |-> d.body], env |-> None], v, dyn, at))

Means(f, env, dyn, st) ==
    CASE f.k = "int" -> Value(Number(f.v), st)
      [] f.k = "nil" -> Value(Nil, st)
      [] f.k = "var" -> Value(st.heap[PlaceOf(f.x, env, dyn)], st)
      [] f.k = "progn" -> Then(MeansAll(f.s, env, dyn, st), LAMBDA v, at : Value(Last(v), at))
      [] f.k = "if" -> Then(Means(f.c, env, dyn, st), LAMBDA v, at : Means(IF v = Nil THEN f.b ELSE f.a, env, dyn, at))
      [] f.k = "or" -> IF Len(f.s) = 1 THEN Means(f.s[1], env, dyn, st)
                       ELSE Then(Means(f.s[1], env, dyn, st), LAMBDA v, at :
                                 IF v = Nil THEN Means([f EXCEPT !.s = Tail(@)], env, dyn, at) ELSE Value(v, at))
      [] f.k = "and" -> IF Len(f.s) = 1 THEN Means(f.s[1], env, dyn, st)
                        ELSE Then(Means(f.s[1], env, dyn, st), LAMBDA v, at :
                                  IF v = Nil THEN Value(Nil, at) ELSE Means([f EXCEPT !.s = Tail(@)], env, dyn, at))
      [] f.k = "cond" -> MeansCond(f, env, dyn, st)
      [] f.k = "prog1" -> Then(MeansAll(f.s, env, dyn, st), LAMBDA v, at : Value(v[1], at))
      [] f.k = "eq" -> Then(MeansAll(<<f.a, f.b>>, env, dyn, st), LAMBDA v, at : Value(IF v[1] = v[2] THEN T ELSE Nil, at))
      [] f.k = "not" -> Then(Means(f.e, env, dyn, st), LAMBDA v, at : Value(IF v = Nil THEN T ELSE Nil, at))
      [] f.k = "t" -> Value(T, st)
      [] f.k = "add" -> Then(MeansAll(<<f.a, f.b>>, env, dyn, st), LAMBDA v, at : Value(Number(v[1].int + v[2].int), at))
      [] f.k = "note" -> Then(Means(f.e, env, dyn, st), LAMBDA v, at : Value(v, [at EXCEPT !.trace = Append(@, v)]))
      [] f.k = "let" -> Then(MeansAll([i \in DOMAIN f.bs |-> f.bs[i].e], env, dyn, st), LAMBDA v, at :
                             Bound([i \in DOMAIN f.bs |-> f.bs[i].x], v, f.body, env, dyn, at))
      [] f.k = "let*" -> IF f.bs = <<>> THEN Means(f.body, env, dyn, st)
                         ELSE Then(Means(f.bs[1].e, env, dyn, st), LAMBDA v, at :
                                   Bound(<<f.bs[1].x>>, <<v>>, [f EXCEPT !.bs = Tail(@)], env, dyn, at))
      [] f.k = "setq" -> Then(Means(f.e, env, dyn, st), LAMBDA v, at :
                              Value(v, [at EXCEPT !.heap[PlaceOf(f.x, env, dyn)] = v]))
      [] f.k = "lambda" -> Value([ps |-> f.ps, body |-> f.body, env |-> env], st)
      [] f.k = "flet" -> Bound([i \in DOMAIN f.defs |-> f.defs[i].x],
                               [i \in DOMAIN f.defs |-> [ps |-> f.defs[i].ps, body |-> f.defs[i].body, env |-> env]],
                               f.body, env, dyn, st)
      [] f.k = "labels" -> MeansLabels(f, env, dyn, st)
      [] f.k = "funcall" -> Then(MeansAll(<<f.f>> \o f.args, env, dyn, st), LAMBDA v, at : Applied(v[1], Tail(v), dyn, at))
      [] f.k = "call" -> MeansCall(f, env, dyn, st)
      [] f.k = "block" -> MeansBlock(f.b, f.body, env, dyn, st)
      [] f.k = "return" -> Then(Means(f.e, env, dyn, st), LAMBDA v, at : Outcome("exits", v, env["block " \o f.b], at))
      [] f.k = "protect" -> MeansProtect(f, env, dyn, st)
      [] f.k = "case" -> MeansTry(f.e, f.clauses, env, dyn, st)
      [] f.k = "ignore" -> MeansTry(f.body, <<[type |-> "error", x |-> "ignored", body |-> NilForm]>>, env, dyn, st)
      [] f.k = "bind" -> MeansBind(f, env, dyn, st)
      [] f.k = "error" -> Signalled([class |-> f.type, nr |-> st.nr + 1], dyn, Numbered(st))
      [] f.k = "signal" -> Then(Means(f.c, env, dyn, st), LAMBDA v, at : Signalled(v, dyn, at))
      [] f.k = "usevalue" -> Then(MeansAll(<<f.c, f.e>>, env, dyn, st), LAMBDA v, at : Resume(v[1], v[2], dyn, at))

----------------------------------------
(* Every program of LispPrograms, compiled and run beside its meaning *)

ControlInit == lispForm \in LispPrograms
ControlNext == UNCHANGED lispForm

Start == [heap |-> <<>>, specials |-> [x \in Proclaimed |-> Nil], trace |-> <<>>, nr |-> 0, code |-> None]

Shown(r) ==
    [kind |-> r.kind, v |-> IF r.kind = "value" THEN r.v ELSE Nil, trace |-> r.st.trace, specials |-> r.st.specials]

\* The program's own form is the unit of no name.
Units == ("" :> [ps |-> <<>>, body |-> lispForm.main]) @@ lispForm.defs
CallMain(st) ==
    Call(GlobalValue("", st), <<>>,
         [args |-> <<>>, cells |-> None, snaps |-> None, handlers |-> <<>>, handling |-> <<>>], st)

Ran == Shown(CallMain([Start EXCEPT !.code =
                [g \in DOMAIN Units |-> Unit(g, Units[g].ps, Units[g].body)]]))

SpecialPlaces == Places(SetToSeq(Proclaimed), Start)
ReadSpecials(r) == [r EXCEPT !.st.specials = [x \in Proclaimed |-> r.st.heap[SpecialPlaces[x]]]]

Meant == Shown(ReadSpecials(
            Means(lispForm.main, None, [specials |-> SpecialPlaces, handlers |-> <<>>, handling |-> <<>>],
                  [Start EXCEPT !.heap = [i \in 1..Cardinality(Proclaimed) |-> Nil]])))

\* Compiled, a form does what it means: it notes the same things in the same order, leaves the
\* special variables with the same values and ends the same way, whatever closures, exits,
\* handlers, cleanups and dynamic bindings it is made of (ADR 0099: common-lisp.js 5094-6618).
CompiledFormsMeanTheSame == Ran = Meant

========================================
