----------------------------- MODULE MCLanguages -----------------------------
(***************************************************************************)
(* Common Lisp, each on its own: classes and generic functions, loading a  *)
(* program's definitions into a namespace, the load order of a system and  *)
(* the installation of systems, the expansion of forms and of macros, the  *)
(* reader with the printer, and the library of sequences.  One of the      *)
(* parts runs, the others rest where they began.                           *)
(***************************************************************************)
EXTENDS LispClasses, LispProgram, LispSystems, LispMacros, LispLibrary

CONSTANT Parts

VARIABLE part

----------------------------------------
(* A diamond of classes with a slot redefined on the way, a struct that    *)
(* includes another; primary and :AFTER methods on them, on T and on one   *)
(* EQL object.                                                             *)
SlotOf(initform, accessor) == [initform |-> initform, accessors |-> {accessor}]
Class(name, supers, slots) == [name |-> name, kind |-> "class", supers |-> supers, slots |-> slots]
Struct(name, supers) == [name |-> name, kind |-> "struct", supers |-> supers, slots |-> Nothing]
SomeDeclarations ==
  {Class("A", <<>>, "x" :> SlotOf(1, "ax")), Class("B", <<"A">>, "x" :> SlotOf(NIL_NODE, "bx")),
   Class("C", <<"A">>, "y" :> SlotOf(2, "cy")), Class("D", <<"B", "C">>, Nothing),
   Struct("S", <<>>), Struct("P", <<"S">>)}
OnType(qualifier, name) ==
  [qualifier |-> qualifier, specializers |-> <<[kind |-> "type", name |-> name]>>]
SomeMethodForms ==
  {OnType("PRIMARY", name) : name \in {"A", "C", "D", "S", "P"}}
  \cup {OnType("AFTER", name) : name \in {"T", "B", "D"}}
  \cup {[qualifier |-> "PRIMARY", specializers |-> <<[kind |-> "eql", name |-> "D"]>>]}

(* A generic gets two methods, one of them perhaps twice; a variable.       *)
MethodForm(key, body) == [kind |-> "method", method |-> [key |-> key, body |-> body]]
SomePrograms ==
  {MethodForm("a", 1), MethodForm("b", 1), [kind |-> "variable", value |-> <<1>>]}
HelperNames == <<"%GF-M-0", "%GF-M-1">>

(* A file, a module of two files and a file, each naming others or not.    *)
FileNode(name, dependsOn) ==
  [name |-> name, dependsOn |-> dependsOn, components |-> [serial |-> FALSE, nodes |-> <<>>]]
SomeTrees ==
  {[serial |-> serial,
    nodes |-> <<FileNode("a", da),
                [name |-> "m", dependsOn |-> dm,
                 components |-> [serial |-> inner, nodes |-> <<FileNode("f", df), FileNode("g", dg)>>]],
                FileNode("b", db)>>] :
     serial \in BOOLEAN, inner \in BOOLEAN,
     da \in {<<>>, <<"m">>, <<"b", "m">>}, db \in {<<>>, <<"a", "m">>},
     dm \in {<<>>, <<"b", "a">>}, df \in {<<>>, <<"g">>}, dg \in {<<>>, <<"f">>, <<"a">>}}

(* A system and the library it needs, one file each.                       *)
SystemNeeds == "app" :> <<"lib">> @@ "lib" :> <<>>
SystemFiles == "app" :> <<"a">> @@ "lib" :> <<"l">>

----------------------------------------
(* Forms to expand: each macro around each kind of place, lambda list,     *)
(* call, key, body and LOOP clause it treats differently, with notes where *)
(* the order of evaluation shows.  Calls that cannot be right are left     *)
(* out: their errors are not compared.                                     *)

X == S("x")
Y == S("y")
Z == S("z")
Xs == S("l")
Noted(n) == Form("note", <<N(n)>>)
NoteOf(f) == Form("note", <<f>>)
Bs(pairs) == L([i \in DOMAIN pairs |-> L(pairs[i])])
LetS(pairs, body) == Form("let*", <<Bs(pairs)>> \o body)
Numbers(ns) == Form("list", [i \in DOMAIN ns |-> N(ns[i])])
Local(head, defs, body) == Form(head, <<Bs(defs)>> \o body)

----------------------------------------
(* Places *)

SomePlaces ==
    {Y, Form("car", <<Xs>>), Form("first", <<Form("progn", <<Noted(1), Xs>>)>>),
     Form("second", <<Form("progn", <<Noted(1), Xs>>)>>),
     Form("nth", <<Noted(2), Form("progn", <<Noted(1), Xs>>)>>), Form("third", <<Xs>>),
     Form("nth", <<N(1), Xs>>),
     Form("slot", <<Form("progn", <<Noted(1), Xs>>)>>),
     Form("peek", <<Form("progn", <<Noted(1), Xs>>)>>), Form("peek", <<Xs>>)}
ListPlaces == {Z, Form("cdr", <<Form("progn", <<Noted(1), Xs>>)>>),
                     Form("car", <<Form("progn", <<Noted(1), Z>>)>>), Form("rest", <<Xs>>)}

Modifying ==
    UNION {{Form("setf", <<p, Noted(5)>>), Form("setf", <<p, N(5)>>), Form("incf", <<p>>),
            Form("incf", <<p, Noted(3)>>),
            Form("decf", <<p, N(2)>>), Form("setf", <<p, Noted(4), Y, p>>)} : p \in SomePlaces}
    \cup UNION {{Form("push", <<Noted(9), p>>), Form("pop", <<p>>),
                 Form("setf", <<p, Nil>>)} : p \in ListPlaces}

Accessors ==
    <<<<S("slot"), L(<<X>>), Form("car", <<X>>)>>,
      <<Form("setf", <<S("slot")>>), L(<<S("v"), X>>), Form("note", <<S("v")>>),
        Form("rplaca", <<X, S("v")>>), S("v")>>,
      <<S("peek"), L(<<X>>), Form("car", <<X>>)>>,
      <<S("poke"), L(<<X, S("v")>>), Form("rplaca", <<X, S("v")>>), S("v")>>>>

PlaceForms ==
    {Local("labels", Accessors,
           <<LetS(<<<<Xs, Numbers(<<1, 2, 3>>)>>, <<Y, N(1)>>,
                    <<Z, Form("list", <<Numbers(<<7>>)>>)>>>>,
        <<Form("list", <<m, Xs, Y, Z>>)>>)>>) : m \in Modifying}

----------------------------------------
(* Lambda lists and calls *)

Opt == S("&optional")
LambdaLists ==
    {<<L(<<X>>), <<X>>>>, <<L(<<X, Opt, Y>>), <<X, Y>>>>,
     <<L(<<X, Opt, L(<<Y, NoteOf(Form("1+", <<X>>)), Z>>)>>), <<X, Y, Z>>>>,
     <<L(<<X, S("&rest"), Y>>), <<X, Y>>>>,
     <<L(<<Opt, L(<<X, Noted(7)>>), L(<<Y, NoteOf(X)>>)>>), <<X, Y>>>>,
     <<L(<<X, S("&key"), Y, L(<<Z, Y, S("zp")>>)>>), <<X, Y, Z, S("zp")>>>>,
     <<L(<<X, S("&rest"), Xs, S("&key"), L(<<Y, Noted(7)>>)>>), <<X, Xs, Y>>>>,
     <<L(<<L(<<X, Y>>), Z>>), <<X, Y, Z>>>>, <<L(<<L(<<X, Opt, L(<<Y, X>>)>>)>>), <<X, Y>>>>,
     <<L(<<L(<<X, S("&rest"), Y>>), Opt, Z>>), <<X, Y, Z>>>>}

Arguments ==
    {<<Noted(1)>>, <<Noted(1), Noted(2)>>, <<N(1), Key("y"), N(2)>>,
     <<N(1), Key("z"), N(2), Key("y"), N(3)>>,
     <<N(1), Key("y"), N(2), Key("y"), N(3)>>, <<>>, <<Numbers(<<1, 2>>), N(3)>>, <<Numbers(<<1>>)>>,
     <<N(1), N(2), N(3)>>}

Bodies(vs) == {<<Form("list", vs)>>,
                     <<Noted(8), Form("return-from", <<S("f"), Form("list", vs)>>), Noted(6)>>}

CallForms ==
    UNION {UNION {
        {Local(head, <<<<S("f"), ll[1]>> \o b>>,
               <<Form("list", <<L(<<S("f")>> \o args)>>)>>) : b \in Bodies(ll[2]),
               head \in {"flet", "labels"}}
        \cup {L(<<LambdaForm(ll[1],
            <<Form("list", ll[2])>>)>> \o args)} : args \in Arguments} : ll \in LambdaLists}

\* A call that cannot be right: what it fails with and when is not what is compared.
Fits(f) == Meant(f).kind = "value"

Recursive ==
    {Local("labels", <<<<S("f"), L(<<X, Opt, L(<<Y, N(0)>>)>>),
        Form("if", <<Form("=", <<X, N(0)>>), Y,
                     Form("f", <<Form("1-", <<X>>), Form("+", <<X, Y>>)>>)>>)>>>>,
           <<Form("f", <<N(3)>>)>>),
     Local("flet", <<<<S("f"), L(<<X>>), Form("+", <<X, N(1)>>)>>>>,
           <<Local("flet", <<<<S("f"), L(<<X, S("&rest"), Y>>),
               Form("cons", <<Form("f", <<X>>), Y>>)>>>>, <<Form("f", <<N(1), N(2)>>)>>)>>),
     Local("flet", <<<<S("dolist"), L(<<X, Y>>), Form("list", <<Y, X>>)>>>>,
           <<Form("dolist", <<Noted(1), Noted(2)>>)>>),
     Local("labels", <<<<S("f"), L(<<Opt, X>>), X>>, <<S("g"), L(<<X>>), Form("f", <<X>>)>>>>,
           <<Form("list", <<Form("g", <<N(1)>>), Form("f", <<>>)>>)>>)}

Destructuring ==
    {Form("destructuring-bind", <<ll[1], Form("progn", <<Noted(0), data>>), Form("list", ll[2])>>) :
        ll \in LambdaLists, data \in {Quote(L(<<L(<<N(1), N(2)>>), N(3)>>)), Numbers(<<1, 2>>),
                                      Quote(L(<<N(1), Key("y"), N(2)>>)), Quote(L(<<L(<<N(1)>>)>>))}}

----------------------------------------
(* Choices, repetitions, values, restarts *)

CaseForms ==
    UNION {{Form(head, <<NoteOf(k), L(<<N(1), Noted(11)>>), L(<<L(<<N(2), S("a")>>), Noted(12)>>),
        L(<<Nil, Noted(13)>>)>> \o last) :
        head \in {"case", "ecase"},
        last \in {<<>>, <<L(<<S("otherwise"), Noted(14)>>)>>, <<L(<<True, Noted(14)>>)>>,
                  <<L(<<N(4)>>)>>}} :
        k \in {N(1), N(2), Quote(S("a")), Nil, True, N(4), Quote(S("otherwise"))}}

LoopBodies == {Noted(1), NoteOf(X),
                     Form("when", <<Form("=", <<X, N(2)>>), Form("return", <<NoteOf(X)>>)>>),
          Form("dotimes", <<L(<<Y, X>>), NoteOf(Y),
                            Form("when", <<Form("=", <<Y, N(1)>>), Form("return", <<>>)>>)>>)}

Repetitions ==
    UNION {{Form("dolist", <<L(<<X, list>> \o result), b>>) : list \in {Numbers(<<1, 2, 3>>), Nil},
            result \in {<<>>, <<X>>, <<Noted(9)>>}} : b \in LoopBodies}
    \cup UNION {{Form("dotimes", <<L(<<X, n>> \o result), b>>) : n \in {N(3), Noted(0)},
                 result \in {<<>>, <<X>>}} : b \in LoopBodies}
    \cup {Form("block", <<S("b"),
                          Form("dolist", <<L(<<X, Numbers(<<1, 2>>)>>),
                                           Form("dolist", <<L(<<Y, Numbers(<<3, 4>>)>>),
                NoteOf(Form("+", <<X, Y>>)), Form("return-from", <<S("b"), Y>>)>>)>>)>>)}

SeveralValues == {Form("values", <<Noted(1), Noted(2), Noted(3)>>), Form("values", <<>>), N(4),
                        Form("values-list", <<Numbers(<<5, 6>>)>>),
            Form("multiple-value-prog1",
                 <<Form("values", <<N(1), N(2)>>), Form("values", <<N(7), N(8)>>)>>),
            Local("flet", <<<<S("f"), L(<<X>>), Form("values", <<X, N(9)>>)>>>>,
                  <<Form("f", <<N(1)>>)>>),
            Form("progn", <<Form("values", <<N(1), N(2)>>), N(5)>>),
            Form("if", <<Form("values", <<N(1), N(2)>>), Form("values", <<N(3), N(4)>>)>>)}

ValueForms ==
    UNION {{Form("multiple-value-list", <<f>>),
            Form("multiple-value-bind", <<L(<<X, Y>>), f, Form("list", <<Y, X>>)>>),
            Form("multiple-value-bind", <<Nil, f, Noted(6)>>), Form("nth-value", <<N(1), f>>),
            Form("list", <<f, f>>),
            Form("multiple-value-call", <<Form("function", <<S("list")>>), f, f>>),
            Form("multiple-value-call",
                 <<Form("function", <<S("+")>>), f, Form("values", <<N(1), N(2)>>)>>),
            Form("multiple-value-list",
                 <<Form("multiple-value-call", <<Form("function", <<S("values")>>), f>>)>>),
            Form("prog2", <<Noted(7), f, Noted(8)>>)} : f \in SeveralValues}

Restarts ==
    {Form("list", <<Form("restart-case",
        <<p, L(<<S("skip"), Nil, Noted(11)>>), L(<<S("use"), L(<<X>>), X>>)>>),
                    Form("find-restart", <<Quote(S("skip"))>>)>>) :
        p \in {Noted(1), Form("invoke-restart", <<Quote(S("skip"))>>),
               Form("progn", <<Form("invoke-restart", <<Quote(S("use")), Noted(2)>>), Noted(3)>>),
               Form("restart-case", <<Form("invoke-restart", <<Quote(S("use")), N(2)>>),
                                      L(<<S("skip"), Nil, Noted(21)>>)>>),
               Form("restart-case", <<Form("invoke-restart", <<Quote(S("skip"))>>),
                                      L(<<S("skip"), Nil, Noted(21)>>)>>),
               Form("dolist", <<L(<<Y, Numbers(<<1, 2>>)>>),
                                Form("invoke-restart", <<Quote(S("use")), NoteOf(Y)>>)>>)}}

OtherForms ==
    {Form("typep", <<v, Quote(t)>>) : v \in {Noted(1), Nil, Quote(S("a")), Numbers(<<1>>),
                                             Form("function", <<S("car")>>)},
        t \in {S("integer"), S("list"), S("null"), S("cons"), S("atom"), S("symbol"), S("function"),
               Form("eql", <<N(1)>>)}}
    \cup {Form("apply", <<Form("function", <<S("list")>>)>> \o args) : args \in {<<Numbers(<<1, 2>>)>>,
        <<Noted(1), Noted(2), Numbers(<<3>>)>>, <<Nil>>}}
    \cup {Form("concatenate", <<Quote(S("list"))>> \o fs) : fs \in {<<>>, <<Numbers(<<1>>)>>,
        <<Numbers(<<1>>), Nil, Numbers(<<2, 3>>)>>}}

----------------------------------------
(* LOOP *)

RECURSIVE Spelled(_), Joined(_)
Joined(cs) == IF Len(cs) = 1 THEN Spelled(cs[1]) ELSE Spelled(cs[1]) \o <<S("and")>> \o Joined(Tail(cs))
Spelled(c) ==
    LET into == IF "into" \in DOMAIN c /\ c.into # Nil THEN <<S("into"), c.into>> ELSE <<>>
    IN  CASE c.c = "for" /\ c.how \in {"in", "on"} -> <<S("for"), c.var, S(c.how), c.form>>
          [] c.c = "for" /\ c.how = "=" -> <<S("for"), c.var, S("="),
                                             c.form>> \o (IF c.then = Nil THEN <<>> ELSE <<S("then"),
                                                 c.then>>)
          [] c.c = "for" /\ c.how = "from" ->
                <<S("for"), c.var, S("from"),
                  c.form>> \o (IF c.to = "" THEN <<>> ELSE <<S(c.to),
                      c.limit>>) \o (IF c.by = N(1) THEN <<>> ELSE <<S("by"), c.by>>)
          [] c.c = "with" -> <<S("with"), c.var, S("="), c.form>>
          [] c.c \in {"do", "initially", "finally"} -> <<S(c.c)>> \o c.forms
          [] c.c = "if" -> <<S(IF c.unless THEN "unless" ELSE "when"), c.form>> \o Joined(c.then)
                           \o (IF c.else = <<>> THEN <<>> ELSE <<S("else")>> \o Joined(c.else)) \o <<S("end")>>
          [] OTHER -> <<S(c.c), c.form>> \o into
LoopForm(cs) == [list |-> <<S("loop")>> \o FlattenSeq([i \in DOMAIN cs |-> Spelled(cs[i])]),
                       loop |-> cs]

Over(x, how, f) == [c |-> "for", how |-> how, var |-> x, form |-> f]
Equals(x, f, then) == [c |-> "for", how |-> "=", var |-> x, form |-> f, then |-> then]
Count(x, a, to, b, by) == [c |-> "for", how |-> "from", var |-> x, form |-> a, to |-> to,
                                 limit |-> b, by |-> by, down |-> to \in {"downto", "above"}]
Word(c, f) == [c |-> c, form |-> f]
Adds(c, f, into) == [c |-> c, form |-> f, into |-> into]
Do(fs) == [c |-> "do", forms |-> fs]
When(unless, f, then, else) == [c |-> "if", unless |-> unless, form |-> f, then |-> then,
                                      else |-> else]
Is2 == Form("=", <<X, N(2)>>)

Heads ==
    {<<Over(X, "in", Numbers(<<1, 2, 3>>))>>, <<Over(X, "in", Nil)>>,
     <<Count(X, N(1), "to", Noted(3), N(1))>>, <<Count(X, N(1), "below", N(3), N(2))>>,
     <<Count(X, N(3), "downto", N(1), N(1))>>, <<Count(X, N(3), "above", N(0), N(2))>>,
     <<Equals(X, Noted(1), Form("1+", <<X>>)), Word("repeat", N(3))>>,
     <<Over(X, "in", Numbers(<<3, 1, 2>>)), Count(Y, N(0), "", N(0), N(1)),
       Equals(Z, Form("+", <<X, Y>>), Nil)>>,
     <<[c |-> "with", var |-> Y, form |-> Noted(7)], Over(X, "in", Numbers(<<2, 1>>))>>,
     <<Word("named", S("b")), Over(X, "in", Numbers(<<1, 2, 3>>))>>}

Tails ==
    {<<Do(<<NoteOf(X)>>)>>, <<Adds("collect", NoteOf(X), Nil)>>, <<Adds("sum", X, Nil)>>,
     <<Adds("count", Is2, Nil)>>, <<Adds("maximize", X, Nil)>>,
     <<Adds("minimize", X, Nil)>>, <<Adds("append", Form("list", <<X, X>>), Nil)>>,
     <<Word("while", Form("<", <<X, N(3)>>)), Adds("collect", X, Nil)>>,
     <<Word("until", Is2), Do(<<NoteOf(X)>>), [c |-> "finally", forms |-> <<Noted(9)>>]>>,
     <<Word("always", Form("<", <<X, N(3)>>))>>,
     <<Word("never", Is2)>>,
     <<Word("thereis", Form("and", <<Is2, Noted(5)>>)), [c |-> "finally", forms |-> <<Noted(9)>>]>>,
     <<[c |-> "initially", forms |-> <<Form("setq", <<S("s"), N(10)>>)>>], Adds("collect", X, S("a")),
       Adds("sum", X, S("s")),
       [c |-> "finally", forms |-> <<NoteOf(Form("cons", <<S("s"), S("a")>>))>>]>>,
     <<When(FALSE, Is2, <<Adds("collect", X, Nil), Do(<<Noted(4)>>)>>,
            <<Do(<<Noted(5)>>), Adds("collect", N(0), Nil)>>)>>,
     <<When(TRUE, Is2, <<Adds("collect", X, Nil)>>, <<Word("return", NoteOf(X))>>)>>,
     <<When(FALSE, Is2, <<When(FALSE, Form(">", <<X, N(5)>>), <<Do(<<Noted(1)>>)>>,
         <<Do(<<Noted(2)>>)>>)>>, <<>>), Adds("count", X, Nil)>>}

Loops == {LoopForm(h \o t) : h \in Heads, t \in Tails}
         \cup {Form("let*", <<Bs(<<<<X, N(0)>>>>),
                              Form("loop", <<Form("setq", <<X, Form("1+", <<X>>)>>),
                                             Form("when", <<Is2, Form("return", <<NoteOf(X)>>)>>)>>)>>)}

MacroFormCases ==
  PlaceForms \cup Recursive \cup {f \in CallForms \cup Destructuring : Fits(f)} \cup CaseForms
  \cup Repetitions \cup ValueForms \cup Restarts \cup OtherForms \cup Loops

----------------------------------------
(* Macros computed at expansion time: patterns, and what a body may do with  *)
(* (x y) = (1 (2 3)).                                                        *)

F == S("f")
G == S("g")
Data(ns) == L([i \in DOMAIN ns |-> N(ns[i])])
Fun(x) == Form("function", <<x>>)

Patterns ==
    {L(<<X>>), L(<<X, S("&rest"), Y>>), L(<<X, S("&body"), Y>>),
     L(<<X, Opt, L(<<Y, Form("list", <<X, N(7)>>)>>)>>),
     L(<<X, S("&key"), L(<<Y, X, Z>>)>>), L(<<L(<<X, Opt, Y>>)>>),
     L(<<L(<<X, S("&rest"), Y>>), Opt, Z>>), L(<<Opt, X, L(<<Y, N(3), Z>>)>>)}

PatternArguments == {<<N(1)>>, <<N(1), N(2)>>, <<N(1), Key("y"), N(2)>>, <<Data(<<1, 2>>)>>,
                           <<Data(<<1>>), N(4)>>}

PatternBodies == {<<Form("list", <<X, X>>)>>, <<Form("cons", <<X, Y>>)>>,
                        <<Form("list", <<X, Y>>)>>, <<Form("list", <<X, Y, Z>>)>>}

Inc(v) == Form("1+", <<v>>)
SetX(v) == Form("setq", <<X, v>>)

MacroBodies == {
  <<Local("let", <<<<X, N(5)>>, <<Z, X>>>>, <<Form("list", <<X, Z>>)>>)>>,
  <<Local("let*", <<<<X, N(5)>>, <<Z, X>>>>, <<Form("list", <<X, Z>>)>>)>>,
  <<Local("let", <<<<Z, N(5)>>>>, <<Form("setq", <<Z, Inc(Z)>>), Form("list", <<Z, X>>)>>)>>,
  <<SetX(Inc(X)), X>>,
  <<Form("setq", <<X, N(4), Z, Inc(X)>>), Form("list", <<X>>)>>,
  <<Local("flet", <<<<F, L(<<Z>>), Form("list", <<Z, X>>)>>>>,
          <<Local("let", <<<<X, N(9)>>>>, <<Form("f", <<X>>)>>)>>)>>,
  <<Local("flet", <<<<F, L(<<Z>>), Inc(Z)>>>>,
          <<Local("flet", <<<<F, L(<<Z>>), Form("f", <<Form("f", <<Z>>)>>)>>>>,
                  <<Form("f", <<X>>)>>)>>)>>,
  <<Local("labels", <<<<F, L(<<Z>>),
      Form("if", <<Form("=", <<Z, N(0)>>), N(0),
                   Form("+", <<Z, Form("f", <<Form("1-", <<Z>>)>>)>>)>>)>>>>,
                   <<Form("f", <<N(3)>>)>>)>>,
  <<Local("labels", <<<<F, L(<<Z>>),
      Form("if", <<Form("=", <<Z, N(0)>>), Quote(S("even")), Form("g", <<Form("1-", <<Z>>)>>)>>)>>,
                      <<G, L(<<Z>>), Form("if",
                                          <<Form("=", <<Z, N(0)>>), Quote(S("odd")),
                                            Form("f", <<Form("1-", <<Z>>)>>)>>)>>>>,
                                            <<Form("f", <<N(3)>>)>>)>>,
  <<Form("block", <<S("b"), Form("return-from", <<S("b"), Form("list", <<X>>)>>), N(9)>>)>>,
  <<Form("block", <<S("b"),
                    Form("mapcar", <<LambdaForm(L(<<Z>>), <<Form("return-from", <<S("b"), Z>>)>>), Y>>),
                    N(9)>>)>>,
  <<Form("list", <<N(0),
                   Form("block", <<S("b"), Form("when", <<X, Form("return-from", <<S("b"), N(8)>>)>>),
                                   N(9)>>)>>)>>,
  <<Form("mapcar", <<LambdaForm(L(<<Z>>), <<Form("+", <<Z, X>>)>>), Y>>)>>,
  <<Form("mapcar", <<Fun(S("1+")), Y>>)>>,
  <<Local("flet", <<<<F, L(<<Z>>), Form("list", <<Z, X>>)>>>>, <<Form("mapcar", <<Fun(F), Y>>)>>)>>,
  <<Form("funcall", <<LambdaForm(L(<<Z, Opt, L(<<S("w"), Inc(Z)>>)>>), <<Form("list", <<Z, S("w")>>)>>),
                      X>>)>>,
  <<Form("apply", <<Fun(S("list")), X, Y>>)>>,
  <<Form("twice", <<X>>)>>, <<Form("mapcar", <<Fun(S("twice")), Y>>)>>, <<Form("leave", <<X>>)>>,
  <<Form("cond", <<L(<<Form("null", <<X>>), N(1)>>), L(<<Form("consp", <<Y>>)>>),
                   L(<<True, N(3)>>)>>)>>,
  <<Form("cond", <<L(<<Nil, N(1)>>), L(<<Form("setq", <<X, N(6)>>), X, Form("list", <<X>>)>>)>>)>>,
  <<Form("and", <<X, SetX(N(4)), Nil, SetX(N(5))>>), X>>,
  <<Form("or", <<Nil, SetX(N(4)), SetX(N(5))>>), X>>,
  <<Form("prog1", <<X, SetX(N(4))>>)>>, <<Form("prog2", <<N(0), X, SetX(N(4))>>)>>,
  <<Form("list", <<Form("prog1", <<X, SetX(N(4))>>), X>>)>>,
  <<Form("when", <<Form("=", <<X, N(1)>>), SetX(N(2)), X>>)>>,
  <<Form("unless", <<Form("=", <<X, N(1)>>), X>>)>>,
  <<Form("destructuring-bind", <<L(<<Z, S("&rest"), S("w")>>), Y, Form("list", <<S("w"), Z, X>>)>>)>>,
  <<Form("case", <<X, L(<<N(1), Quote(S("one"))>>), L(<<S("otherwise"), N(2)>>)>>)>>,
  <<Form("incf", <<X>>), X>>, <<Form("setf", <<X, N(3)>>), X>>,
  <<Form("list*", <<X, Y>>)>>, <<Form("append", <<Y, Y>>)>>, <<Form("nth", <<N(1), Y>>)>>,
  <<Form("cadr", <<Y>>)>>, <<Form("reverse", <<Y>>)>>,
  <<Form("length", <<Y>>)>>, <<Form("atom", <<Y>>)>>, <<Form("cdr", <<Form("cons", <<X, X>>)>>)>>,
  <<Form("eql", <<X, N(1)>>)>>, <<Form("-", <<N(9), X>>)>>, <<Form("symbolp", <<Quote(S("a"))>>)>>,
  <<Form("list", <<Quote(S("if")), X, Form("cons", <<Quote(S("progn")), Y>>)>>)>> }

\* The arguments a pattern stands for are a list, a call means something.
Sensible(p) == (IsList(p.params.list[1]) => IsList(p.args[1])) /\ AsFunction(p).kind = "value"

Functions == <<<<S("twice"), L(<<Z, Opt, L(<<S("w"), Z>>)>>), Form("+", <<Z, S("w")>>)>>,
               <<S("leave"), L(<<Z>>), Form("return-from", <<S("leave"), Form("list", <<Z>>)>>),
                 N(9)>>>>
MacroProgram(params, body, args) == [functions |-> Functions, params |-> params, body |-> body,
                                           args |-> args]

MacroProgramCases == {p \in {MacroProgram(ll, b, a) : ll \in Patterns, b \in PatternBodies,
                             a \in PatternArguments} : Sensible(p)}
     \cup {MacroProgram(L(<<X, Y>>), b, <<N(1), Data(<<2, 3>>)>>) : b \in MacroBodies}

----------------------------------------
(* What the reader and the library get: forms that hold every kind of      *)
(* token, the styles a program may write them in (with reader macros it    *)
(* defines itself), templates with unquotes at every place, and calls of   *)
(* the library on lists, vectors and texts that share their elements.      *)

SymA == Sym(<<"A">>)
SymB == Sym(<<"B">>)
SymAb == Sym(<<"A", "B">>)
KeyA == Sym(<<":", "A">>)
SharpQuote(name) == Made("FUNCTION", <<Sym(<<name>>)>>)
QuoteOf(x) == Made("QUOTE", <<x>>)

(* The letters and words of the texts below that change with the case, and   *)
(* the codes of the characters in them.                                      *)
UppercaseOf ==
  ("a" :> "A") @@ ("b" :> "B") @@ ("x" :> "X") @@ ("quote" :> "QUOTE") @@ ("function" :> "FUNCTION")
  @@ ("vector" :> "VECTOR") @@ ("nil" :> "NIL") @@ ("t" :> "T") @@ ("space" :> "SPACE")
  @@ ("code-char" :> "CODE-CHAR") @@ ("not" :> "NOT") @@ ("cons" :> "CONS") @@ ("defun" :> "DEFUN")
  @@ ("set-macro-character" :> "SET-MACRO-CHARACTER") @@ ("get-macro-character" :> "GET-MACRO-CHARACTER")
  @@ ("set-dispatch-macro-character" :> "SET-DISPATCH-MACRO-CHARACTER")
  @@ ("read-list" :> "READ-LIST") @@ ("read-not" :> "READ-NOT") @@ ("read-pair" :> "READ-PAIR")
  @@ ("read-times" :> "READ-TIMES") @@ ("skip-form" :> "SKIP-FORM") @@ ("unquote" :> "UNQUOTE")
CodeOf ==
  ("a" :> 97) @@ ("b" :> 98) @@ ("A" :> 65) @@ ("space" :> 32) @@ ("Space" :> 32) @@ (" " :> 32)
  @@ ("\n" :> 10) @@ ("Newline" :> 10) @@ ("~" :> 126) @@ ("[" :> 91) @@ ("]" :> 93) @@ ("{" :> 123)
  @@ ("}" :> 125) @@ ("!" :> 33) @@ ("?" :> 63) @@ (";" :> 59) @@ ("#" :> 35) @@ (")" :> 41)

Character(c) == Made("CODE-CHAR", <<Num(CodeOf[c])>>)

----------------------------------------
(* Reader macros a program defines: a vector in brackets, a prefix, a pair   *)
(* with a separator, an infix number and a comment of one form.              *)

Step(op) == [op |-> op]
StepAt(op, c) == [op |-> op, char |-> c]
SomeReaderFunctions ==
  (<<"READ-LIST">> :> [steps |-> <<StepAt("until", "]")>>, gives |-> "VECTOR"])
  @@ (<<"READ-NOT">> :> [steps |-> <<Step("form")>>, gives |-> "NOT"])
  @@ (<<"READ-PAIR">> :>
        [steps |-> <<Step("form"), StepAt("accept", ":"), Step("look"), Step("form"), StepAt("accept", "}")>>,
         gives |-> "CONS"])
  @@ (<<"READ-TIMES">> :> [steps |-> <<Step("infix"), Step("form")>>, gives |-> "*"])
  @@ (<<"SKIP-FORM">> :> [steps |-> <<Step("form")>>, gives |-> ""])

Closes(c) ==
  Made("SET-MACRO-CHARACTER", <<Character(c), Made("GET-MACRO-CHARACTER", <<Character(")")>>)>>)
Dispatches(c, reader) ==
  Made("SET-DISPATCH-MACRO-CHARACTER", <<Character("#"), Character(c), SharpQuote(reader)>>)
SomePreamble ==
  <<Made("DEFUN", <<Sym(<<"READ-LIST">>), SymA>>), Made("DEFUN", <<Sym(<<"READ-NOT">>)>>),
    Made("DEFUN", <<Sym(<<"READ-PAIR">>)>>), Made("DEFUN", <<Sym(<<"READ-TIMES">>)>>),
    Made("DEFUN", <<Sym(<<"SKIP-FORM">>)>>),
    Made("SET-MACRO-CHARACTER", <<Character("["), SharpQuote("READ-LIST")>>),
    Made("SET-MACRO-CHARACTER", <<Character("!"), SharpQuote("READ-NOT"), Sym(<<"T">>)>>),
    Closes("]"), Closes("}"),
    Made("SET-MACRO-CHARACTER", <<Character("{"), SharpQuote("READ-PAIR")>>),
    Dispatches("?", "READ-TIMES"), Dispatches(";", "SKIP-FORM")>>

----------------------------------------
(* Forms, the ways to write one, and templates.                              *)

Atoms ==
  {SymA, SymAb, KeyA, Sym(<<"+">>), Sym(<<"A", "!", "B">>), NilForm, Num(0), Num(-12), Num(5), Text(<<>>),
   Text(<<"a", "\"", "b">>), Text(<<"\\", ";", "\n", "(">>), Character("a"), Character("space")}
Pairs ==
  {Listed(<<x, y>>) : x \in Atoms, y \in {Num(-12), Text(<<"\"">>)}}
  \cup {Dotted(<<x>>, <<y>>) : x \in {SymA, Num(5)}, y \in {SymB, Text(<<".">>)}}
Nested ==
  {QuoteOf(x) : x \in Atoms} \cup {QuoteOf(QuoteOf(SymA)), SharpQuote("A")}
  \cup {Made("VECTOR", <<QuoteOf(x), QuoteOf(y)>>) :
          x \in {SymA, Listed(<<SymA, SymB>>)}, y \in {KeyA, NilForm, Character("a")}}
  \cup {Listed(<<Made("NOT", <<x>>), Made("CONS", <<KeyA, x>>), Made("*", <<Num(2), x>>),
                 Made("*", <<Num(15), SymA>>), SymB>>) :
          x \in {Num(5), Made("NOT", <<SymB>>), Made("VECTOR", <<QuoteOf(SymA)>>)}}
SomeReadable == Atoms \cup Pairs \cup Nested

Gaps ==
  {<<" ">>, <<"\n", ";", "a", "(", "\n">>, <<" ", "#", "|", "#", "|", ")", "|", "#", "\"", "|", "#", " ">>}
SomeStyles ==
  {[symbols |-> y, short |-> s, binary |-> s, custom |-> FALSE, gap |-> g, before |-> g] :
     y \in {"plain", "pipes"}, s \in BOOLEAN, g \in Gaps}
  \cup {[Plain EXCEPT !.symbols = y] : y \in {"slashes", "uninterned"}}
  \cup {[Plain EXCEPT !.custom = TRUE, !.short = TRUE, !.before = g] :
          g \in {<<" ", "#", ";", "(", "a", ")", " ">>,
                 <<" ", "#", ";", "{", "a", " ", ":", "b", "}", " ">>}}

Unquoted(x) == [unquote |-> x]
Spliced(x) == [splice |-> x]
TemplateItems ==
  {SymA, Num(1), Unquoted(SymA), Spliced(SymB), Unquoted(QuoteOf(SymB)), Listed(<<SymA, Unquoted(SymB)>>),
   Listed(<<Spliced(SymA)>>), Dotted(<<SymA>>, <<Unquoted(SymB)>>), Dotted(<<Spliced(SymA), SymB>>, <<SymA>>)}
SomeTemplates ==
  {Listed(<<x, y>>) : x, y \in TemplateItems}
  \cup {Dotted(<<x, SymA>>, <<Unquoted(SymA)>>) : x \in TemplateItems}
  \cup {SymA, Unquoted(SymB), NilForm}

----------------------------------------
(* Calls of the library.                                                     *)

CharForm(code) == Made("CODE-CHAR", <<Num(code)>>)
VectorOf(s) == Made("VECTOR", [i \in DOMAIN s |-> QuoteOf(s[i])])
NamedFn(name) == [fn |-> name]
CallOf(fn, args) == [fn |-> fn, args |-> args]

SomeElements == {SymA, NilForm, Num(-12), Listed(<<SymA, Num(1)>>), Text(<<"a">>)}
LibAtoms ==
  {SymA, KeyA, NilForm, LispT, Num(0), Num(-12), Num(105), Text(<<>>), Text(<<"a", " ", "b">>),
   CharForm(97), CharForm(32)}
SomeLists ==
  {Listed(<<>>)} \cup {Listed(<<x>>) : x \in SomeElements} \cup {Listed(<<x, y>>) : x, y \in SomeElements}
  \cup {Listed(<<x, SymA, x>>) : x \in SomeElements}
Vectors ==
  {VectorOf(<<>>), VectorOf(<<SymA, KeyA>>), VectorOf(<<Num(1), VectorOf(<<SymA>>), NilForm>>)}
SomeTexts == {Text(<<>>), Text(<<"a", "b", "A">>)}
SomeSequences == SomeLists \cup Vectors \cup SomeTexts
Indices(s) == 0..Len(LibItems(s)) - 1
Integers3 == {Listed(<<>>), Listed(<<Num(3)>>), Listed(<<Num(3), Num(-4), Num(3)>>)}
Printable ==
  LibAtoms \cup SomeLists \cup Vectors
  \cup {Dotted(<<SymA>>, <<KeyA>>), Dotted(<<VectorOf(<<CharForm(10)>>), Num(0)>>, <<Text(<<"b">>)>>)}
Controls ==
  {<<>>, <<"a", "~", "a">>, <<"~", "s", "~", "%", "~", "~", "a">>, <<"~", "d", " ", "~", "s">>}

SequenceCalls ==
  {CallOf("length", <<s>>) : s \in SomeSequences}
  \cup {CallOf("append", <<l, r>>) : l \in SomeLists, r \in SomeLists \cup {SymA}}
  \cup {CallOf("reverse", <<l>>) : l \in SomeLists}
  \cup {CallOf("mapcar", <<NamedFn("1+"), l>>) : l \in Integers3}
  \cup {CallOf("mapcar", <<NamedFn("car"), Listed(<<Listed(<<SymA>>), NilForm>>)>>)}
  \cup {CallOf("elt", <<s, Num(i)>>) : s \in SomeLists, i \in 0..4}
  \cup UNION {{CallOf("elt", <<s, Num(i)>>) : i \in Indices(s)} : s \in Vectors \cup SomeTexts}
  \cup UNION {{CallOf("set-elt", <<s, Num(i), KeyA>>) : i \in Indices(s)} : s \in SomeLists \cup Vectors}
  \cup UNION {{CallOf("subseq", <<s, Num(i), e>>) : e \in {Num(j) : j \in i..Len(LibItems(s))} \cup {NilForm}} :
                s \in SomeSequences \ {Listed(<<>>), VectorOf(<<>>), Text(<<>>)}, i \in {0, 1}}
SearchCalls ==
  {CallOf(f, <<x, l>>) : f \in {"member", "assoc"}, x \in SomeElements, l \in SomeLists}
  \cup {CallOf(f, <<NamedFn(p), l>>) :
          f \in {"remove-if", "remove-if-not", "every", "some"}, p \in {"consp", "null"}, l \in SomeLists}
  \cup {CallOf("reduce", <<NamedFn("+"), l, Num(2)>>) : l \in Integers3}
  \cup {CallOf("reduce", <<NamedFn("cons"), l, NilForm>>) : l \in SomeLists}
  \cup {CallOf("equal", <<x, y>>) : x \in LibAtoms \cup SomeLists, y \in SomeElements \cup SomeLists}
  \cup {CallOf("equal", <<x, x>>) : x \in Printable}
  \cup {CallOf("getf", <<Listed(<<x, y, z, SymA>>), x, KeyA>>) :
          x, y, z \in SomeElements \ {Listed(<<SymA, Num(1)>>)}}
  \cup {CallOf("getf", <<l, KeyA, KeyA>>) : l \in {Listed(<<SymA, KeyA>>), NilForm}}
OtherCalls ==
  {CallOf(f, <<Num(n), Num(d)>>) : f \in {"floor", "mod"}, n \in -7..7, d \in {-3, -1, 2, 3}}
  \cup {CallOf("typep", <<x>>) : x \in Printable \ {LispT}}
  \cup {CallOf("format", <<Text(c), l>>) : c \in Controls, l \in SomeLists}
  \cup {CallOf("stream", <<Text(c), l, Text(<<"b">>)>>) : c \in Controls, l \in SomeLists}
  \cup {CallOf("print", <<x>>) : x \in Printable}

SomeLibraryCalls == SequenceCalls \cup SearchCalls \cup OtherCalls

----------------------------------------
(* A form, a macro, a text, a call or a tree is all there is to its part.  *)
caseVars == <<tree, form, macro, reading, libraryCase>>

LanguagesInit ==
  /\ part \in Parts
  /\ LispClassesInit
  /\ LispProgramInit
  /\ SystemsInit
  /\ IF part = "order" THEN SystemCasesInit ELSE tree = "none"
  /\ IF part = "macros" THEN MacrosInit ELSE form = "none"
  /\ IF part = "macro time" THEN MacroTimeInit ELSE macro = "none"
  /\ CASE part = "library" -> LibraryInit
       [] part = "reader" -> ReaderInit /\ libraryCase = "none"
       [] OTHER -> reading = "none" /\ libraryCase = "none"

LanguagesNext ==
  /\ UNCHANGED <<part, caseVars>>
  /\ \/ part = "classes" /\ LispClassesNext /\ UNCHANGED <<lispProgramVars, systemVars>>
     \/ part = "program" /\ LispProgramNext /\ UNCHANGED <<lispClassVars, systemVars>>
     \/ part = "systems" /\ SystemsNext /\ UNCHANGED <<lispClassVars, lispProgramVars>>

LanguagesSpec ==
  LanguagesInit
  /\ [][LanguagesNext]_<<part, caseVars, lispClassVars, lispProgramVars, systemVars>>

----------------------------------------
(* The variables of the part that runs have their types.                   *)
LanguagesTypeOK ==
  /\ part = "classes" => LispClassesTypeOK
  /\ part = "program" => LispProgramTypeOK
  /\ part = "systems" => SystemsTypeOK

(* What a program defines is there for its callers: methods run from the   *)
(* narrowest class up and an object stores a slot once, a name the         *)
(* namespace maps has its binding, and without another installer the       *)
(* method defined last takes effect; a system's artifact is found with all *)
(* it needs, loaded in the order it asks for                               *)
(* (common-lisp.js DEFCLASS, DEFGENERIC and DEFSYSTEM,                     *)
(* smalltalk-globals.js).                                                  *)
DefinitionsTakeEffect ==
  /\ part = "classes" => NarrowerMethodsRunFirst /\ SlotsAreStoredOnce
  /\ part = "program" => NamesHaveBindings /\ QuietMethodsTakeEffect
  /\ part = "systems" => ClosuresAreComplete
  /\ part = "order" => LoadOrderMeetsTheSystem

(* A form means the same after its macros are expanded, printed and read,  *)
(* and a library function computes what it is for (common-lisp.js reader,  *)
(* macro expander, printer and STANDARD_LIBRARY_SOURCE).                   *)
FormsMeanTheSame ==
  /\ part = "macros" => ExpandedFormsMeanTheSame
  /\ part = "macro time" => MacrosComputeAsFunctions
  /\ part = "reader" => PrintedFormsReadBack /\ TextsMeanTheirForms /\ TemplatesAreFilled
  /\ part = "library" => LibraryMeansSequences /\ PrintedValuesReadBack
========================================
