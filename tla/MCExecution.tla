----------------------------- MODULE MCExecution -----------------------------
(***************************************************************************)
(* What an activation runs on, each on its own: resumable WASM code,       *)
(* dictionaries, compiled Common Lisp control forms and compiled Smalltalk *)
(* methods.  One of the parts runs, the others rest where they began.      *)
(*                                                                         *)
(* Two clients of a dictionary whose keys collide, convert and answer      *)
(* wrong hashes; programs built of two or three nested forms, each form of *)
(* the language around each leaf.                                          *)
(***************************************************************************)
EXTENDS ResumableCode, Dictionaries, LispControl, SmalltalkMethods

CONSTANTS Parts, v, w

VARIABLE part

executionVars == <<part, codeVars, dictionaryVars, lispForm, methodProgram>>

----------------------------------------
(* Dictionaries.                                                           *)
IntegerKey(number) == [kind |-> "integer", number |-> number]
FloatKey(number) == [kind |-> "float64", nan |-> FALSE, twice |-> number, bits |-> number]
NaNKey == [kind |-> "float64", nan |-> TRUE, twice |-> 0, bits |-> 7]
TrueKey == [kind |-> "ref", object |-> "true"]
OwnKey(hash, means) == [kind |-> "own", hash |-> hash, means |-> means]

CollidingKeys ==
  {IntegerKey(1), FloatKey(2), TrueKey, OwnKey(-1, "x"), OwnKey(Unanswered, "y"), NaNKey}
StoredAlready == {<<TrueKey, NaNKey>>}

FormHash(normal) ==
  CASE normal[1] = "integer" -> normal[2] * 4
    [] normal[1] \in {"nan", "boolean"} -> 3
    [] OTHER -> 5

----------------------------------------
(* Bodies for the resumable backends: every operation over simple bodies,  *)
(* and every operation over those.                                         *)
FiveBody == [op |-> "literal", value |-> 5]
ArgumentBody == [op |-> "argument"]
CellBody == [op |-> "cell", id |-> "x"]
WriteBody(e) == [op |-> "write", id |-> "x", value |-> e]
EffectBody(es) == [op |-> "effect", operands |-> es]
PairBody(op, l, r) == [op |-> op, left |-> l, right |-> r]
IfBody(c, t, e) == [op |-> "if", condition |-> c, then |-> t, else |-> e]

Over(E, F) ==
  {WriteBody(e) : e \in E} \cup {EffectBody(<<e>>) : e \in E} \cup {EffectBody(<< >>)}
  \cup {EffectBody(<<e, f>>) : e \in E, f \in F}
  \cup {PairBody("integer-add", e, f) : e \in E, f \in F}
  \cup {[op |-> "sequence", first |-> e, second |-> f] : e \in E, f \in F}

LeafBodies == {FiveBody, ArgumentBody, CellBody}
OtherBodies == {[op |-> "receiver"], [op |-> "capture"]}
SimpleBodies == LeafBodies \cup {WriteBody(FiveBody), EffectBody(<<CellBody>>), EffectBody(<< >>)}
TestBodies ==
  {PairBody("equals", e, f) : e \in {CellBody, EffectBody(<<CellBody>>)}, f \in {FiveBody, CellBody}}
Branching ==
  {IfBody(c, t, e) : c \in TestBodies, t \in SimpleBodies, e \in {CellBody, EffectBody(<<ArgumentBody>>)}}
Bodies ==
  LET one == Over(SimpleBodies, SimpleBodies) \cup Branching
  IN  LeafBodies \cup OtherBodies \cup one
        \cup Over(one, {CellBody, EffectBody(<< >>)} \cup OtherBodies)
        \cup Over(SimpleBodies, one)

----------------------------------------
(* Common Lisp: each control form around each form that leaves, assigns or *)
(* signals, twice over, called from a function that rebinds a special.     *)
IntF(value) == [k |-> "int", v |-> value]
NoteF(f) == [k |-> "note", e |-> f]
FuncallF(f, args) == [k |-> "funcall", f |-> f, args |-> args]
LetF(x, e, lets) == [k |-> "let", bs |-> <<[x |-> x, e |-> e]>>, body |-> lets]
UseF(value) == Lambda(<<"c">>, [k |-> "usevalue", c |-> Var("c"), e |-> IntF(value)])
ReturnF(value) == [k |-> "return", b |-> "b", e |-> value]
IfF(c, t, e) == [k |-> "if", c |-> c, a |-> t, b |-> e]
IncrementF(x) == Setq(x, [k |-> "add", a |-> Var(x), b |-> IntF(1)])

LeafForms ==
  {Var("x"), Var("s"), ReturnF(Var("x")), Setq("x", IntF(2)), Setq("s", IntF(3)),
   [k |-> "error", type |-> "e1"], [k |-> "error", type |-> "e2"],
   [k |-> "call", g |-> "f", args |-> <<Lambda(<<>>, IncrementF("x"))>>],
   [k |-> "call", g |-> "f", args |-> <<Lambda(<<>>, ReturnF(IntF(7)))>>]}

Wrapping(h) ==
  {NoteF(h),
   LetF("x", h, NoteF(Var("x"))),
   LetF("s", IntF(5), Progn(<<h, NoteF(Var("s"))>>)),
   [k |-> "let*", bs |-> <<[x |-> "s", e |-> Var("x")], [x |-> "y", e |-> h]>>, body |-> NoteF(Var("y"))],
   [k |-> "block", b |-> "b", body |-> h],
   [k |-> "protect", e |-> h, cleanup |-> NoteF(Setq("x", IntF(8)))],
   [k |-> "case", e |-> h, clauses |-> <<[type |-> "e1", x |-> "c", body |-> NoteF(IntF(9))]>>],
   [k |-> "bind", hs |-> <<[type |-> "e1", f |-> UseF(10)]>>, body |-> h],
   [k |-> "bind", hs |-> <<[type |-> "error", f |-> Lambda(<<"c">>, ReturnF(Var("x")))]>>, body |-> h],
   [k |-> "ignore", body |-> h],
   FuncallF(Lambda(<<"x">>, Progn(<<IncrementF("x"), h>>)), <<IntF(20)>>),
   [k |-> "flet", defs |-> <<[x |-> "g", ps |-> <<"y">>, body |-> h]>>,
    body |-> [k |-> "call", g |-> "g", args |-> <<IntF(1)>>]],
   [k |-> "labels",
    defs |-> <<[x |-> "g", ps |-> <<"y">>,
                body |-> IfF(Var("y"), [k |-> "call", g |-> "g", args |-> <<NilForm>>], h)]>>,
    body |-> [k |-> "call", g |-> "g", args |-> <<IntF(1)>>]],
   [k |-> "or", s |-> <<h, NoteF(IntF(11))>>],
   IfF([k |-> "not", e |-> h], NoteF(IntF(12)), NilForm),
   IfF([k |-> "and", s |-> <<h, IfF(Var("x"), [k |-> "t"], NilForm)>>], NoteF(IntF(13)), NilForm),
   [k |-> "prog1", s |-> <<h, NoteF(Var("x"))>>],
   [k |-> "cond", cs |-> <<[t |-> [k |-> "eq", a |-> h, b |-> IntF(1)], s |-> <<NoteF(IntF(14))>>],
                           [t |-> h, s |-> <<>>], [t |-> [k |-> "t"], s |-> <<NoteF(IntF(15))>>]>>]}

RebindingCaller ==
  [ps |-> <<"k">>,
   body |-> Progn(<<FuncallF(Var("k"), <<>>),
                    [k |-> "return", b |-> "f",
                     e |-> NoteF(LetF("s", IntF(6), FuncallF(Var("k"), <<>>)))]>>)]

WholeProgram(h) ==
  [main |-> LetF("x", IntF(1),
                 Progn(<<NoteF([k |-> "block", b |-> "b", body |-> h]), NoteF(Var("x")), NoteF(Var("s"))>>)),
   defs |-> ("f" :> RebindingCaller)]

Wrapped(S) == UNION {Wrapping(h) : h \in S}
NestedPrograms == {WholeProgram(h) : h \in Wrapped(Wrapped(LeafForms))}

----------------------------------------
(* Smalltalk: each construct that the compiler inlines, captures or passes *)
(* on around each leaf, in the middle class of three.                      *)
IntN(n) == Literal(SmallInt(n))
Unary(to, sel) == Send(to, sel, <<>>)
Keyed(to, sel, argument) == Send(to, sel, <<argument>>)
NoteN(e) == Keyed(SelfName, "note:", e)
BlockN(statements) == BlockOf(<<>>, <<>>, statements)
BlockWith(x, statements) == BlockOf(<<x>>, <<>>, statements)

LeafNodes ==
  {Name("p"), Name("t"), Name("x"), Name("V"), Name("o"), Literal(NilObject), Return(Name("t")),
   Assign("t", Name("p")), Assign("x", IntN(3)), Assign("V", Name("x")), Super("m:", <<Name("t")>>),
   Unary(SelfName, "k"), Keyed(SelfName, "do:", BlockN(<<Return(Name("x"))>>)),
   Unary(Unary(SelfName, "make"), "value"),
   Keyed(SelfName, "do:", BlockN(<<Assign("t", Keyed(Name("t"), "+", IntN(1)))>>))}
DeepLeaves == {Return(Name("t")), Assign("t", Name("p")), Literal(NilObject), Name("x")}

Around(h) ==
  {NoteN(h), Return(h),
   Unary(BlockN(<<h>>), "value"),
   Keyed(BlockWith("t", <<h>>), "value:", IntN(7)),
   Keyed(BlockWith("x", <<h>>), "value:", IntN(8)),
   Unary(BlockOf(<<>>, <<"x">>, <<Assign("x", IntN(9)), h>>), "value"),
   Keyed(BlockN(<<h>>), "ensure:", BlockN(<<NoteN(Name("t"))>>)),
   Keyed(BlockN(<<Return(IntN(2))>>), "ensure:", BlockN(<<h>>)),
   Keyed(BlockN(<<h>>), "ifCurtailed:", BlockN(<<NoteN(Name("x"))>>)),
   Unary(Assign("t", BlockN(<<h>>)), "value"),
   Keyed(SelfName, "do:", BlockN(<<h>>)),
   Keyed(Send(Literal(Bool(TRUE)), "and:", <<BlockN(<<Keyed(IntN(1), "<", IntN(2))>>)>>),
         "ifTrue:", BlockN(<<h>>)),
   Send(Keyed(Name("p"), "<", IntN(3)), "ifTrue:ifFalse:", <<BlockN(<<IntN(1)>>), BlockN(<<h, IntN(2)>>)>>),
   Keyed(h, "ifNil:", BlockN(<<IntN(4)>>)),
   Keyed(h, "ifNotNil:", BlockWith("p", <<NoteN(Name("p"))>>)),
   Keyed(h, "ifNotNil:", BlockN(<<IntN(6)>>)),
   Keyed(BlockN(<<Keyed(Name("c"), "<", IntN(2))>>), "whileTrue:",
         BlockN(<<Assign("c", Keyed(Name("c"), "+", IntN(1))), h>>)),
   Cascade(SelfName, <<[selector |-> "note:", args |-> <<h>>], [selector |-> "note:", args |-> <<Name("t")>>]>>),
   Cascade(h, <<[selector |-> "+", args |-> <<IntN(1)>>], [selector |-> "+", args |-> <<NoteN(IntN(5))>>]>>)}

AllAround(S) == UNION {Around(h) : h \in S}

ThreeClasses(h) ==
  [message |-> "m:", objects |-> [o |-> "C", q |-> "A"],
   classes |->
    [A |-> [super |-> "Object", slots |-> {"x"}, vars |-> {"V"},
            methods |->
              "m:" :> SourceMethod(<<"p">>, <<>>, <<Return(Keyed(Unary(SelfName, "k"), "+", Name("p")))>>)
              @@ "k" :> SourceMethod(<<>>, <<>>, <<NoteN(Assign("V", IntN(1))), IntN(40)>>)
              @@ "do:" :> SourceMethod(<<"b">>, <<"x">>,
                            <<Assign("x", IntN(30)), Unary(Name("b"), "value"), Return(IntN(31))>>)
              @@ "make" :> SourceMethod(<<>>, <<>>, <<Return(BlockN(<<Return(IntN(1))>>))>>)],
     B |-> [super |-> "A", slots |-> {}, vars |-> {"W"},
            methods |->
              "m:" :> SourceMethod(<<"p">>, <<"t", "c">>,
                        <<Assign("c", IntN(0)), Assign("t", IntN(6)), h, NoteN(Name("t"))>>)
              @@ (IF Assigns(h, {"p", "t", "c"}) THEN NoValues
                  ELSE "s" :> SourceMethod(<<"p", "t", "c">>, <<>>, <<h>>))],
     C |-> [super |-> "B", slots |-> {"y"}, vars |-> {},
            methods |->
              "k" :> SourceMethod(<<>>, <<>>, <<Return(Super("k", <<>>))>>)
              @@ "m:" :> SourceMethod(<<"p">>, <<>>, <<Assign("y", IntN(2)), Super("m:", <<Name("p")>>)>>)]]]

ClassPrograms ==
  {ThreeClasses(h) : h \in LeafNodes \cup AllAround(LeafNodes) \cup AllAround(AllAround(DeepLeaves))}

----------------------------------------
NoProgram == "none"

ExecutionInit ==
  /\ part \in Parts
  /\ DictionaryInit /\ (part = "dictionary" \/ dictionary = Begun(<<TrueKey, NaNKey>>, v))
  /\ IF part = "code" THEN CodeInit
     ELSE body = ArgumentBody /\ lane = "simple" /\ activation = AtEntry
  /\ IF part = "lisp" THEN ControlInit ELSE lispForm = NoProgram
  /\ IF part = "smalltalk" THEN MethodsInit ELSE methodProgram = NoProgram

ExecutionNext ==
  /\ UNCHANGED part
  /\ \/ part = "code" /\ CodeNext /\ UNCHANGED <<dictionaryVars, lispForm, methodProgram>>
     \/ part = "dictionary" /\ DictionaryNext /\ UNCHANGED <<codeVars, lispForm, methodProgram>>
     \/ part = "lisp" /\ ControlNext /\ UNCHANGED <<codeVars, dictionaryVars, methodProgram>>
     \/ part = "smalltalk" /\ MethodsNext /\ UNCHANGED <<codeVars, dictionaryVars, lispForm>>

ExecutionSpec == ExecutionInit /\ [][ExecutionNext]_executionVars

----------------------------------------
(* The variables of the part that runs have their types.                   *)
ExecutionTypeOK ==
  /\ part = "code" => CodeTypeOK
  /\ part = "dictionary" => DictionaryTypeOK

(* However a program is compiled, it does what its source says: resumable  *)
(* code what its body means to the interpreter, a Lisp form what the form  *)
(* means, a Smalltalk method what the method says, in a representation     *)
(* whose grammar has what the method needs (resumable-compiler.js,         *)
(* common-lisp.js, symmetric-smalltalk-semantic.js).                       *)
CompiledProgramsMeanTheSame ==
  /\ part = "code" => CompiledCodeMeansTheSame
  /\ part = "lisp" => CompiledFormsMeanTheSame
  /\ part = "smalltalk" => CompiledMethodsSayTheSame /\ RepresentationFits

(* Every stored key is found where its hash puts it, the hash table of     *)
(* either language reads the same entries, and a call answers what the     *)
(* dictionary held at some moment of it, whatever calls raced              *)
(* (smalltalk-dictionary-table.js, smalltalk-primitives-dictionary.js).    *)
DictionaryIsSound == part = "dictionary" => DictionariesAreSound
========================================
