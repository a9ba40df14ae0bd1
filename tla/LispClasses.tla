---------------------------- MODULE LispClasses ----------------------------
(***************************************************************************)
(* Common Lisp classes and generic functions in an image                  *)
(* (language/common-lisp.js).  A program is installed one top-level form   *)
(* at a time.  A DEFCLASS computes its precedence list and its merged      *)
(* slots from the classes it can see, makes a backing Smalltalk class and  *)
(* writes its description as JSON text; a DEFSTRUCT makes a backing class; *)
(* a DEFMETHOD only joins the generic the program is collecting.  When the *)
(* program ends, every generic it touched is written and its dispatcher    *)
(* compiled from the classes the program could see.                        *)
(*                                                                         *)
(* One generic function of fixed arity stands for all.  A name is defined  *)
(* once: redefinition of the backing class is MethodDictionary's subject.  *)
(***************************************************************************)
EXTENDS Integers, Sequences, SequencesExt, FiniteSets, FiniteSetsExt, TLC

CONSTANTS
    Declarations,   \* the DEFCLASS and DEFSTRUCT forms: [name, kind, supers, slots]
    MethodForms,    \* the DEFMETHOD forms: [qualifier, specializers]
    MaxMethods,     \* DEFMETHODs installed in all
    NIL_NODE,       \* the compiler's own object for "no initform"
    NilRead         \* the form NIL read back from JSON

VARIABLES
    savedClasses,   \* the %CLASS: records of the image
    savedMethods,   \* the %GENERIC: record: a sequence of methods
    dispatcher,     \* the compiled dispatcher of the generic
    backing,        \* the backing Smalltalk classes
    program         \* what the running installation has collected, or NoProgram

lispClassVars == <<savedClasses, savedMethods, dispatcher, backing, program>>

NoProgram == [running |-> FALSE]

Nothing == [x \in {} |-> x]

Qualifiers == {"PRIMARY", "BEFORE", "AFTER", "AROUND"}

----------------------------------------
(* DEFCLASS *)

FirstOccurrences(s) ==
    FoldLeft(LAMBDA found, x : IF Contains(found, x) THEN found ELSE Append(found, x), <<>>, s)

\* The walk below the direct superclasses is depth first, whatever is already on the list.
ClassPrecedenceList(name, supers, known) ==
    LET Walk[c \in DOMAIN known] ==
            <<c>> \o FlattenSeq([i \in DOMAIN known[c].superclasses
                                   |-> Walk[known[c].superclasses[i]]])
    IN  FirstOccurrences(<<name>> \o FlattenSeq([i \in DOMAIN supers |-> Walk[supers[i]]]))

\* A slot takes its initform from the first class of the list that states one; one that states
\* none holds NIL_NODE, and the test is for that very object.
MergedSlot(slot, cpl, locals) ==
    LET declarers == SelectSeq(cpl, LAMBDA c : slot \in DOMAIN locals[c])
        stated == SelectSeq(declarers, LAMBDA c : locals[c][slot].initform # NIL_NODE)
    IN  [initform |-> IF stated = <<>> THEN NIL_NODE ELSE locals[Head(stated)][slot].initform,
         accessors |-> UNION {locals[c][slot].accessors : c \in ToSet(declarers)}]

ParseDefclass(d, known) ==
    LET cpl == ClassPrecedenceList(d.name, d.supers, known)
        locals == [c \in ToSet(cpl) |-> IF c = d.name THEN d.slots ELSE known[c].localSlots]
    IN  [superclasses |-> d.supers, cpl |-> cpl, localSlots |-> d.slots,
         slots |-> [s \in UNION {DOMAIN locals[c] : c \in DOMAIN locals} |-> MergedSlot(s, cpl, locals)]]

\* Slots the first superclass already has live there; the others become instance variables here.
BackingLocalSlots(cls, known) ==
    DOMAIN cls.slots \ IF cls.superclasses = <<>> THEN {} ELSE DOMAIN known[Head(cls.superclasses)].slots

Parent(d) == IF d.supers = <<>> THEN "Object" ELSE Head(d.supers)

\* JSON.stringify and JSON.parse: equal text, other objects.
Reread(slots) ==
    [s \in DOMAIN slots |->
        [slots[s] EXCEPT !.initform = IF @ = NIL_NODE THEN NilRead ELSE @]]

AsSaved(cls) == [cls EXCEPT !.slots = Reread(@), !.localSlots = Reread(@)]

----------------------------------------
(* The order of methods *)

\* The built-in types; a name that is none, nor a class, is a structure's or still unknown.
BuiltInRank(name) ==
    CASE name \in {"NULL", "CONS", "KEYWORD"} -> 60
      [] name \in {"LIST", "SYMBOL", "INTEGER"} -> 50
      [] name \in {"NUMBER", "STRING", "VECTOR"} -> 45
      [] name \in {"ATOM", "STANDARD-OBJECT"} -> 20
      [] OTHER -> 40

Rank(spec, known) ==
    CASE spec.kind = "eql" -> 1000
      [] spec.kind = "type" /\ spec.name = "T" -> 0
      [] spec.kind = "type" /\ spec.name \in DOMAIN known -> 100 + Len(known[spec.name].cpl)
      [] OTHER -> BuiltInRank(spec.name)

InPrecedenceOf(c, t, known) == c \in DOMAIN known /\ Contains(known[c].cpl, t)

CompareSpecializers(a, b, known) ==
    LET types == a.kind = "type" /\ b.kind = "type" /\ a.name # b.name
    IN  CASE types /\ InPrecedenceOf(a.name, b.name, known) -> -1
          [] types /\ ~InPrecedenceOf(a.name, b.name, known)
                   /\ InPrecedenceOf(b.name, a.name, known) -> 1
          [] OTHER -> Rank(b, known) - Rank(a, known)

CompareMethods(m, n, known) ==
    LET Position(i) == CompareSpecializers(m.specializers[i], n.specializers[i], known)
        decisive == {i \in DOMAIN m.specializers : Position(i) # 0}
    IN  IF decisive = {} THEN 0 ELSE Position(Min(decisive))

\* Array.prototype.sort is stable.
StableSort(s, Compare(_, _)) ==
    LET order == SetToSortSeq(DOMAIN s,
                     LAMBDA i, j : \/ Compare(s[i], s[j]) < 0
                                   \/ Compare(s[i], s[j]) = 0 /\ i < j)
    IN  [i \in DOMAIN s |-> s[order[i]]]

BuildDispatcher(methods, known) ==
    LET Of(q) == SelectSeq(methods, LAMBDA m : m.qualifier = q)
        NarrowFirst(m, n) == CompareMethods(m, n, known)
        BroadFirst(m, n) == CompareMethods(n, m, known)
    IN  [order |-> [q \in Qualifiers |-> IF q = "AFTER" THEN StableSort(Of(q), BroadFirst)
                                                         ELSE StableSort(Of(q), NarrowFirst)],
         known |-> DOMAIN known]

AddMethod(methods, m) == Append(SelectSeq(methods, LAMBDA n : n # m), m)

----------------------------------------
(* Installing programs *)

Unnamed(name) == name \notin DOMAIN backing

\* Mutant of StartProgram: the classes of earlier programs are not collected.
StartsWithoutClasses ==
    /\ ~program.running
    /\ program' = [running |-> TRUE, classes |-> Nothing, methods |-> savedMethods, touched |-> FALSE]
    /\ UNCHANGED <<savedClasses, savedMethods, dispatcher, backing>>

StartProgram ==
    /\ ~program.running
    /\ program' = [running |-> TRUE, classes |-> savedClasses, methods |-> savedMethods, touched |-> FALSE]
    /\ UNCHANGED <<savedClasses, savedMethods, dispatcher, backing>>

DefineClass(d) ==
    /\ program.running
    /\ d.kind = "class" /\ Unnamed(d.name) /\ ToSet(d.supers) \subseteq DOMAIN program.classes
    /\ LET cls == ParseDefclass(d, program.classes)
           own == BackingLocalSlots(cls, program.classes)
       IN  /\ backing' = backing @@
                 (d.name :> [parent |-> Parent(d), variables |-> own, types |-> ToSet(cls.cpl),
                             selectors |-> UNION {cls.slots[s].accessors : s \in own}])
           /\ savedClasses' = savedClasses @@ (d.name :> AsSaved(cls))
           /\ program' = [program EXCEPT !.classes = @ @@ (d.name :> cls)]
    /\ UNCHANGED <<savedMethods, dispatcher>>

DefineStruct(d) ==
    /\ program.running
    /\ d.kind = "struct" /\ Unnamed(d.name) /\ ToSet(d.supers) \subseteq DOMAIN backing
    /\ backing' = backing @@
          (d.name :> [parent |-> Parent(d), variables |-> {}, types |-> {d.name}, selectors |-> {}])
    /\ UNCHANGED <<savedClasses, savedMethods, dispatcher, program>>

DefineMethod(m) ==
    /\ program.running /\ Len(program.methods) < MaxMethods
    /\ program' = [program EXCEPT !.methods = AddMethod(@, m), !.touched = TRUE]
    /\ UNCHANGED <<savedClasses, savedMethods, dispatcher, backing>>

\* The generics the program touched are written and their dispatchers compiled.
FinishProgram ==
    /\ program.running
    /\ savedMethods' = program.methods
    /\ dispatcher' = IF program.touched THEN BuildDispatcher(program.methods, program.classes)
                                        ELSE dispatcher
    /\ program' = NoProgram
    /\ UNCHANGED <<savedClasses, backing>>

\* A form that fails, or a crash: what was collected is gone, the classes stay.
AbandonProgram ==
    /\ program.running /\ program' = NoProgram
    /\ UNCHANGED <<savedClasses, savedMethods, dispatcher, backing>>

LispClassesInit ==
    /\ savedClasses = Nothing /\ savedMethods = <<>> /\ backing = Nothing
    /\ dispatcher = BuildDispatcher(<<>>, Nothing)
    /\ program = NoProgram

LispClassesNext ==
    \/ StartProgram \/ FinishProgram \/ AbandonProgram
    \/ \E d \in Declarations : DefineClass(d) \/ DefineStruct(d)
    \/ \E m \in MethodForms : DefineMethod(m)

LispClassesSpec == LispClassesInit /\ [][LispClassesNext]_lispClassVars

----------------------------------------
(* Calling the generic *)

Chain(c) ==
    LET Up[n \in 0..Cardinality(DOMAIN backing)] ==
            IF n = 0 THEN {c} ELSE Up[n - 1] \cup {backing[k].parent : k \in Up[n - 1] \ {"Object"}}
    IN  Up[Cardinality(DOMAIN backing)] \ {"Object"}

\* isClClass_<t> is answered by the nearest backing class that has it.
ClassTypeP(c, t) == t = "T" \/ \E k \in Chain(c) : t \in backing[k].types

\* An argument is an instance of a class, and is or is not the one an EQL specializer names.
Accepts(spec, arg) ==
    IF spec.kind = "eql" THEN arg.named /\ arg.class = spec.name ELSE ClassTypeP(arg.class, spec.name)

Applicable(m, args) == \A i \in DOMAIN m.specializers : Accepts(m.specializers[i], args[i])

Runs(q, args) == SelectSeq(dispatcher.order[q], LAMBDA m : Applicable(m, args))

----------------------------------------
(* Properties *)

\* The saved records, the backing classes and the program agree on which names exist.
LispClassesTypeOK ==
    /\ DOMAIN savedClasses \subseteq DOMAIN backing
    /\ \A c \in DOMAIN backing : backing[c].parent \in DOMAIN backing \cup {"Object"}
    /\ ToSet(savedMethods) \subseteq MethodForms
    /\ program.running => DOMAIN program.classes = DOMAIN savedClasses

Declared(c) == CHOOSE d \in Declarations : d.name = c

Ancestors(c) ==
    LET Up[n \in 0..Cardinality(Declarations)] ==
            IF n = 0 THEN {c} ELSE Up[n - 1] \cup UNION {ToSet(Declared(k).supers) : k \in Up[n - 1]}
    IN  Up[Cardinality(Declarations)]

AtLeastAsNarrow(a, b) ==
    \/ a = b
    \/ b.kind = "type" /\ b.name = "T"
    \/ b.kind = "type" /\ a.name # "T" /\ b.name \in Ancestors(a.name)

Narrower(m, n) ==
    /\ m # n
    /\ \A i \in DOMAIN m.specializers : AtLeastAsNarrow(m.specializers[i], n.specializers[i])

Arities == {DOMAIN m.specializers : m \in MethodForms}

ArgumentLists ==
    UNION {[a -> [class : DOMAIN backing, named : BOOLEAN]] : a \in Arities}

\* Methods of one qualifier that apply to the same arguments.
InOrder(q, args) ==
    LET run == Runs(q, args)
    IN  \A i, j \in DOMAIN run : i < j =>
            IF q = "AFTER" THEN ~Narrower(run[i], run[j]) ELSE ~Narrower(run[j], run[i])

SpecializersAreKnown ==
    \A m \in ToSet(savedMethods) : \A i \in DOMAIN m.specializers :
        m.specializers[i].name \in dispatcher.known \cup {"T"}

\* Whatever classes were declared in whichever programs, and however the methods were added, a
\* method that is at least as narrow on every argument runs before the broader ones (after them,
\* for :AFTER), provided the dispatcher was compiled when the classes it names were there.  It says
\* nothing of methods on structures: the dispatcher knows the names DEFCLASS defines only, and a
\* structure ranks 40 whatever it includes.
NarrowerMethodsRunFirst ==
    SpecializersAreKnown => \A args \in ArgumentLists, q \in Qualifiers : InOrder(q, args)

\* Each slot of a class, inherited along any path, is an instance variable of exactly one backing
\* class on the way from its backing class to Object: an instance has room for it, once.
SlotsAreStoredOnce ==
    \A c \in DOMAIN savedClasses : \A s \in DOMAIN savedClasses[c].slots :
        Cardinality({k \in Chain(c) : s \in backing[k].variables}) = 1
========================================
