---------------------------- MODULE LispProgram ----------------------------
(***************************************************************************)
(* Installing Common Lisp programs into one image, several at a time       *)
(* (language/common-lisp.js installCommonLispProgram over the namespace of  *)
(* language/smalltalk-globals.js).  A namespace maps names to bindings; a   *)
(* name is published by seeding its binding and then writing the mapping    *)
(* at the version read; a bound name is rebound at the version read.  Every *)
(* await is a step, and an installation may die at any of them.             *)
(*                                                                         *)
(* Two top-level forms stand for all: a DEFMETHOD on one generic function,  *)
(* whose record, helper functions and dispatcher are bindings, and a DEFVAR *)
(* with a value.  A method is [key, body]: its specializers and its code.   *)
(* Only the common-lisp namespace is modelled; the per-package namespaces   *)
(* repeat its writes.                                                       *)
(***************************************************************************)
EXTENDS Naturals, Sequences, SequencesExt, FiniteSets, TLC, TLAPS

CONSTANTS
    Programmers,    \* the concurrent installers
    ProgramForms,          \* [kind |-> "method", method] or [kind |-> "variable", value]
    Helpers,        \* the names of the helper functions, by index: %GF-M-<generic>-<index>
    Record, Dispatcher, Variable,   \* the names %GENERIC:<name>, <name> and the variable's
    KernelNil,
    MaxPrograms, MaxProgramCrashes

VARIABLES
    mapped,         \* names the namespace maps; each write of it adds one, so it is its own version
    bindings,       \* binding records: [value, version]
    jobs,           \* what each installer is doing
    programsRun, programCrashes

lispProgramVars == <<mapped, bindings, jobs, programsRun, programCrashes>>

Resting == [phase |-> "idle"]

Publish(name) == [kind |-> "publish", name |-> name, value |-> KernelNil]

Ensure(name, value) == [kind |-> "ensure", name |-> name, value |-> value]

ValueOf(name) == IF name \in mapped THEN bindings[name].value ELSE <<>>

----------------------------------------
(* What a program will write, from the context it read *)

\* The method replaces the one of its key and goes to the end.
WithMethod(methods, m) == Append(SelectSeq(methods, LAMBDA n : n.key # m.key), m)

\* Helper i runs the i-th method of the record; the dispatcher tests the i-th method's key
\* before it calls helper i.  A dispatcher is the sequence of methods it was compiled from.
MethodWrites(methods) ==
    <<Ensure(Record, methods)>>
    \o [i \in DOMAIN methods |-> Publish(Helpers[i])] \o <<Publish(Dispatcher)>>
    \o [i \in DOMAIN methods |-> Ensure(Helpers[i], methods[i])] \o <<Ensure(Dispatcher, methods)>>

VariableWrites(value) == <<Publish(Variable), Ensure(Variable, value)>>

Writes(form) ==
    IF form.kind = "method" THEN MethodWrites(WithMethod(ValueOf(Record), form.method))
                            ELSE VariableWrites(form.value)

----------------------------------------

Others(p) == {q \in Programmers \ {p} : jobs[q].phase # "idle"}

StartInstall(p, form) ==
    /\ jobs[p].phase = "idle" /\ programsRun < MaxPrograms
    /\ programsRun' = programsRun + 1
    /\ jobs' = [q \in Programmers |->
                  IF q = p THEN [phase |-> "resolve", form |-> form, writes |-> Writes(form), seen |-> {},
                                 alone |-> Others(p) = {},
                                 orphan |-> Record \in DOMAIN bindings \ mapped]
                  ELSE IF jobs[q].phase = "idle" THEN Resting ELSE [jobs[q] EXCEPT !.alone = FALSE]]
    /\ UNCHANGED <<mapped, bindings, programCrashes>>

Write(p) == Head(jobs[p].writes)

To(p, phase) == jobs' = [jobs EXCEPT ![p].phase = phase]

WrittenJob(p) == jobs' = [jobs EXCEPT ![p].phase = "resolve", ![p].writes = Tail(@)]

AlreadyBound(p) == jobs[p].form.kind = "variable" /\ Write(p).kind = "publish"

\* A DEFVAR that finds its name leaves the value alone.
Resolve(p) ==
    /\ jobs[p].phase = "resolve" /\ jobs[p].writes # <<>>
    /\ CASE Write(p).name \notin mapped -> To(p, "publish")
         [] Write(p).name \in mapped /\ Write(p).kind = "ensure" -> To(p, "read")
         [] Write(p).name \in mapped /\ AlreadyBound(p) ->
              jobs' = [jobs EXCEPT ![p].writes = <<>>]
         [] OTHER -> WrittenJob(p)
    /\ UNCHANGED <<mapped, bindings, programsRun, programCrashes>>

ReadNamespace(p) ==
    /\ jobs[p].phase = "publish"
    /\ IF Write(p).name \in mapped THEN WrittenJob(p)
       ELSE jobs' = [jobs EXCEPT ![p].phase = "seed", ![p].seen = mapped]
    /\ UNCHANGED <<mapped, bindings, programsRun, programCrashes>>

\* SEED mode: a binding that is there keeps its value.
SeedBinding(p) ==
    /\ jobs[p].phase = "seed"
    /\ bindings' = [n \in DOMAIN bindings \cup {Write(p).name} |->
                      IF n \in DOMAIN bindings THEN bindings[n]
                      ELSE [value |-> Write(p).value, version |-> 1]]
    /\ To(p, "map")
    /\ UNCHANGED <<mapped, programsRun, programCrashes>>

\* The namespace record is replaced at the version read; a lost race ends the installation.
WriteMappingBlindly(p) ==
    /\ jobs[p].phase = "map"
    /\ mapped' = jobs[p].seen \cup {Write(p).name} /\ WrittenJob(p)
    /\ UNCHANGED <<bindings, programsRun, programCrashes>>

WriteMapping(p) ==
    /\ jobs[p].phase = "map"
    /\ IF mapped = jobs[p].seen
       THEN mapped' = jobs[p].seen \cup {Write(p).name} /\ WrittenJob(p)
       ELSE jobs' = [jobs EXCEPT ![p] = Resting] /\ UNCHANGED mapped
    /\ UNCHANGED <<bindings, programsRun, programCrashes>>

ReadBinding(p) ==
    /\ jobs[p].phase = "read"
    /\ IF bindings[Write(p).name].value = Write(p).value THEN WrittenJob(p)
       ELSE jobs' = [jobs EXCEPT ![p].phase = "put", ![p].seen = {bindings[Write(p).name].version}]
    /\ UNCHANGED <<mapped, bindings, programsRun, programCrashes>>

PutBinding(p) ==
    /\ jobs[p].phase = "put"
    /\ LET at == bindings[Write(p).name].version
       IN  IF {at} = jobs[p].seen
           THEN /\ bindings' = [bindings EXCEPT ![Write(p).name] =
                                   [value |-> Write(p).value, version |-> at + 1]]
                /\ WrittenJob(p)
           ELSE jobs' = [jobs EXCEPT ![p] = Resting] /\ UNCHANGED bindings
    /\ UNCHANGED <<mapped, programsRun, programCrashes>>

Completes(p) == jobs[p].phase = "resolve" /\ jobs[p].writes = <<>>

FinishInstall(p) ==
    /\ Completes(p)
    /\ jobs' = [jobs EXCEPT ![p] = Resting]
    /\ UNCHANGED <<mapped, bindings, programsRun, programCrashes>>

\* A crash, a value form that signals, a block of another text at the same id.
DieInstalling(p) ==
    /\ jobs[p].phase # "idle" /\ programCrashes < MaxProgramCrashes
    /\ programCrashes' = programCrashes + 1
    /\ jobs' = [jobs EXCEPT ![p] = Resting]
    /\ UNCHANGED <<mapped, bindings, programsRun>>

LispProgramInit ==
    /\ mapped = {} /\ bindings = [n \in {} |-> n]
    /\ jobs = [p \in Programmers |-> Resting]
    /\ programsRun = 0 /\ programCrashes = 0

LispProgramNext ==
    \E p \in Programmers :
        \/ \E form \in ProgramForms : StartInstall(p, form)
        \/ Resolve(p) \/ ReadNamespace(p) \/ SeedBinding(p) \/ WriteMapping(p)
        \/ ReadBinding(p) \/ PutBinding(p) \/ FinishInstall(p) \/ DieInstalling(p)

LispProgramSpec == LispProgramInit /\ [][LispProgramNext]_lispProgramVars

----------------------------------------
(* Properties *)

BindingNames == ToSet(Helpers) \cup {Record, Dispatcher, Variable}

LispProgramTypeOK ==
    /\ mapped \subseteq BindingNames /\ DOMAIN bindings \subseteq BindingNames
    /\ \A p \in Programmers :
          jobs[p].phase \in {"idle", "resolve", "publish", "seed", "map", "read", "put"}
    /\ programsRun \in 0..MaxPrograms /\ programCrashes \in 0..MaxProgramCrashes

\* Whatever races or dies, a name of the namespace leads to a binding.
NamesHaveBindings == mapped \subseteq DOMAIN bindings

\* No installation takes away a name another one published.
NamesStayMapped == [][mapped \subseteq mapped']_lispProgramVars

\* The record, its helpers and the dispatcher agree, so a call of the generic runs, for every key,
\* the newest method of that key.
DispatchesTo(methods) ==
    /\ ValueOf(Record) = methods /\ ValueOf(Dispatcher) = methods
    /\ \A i \in DOMAIN methods : ValueOf(Helpers[i]) = methods[i]

\* A DEFMETHOD that completes with no other installation running meanwhile leaves the generic
\* dispatching to its method and to the ones recorded before, whatever earlier installations
\* died doing - unless one died between seeding the record's binding and mapping its name.
QuietMethodsTakeEffect ==
    \A p \in Programmers :
        Completes(p) /\ jobs[p].form.kind = "method" /\ jobs[p].alone /\ ~jobs[p].orphan
            => /\ DispatchesTo(ValueOf(Record))
               /\ Last(ValueOf(Record)) = jobs[p].form.method
----------------------------------------
(* Proofs *)

\* An installation at work has all the fields its steps change, and one about to map a name
\* has seeded the name's binding.
JobsAreReady ==
    /\ DOMAIN jobs = Programmers
    /\ \A p \in Programmers :
          /\ jobs[p].phase # "idle" => {"phase", "writes", "seen"} \subseteq DOMAIN jobs[p]
          /\ jobs[p].phase = "map" => Write(p).name \in DOMAIN bindings

NamingInv == NamesHaveBindings /\ JobsAreReady

(* A namespace begins with sound names.                                    *)
LEMMA NamingInit == LispProgramInit => NamingInv
BY DEF LispProgramInit, NamingInv, NamesHaveBindings, JobsAreReady, Resting

\* Steps that leave the namespace and the bindings alone, and bring no installation to its map phase.
LEMMA NamingKept ==
  ASSUME NamingInv, NEW p \in Programmers,
         UNCHANGED <<mapped, bindings>>,
         DOMAIN jobs' = Programmers,
         \A q \in Programmers \ {p} :
            /\ jobs'[q].phase # "idle" => /\ jobs[q].phase = jobs'[q].phase
                                         /\ jobs[q].writes = jobs'[q].writes
                                         /\ DOMAIN jobs[q] = DOMAIN jobs'[q],
         jobs'[p].phase # "map",
         jobs'[p].phase # "idle" => {"phase", "writes", "seen"} \subseteq DOMAIN jobs'[p]
  PROVE  NamingInv'
BY DEF NamingInv, NamesHaveBindings, JobsAreReady, Write

(* Every step keeps the names sound.                                       *)
LEMMA NamingNext == NamingInv /\ [LispProgramNext]_lispProgramVars => NamingInv'
<1> SUFFICES ASSUME NamingInv, [LispProgramNext]_lispProgramVars PROVE NamingInv'
  OBVIOUS
<1>1. CASE UNCHANGED lispProgramVars
  BY <1>1 DEF lispProgramVars, NamingInv, NamesHaveBindings, JobsAreReady, Write
<1>2. ASSUME NEW p \in Programmers, NEW form \in ProgramForms, StartInstall(p, form)
      PROVE  NamingInv'
  <2>1. /\ UNCHANGED <<mapped, bindings>>
        /\ DOMAIN jobs' = Programmers
    BY <1>2 DEF StartInstall
  <2>2. /\ jobs'[p].phase = "resolve"
        /\ {"phase", "writes", "seen"} \subseteq DOMAIN jobs'[p]
    BY <1>2 DEF StartInstall
  <2>3. ASSUME NEW q \in Programmers \ {p}, jobs'[q].phase # "idle"
        PROVE  /\ jobs[q].phase = jobs'[q].phase
               /\ jobs[q].writes = jobs'[q].writes
               /\ DOMAIN jobs[q] = DOMAIN jobs'[q]
    <3>1. jobs'[q] = IF jobs[q].phase = "idle" THEN Resting ELSE [jobs[q] EXCEPT !.alone = FALSE]
      BY <1>2 DEF StartInstall
    <3>2. jobs[q].phase # "idle"
      BY <2>3, <3>1 DEF Resting
    <3> QED BY <3>1, <3>2 DEF NamingInv, JobsAreReady
  <2> QED BY <2>1, <2>2, <2>3, NamingKept
<1>3. ASSUME NEW p \in Programmers, Resolve(p) PROVE NamingInv'
  <2>1. \/ To(p, "publish") \/ To(p, "read") \/ WrittenJob(p)
        \/ jobs' = [jobs EXCEPT ![p].writes = <<>>]
    BY <1>3 DEF Resolve
  <2>2. jobs[p].phase = "resolve" /\ UNCHANGED <<mapped, bindings>>
    BY <1>3 DEF Resolve
  <2> QED BY <2>1, <2>2, NamingKept DEF To, WrittenJob, NamingInv, JobsAreReady
<1>4. ASSUME NEW p \in Programmers, ReadNamespace(p) PROVE NamingInv'
  BY <1>4, NamingKept DEF ReadNamespace, WrittenJob, NamingInv, JobsAreReady
<1>5. ASSUME NEW p \in Programmers, SeedBinding(p) PROVE NamingInv'
  <2>1. /\ jobs[p].phase = "seed" /\ UNCHANGED mapped
        /\ jobs' = [jobs EXCEPT ![p].phase = "map"]
        /\ DOMAIN bindings' = DOMAIN bindings \cup {Write(p).name}
    BY <1>5 DEF SeedBinding, To
  <2>2. DOMAIN jobs' = Programmers /\ \A q \in Programmers \ {p} : jobs'[q] = jobs[q]
    BY <2>1 DEF NamingInv, JobsAreReady
  <2>3. /\ jobs'[p].phase = "map" /\ jobs'[p].writes = jobs[p].writes
        /\ DOMAIN jobs'[p] = DOMAIN jobs[p]
    BY <2>1 DEF NamingInv, JobsAreReady
  <2> QED BY <2>1, <2>2, <2>3 DEF NamingInv, NamesHaveBindings, JobsAreReady, Write
<1>6. ASSUME NEW p \in Programmers, WriteMapping(p) PROVE NamingInv'
  <2>1. /\ jobs[p].phase = "map" /\ UNCHANGED bindings
        /\ mapped' \subseteq DOMAIN bindings
    BY <1>6 DEF WriteMapping, NamingInv, NamesHaveBindings, JobsAreReady
  <2>2. WrittenJob(p) \/ jobs' = [jobs EXCEPT ![p] = Resting]
    BY <1>6 DEF WriteMapping
  <2>3. DOMAIN jobs' = Programmers /\ \A q \in Programmers \ {p} : jobs'[q] = jobs[q]
    BY <2>2 DEF NamingInv, JobsAreReady, WrittenJob
  <2>4. /\ jobs'[p].phase \in {"idle", "resolve"}
        /\ jobs'[p].phase # "idle" => {"phase", "writes", "seen"} \subseteq DOMAIN jobs'[p]
    BY <2>1, <2>2 DEF NamingInv, JobsAreReady, WrittenJob, Resting
  <2> QED BY <2>1, <2>3, <2>4 DEF NamingInv, NamesHaveBindings, JobsAreReady, Write
<1>7. ASSUME NEW p \in Programmers, ReadBinding(p) PROVE NamingInv'
  BY <1>7, NamingKept DEF ReadBinding, WrittenJob, NamingInv, JobsAreReady
<1>8. ASSUME NEW p \in Programmers, PutBinding(p) PROVE NamingInv'
  <2>1. /\ jobs[p].phase = "put" /\ UNCHANGED mapped
        /\ DOMAIN bindings' = DOMAIN bindings
        /\ WrittenJob(p) \/ jobs' = [jobs EXCEPT ![p] = Resting]
    BY <1>8 DEF PutBinding
  <2>2. DOMAIN jobs' = Programmers /\ \A q \in Programmers \ {p} : jobs'[q] = jobs[q]
    BY <2>1 DEF NamingInv, JobsAreReady, WrittenJob
  <2>3. /\ jobs'[p].phase \in {"idle", "resolve"}
        /\ jobs'[p].phase # "idle" => {"phase", "writes", "seen"} \subseteq DOMAIN jobs'[p]
    BY <2>1 DEF NamingInv, JobsAreReady, WrittenJob, Resting
  <2> QED BY <2>1, <2>2, <2>3 DEF NamingInv, NamesHaveBindings, JobsAreReady, Write
<1>9. ASSUME NEW p \in Programmers, FinishInstall(p) \/ DieInstalling(p) PROVE NamingInv'
  BY <1>9, NamingKept DEF FinishInstall, DieInstalling, Resting, NamingInv, JobsAreReady
<1> QED BY <1>1, <1>2, <1>3, <1>4, <1>5, <1>6, <1>7, <1>8, <1>9 DEF LispProgramNext

\* Every name the namespace maps leads to a binding, however many installations race and wherever
\* they die: publishSymmetricSmalltalkName seeds a binding before it writes the mapping, and no
\* write of the installer takes a binding away.
THEOREM NamesLeadToBindings == LispProgramSpec => []NamesHaveBindings
<1>1. NamingInv => NamesHaveBindings
  BY DEF NamingInv
<1> QED BY <1>1, NamingInit, NamingNext, PTL DEF LispProgramSpec

\* A name once published stays published: the mapping is replaced only by one that grew out of
\* the mapping that is there.
THEOREM PublishedNamesStay == LispProgramSpec => NamesStayMapped
<1>1. [LispProgramNext]_lispProgramVars => [mapped \subseteq mapped']_lispProgramVars
  BY DEF LispProgramNext, lispProgramVars, StartInstall, Resolve, ReadNamespace, SeedBinding,
         WriteMapping, ReadBinding, PutBinding, FinishInstall, DieInstalling
<1> QED BY <1>1, PTL DEF LispProgramSpec, NamesStayMapped
========================================
