---------------------------- MODULE LispSystems ----------------------------
(***************************************************************************)
(* Common Lisp systems (language/common-lisp.js).                          *)
(*                                                                         *)
(* The load order (parseDefsystemComponentTree,                            *)
(* resolveSystemComponentLoadOrder): a component is a file or a module of  *)
(* components and depends on siblings by name; in a serial list each       *)
(* component depends on the one before it.  A dependency between modules   *)
(* is one between all their files, and the files are sorted depth first.   *)
(* A file's path is its name here; the cases never repeat one.             *)
(*                                                                         *)
(* Installation (installCommonLispSystem,                                  *)
(* installCommonLispSystemFromArtifact): the systems a system depends on   *)
(* come first, unless this call installed them already, those that do not  *)
(* come with the call as their bindings hold them; each file of the        *)
(* load order is kept as an artifact under its text and its program is     *)
(* loaded; then the system's artifact is ensured, under an identity made   *)
(* of the defsystem text, with its files and the systems it depends on as  *)
(* dependency edges; last its binding is set, by writing it or by          *)
(* publishing it in the namespace (smalltalk-globals.js), each at the      *)
(* version read.  An installation from an                                  *)
(* artifact takes the files from those edges.  Loading a file is           *)
(* LispProgram's subject.                                                  *)
(***************************************************************************)
EXTENDS Naturals, Sequences, SequencesExt, FiniteSets, TLC

CONSTANTS
    Trees,          \* component lists: [serial, nodes], a node [name, dependsOn, components]
    Systems,        \* system names
    NeededBy,       \* NeededBy[s]: the systems s depends on, as a sequence
    FilesOf,        \* FilesOf[s]: its load order
    Texts,          \* texts a defsystem form may have
    Sources,        \* texts a file may have
    Installing,     \* the concurrent callers
    MaxSystemInstalls, MaxSystemCrashes

\* A cycle of systems is refused where the walk meets it.
ASSUME SystemsAssumption ==
    \E level \in [Systems -> 1..Cardinality(Systems)] :
        \A s \in Systems : \A d \in ToSet(NeededBy[s]) : d \in Systems /\ level[d] < level[s]

VARIABLES
    tree,               \* a component list whose order is asked for
    systemArtifacts,    \* <<system, defsystem text>> -> its dependency edges
    fileArtifacts,      \* the <<system, file, source>> kept
    systemBindings,     \* system -> the text %SYSTEM:<name> holds, and its version
    named,              \* the systems whose binding the namespace maps
    loaded,             \* file -> the source whose program was loaded last
    tasks,              \* what each caller has left to do
    systemInstalls, systemCrashes

systemVars == <<systemArtifacts, fileArtifacts, systemBindings, named, loaded, tasks, systemInstalls, systemCrashes>>

Unloaded == "nothing"

----------------------------------------
(* Load order *)

IsFile(node) == node.components.nodes = <<>>

Refused == <<"refused">>

----------------------------------------
(* parseDefsystemComponentTree: what a component depends on *)

DependsOn(list, i) ==
    IF list.serial /\ i > 1 /\ ~Contains(list.nodes[i].dependsOn, list.nodes[i - 1].name)
    THEN <<list.nodes[i - 1].name>> \o list.nodes[i].dependsOn
    ELSE list.nodes[i].dependsOn

----------------------------------------
(* resolveSystemComponentLoadOrder *)

RECURSIVE Leaves(_)
Leaves(list) ==
    FlattenSeq([i \in DOMAIN list.nodes |->
        IF IsFile(list.nodes[i]) THEN <<list.nodes[i].name>> ELSE Leaves(list.nodes[i].components)])

LeavesOf(node) == IF IsFile(node) THEN <<node.name>> ELSE Leaves(node.components)

Sibling(list, name) == CHOOSE i \in DOMAIN list.nodes : list.nodes[i].name = name

Siblings(list) == {list.nodes[i].name : i \in DOMAIN list.nodes}

\* What the files of the i-th component wait for because of it.
TargetLeaves(list, i) ==
    FlattenSeq([k \in DOMAIN DependsOn(list, i) |->
        LeavesOf(list.nodes[Sibling(list, DependsOn(list, i)[k])])])

\* The inner lists are gone through before the outer ones.
RECURSIVE LeafDeps(_, _)
LeafDeps(list, leaf) ==
    LET i == CHOOSE j \in DOMAIN list.nodes : Contains(LeavesOf(list.nodes[j]), leaf)
        node == list.nodes[i]
    IN  (IF IsFile(node) THEN <<>> ELSE LeafDeps(node.components, leaf)) \o TargetLeaves(list, i)

\* Names that are not siblings, and components that wait for themselves, are refused.
RECURSIVE WellFormed(_)
WellFormed(list) ==
    \A i \in DOMAIN list.nodes :
        /\ ToSet(DependsOn(list, i)) \subseteq Siblings(list)
        /\ ToSet(LeavesOf(list.nodes[i])) \cap ToSet(TargetLeaves(list, i)) = {}
        /\ IsFile(list.nodes[i]) \/ WellFormed(list.nodes[i].components)

\* visit(path): depth first; meeting a file that is being visited is a cycle.
RECURSIVE Visit(_, _, _)
Visit(list, leaf, walk) ==
    IF walk.cyclic \/ leaf \in walk.visited THEN walk
    ELSE IF leaf \in walk.visiting THEN [walk EXCEPT !.cyclic = TRUE]
    ELSE LET below == FoldLeft(LAMBDA w, d : Visit(list, d, w),
                               [walk EXCEPT !.visiting = @ \cup {leaf}], LeafDeps(list, leaf))
         IN  IF below.cyclic THEN below
             ELSE [below EXCEPT !.visited = @ \cup {leaf}, !.visiting = @ \ {leaf},
                                !.sorted = Append(@, leaf)]

LoadOrder(list) ==
    LET start == [visited |-> {}, visiting |-> {}, sorted |-> <<>>, cyclic |-> FALSE]
        done == FoldLeft(LAMBDA w, leaf : Visit(list, leaf, w), start, Leaves(list))
    IN  IF ~WellFormed(list) \/ done.cyclic THEN Refused ELSE done.sorted

SystemCasesInit == tree \in Trees

----------------------------------------
(* Installation: what one call does, in order.  "texts" gives the defsystem texts of the systems *)
(* the call comes with.                                                                          *)

\* Dependency edges: a system's by its artifact's identity, a file's by its source.
EdgesOf(s, texts, sources) ==
    {<<"system", d, texts[d]>> : d \in ToSet(NeededBy[s]) \cap DOMAIN texts}
        \cup {<<"component", f, sources[f]>> : f \in ToSet(FilesOf[s])}

LoadTasks(s, sources) ==
    [i \in DOMAIN FilesOf[s] |->
        [do |-> "load", system |-> s, file |-> FilesOf[s][i], source |-> sources[FilesOf[s][i]]]]

RecordsFirst(s, texts, sources) ==
    <<[do |-> "record", system |-> s, text |-> texts[s], edges |-> EdgesOf(s, texts, sources)]>>
    \o LoadTasks(s, sources) \o <<[do |-> "bind", system |-> s, text |-> texts[s]]>>

OwnTasks(s, texts, sources) ==
    LoadTasks(s, sources)
    \o <<[do |-> "record", system |-> s, text |-> texts[s], edges |-> EdgesOf(s, texts, sources)],
         [do |-> "bind", system |-> s, text |-> texts[s]]>>

\* Each system once, its dependencies in their order before it: one that came with the call is
\* installed, any other is looked for when its turn comes.
RECURSIVE InstallOrder(_, _, _, _)
InstallOrder(s, texts, sources, walk) ==
    LET below == FoldLeft(LAMBDA w, d :
                     IF d \in w.done THEN w
                     ELSE IF d \in DOMAIN texts THEN InstallOrder(d, texts, sources, w)
                     ELSE [w EXCEPT !.todo = Append(@, [do |-> "find", system |-> s, needs |-> d])],
                     walk, NeededBy[s])
    IN  [done |-> below.done \cup {s}, todo |-> below.todo \o OwnTasks(s, texts, sources)]

Plan(s, texts, sources) == InstallOrder(s, texts, sources, [done |-> {}, todo |-> <<>>]).todo

AllFiles == UNION {ToSet(FilesOf[s]) : s \in Systems}

----------------------------------------

InstallSystem(p, s, texts, sources) ==
    /\ tasks[p] = <<>> /\ systemInstalls < MaxSystemInstalls
    /\ s \in DOMAIN texts
    /\ tasks' = [tasks EXCEPT ![p] = Plan(s, texts, sources)]
    /\ systemInstalls' = systemInstalls + 1
    /\ UNCHANGED <<systemArtifacts, fileArtifacts, systemBindings, named, loaded, systemCrashes>>

\* The closure of an artifact, through its edges.
RECURSIVE Closure(_)
Closure(id) ==
    {id} \cup UNION {Closure(<<e[2], e[3]>>) : e \in {x \in systemArtifacts[id] : x[1] = "system"}}

RestoreSystem(p, id) ==
    /\ tasks[p] = <<>> /\ systemInstalls < MaxSystemInstalls
    /\ id \in DOMAIN systemArtifacts
    /\ LET ids == Closure(id)
           texts == [s \in {i[1] : i \in ids} |-> CHOOSE t \in Texts : <<s, t>> \in ids]
           edges == UNION {systemArtifacts[i] : i \in ids}
           sources == [f \in {e[2] : e \in {x \in edges : x[1] = "component"}} |->
                          CHOOSE t \in Sources : <<"component", f, t>> \in edges]
       IN  tasks' = [tasks EXCEPT ![p] = Plan(id[1], texts, sources)]
    /\ systemInstalls' = systemInstalls + 1
    /\ UNCHANGED <<systemArtifacts, fileArtifacts, systemBindings, named, loaded, systemCrashes>>

Task(p) == Head(tasks[p])

TaskDone(p) == tasks' = [tasks EXCEPT ![p] = Tail(@)]

TaskBecomes(p, task) == tasks' = [tasks EXCEPT ![p] = <<task>> \o Tail(@)]

CallRefused(p) == tasks' = [tasks EXCEPT ![p] = <<>>]

\* A dependency that did not come with the call is the system its binding holds; without one the
\* call is refused, after the dependencies before it were installed.
FindSystem(p) ==
    /\ tasks[p] # <<>> /\ Task(p).do = "find"
    /\ LET d == Task(p).needs
           With(task) == IF task.do = "record" /\ task.system = Task(p).system
                         THEN [task EXCEPT !.edges = @ \cup {<<"system", d, systemBindings[d].text>>}]
                         ELSE task
       IN  IF d \in named
           THEN tasks' = [tasks EXCEPT ![p] = [i \in DOMAIN Tail(@) |-> With(Tail(@)[i])]]
           ELSE CallRefused(p)
    /\ UNCHANGED <<systemArtifacts, fileArtifacts, systemBindings, named, loaded, systemInstalls, systemCrashes>>

LoadFile(p) ==
    /\ tasks[p] # <<>> /\ Task(p).do = "load"
    /\ fileArtifacts' = fileArtifacts \cup {<<Task(p).system, Task(p).file, Task(p).source>>}
    /\ loaded' = [loaded EXCEPT ![Task(p).file] = Task(p).source]
    /\ TaskDone(p)
    /\ UNCHANGED <<systemArtifacts, systemBindings, named, systemInstalls, systemCrashes>>

\* ensureCodeArtifact: an equal artifact is adopted, one with other edges is a conflict.
RecordSystem(p) ==
    /\ tasks[p] # <<>> /\ Task(p).do = "record"
    /\ LET id == <<Task(p).system, Task(p).text>>
       IN  /\ systemArtifacts' = systemArtifacts @@ (id :> Task(p).edges)
           /\ IF systemArtifacts'[id] = Task(p).edges THEN TaskDone(p)
              ELSE CallRefused(p)
    /\ UNCHANGED <<fileArtifacts, systemBindings, named, loaded, systemInstalls, systemCrashes>>

bindVars == <<systemArtifacts, fileArtifacts, loaded, systemInstalls, systemCrashes>>

\* ensureGlobalBindingInNamespace: a binding the namespace names is written, any other published.
ResolvesBinding(p) ==
    /\ tasks[p] # <<>> /\ Task(p).do = "bind"
    /\ LET task == Task(p)
       IN  TaskBecomes(p, IF task.system \in named
                          THEN [task EXCEPT !.do = "rebind"] @@ [seen |-> systemBindings[task.system]]
                          ELSE [task EXCEPT !.do = "publish"])
    /\ UNCHANGED <<bindVars, systemBindings, named>>

\* rebindGlobal: an equal value is left alone, another put at the version read, or the call is refused.
RebindsSystem(p) ==
    /\ tasks[p] # <<>> /\ Task(p).do = "rebind"
    /\ LET s == Task(p).system  seen == Task(p).seen
       IN  IF seen.text = Task(p).text THEN TaskDone(p) /\ UNCHANGED systemBindings
           ELSE IF systemBindings[s] # seen THEN CallRefused(p) /\ UNCHANGED systemBindings
           ELSE /\ systemBindings' = [systemBindings EXCEPT ![s] = [text |-> Task(p).text, version |-> seen.version + 1]]
                /\ TaskDone(p)
    /\ UNCHANGED <<bindVars, named>>

\* publishGlobal: a name mapped meanwhile keeps its binding and its value; otherwise the binding is
\* created, or one a dead call left is taken as it is, with the mapping as it was read ...
PublishesBinding(p) ==
    /\ tasks[p] # <<>> /\ Task(p).do = "publish"
    /\ LET s == Task(p).system
       IN  IF s \in named THEN TaskDone(p) /\ UNCHANGED systemBindings
           ELSE /\ systemBindings' = systemBindings @@ (s :> [text |-> Task(p).text, version |-> 1])
                /\ TaskBecomes(p, [do |-> "map", system |-> s, seen |-> named])
    /\ UNCHANGED <<bindVars, named>>

\* ... and the mapping is written as a whole at the version it was read at, or the call is refused.
MapsBinding(p) ==
    /\ tasks[p] # <<>> /\ Task(p).do = "map"
    /\ IF named = Task(p).seen THEN named' = named \cup {Task(p).system} /\ TaskDone(p)
       ELSE CallRefused(p) /\ UNCHANGED named
    /\ UNCHANGED <<bindVars, systemBindings>>

\* A crash, a file whose program fails to load, or a name of a program that is published between a
\* read of the mapping and its write.
LoseCaller(p) ==
    /\ tasks[p] # <<>> /\ systemCrashes < MaxSystemCrashes
    /\ CallRefused(p)
    /\ systemCrashes' = systemCrashes + 1
    /\ UNCHANGED <<systemArtifacts, fileArtifacts, systemBindings, named, loaded, systemInstalls>>

SystemsInit ==
    /\ systemArtifacts = [x \in {} |-> x] /\ systemBindings = [x \in {} |-> x]
    /\ named = {} /\ fileArtifacts = {} /\ loaded = [f \in AllFiles |-> Unloaded]
    /\ tasks = [p \in Installing |-> <<>>]
    /\ systemInstalls = 0 /\ systemCrashes = 0

SystemsNext ==
    \E p \in Installing :
        \/ \E s \in Systems, given \in SUBSET Systems, sources \in [AllFiles -> Sources] :
              \E texts \in [given -> Texts] : InstallSystem(p, s, texts, sources)
        \/ \E id \in DOMAIN systemArtifacts : RestoreSystem(p, id)
        \/ FindSystem(p) \/ LoadFile(p) \/ RecordSystem(p)
        \/ ResolvesBinding(p) \/ RebindsSystem(p) \/ PublishesBinding(p) \/ MapsBinding(p)
        \/ LoseCaller(p)

SystemsSpec ==
    SystemCasesInit /\ SystemsInit /\ [][SystemsNext /\ UNCHANGED tree]_<<tree, systemVars>>

----------------------------------------
(* Properties *)

SystemsTypeOK ==
    /\ DOMAIN systemArtifacts \subseteq Systems \X Texts
    /\ DOMAIN systemBindings \subseteq Systems /\ named \subseteq DOMAIN systemBindings
    /\ loaded \in [AllFiles -> Sources \cup {Unloaded}]
    /\ systemInstalls \in 0..MaxSystemInstalls /\ systemCrashes \in 0..MaxSystemCrashes

\* Whatever calls overlap or die, the artifact of a system reaches everything a release of it must
\* carry: its edges name file artifacts that are kept and system artifacts that are recorded.
ClosuresAreComplete ==
    \A id \in DOMAIN systemArtifacts : \A e \in systemArtifacts[id] :
        IF e[1] = "system" THEN <<e[2], e[3]>> \in DOMAIN systemArtifacts
        ELSE <<id[1], e[2], e[3]>> \in fileArtifacts

\* What the defsystem form asks for: y before x when some list names, for the component x is in,
\* the component y is in - by :depends-on, or as the one before it in a serial list.
RECURSIVE Asks(_, _, _)
Asks(list, x, y) ==
    \E i, j \in DOMAIN list.nodes :
        /\ Contains(LeavesOf(list.nodes[i]), x) /\ Contains(LeavesOf(list.nodes[j]), y)
        /\ \/ Contains(list.nodes[i].dependsOn, list.nodes[j].name)
           \/ list.serial /\ i = j + 1
           \/ i = j /\ ~IsFile(list.nodes[i]) /\ Asks(list.nodes[i].components, x, y)

RECURSIVE NamesSiblings(_)
NamesSiblings(list) ==
    \A i \in DOMAIN list.nodes :
        ToSet(list.nodes[i].dependsOn) \subseteq Siblings(list) /\ NamesSiblings(list.nodes[i].components)

CanBeMet ==
    /\ NamesSiblings(tree)
    /\ \E order \in [ToSet(Leaves(tree)) -> 1..Len(Leaves(tree))] :
           \A x, y \in DOMAIN order : Asks(tree, x, y) => order[y] < order[x]

\* A system whose dependencies name siblings and can all be met is loaded, each of its files once
\* and after every file it depends on, through modules and serial lists; any other is refused
\* before anything of it is loaded.
LoadOrderMeetsTheSystem ==
    LET order == LoadOrder(tree)
    IN  IF CanBeMet
        THEN /\ order # Refused
             /\ Len(order) = Len(Leaves(tree)) /\ ToSet(order) = ToSet(Leaves(tree))
             /\ \A i, j \in DOMAIN order : i < j => ~Asks(tree, order[i], order[j])
        ELSE order = Refused
========================================
