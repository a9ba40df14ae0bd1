------------------------------ MODULE Promotion ------------------------------
(***************************************************************************)
(* Promotion of transient objects and closures to durable records          *)
(* (execution/closure-promotion.js and the arena and its view of           *)
(* execution/lexical-cells.js), within one execution.                      *)
(*                                                                         *)
(* The arena holds every object's links; a boundary promotes values, each  *)
(* as a task of its own (Promise.all), depth first over the links that are *)
(* still transient, with one memo for the whole execution. The store may   *)
(* refuse a write, or commit it and lose the answer. The first task that   *)
(* fails rejects its boundary while the others go on; the program then     *)
(* continues (cleanup Blocks run, and the execution may end normally).     *)
(* A closure is published as an environment record and then its Block.     *)
(***************************************************************************)
EXTENDS Naturals, FiniteSets, SequencesExt

CONSTANTS
  Objs,         \* transient objects and closures of the arena
  Closures,     \* those that are closures: their environment never changes
  Graphs,       \* link functions an execution may start from
  Tasks,        \* promotions that may be under way at once
  MaxFailures,  \* bound: writes the store fails
  MaxMutations, \* bound: writes of the program to its objects
  Caller        \* what waits at the bottom of a task

ASSUME PromotionAssumption ==
  /\ IsFiniteSet(Objs) /\ IsFiniteSet(Tasks)
  /\ Closures \subseteq Objs
  /\ Graphs \subseteq [Objs -> SUBSET Objs]
  /\ Caller \notin Objs
  /\ MaxFailures \in Nat /\ MaxMutations \in Nat

VARIABLES
  links,        \* the arena's records: what each object refers to
  memo,         \* promotionMemo
  stored,       \* durable records, links rewritten to durable ids
  environments, \* closures whose environment record is stored
  tasks,        \* per task, the promote calls it is inside of, outermost first
  outcome,      \* per task, how it ended
  program,      \* what the execution's own code waits for
  failures,
  mutations,
  aliased       \* objects last written through their durable ref

promotionVars ==
  <<links, memo, stored, environments, tasks, outcome, program, failures, mutations, aliased>>

----------------------------------------
\* Nothing is stored under the derived durable id.
NoRecord == {Caller}

Idle == [op |-> "idle", tasks |-> {}, values |-> {}, obj |-> Caller]

Frame(o, todo, seen) == [obj |-> o, todo |-> todo, seen |-> seen]
Busy(t) == tasks[t] # <<>>
Top(t) == Last(tasks[t])
FreeTasks == {t \in Tasks : ~Busy(t)}

\* The start of a task per value: each begins as a call that has one value to
\* promote. Which slot a task takes does not matter.
Slots(values) ==
  CHOOSE slot \in [values -> FreeTasks] : \A v, w \in values : slot[v] = slot[w] => v = w

CanLaunch(values) == Cardinality(values) <= Cardinality(FreeTasks)

Started(values) == {Slots(values)[v] : v \in values}

Launch(values) ==
  /\ CanLaunch(values)
  /\ LET slot == Slots(values) IN
     tasks' = [t \in Tasks |->
       IF t \in Started(values)
       THEN <<Frame(Caller, {CHOOSE v \in values : slot[v] = t}, {})>> ELSE tasks[t]]
  /\ outcome' = [t \in Tasks |->
       IF t \in Started(values) THEN "running"
       ELSE IF Busy(t) THEN outcome[t] ELSE "none"]

----------------------------------------
(* The program. *)

\* promoteClosure at a boundary, one value or several at once.
Boundary(values) ==
  /\ program.op = "idle"
  /\ Launch(values)
  /\ program' = [op |-> "boundary", tasks |-> Started(values),
                 values |-> values, obj |-> Caller]
  /\ UNCHANGED <<links, memo, stored, environments, failures, mutations, aliased>>

\* view.putObject on a transient id: the arena first, and the durable copy only
\* when promotion has begun (read next).
Mutate(o, new) ==
  /\ program.op = "idle" /\ o \notin Closures
  /\ Cardinality(new) <= Cardinality(Tasks)
  /\ mutations < MaxMutations
  /\ links' = [links EXCEPT ![o] = new]
  /\ mutations' = mutations + 1
  /\ program' = IF memo[o] = "absent" THEN Idle
                ELSE [op |-> "reading", tasks |-> {}, values |-> new, obj |-> o]
  /\ UNCHANGED <<memo, stored, environments, tasks, outcome, failures, aliased>>

\* view.putObject on the durable id of a promoted object, with links that are
\* durable too: the record changes, the arena keeps what it had.
PutDurable(o, new) ==
  /\ program.op = "idle" /\ o \notin Closures
  /\ \A x \in new \cup {o} : memo[x] = "complete"
  /\ mutations < MaxMutations /\ mutations' = mutations + 1
  /\ aliased' = aliased \cup {o}
  /\ \/ stored' = [stored EXCEPT ![o] = new] /\ UNCHANGED failures
     \/ /\ failures < MaxFailures /\ failures' = failures + 1
        /\ stored' \in {stored, [stored EXCEPT ![o] = new]}
  /\ UNCHANGED <<links, memo, environments, tasks, outcome, program>>

\* Mutant of ReadDurable: a write to a promoted object stays in the arena.
StayLocal ==
  /\ program.op = "reading"
  /\ program' = Idle
  /\ UNCHANGED <<links, memo, stored, environments, tasks, outcome, failures, mutations, aliased>>

\* The view reads the durable record: none yet, and the write stays local.
ReadDurable ==
  /\ program.op = "reading"
  /\ IF stored[program.obj] = NoRecord
     THEN program' = Idle /\ UNCHANGED <<tasks, outcome>>
     ELSE /\ Launch(program.values)
          /\ program' = [program EXCEPT !.op = "writing",
                                        !.tasks = Started(program.values)]
  /\ UNCHANGED <<links, memo, stored, environments, failures, mutations, aliased>>

Answered == \A t \in program.tasks : outcome[t] = "answered"
Rejected == \E t \in program.tasks : outcome[t] = "failed"

\* The durable copy follows, under the version that was read. lost: the store
\* commits and the answer does not arrive; the program sees a failure.
WriteThrough ==
  /\ program.op = "writing" /\ Answered
  /\ \/ stored' = [stored EXCEPT ![program.obj] = program.values] /\ UNCHANGED failures
     \/ /\ failures < MaxFailures /\ failures' = failures + 1
        /\ stored' \in {stored, [stored EXCEPT ![program.obj] = program.values]}
  /\ program' = Idle
  /\ aliased' = aliased \ {program.obj}
  /\ UNCHANGED <<links, memo, environments, tasks, outcome, mutations>>

\* The boundary answers, or the first failure rejects it: what is still running
\* runs on.
BoundarySettles ==
  /\ \/ program.op = "boundary" /\ (Answered \/ Rejected)
     \/ program.op = "writing" /\ Rejected
  /\ program' = Idle
  /\ UNCHANGED <<links, memo, stored, environments, tasks, outcome, failures, mutations, aliased>>

----------------------------------------
(* A promotion. *)

\* promote answers from the memo for a reservation as for a published record.
Known(o) == memo[o] # "absent"

\* The next link of the record on top, in any order: answered from the memo, or
\* reserved and its own links taken as they stand.
PromoteNext(t) ==
  /\ Busy(t)
  /\ \E o \in Top(t).todo :
       LET rest == Append(Front(tasks[t]), [Top(t) EXCEPT !.todo = @ \ {o}]) IN
       \/ /\ Known(o)
          /\ tasks' = [tasks EXCEPT ![t] = rest]
          /\ UNCHANGED memo
       \/ /\ memo[o] = "absent"
          /\ memo' = [memo EXCEPT ![o] = "in-progress"]
          /\ tasks' = [tasks EXCEPT ![t] = Append(rest, Frame(o, links[o], links[o]))]
  /\ UNCHANGED <<links, stored, environments, outcome, program, failures, mutations, aliased>>

Ready(t) == Busy(t) /\ Top(t).todo = {} /\ Top(t).obj # Caller

\* #promoteEnvironment's write, before the Block's.
PublishEnvironment(t) ==
  /\ Ready(t) /\ Top(t).obj \in Closures \ environments
  /\ environments' = environments \cup {Top(t).obj}
  /\ UNCHANGED <<links, memo, stored, tasks, outcome, program, failures, mutations, aliased>>

Publishable(t) == Ready(t) /\ Top(t).obj \notin Closures \ environments

\* ensureObject, ensureBlock: exact-or-create.
Publish(t) ==
  LET o == Top(t).obj IN
  /\ Publishable(t)
  /\ stored[o] \in {NoRecord, Top(t).seen}
  /\ stored' = [stored EXCEPT ![o] = Top(t).seen]
  /\ memo' = [memo EXCEPT ![o] = "complete"]
  /\ tasks' = [tasks EXCEPT ![t] = Front(@)]
  /\ UNCHANGED <<links, environments, outcome, program, failures, mutations, aliased>>

Reserved(t) == {tasks[t][i].obj : i \in DOMAIN tasks[t]} \ {Caller}

\* Every promote call the failure passes through deletes its own entry.
Unreserve(t) == [o \in Objs |-> IF o \in Reserved(t) THEN "absent" ELSE memo[o]]

FailTask(t) ==
  /\ memo' = Unreserve(t)
  /\ tasks' = [tasks EXCEPT ![t] = <<>>]
  /\ outcome' = [outcome EXCEPT ![t] = "failed"]
  /\ UNCHANGED <<links, program, mutations, aliased>>

\* The store refuses the write, or commits it and the answer is lost.
PublishFails(t) ==
  /\ Ready(t)
  /\ failures < MaxFailures /\ failures' = failures + 1
  /\ FailTask(t)
  /\ \/ UNCHANGED <<stored, environments>>
     \/ Publishable(t) /\ stored[Top(t).obj] = NoRecord
          /\ stored' = [stored EXCEPT ![Top(t).obj] = Top(t).seen] /\ UNCHANGED environments
     \/ ~Publishable(t) /\ environments' = environments \cup {Top(t).obj} /\ UNCHANGED stored

\* Another record is under the id already: RecordConflictError.
Conflict(t) ==
  /\ Publishable(t)
  /\ stored[Top(t).obj] \notin {NoRecord, Top(t).seen}
  /\ FailTask(t)
  /\ UNCHANGED <<stored, environments, failures>>

TaskAnswers(t) ==
  /\ Busy(t) /\ Top(t).obj = Caller /\ Top(t).todo = {}
  /\ tasks' = [tasks EXCEPT ![t] = <<>>]
  /\ outcome' = [outcome EXCEPT ![t] = "answered"]
  /\ UNCHANGED <<links, memo, stored, environments, program, failures, mutations, aliased>>

TaskStep(t) ==
  \/ PromoteNext(t) \/ PublishEnvironment(t) \/ Publish(t)
  \/ PublishFails(t) \/ Conflict(t) \/ TaskAnswers(t)

----------------------------------------
PromotionInit ==
  /\ links \in Graphs
  /\ memo = [o \in Objs |-> "absent"]
  /\ stored = [o \in Objs |-> NoRecord]
  /\ environments = {}
  /\ tasks = [t \in Tasks |-> <<>>]
  /\ outcome = [t \in Tasks |-> "none"]
  /\ program = Idle
  /\ failures = 0 /\ mutations = 0 /\ aliased = {}

PromotionProgress ==
  \/ ReadDurable \/ WriteThrough \/ BoundarySettles
  \/ \E t \in Tasks : TaskStep(t)

PromotionNext ==
  \/ \E values \in SUBSET Objs \ {{}} : Boundary(values)
  \/ \E o \in Objs, new \in SUBSET Objs : Mutate(o, new) \/ PutDurable(o, new)
  \/ PromotionProgress

\* Every promise the host has started settles; the program need not go on.
PromotionFairness == WF_promotionVars(PromotionProgress)

PromotionSpec == PromotionInit /\ [][PromotionNext]_promotionVars /\ PromotionFairness

----------------------------------------
\* The types of the arena, the memo and the store.
PromotionTypeOK ==
  /\ links \in [Objs -> SUBSET Objs]
  /\ memo \in [Objs -> {"absent", "in-progress", "complete"}]
  /\ stored \in [Objs -> (SUBSET Objs) \cup {NoRecord}]
  /\ environments \subseteq Closures /\ aliased \subseteq Objs
  /\ \A t \in Tasks : \A i \in DOMAIN tasks[t] :
       /\ tasks[t][i].obj \in Objs \cup {Caller}
       /\ tasks[t][i].todo \subseteq Objs
  /\ outcome \in [Tasks -> {"none", "running", "answered", "failed"}]

\* The promote calls under way.
PromoteCalls == UNION {{t} \X DOMAIN tasks[t] : t \in Tasks}

\* The three states of the memo mean what they say: a complete entry has its
\* records, and an in-progress one has exactly one promotion at work on it, so
\* that no reservation outlives a failure as an answer (closure-promotion.js's
\* "a reservation nobody honoured must not survive").
MemoIsHonoured ==
  /\ \A o \in Objs : memo[o] = "complete" =>
       stored[o] # NoRecord /\ (o \in Closures => o \in environments)
  /\ \A o \in Objs :
       LET at == {here \in PromoteCalls : tasks[here[1]][here[2]].obj = o}
       IN IF memo[o] = "in-progress" THEN Cardinality(at) = 1 ELSE at = {}

Quiet == program = Idle /\ \A t \in Tasks : ~Busy(t)
Durable == {o \in Objs : stored[o] # NoRecord}

\* As long as no write failed, what a boundary made durable is a whole graph
\* and is up to date: every link of a stored record leads to a stored record,
\* and each promoted object's record is the object as the execution sees it,
\* cycles, sharing and writes between two boundaries included (ADR 0060
\* decisions 4 and 5, view.putObject). A write through the durable ref leaves
\* the arena's copy behind until the object is written through its own.
DurableGraphIsWhole ==
  failures = 0 /\ Quiet =>
    \A o \in Durable :
      /\ stored[o] \subseteq Durable
      /\ stored[o] = links[o] \/ o \in aliased

\* What is durable refers to nothing that is not, and the memo says "complete"
\* of nothing whose graph is not stored (closure-promotion.js).
PromotionsAreWhole == MemoIsHonoured /\ DurableGraphIsWhole
========================================
