------------------------------ MODULE LabSuite ------------------------------
(***************************************************************************)
(* The lab test run (scripts/lab-suite.mjs and lab-suite-worker.mjs): a    *)
(* controller keeps one queue of test files (jobs), longest first, and one *)
(* ssh session per worker.  A worker gets the snapshot, reports ready, and *)
(* is kept supplied with up to WorkerSlots files; a worker whose session closes  *)
(* loses the files it had in flight, and each of them goes back on the     *)
(* queue once.  When nothing is left to do every session is told to end,   *)
(* and when all have closed the facts they sent become one verdict.        *)
(*                                                                         *)
(* The state of LabScheduler is the record `lab'; every handler of         *)
(* runSessions computes the next record, and what it adds to a worker's    *)
(* files in flight is what it writes on that worker's session.             *)
(***************************************************************************)
EXTENDS Naturals, Sequences, FiniteSets

CONSTANTS
  Workers,       \* selectWorkers' answer: the sessions of the run
  WorkerSlots,         \* [Workers -> Nat], the files a worker keeps in flight
  Faster(_, _),  \* the order of singleThread, ties by name
  LabJobs,       \* (lane, file) pairs, numbered by cost: 1 is the longest
  MayEnd,        \* [LabJobs -> a set of "pass", "fail" (reported), "crash"]
  MaxDrops       \* bound: sessions that break during the run

\* The run starts with a worker at least (main refuses a lab without any), the
\* files are finitely many, and Faster puts the workers in an order.
ASSUME LabAssumption ==
  /\ IsFiniteSet(Workers) /\ Workers # {}
  /\ IsFiniteSet(LabJobs) /\ LabJobs \subseteq Nat \ {0}
  /\ WorkerSlots \in [Workers -> Nat]
  /\ MayEnd \in [LabJobs -> SUBSET {"pass", "fail", "crash"}]
  /\ \A v, w \in Workers : Faster(v, w) \in BOOLEAN /\ ~(Faster(v, w) /\ Faster(w, v))
  /\ \A v, w \in Workers : v = w \/ Faster(v, w) \/ Faster(w, v)
  /\ \A u, v, w \in Workers : Faster(u, v) /\ Faster(v, w) => Faster(u, w)

End == 0   \* the {"end": true} command; a run command is its job

VARIABLES
  lab,         \* LabScheduler: queue, attempt, ready, alive, inFlight, started
  sessions,    \* per worker: commands, facts, driver, running, ending, killed
  reports,     \* per worker: dispatched, done, failed, errors, as aggregate reads them
  startTimer,  \* "unset", "set" or "off"
  timedOut,
  ran,         \* what really ran: <<worker, job, outcome>>, "lost" when cut off
  drops

labVars == <<lab, sessions, reports, startTimer, timedOut, ran, drops>>

LabInit ==
  /\ lab = [queue |-> LabJobs, attempt |-> [j \in LabJobs |-> 1],
            ready |-> {}, alive |-> Workers,
            inFlight |-> [w \in Workers |-> {}], started |-> FALSE]
  /\ sessions = [w \in Workers |->
                   [commands |-> <<>>, facts |-> <<>>, driver |-> "starting",
                    running |-> {}, ending |-> FALSE, killed |-> FALSE]]
  /\ reports = [w \in Workers |->
                  [dispatched |-> {}, done |-> {}, failed |-> {}, errors |-> 0]]
  /\ startTimer = "unset"
  /\ timedOut = FALSE
  /\ ran = {}
  /\ drops = 0

----------------------------------------
(* LabScheduler. *)

FreeSlots(s, w) == 1 .. (WorkerSlots[w] - Cardinality(s.inFlight[w]))

\* The place of x in S, counted from 1.
Place(x, S, before(_, _)) == 1 + Cardinality({y \in S : before(y, x)})

Longer(i, j) == i < j

\* The queue, longest first, dealt to free slots <<worker, round>> in their order.
Dealt(s, slots, before(_, _)) ==
  LET taken(w) ==
        {j \in s.queue : \E p \in slots :
           p[1] = w /\ Place(p, slots, before) = Place(j, s.queue, Longer)}
  IN [s EXCEPT !.queue = @ \ UNION {taken(w) : w \in Workers},
               !.inFlight = [w \in Workers |-> @[w] \cup taken(w)]]

SlotsOfWorkers(s, W) == UNION {{<<w, r>> : r \in FreeSlots(s, w)} : w \in W}

RoundByRound(p, q) == p[2] < q[2] \/ (p[2] = q[2] /\ Faster(p[1], q[1]))

WorkerByWorker(p, q) == Faster(p[1], q[1]) \/ (p[1] = q[1] /\ p[2] < q[2])

Hands(s) == s.ready \cap s.alive

\* start(): one file per ready worker and round, the fastest core first.
Start(s) ==
  Dealt([s EXCEPT !.started = TRUE], SlotsOfWorkers(s, Hands(s)), RoundByRound)

\* fill(name): this worker's free slots.
Fill(s, w) ==
  IF s.started /\ w \in Hands(s)
  THEN Dealt(s, SlotsOfWorkers(s, {w}), WorkerByWorker)
  ELSE s

\* fillAll(): every ready worker's free slots, one worker after another.
FillAll(s) ==
  IF s.started THEN Dealt(s, SlotsOfWorkers(s, Hands(s)), WorkerByWorker) ELSE s

MarkReady(s, w) ==
  IF w \in s.alive THEN Fill([s EXCEPT !.ready = @ \cup {w}], w) ELSE s

Complete(s, w, j) ==
  IF j \in s.inFlight[w] THEN Fill([s EXCEPT !.inFlight[w] = @ \ {j}], w) ELSE s

DropWorker(s, w) == [s EXCEPT !.alive = @ \ {w}, !.inFlight[w] = {}]

\* requeue(jobs): a second loss is not retried.
Requeue(s, lost) ==
  LET again == {j \in lost : s.attempt[j] < 2}
  IN [s EXCEPT !.queue = @ \cup again,
               !.attempt = [j \in LabJobs |-> IF j \in again THEN 2 ELSE @[j]]]

----------------------------------------
(* runSessions: the controller's handlers. *)

BeginIfDue(s) ==
  IF ~s.started /\ s.alive # {} /\ s.alive \subseteq s.ready THEN Start(s) ELSE s

\* settle(): nothing queued and nothing in flight anywhere.
NothingLeft(s) ==
  s.started /\ s.queue = {} /\ \A w \in Workers : s.inFlight[w] = {}

Ends(s, w) == NothingLeft(s) /\ w \in Hands(s) /\ ~sessions[w].ending

Kills(s, w) ==
  NothingLeft(s) /\ w \in s.alive \ s.ready /\ ~sessions[w].ending

\* Both, without the kill: a worker that never became ready is waited for.
LongestFirst(J) ==
  [k \in 1 .. Cardinality(J) |-> CHOOSE j \in J : Place(j, J, Longer) = k]

\* A handler moves the scheduler to s, writes the files it handed out, and,
\* where it calls settle, ends the sessions; heard is the session whose fact
\* (if any) it has taken.
Moves(s, settles, heard) ==
  LET sent(w) == s.inFlight[w] \ lab.inFlight[w]
      ends(w) == settles /\ Ends(s, w)
      kills(w) == settles /\ Kills(s, w)
  IN /\ lab' = s
     /\ sessions' = [w \in Workers |->
          [sessions[w] EXCEPT
             !.commands = @ \o LongestFirst(sent(w)) \o (IF ends(w) THEN <<End>> ELSE <<>>),
             !.facts = IF w \in heard THEN Tail(@) ELSE @,
             !.ending = @ \/ ends(w),
             !.killed = @ \/ kills(w)]]

Dispatches(w, s) == reports[w].dispatched \cup (s.inFlight[w] \ lab.inFlight[w])

Reports(s, w, fact) ==
  reports' = [v \in Workers |->
    [reports[v] EXCEPT
       !.dispatched = Dispatches(v, s),
       !.done = IF v = w /\ fact.t = "done" THEN @ \cup {<<fact.job, fact.code>>} ELSE @,
       !.failed = IF v = w /\ fact.t = "fail" THEN @ \cup {fact.job} ELSE @,
       !.errors = IF v = w /\ fact.t = "error" THEN 1 ELSE @]]

NoFact == [t |-> "none"]

\* onFact.
Hears(w) ==
  /\ sessions[w].facts # <<>>
  /\ LET fact == Head(sessions[w].facts)
         next == CASE fact.t = "ready" -> BeginIfDue(MarkReady(lab, w))
                   [] fact.t = "done" -> Complete(lab, w, fact.job)
                   [] OTHER -> lab
         begun == ~lab.started /\ next.started
     IN /\ Moves(next, fact.t = "done" \/ begun, {w})
        /\ Reports(next, w, fact)
        /\ startTimer' = IF begun THEN "off"
                         ELSE IF fact.t = "ready" /\ ~lab.started /\ startTimer = "unset"
                         THEN "set" ELSE startTimer
  /\ UNCHANGED <<timedOut, ran, drops>>

\* begin(), when the first ready worker has waited startWaitMs.
StartTimerFires ==
  /\ startTimer = "set"
  /\ startTimer' = "off"
  /\ LET next == Start(lab)
     IN Moves(next, TRUE, {}) /\ Reports(next, CHOOSE w \in Workers : TRUE, NoFact)
  /\ UNCHANGED <<timedOut, ran, drops>>

\* What becomes of the files a closed session had in flight.
AfterLossUnfilled(s, lost) ==
  IF lost # {} /\ s.started THEN Requeue(s, lost) ELSE s

AfterLoss(s, lost) ==
  IF lost # {} /\ s.started THEN FillAll(Requeue(s, lost)) ELSE s

\* onClose: every fact the session still held has been heard before.
Closes(w) ==
  /\ sessions[w].driver = "gone"
  /\ sessions[w].facts = <<>>
  /\ w \in lab.alive
  /\ LET next == BeginIfDue(AfterLoss(DropWorker(lab, w), lab.inFlight[w]))
         begun == ~lab.started /\ next.started
         last == next.alive = {}
     IN /\ Moves(next, TRUE, {})
        /\ Reports(next, w, NoFact)
        /\ startTimer' = IF begun \/ last THEN "off" ELSE startTimer
  /\ UNCHANGED <<timedOut, ran, drops>>

RunIsOver == lab.alive = {}

\* The run's own limit: every session is killed.
TimesOut ==
  /\ ~timedOut /\ ~RunIsOver
  /\ timedOut' = TRUE
  /\ sessions' = [w \in Workers |-> [sessions[w] EXCEPT !.killed = TRUE]]
  /\ UNCHANGED <<lab, reports, startTimer, ran, drops>>

----------------------------------------
(* lab-suite-worker.mjs: one driver per session. *)

\* The snapshot is extracted and the dependencies are there, or not.
GetsReady(w) ==
  /\ sessions[w].driver = "starting" /\ ~sessions[w].killed
  /\ \/ sessions' = [sessions EXCEPT ![w].driver = "up",
                                     ![w].facts = Append(@, [t |-> "ready"])]
     \/ sessions' = [sessions EXCEPT ![w].driver = "gone",
                                     ![w].facts = Append(@, [t |-> "error"])]
  /\ UNCHANGED <<lab, reports, startTimer, timedOut, ran, drops>>

\* onLine: a run command starts its file at once, "end" is remembered.
TakesCommand(w) ==
  /\ sessions[w].driver = "up" /\ sessions[w].commands # <<>>
  /\ LET command == Head(sessions[w].commands)
     IN sessions' = [sessions EXCEPT
          ![w].commands = Tail(@),
          ![w].running = IF command = End THEN @ ELSE @ \cup {command},
          ![w].driver = IF command = End THEN "ended" ELSE @]
  /\ UNCHANGED <<lab, reports, startTimer, timedOut, ran, drops>>

\* runFile's close: the reporter's failures went out before "done".
Told(j, outcome) ==
  (IF outcome = "fail" THEN <<[t |-> "fail", job |-> j]>> ELSE <<>>)
    \o <<[t |-> "done", job |-> j, code |-> IF outcome = "pass" THEN 0 ELSE 1]>>

FileEnds(w) ==
  /\ sessions[w].driver \in {"up", "ended"}
  /\ \E j \in sessions[w].running : \E outcome \in MayEnd[j] :
       /\ sessions' = [sessions EXCEPT ![w].running = @ \ {j},
                                       ![w].facts = @ \o Told(j, outcome)]
       /\ ran' = ran \cup {<<w, j, outcome>>}
  /\ UNCHANGED <<lab, reports, startTimer, timedOut, drops>>

\* finishIfDone.
DriverExits(w) ==
  /\ sessions[w].driver = "ended" /\ sessions[w].running = {}
  /\ sessions' = [sessions EXCEPT ![w].driver = "gone"]
  /\ UNCHANGED <<lab, reports, startTimer, timedOut, ran, drops>>

\* The session is cut: what was on its way is lost from some point on.
Cut(w) ==
  /\ sessions[w].driver # "gone"
  /\ \E n \in 0 .. Len(sessions[w].facts) :
       sessions' = [sessions EXCEPT
         ![w].driver = "gone", ![w].running = {}, ![w].commands = <<>>,
         ![w].facts = SubSeq(@, 1, n)]
  /\ ran' = ran \cup {<<w, j, "lost">> : j \in sessions[w].running}

\* kill(), taking effect.
KilledSessionEnds(w) ==
  /\ sessions[w].killed
  /\ Cut(w)
  /\ UNCHANGED <<lab, reports, startTimer, timedOut, drops>>

WorkerDrops(w) ==
  /\ drops < MaxDrops /\ ~sessions[w].killed
  /\ drops' = drops + 1
  /\ Cut(w)
  /\ UNCHANGED <<lab, reports, startTimer, timedOut>>

LabProgress ==
  \/ StartTimerFires
  \/ \E w \in Workers :
       \/ Hears(w) \/ Closes(w)
       \/ GetsReady(w) \/ TakesCommand(w) \/ FileEnds(w) \/ DriverExits(w)
       \/ KilledSessionEnds(w)

LabNext == LabProgress \/ TimesOut \/ \E w \in Workers : WorkerDrops(w)

\* A worker's lock wait, npm ci and its test files end by themselves, a killed
\* ssh process closes, the timer fires, and the controller hears every fact.
\* The run's limit and a broken session are never relied on.
LabFairness == WF_labVars(LabProgress)

LabSpec == LabInit /\ [][LabNext]_labVars /\ LabFairness

----------------------------------------
(* aggregate: the verdict. *)

DoneAnywhere == {d[1] : d \in UNION {reports[w].done : w \in Workers}}

\* Dispatched, with no result from this worker nor from another.
NeverFinished(w) == reports[w].dispatched \ DoneAnywhere

ExitedUnexplained(w) ==
  {d[1] : d \in {e \in reports[w].done : e[2] # 0}} \ reports[w].failed

Ok ==
  /\ lab.queue = {}
  /\ \A w \in Workers : /\ NeverFinished(w) = {} /\ ExitedUnexplained(w) = {}
                        /\ reports[w].errors = 0 /\ reports[w].failed = {}

----------------------------------------
(* Properties. *)

LabTypeOK ==
  /\ lab.queue \subseteq LabJobs /\ lab.ready \subseteq Workers
  /\ lab.alive \subseteq Workers /\ lab.started \in BOOLEAN
  /\ lab.attempt \in [LabJobs -> 1 .. 2]
  /\ lab.inFlight \in [Workers -> SUBSET LabJobs]
  /\ startTimer \in {"unset", "set", "off"}

\* A missing result is not a pass: a run that ends "ok" has run every file to
\* a passing end on some worker, and no worker has seen a file fail or crash.
\* With no broken session, no timeout and no worker that could not be set up,
\* the verdict is "ok" whenever every file passed.
VerdictIsHonest ==
  RunIsOver =>
    /\ Ok => \A j \in LabJobs :
               /\ \E w \in Workers : <<w, j, "pass">> \in ran
               /\ \A w \in Workers, o \in {"fail", "crash"} :
                    <<w, j, o>> \in ran => \E v \in Workers \ {w} : <<v, j, "pass">> \in ran
    /\ (/\ drops = 0 /\ ~timedOut
        /\ \A w \in Workers : reports[w].errors = 0
        /\ \A r \in ran : r[3] = "pass") => Ok

\* Work is shared without gap or excess: once the run has started no ready
\* worker has a free slot while a file is queued, a machine never runs more
\* files than its slots, and a file is at one worker only or back on the queue.
WorkIsShared ==
  /\ lab.started /\ lab.queue # {} =>
       \A w \in Hands(lab) : Cardinality(lab.inFlight[w]) = WorkerSlots[w]
  /\ \A w \in Workers : Cardinality(sessions[w].running) <= WorkerSlots[w]
  /\ \A j \in LabJobs :
       Cardinality({w \in Workers : j \in lab.inFlight[w]})
         + (IF j \in lab.queue THEN 1 ELSE 0) <= 1
========================================
