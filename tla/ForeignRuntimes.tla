--------------------------- MODULE ForeignRuntimes ---------------------------
(***************************************************************************)
(* Foreign runtimes of one definition: the instance cache                  *)
(* (foreign-runtime/callable-executor.js), the lifecycle service           *)
(* (service.js), a provider of guests over lines                           *)
(* (common-lisp-sbcl-provider.js, the Cuis one alike) and the bridge       *)
(* (stdio-value-bridge.js, line-process-runner.js).                        *)
(*                                                                         *)
(* A call first gets the cached start of the definition, then is accepted  *)
(* by the service, then waits its turn on the instance's queue, then for   *)
(* the line that carries its request id. Stops drain the accepted calls,   *)
(* say QUIT, and kill a guest that does not leave. Timeouts may fire at    *)
(* any time; a guest may answer late, hang, or die at any time.            *)
(***************************************************************************)
EXTENDS Naturals, FiniteSets, SequencesExt

CONSTANTS
  Calls,     \* calls of the definition's callable, each made once
  MaxStarts, \* bound: start attempts
  MaxStops   \* bound: stop() calls of clients

ASSUME ForeignRuntimesAssumption == MaxStarts \in Nat \ {0} /\ MaxStops \in Nat

VARIABLES
  cache,      \* the start attempt the cache holds, 0 for none
  start,      \* per attempt: how far the start has come
  guest,      \* per attempt: its process
  killed,     \* attempts whose process was sent SIGKILL
  status,     \* per attempt: the service's instance, "none" when not listed
  stopping,   \* per attempt: how far a stop has come
  stopFailed, \* attempts a stop of which has failed
  terminated, \* handles marked terminated
  inbox,      \* per attempt: lines the guest has still to read
  lines,      \* per attempt: lines the host has still to read
  requests,   \* per attempt: request ids given out
  queue,      \* per attempt: accepted calls, the one being served first
  call,       \* per call: where it is
  closer,     \* the service's close()
  stops

runtimeVars == <<cache, start, guest, killed, status, stopping, stopFailed, terminated,
                 inbox, lines, requests, queue, call, closer, stops>>
guestVars == <<guest, inbox, lines>>
serviceVars == <<status, stopping, stopFailed, terminated>>

----------------------------------------
Attempts == 1..MaxStarts
Quit == [id |-> 0, for |-> 0]  \* QUIT on the way in, BYE on the way out

CallAt(phase, n, id) == [phase |-> phase, inst |-> n, id |-> id, result |-> 0, why |-> ""]
Settled(c) == call[c].phase \in {"idle", "answered", "failed"}
Fails(c, why) == call' = [call EXCEPT ![c].phase = "failed", ![c].why = why]
Alive(n) == guest[n] \in {"booting", "ready"}
Accepted(n) == {c \in Calls : call[c].inst = n /\ call[c].phase \in {"queued", "waiting"}}

----------------------------------------
(* The instance cache and the provider's start. *)

Fresh == CHOOSE n \in Attempts : start[n] = "none" /\ \A m \in 1..(n - 1) : start[m] # "none"
CanStart == \E n \in Attempts : start[n] = "none"

\* ForeignRuntimeDefinitionInstanceCache.get: the entry is there from the first
\* call on, so that later ones wait for the same start. A close refuses
\* none: who gets while it runs joins or begins a start it does not stop, who
\* gets after it begins one of a cache that was cleared.
Get(c) ==
  /\ call[c].phase = "idle"
  /\ IF cache # 0
     THEN UNCHANGED <<cache, start>> /\ call' = [call EXCEPT ![c] = CallAt("getting", cache, 0)]
     ELSE /\ CanStart
          /\ start' = [start EXCEPT ![Fresh] = "resolving"]
          /\ cache' = Fresh
          /\ call' = [call EXCEPT ![c] = CallAt("getting", Fresh, 0)]
  /\ UNCHANGED <<guestVars, serviceVars, killed, requests, queue, closer, stops>>

Spawn(n) ==
  /\ start[n] = "resolving"
  /\ start' = [start EXCEPT ![n] = "booting"]
  /\ guest' = [guest EXCEPT ![n] = "booting"]
  /\ UNCHANGED <<cache, killed, serviceVars, inbox, lines, requests, queue, call, closer, stops>>

\* READY was read: the service lists the instance as active.
StartEnds(n) ==
  /\ start[n] = "booting" /\ guest[n] = "ready"
  /\ start' = [start EXCEPT ![n] = "started"]
  /\ status' = [status EXCEPT ![n] = "active"]
  /\ UNCHANGED <<cache, guestVars, killed, stopping, stopFailed, terminated, requests, queue,
                 call, closer, stops>>

StartFails(n) ==
  /\ start' = [start EXCEPT ![n] = "failed"]
  /\ cache' = IF cache = n THEN 0 ELSE cache
  /\ UNCHANGED <<guestVars, serviceVars, requests, queue, call, closer, stops>>

\* A definition that does not resolve, a workspace that cannot be written.
ResolveFails(n) == start[n] = "resolving" /\ StartFails(n) /\ UNCHANGED killed

\* The guest died, or was not ready in time: forceStopSession, then the failure.
BootFails(n) == start[n] = "booting" /\ StartFails(n) /\ killed' = killed \cup {n}

----------------------------------------
(* A call. *)

\* ForeignRuntimeService.call once the cached start has settled.
Accept(c) ==
  LET n == call[c].inst IN
  /\ call[c].phase = "getting" /\ start[n] \in {"started", "failed"}
  /\ IF status[n] = "active"
     THEN /\ call' = [call EXCEPT ![c] = CallAt("queued", n, 0)]
          /\ queue' = [queue EXCEPT ![n] = Append(@, c)]
     ELSE Fails(c, "inactive") /\ UNCHANGED queue
  /\ UNCHANGED <<cache, start, guestVars, killed, serviceVars, requests, closer, stops>>

Serves(n, c) == queue[n] # <<>> /\ Head(queue[n]) = c

\* bridgeCall at its turn, up to the written line.
Send(c) ==
  LET n == call[c].inst IN
  /\ call[c].phase = "queued" /\ Serves(n, c)
  /\ IF terminated[n] \/ ~Alive(n)
     THEN /\ Fails(c, IF terminated[n] THEN "terminated" ELSE "exited")
          /\ queue' = [queue EXCEPT ![n] = Tail(@)]
          /\ UNCHANGED <<inbox, requests>>
     ELSE /\ requests' = [requests EXCEPT ![n] = @ + 1]
          /\ inbox' = [inbox EXCEPT ![n] = Append(@, [id |-> requests[n] + 1, for |-> c])]
          /\ call' = [call EXCEPT ![c] = CallAt("waiting", n, requests[n] + 1)]
          /\ UNCHANGED queue
  /\ UNCHANGED <<cache, start, guest, killed, serviceVars, lines, closer, stops>>

\* Mutant of Matches: the next answer is taken for one's own.
AnyAnswer(line, id) == line.id # 0

\* The predicate of bridgeCall's nextMatchingLine.
Matches(line, id) == line.id = id

\* One line read by a waiting call: its answer, or one to skip.
ReadAnswer(c) ==
  LET n == call[c].inst IN
  /\ call[c].phase = "waiting" /\ lines[n] # <<>>
  /\ lines' = [lines EXCEPT ![n] = Tail(@)]
  /\ IF Matches(Head(lines[n]), call[c].id)
     THEN /\ call' = [call EXCEPT ![c].phase = "answered", ![c].result = Head(lines[n]).for]
          /\ queue' = [queue EXCEPT ![n] = Tail(@)]
     ELSE UNCHANGED <<call, queue>>
  /\ UNCHANGED <<cache, start, guest, inbox, killed, serviceVars, requests, closer, stops>>

\* The time is over, or the guest is gone and all it said was read.
GiveUp(c) ==
  LET n == call[c].inst IN
  /\ call[c].phase = "waiting"
  /\ \/ Fails(c, "timeout")
     \/ ~Alive(n) /\ lines[n] = <<>> /\ Fails(c, "exited")
  /\ queue' = [queue EXCEPT ![n] = Tail(@)]
  /\ UNCHANGED <<cache, start, guestVars, killed, serviceVars, requests, closer, stops>>

----------------------------------------
(* ForeignRuntimeService.stop over bridgeQuit. *)

BeginStop(n) ==
  /\ status' = [status EXCEPT ![n] = "stopping"]
  /\ stopping' = [stopping EXCEPT ![n] = "draining"]

ClientStop(n) ==
  /\ status[n] = "active" /\ stops < MaxStops
  /\ BeginStop(n)
  /\ stops' = stops + 1
  /\ UNCHANGED <<cache, start, guestVars, killed, stopFailed, terminated, requests, queue, call,
                 closer>>

\* The provider has stopped the guest: the instance goes.
StopEnds(n) ==
  /\ status' = [status EXCEPT ![n] = "none"]
  /\ stopping' = [stopping EXCEPT ![n] = "no"]
  /\ terminated' = [terminated EXCEPT ![n] = TRUE]
  /\ UNCHANGED stopFailed

\* Promise.allSettled of the accepted calls.
Drained(n) == Accepted(n) = {}

\* QUIT is written, unless the handle is terminated already or the guest gone.
SayQuit(n) ==
  /\ stopping[n] = "draining" /\ Drained(n)
  /\ IF terminated[n] THEN StopEnds(n) /\ UNCHANGED inbox
     ELSE /\ stopping' = [stopping EXCEPT ![n] = "quitting"]
          /\ inbox' = [inbox EXCEPT ![n] = Append(@, Quit)]
          /\ UNCHANGED <<status, stopFailed, terminated>>
  /\ UNCHANGED <<cache, start, guest, killed, lines, requests, queue, call, closer, stops>>

\* Late answers are skipped until BYE.
ReadBye(n) ==
  /\ stopping[n] = "quitting" /\ lines[n] # <<>>
  /\ lines' = [lines EXCEPT ![n] = Tail(@)]
  /\ stopping' = IF Head(lines[n]) = Quit THEN [stopping EXCEPT ![n] = "leaving"] ELSE stopping
  /\ UNCHANGED <<cache, start, guest, killed, status, stopFailed, terminated, inbox, requests,
                 queue, call, closer, stops>>

\* A guest that does not say BYE and leave in time is killed.
KillGuest(n) ==
  /\ stopping[n] \in {"quitting", "leaving"}
  /\ stopping' = [stopping EXCEPT ![n] = "killing"]
  /\ killed' = killed \cup {n}
  /\ UNCHANGED <<cache, start, guestVars, status, stopFailed, terminated, requests, queue, call,
                 closer, stops>>

GuestHasLeft(n) ==
  /\ stopping[n] \in {"leaving", "killing"} /\ guest[n] = "exited"
  /\ StopEnds(n)
  /\ UNCHANGED <<cache, start, guestVars, killed, requests, queue, call, closer, stops>>

\* The killed guest is not seen to exit in time, or the workspace cannot be
\* removed: the handle is terminated, the instance is active again.
StopFails(n) ==
  /\ stopping[n] = "killing"
  /\ stopping' = [stopping EXCEPT ![n] = "no"]
  /\ status' = [status EXCEPT ![n] = "active"]
  /\ terminated' = [terminated EXCEPT ![n] = TRUE]
  /\ stopFailed' = stopFailed \cup {n}
  /\ UNCHANGED <<cache, start, guestVars, killed, requests, queue, call, closer, stops>>

----------------------------------------
(* ForeignRuntimeService.close, and the runtime's: one instance after another,
   of those listed when it began. *)
CloseBegins ==
  /\ closer.phase = "no"
  /\ closer' = [phase |-> "closing", todo |-> {n \in Attempts : status[n] # "none"},
                current |-> 0, failures |-> 0]
  /\ UNCHANGED <<cache, start, guestVars, killed, serviceVars, requests, queue, call, stops>>

\* The stop it waited for is over, well or not.
CloseAwaits ==
  /\ closer.current # 0 /\ stopping[closer.current] = "no"
  /\ closer' = [closer EXCEPT !.current = 0,
                  !.failures = @ + IF status[closer.current] = "active" THEN 1 ELSE 0]
  /\ UNCHANGED <<cache, start, guestVars, killed, serviceVars, requests, queue, call, stops>>

CloseNext(n) ==
  /\ closer.phase = "closing" /\ closer.current = 0 /\ n \in closer.todo
  /\ IF status[n] = "active"
     THEN BeginStop(n) /\ closer' = [closer EXCEPT !.todo = @ \ {n}, !.current = n]
     ELSE /\ UNCHANGED <<status, stopping>>
          /\ closer' = [closer EXCEPT !.todo = @ \ {n}, !.failures = @ + 1]
  /\ UNCHANGED <<cache, start, guestVars, killed, stopFailed, terminated, requests, queue, call,
                 stops>>

CloseEnds ==
  /\ closer.phase = "closing" /\ closer.current = 0 /\ closer.todo = {}
  /\ closer' = [closer EXCEPT !.phase = IF closer.failures = 0 THEN "closed" ELSE "failed"]
  /\ cache' = 0
  /\ UNCHANGED <<start, guestVars, killed, serviceVars, requests, queue, call, stops>>

----------------------------------------
(* The guest. *)
GuestReady(n) ==
  /\ guest[n] = "booting" /\ n \notin killed
  /\ guest' = [guest EXCEPT ![n] = "ready"]
  /\ UNCHANGED <<cache, start, killed, serviceVars, inbox, lines, requests, queue, call, closer,
                 stops>>

GuestAnswers(n) ==
  /\ guest[n] = "ready" /\ inbox[n] # <<>>
  /\ lines' = [lines EXCEPT ![n] = Append(@, Head(inbox[n]))]
  /\ inbox' = [inbox EXCEPT ![n] = Tail(@)]
  /\ guest' = IF Head(inbox[n]) = Quit THEN [guest EXCEPT ![n] = "exited"] ELSE guest
  /\ UNCHANGED <<cache, start, killed, serviceVars, requests, queue, call, closer, stops>>

GuestDies(n) ==
  /\ Alive(n)
  /\ guest' = [guest EXCEPT ![n] = "exited"]
  /\ UNCHANGED <<cache, start, killed, serviceVars, inbox, lines, requests, queue, call, closer,
                 stops>>

----------------------------------------
RuntimesInit ==
  /\ cache = 0 /\ killed = {} /\ stopFailed = {} /\ stops = 0
  /\ start = [n \in Attempts |-> "none"]
  /\ guest = [n \in Attempts |-> "none"]
  /\ status = [n \in Attempts |-> "none"]
  /\ stopping = [n \in Attempts |-> "no"]
  /\ terminated = [n \in Attempts |-> FALSE]
  /\ inbox = [n \in Attempts |-> <<>>]
  /\ lines = [n \in Attempts |-> <<>>]
  /\ requests = [n \in Attempts |-> 0]
  /\ queue = [n \in Attempts |-> <<>>]
  /\ call = [c \in Calls |-> CallAt("idle", 0, 0)]
  /\ closer = [phase |-> "no", todo |-> {}, current |-> 0, failures |-> 0]

StartStep(n) == Spawn(n) \/ StartEnds(n) \/ ResolveFails(n) \/ BootFails(n)
CallStep(c) == Accept(c) \/ Send(c) \/ ReadAnswer(c) \/ GiveUp(c)
StopStep(n) == SayQuit(n) \/ ReadBye(n) \/ KillGuest(n) \/ GuestHasLeft(n) \/ StopFails(n)
CloseStep == CloseAwaits \/ CloseEnds \/ \E n \in Attempts : CloseNext(n)

HostProgress ==
  \/ \E c \in Calls : CallStep(c)
  \/ \E n \in Attempts : StartStep(n) \/ StopStep(n)
  \/ CloseStep

RuntimesNext ==
  \/ HostProgress
  \/ \E c \in Calls : Get(c)
  \/ \E n \in Attempts : \/ ClientStop(n)
                         \/ GuestReady(n) \/ GuestAnswers(n) \/ GuestDies(n)
  \/ CloseBegins

\* The host goes on with what it has begun, its timers included; nothing is
\* assumed of the guest.
RuntimesFairness == WF_runtimeVars(HostProgress)

RuntimesSpec == RuntimesInit /\ [][RuntimesNext]_runtimeVars /\ RuntimesFairness

----------------------------------------
\* The types of the cache, the service, the handles and the calls.
RuntimesTypeOK ==
  /\ cache \in {0} \cup Attempts
  /\ start \in [Attempts -> {"none", "resolving", "booting", "started", "failed"}]
  /\ guest \in [Attempts -> {"none", "booting", "ready", "exited"}]
  /\ status \in [Attempts -> {"none", "active", "stopping"}]
  /\ stopping \in [Attempts -> {"no", "draining", "quitting", "leaving", "killing"}]
  /\ \A n \in Attempts : queue[n] \in Seq(Calls)
  /\ \A c \in Calls : call[c].phase \in
       {"idle", "getting", "queued", "waiting", "answered", "failed"}

\* A call is answered with the answer to its own request, although calls that
\* gave up leave their answers behind on the same session (request ids,
\* nextMatchingLine).
AnswersAreTheCallsOwn == \A c \in Calls : call[c].phase = "answered" => call[c].result = c

\* A call the service accepted is never cut off by a stop: it settles first
\* (service.js stop, ADR 0023: shutdown does not race accepted calls). Only an
\* instance that a failed stop made active again refuses what it accepted.
AcceptedCallsOutliveStops ==
  \A c \in Calls :
    /\ call[c].why = "terminated" => call[c].inst \in stopFailed
    /\ call[c].phase \in {"queued", "waiting"} =>
         stopping[call[c].inst] \in {"no", "draining"}

\* No guest runs without an owner: a process that was not told to die is one
\* being started, or one the service lists (cleanup of a failed start). And the
\* definition never has two (the cache's coalescing of first calls) until the
\* runtime's close has cleared the cache, over a start it did not wait for.
GuestsHaveAnOwner ==
  LET Unkilled == {n \in Attempts : Alive(n) /\ n \notin killed} IN
  /\ \A n \in Unkilled : start[n] = "booting" \/ status[n] # "none"
  /\ \/ closer.phase \in {"closed", "failed"}
     \/ Cardinality({n \in Unkilled : start[n] = "booting" \/ status[n] = "active"}) <= 1
========================================
