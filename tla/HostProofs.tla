----------------------------- MODULE HostProofs ------------------------------
(***************************************************************************)
(* For any calls, starts and stops: the types of ForeignRuntimes hold, an  *)
(* answer is the call's own, a stop waits for the calls accepted before    *)
(* it, and every process that runs has an owner.  For any workers, slots,  *)
(* files and outcomes: the types of LabSuite hold, its verdict is honest   *)
(* however many sessions break, and work is shared without gap or excess.  *)
(* For any signals, classes, authorities and depth: the types of           *)
(* Conditions hold, its two stacks mirror the call stack, a transfer       *)
(* lands, a cleanup runs once and a handler outside itself.                *)
(***************************************************************************)
EXTENDS ForeignRuntimes, LabSuite, Conditions, SequenceTheorems, FunctionTheorems,
        FiniteSetTheorems, WellFoundedInduction, TLAPS

----------------------------------------
(* Foreign runtimes.  The inductive invariant. *)
RequestLines == [id : Nat, for : Calls \cup {0}]
CallRecords ==
  [phase : {"idle", "getting", "queued", "waiting", "answered", "failed"},
   inst : {0} \cup Attempts, id : Nat, result : Calls \cup {0},
   why : {"", "inactive", "terminated", "exited", "timeout"}]

RuntimesTyped ==
  /\ cache \in {0} \cup Attempts
  /\ start \in [Attempts -> {"none", "resolving", "booting", "started", "failed"}]
  /\ guest \in [Attempts -> {"none", "booting", "ready", "exited"}]
  /\ status \in [Attempts -> {"none", "active", "stopping"}]
  /\ stopping \in [Attempts -> {"no", "draining", "quitting", "leaving", "killing"}]
  /\ terminated \in [Attempts -> BOOLEAN]
  /\ requests \in [Attempts -> Nat]
  /\ inbox \in [Attempts -> Seq(RequestLines)]
  /\ lines \in [Attempts -> Seq(RequestLines)]
  /\ queue \in [Attempts -> Seq(Calls)]
  /\ call \in [Calls -> CallRecords]
  /\ closer \in [phase : {"no", "closing", "closed", "failed"}, todo : SUBSET Attempts,
                 current : {0} \cup Attempts, failures : Nat]

NoneIsAccepted(n) ==
  \A c \in Calls : call[c].inst = n => call[c].phase \notin {"queued", "waiting"}

Runs(n) == start[n] \in {"resolving", "booting", "started"}
IsOver == closer.phase \in {"closed", "failed"}

(* How the start, the process, the listed instance and the handle of one   *)
(* attempt belong together: a handle that is terminated has no process     *)
(* that was not told to die, and no calls unless a stop of it has failed.  *)
AttemptIsSound(n) ==
  /\ start[n] \in {"none", "resolving"} => guest[n] = "none"
  /\ start[n] = "failed" => ~Alive(n) \/ n \in killed
  /\ status[n] # "none" => start[n] = "started"
  /\ status[n] = "stopping" <=> stopping[n] # "no"
  /\ stopping[n] = "killing" => n \in killed
  /\ terminated[n] => start[n] = "started" /\ (n \in killed \/ ~Alive(n))
  /\ terminated[n] /\ n \notin stopFailed => status[n] = "none" /\ NoneIsAccepted(n)
  /\ stopping[n] \in {"quitting", "leaving", "killing"} => NoneIsAccepted(n)
  /\ start[n] = "started" /\ status[n] = "none" => terminated[n]
  /\ Runs(n) => n = cache \/ IsOver

OneRuns == \A m, n \in Attempts : Runs(m) /\ Runs(n) => m = n \/ IsOver

(* A line that was written and not yet read by the host. *)
OnItsWay(n, line) ==
  \/ \E i \in DOMAIN inbox[n] : inbox[n][i] = line
  \/ \E i \in DOMAIN lines[n] : lines[n][i] = line

RequestsAreCounted ==
  \A n \in Attempts, line \in RequestLines : OnItsWay(n, line) => line.id <= requests[n]

(* Who waits is being served, under an id that no other request has. *)
CallIsSound(c) ==
  LET n == call[c].inst IN
  /\ call[c].phase # "idle" => n \in Attempts
  /\ call[c].phase = "waiting" =>
       /\ Serves(n, c)
       /\ call[c].id \in 1..requests[n]
       /\ \A line \in RequestLines : OnItsWay(n, line) /\ line.id = call[c].id => line.for = c
  /\ call[c].phase = "answered" => call[c].result = c
  /\ call[c].why = "terminated" => n \in stopFailed

GuestInv ==
  /\ RuntimesTyped /\ OneRuns /\ RequestsAreCounted
  /\ \A n \in Attempts : AttemptIsSound(n)
  /\ \A c \in Calls : CallIsSound(c)

----------------------------------------
(* Lemmas about the parts that few steps touch. *)
LEMMA GuestParts ==
  ASSUME GuestInv
  PROVE  /\ RuntimesTyped /\ OneRuns /\ RequestsAreCounted
         /\ \A n \in Attempts : AttemptIsSound(n)
         /\ \A c \in Calls : CallIsSound(c)
BY DEF GuestInv

(* Calls, and what is said to a guest, when no call moves and at most QUIT *)
(* is written.                                                             *)
LEMMA NothingNewIsSaid ==
  ASSUME GuestInv, UNCHANGED <<requests, queue, call>>, stopFailed \subseteq stopFailed',
         \A n \in Attempts, line \in RequestLines :
           OnItsWay(n, line)' => OnItsWay(n, line) \/ line.id = 0
  PROVE  RequestsAreCounted' /\ \A c \in Calls : CallIsSound(c)'
<1>1. RequestsAreCounted' BY GuestParts DEF RequestsAreCounted, RuntimesTyped
<1>2. ASSUME NEW c \in Calls PROVE CallIsSound(c)'
  <2>1. CallIsSound(c) BY GuestParts
  <2>2. call[c].phase = "waiting" => call[c].inst \in Attempts
    BY <2>1 DEF CallIsSound
  <2>3. Serves(call[c].inst, c)' = Serves(call[c].inst, c) BY DEF Serves
  <2>4. call[c].phase = "waiting" => call[c].id # 0
    BY <2>1, GuestParts DEF CallIsSound, RuntimesTyped
  <2> QED BY <2>1, <2>2, <2>3, <2>4 DEF CallIsSound
<1> QED BY <1>1, <1>2

(* The same where the lines stay too. *)
LEMMA CallsRest ==
  ASSUME GuestInv, UNCHANGED <<inbox, lines, requests, queue, call>>,
         stopFailed \subseteq stopFailed'
  PROVE  RequestsAreCounted' /\ \A c \in Calls : CallIsSound(c)'
<1>1. \A n \in Attempts, line \in RequestLines : OnItsWay(n, line)' => OnItsWay(n, line)
  BY DEF OnItsWay
<1> QED BY <1>1, NothingNewIsSaid

(* A call that stays where it is while others move. *)
LEMMA CallStays ==
  ASSUME GuestInv, NEW d \in Calls, call'[d] = call[d], stopFailed \subseteq stopFailed',
         \A n \in Attempts : requests'[n] \in Nat /\ requests[n] <= requests'[n],
         call[d].phase = "waiting" => Serves(call[d].inst, d)',
         \A n \in Attempts, line \in RequestLines :
           OnItsWay(n, line)' => OnItsWay(n, line) \/ line.id > requests[n]
  PROVE  CallIsSound(d)'
<1>1. CallIsSound(d) BY GuestParts
<1>2. ASSUME call[d].phase = "waiting"
      PROVE  /\ call[d].inst \in Attempts
             /\ call[d].id \in 1..requests'[call[d].inst]
             /\ \A line \in RequestLines :
                  OnItsWay(call[d].inst, line)' /\ line.id = call[d].id => line.for = d
  <2>1. call[d].inst \in Attempts /\ call[d].id \in 1..requests[call[d].inst]
    BY <1>1, <1>2 DEF CallIsSound
  <2>2. requests[call[d].inst] \in Nat /\ requests'[call[d].inst] \in Nat
        /\ requests[call[d].inst] <= requests'[call[d].inst]
    BY <2>1, GuestParts DEF RuntimesTyped
  <2>3. call[d].id \in 1..requests'[call[d].inst] BY <2>1, <2>2
  <2>4. ASSUME NEW line \in RequestLines, OnItsWay(call[d].inst, line)', line.id = call[d].id
        PROVE  line.for = d
    <3>1. ~ (line.id > requests[call[d].inst]) BY <2>1, <2>2, <2>4
    <3>2. OnItsWay(call[d].inst, line) BY <2>1, <2>4, <3>1
    <3> QED BY <1>1, <1>2, <2>4, <3>2 DEF CallIsSound
  <2> QED BY <2>1, <2>3, <2>4
<1> QED BY <1>1, <1>2 DEF CallIsSound

(* An attempt whose start, guest, instance, handle and calls are as before. *)
LEMMA AttemptsRest ==
  ASSUME GuestInv, UNCHANGED <<start, guest, killed, status, stopping, stopFailed, terminated>>,
         cache' = cache \/ IsOver', IsOver => IsOver',
         \A c \in Calls : /\ call'[c].phase \in {"queued", "waiting"}
                          => /\ call'[c].inst = call[c].inst
                             /\ \/ call[c].phase \in {"queued", "waiting"}
                                \/ status[call[c].inst] = "active"
  PROVE  OneRuns' /\ \A n \in Attempts : AttemptIsSound(n)'
<1>1. OneRuns' BY GuestParts DEF OneRuns, Runs, IsOver
<1>2. ASSUME NEW n \in Attempts PROVE AttemptIsSound(n)'
  <2>1. AttemptIsSound(n) BY GuestParts
  <2>2. NoneIsAccepted(n) /\ status[n] # "active" => NoneIsAccepted(n)'
    BY DEF NoneIsAccepted
  <2>3. stopping[n] \in {"quitting", "leaving", "killing"} => status[n] # "active"
    BY <2>1 DEF AttemptIsSound
  <2> QED BY <2>1, <2>2, <2>3 DEF AttemptIsSound, Alive, Runs
<1> QED BY <1>1, <1>2

----------------------------------------
(* Starts.                                                                 *)
(* The attempt that get() takes is one that was never made.                *)
LEMMA FreshIsNew ==
  ASSUME CanStart
  PROVE  Fresh \in Attempts /\ start[Fresh] = "none"
<1> DEFINE S == {n \in Attempts : start[n] = "none"}
<1>1. S # {} /\ S \subseteq Nat
  BY ForeignRuntimesAssumption DEF CanStart, Attempts
<1>2. PICK n \in S : \A m \in S : ~ (<<m, n>> \in OpToRel(<, Nat))
  BY <1>1, NatLessThanWellFounded, WFMin
<1>3. n \in Attempts /\ start[n] = "none" BY <1>2
<1>4. ASSUME NEW m \in 1..(n - 1) PROVE start[m] # "none"
  <2>1. m \in Attempts /\ m \in Nat /\ n \in Nat /\ m < n
    BY <1>3, ForeignRuntimesAssumption DEF Attempts
  <2>2. <<m, n>> \in OpToRel(<, Nat) BY <2>1 DEF OpToRel
  <2> QED BY <1>2, <2>1, <2>2
<1> QED BY <1>3, <1>4 DEF Fresh

(* A call gets the runtime it asks for, or starts it. *)
LEMMA Gets ==
  ASSUME GuestInv, NEW c \in Calls, Get(c)
  PROVE  GuestInv'
<1> USE GuestParts
<1>1. PICK n \in Attempts : n = (IF cache # 0 THEN cache ELSE Fresh) /\ (cache = 0 => start[n] = "none")
  BY FreshIsNew DEF RuntimesTyped, Get
<1>2. /\ call' = [call EXCEPT ![c] = CallAt("getting", n, 0)]
      /\ call[c].phase = "idle"
      /\ UNCHANGED <<guestVars, serviceVars, killed, requests, queue, closer, stops>>
      /\ cache' = n
  BY <1>1 DEF Get
<1>3. RuntimesTyped'
  <2>1. CallAt("getting", n, 0) \in CallRecords BY <1>1 DEF CallAt, CallRecords
  <2>2. call' \in [Calls -> CallRecords] BY <1>2, <2>1 DEF RuntimesTyped
  <2>3. start' \in [Attempts -> {"none", "resolving", "booting", "started", "failed"}]
    BY DEF RuntimesTyped, Get
  <2> QED BY <1>1, <1>2, <2>2, <2>3 DEF RuntimesTyped, guestVars, serviceVars
<1>4. \A d \in Calls : d # c => call'[d] = call[d] BY <1>2 DEF RuntimesTyped
<1>5. call'[c].phase = "getting" /\ call'[c].inst = n /\ call'[c].why = ""
  BY <1>2 DEF RuntimesTyped, CallAt
<1>6. \A d \in Calls : call'[d].phase \in {"queued", "waiting"} => call'[d] = call[d]
  BY <1>4, <1>5
<1>7. OneRuns' /\ \A m \in Attempts : AttemptIsSound(m)'
  <2>1. CASE cache # 0
    <3>1. UNCHANGED <<cache, start>> BY <2>1 DEF Get
    <3> QED BY <1>2, <1>6, <3>1, AttemptsRest DEF guestVars, serviceVars, IsOver
  <2>2. CASE cache = 0
    <3>1. start' = [start EXCEPT ![n] = "resolving"] BY <1>1, <2>2 DEF Get
    <3>2. \A m \in Attempts : Runs(m) => IsOver
      BY <2>2, ForeignRuntimesAssumption DEF AttemptIsSound, Attempts
    <3>3. IsOver' = IsOver /\ \A m \in Attempts : Runs(m)' => m = n \/ IsOver'
      BY <1>2, <3>1, <3>2 DEF Runs, RuntimesTyped, IsOver
    <3>4. ASSUME NEW m \in Attempts PROVE AttemptIsSound(m)'
      <4>1. AttemptIsSound(m) /\ (NoneIsAccepted(m) => NoneIsAccepted(m)')
        BY <1>6 DEF NoneIsAccepted
      <4>2. m # n => start'[m] = start[m] BY <3>1 DEF RuntimesTyped
      <4>3. start'[n] = "resolving" BY <1>1, <3>1 DEF RuntimesTyped
      <4> QED
        BY <1>1, <1>2, <2>2, <3>3, <4>1, <4>2, <4>3 DEF AttemptIsSound, Alive, guestVars, serviceVars
    <3> QED BY <3>3, <3>4 DEF OneRuns
  <2> QED BY <2>1, <2>2
<1>8. \A m \in Attempts, line \in RequestLines : OnItsWay(m, line)' => OnItsWay(m, line)
  BY <1>2 DEF OnItsWay, guestVars
<1>9. RequestsAreCounted' BY <1>2, <1>8 DEF RequestsAreCounted
<1>10. \A d \in Calls : CallIsSound(d)'
  <2>1. ASSUME NEW d \in Calls, d # c PROVE CallIsSound(d)'
    <3>1. call[d].phase = "waiting" => Serves(call[d].inst, d)'
      BY <1>2, <2>1 DEF CallIsSound, Serves
    <3>2. \A m \in Attempts : requests'[m] \in Nat /\ requests[m] <= requests'[m]
      BY <1>2 DEF RuntimesTyped
    <3> QED BY <1>2, <1>4, <1>8, <2>1, <3>1, <3>2, CallStays DEF serviceVars
  <2>2. CallIsSound(c)' BY <1>1, <1>5 DEF CallIsSound
  <2> QED BY <2>1, <2>2
<1> QED BY <1>3, <1>7, <1>9, <1>10 DEF GuestInv

(* An attempt that stays as it is while another one moves. *)
LEMMA AttemptStays ==
  ASSUME GuestInv, NEW m \in Attempts,
         start'[m] = start[m], guest'[m] = guest[m], status'[m] = status[m],
         stopping'[m] = stopping[m], terminated'[m] = terminated[m],
         m \in killed => m \in killed', m \in stopFailed => m \in stopFailed', call' = call,
         IsOver => IsOver', m = cache => m = cache' \/ IsOver'
  PROVE  AttemptIsSound(m)'
<1>1. AttemptIsSound(m) /\ NoneIsAccepted(m)' = NoneIsAccepted(m)
  BY GuestParts DEF NoneIsAccepted
<1> QED BY <1>1 DEF AttemptIsSound, Alive, Runs

(* The process of a guest is made. *)
LEMMA SpawnKeeps ==
  ASSUME GuestInv, NEW n \in Attempts, Spawn(n)
  PROVE  GuestInv'
<1> USE GuestParts
<1>1. RuntimesTyped'
  BY DEF Spawn, guestVars, serviceVars, RuntimesTyped, Quit, RequestLines
<1>2. AttemptIsSound(n)'
  <2>1. AttemptIsSound(n) /\ NoneIsAccepted(n)' = NoneIsAccepted(n)
    BY DEF Spawn, guestVars, serviceVars, NoneIsAccepted
  <2> QED
    BY <2>1 DEF Spawn, guestVars, serviceVars, AttemptIsSound, Alive, Runs, IsOver, RuntimesTyped
<1>3. ASSUME NEW m \in Attempts, m # n PROVE AttemptIsSound(m)'
  BY <1>3, AttemptStays DEF Spawn, guestVars, serviceVars, IsOver, RuntimesTyped
<1>4. OneRuns'
  BY DEF Spawn, guestVars, serviceVars, OneRuns, Runs, IsOver, RuntimesTyped
<1>5. RequestsAreCounted' /\ \A c \in Calls : CallIsSound(c)'
  BY CallsRest DEF Spawn, guestVars, serviceVars
<1> QED BY <1>1, <1>2, <1>3, <1>4, <1>5 DEF GuestInv

(* The service lists the instance of a start that ended well. *)
LEMMA StartEndsKeeps ==
  ASSUME GuestInv, NEW n \in Attempts, StartEnds(n)
  PROVE  GuestInv'
<1> USE GuestParts
<1>1. RuntimesTyped'
  BY DEF StartEnds, guestVars, serviceVars, RuntimesTyped, Quit, RequestLines
<1>2. AttemptIsSound(n)'
  <2>1. AttemptIsSound(n) /\ NoneIsAccepted(n)' = NoneIsAccepted(n)
    BY DEF StartEnds, guestVars, serviceVars, NoneIsAccepted
  <2> QED
    BY <2>1 DEF StartEnds, guestVars, serviceVars, AttemptIsSound, Alive, Runs, IsOver, RuntimesTyped
<1>3. ASSUME NEW m \in Attempts, m # n PROVE AttemptIsSound(m)'
  BY <1>3, AttemptStays DEF StartEnds, guestVars, serviceVars, IsOver, RuntimesTyped
<1>4. OneRuns'
  BY DEF StartEnds, guestVars, serviceVars, OneRuns, Runs, IsOver, RuntimesTyped
<1>5. RequestsAreCounted' /\ \A c \in Calls : CallIsSound(c)'
  BY CallsRest DEF StartEnds, guestVars, serviceVars
<1> QED BY <1>1, <1>2, <1>3, <1>4, <1>5 DEF GuestInv

(* A start that fails before there is a process. *)
LEMMA ResolveFailsKeeps ==
  ASSUME GuestInv, NEW n \in Attempts, ResolveFails(n)
  PROVE  GuestInv'
<1> USE GuestParts
<1>1. RuntimesTyped'
  BY DEF ResolveFails, StartFails, guestVars, serviceVars, RuntimesTyped, Quit, RequestLines
<1>2. AttemptIsSound(n)'
  <2>1. AttemptIsSound(n) /\ NoneIsAccepted(n)' = NoneIsAccepted(n)
    BY DEF ResolveFails, StartFails, guestVars, serviceVars, NoneIsAccepted
  <2> QED
    BY <2>1 DEF ResolveFails, StartFails, guestVars, serviceVars, AttemptIsSound, Alive, Runs, IsOver, RuntimesTyped
<1>3. ASSUME NEW m \in Attempts, m # n PROVE AttemptIsSound(m)'
  BY <1>3, AttemptStays DEF ResolveFails, StartFails, guestVars, serviceVars, IsOver, RuntimesTyped
<1>4. OneRuns'
  BY DEF ResolveFails, StartFails, guestVars, serviceVars, OneRuns, Runs, IsOver, RuntimesTyped
<1>5. RequestsAreCounted' /\ \A c \in Calls : CallIsSound(c)'
  BY CallsRest DEF ResolveFails, StartFails, guestVars, serviceVars
<1> QED BY <1>1, <1>2, <1>3, <1>4, <1>5 DEF GuestInv

(* A start that fails later kills its process. *)
LEMMA BootFailsKeeps ==
  ASSUME GuestInv, NEW n \in Attempts, BootFails(n)
  PROVE  GuestInv'
<1> USE GuestParts
<1>1. RuntimesTyped'
  BY DEF BootFails, StartFails, guestVars, serviceVars, RuntimesTyped, Quit, RequestLines
<1>2. AttemptIsSound(n)'
  <2>1. AttemptIsSound(n) /\ NoneIsAccepted(n)' = NoneIsAccepted(n)
    BY DEF BootFails, StartFails, guestVars, serviceVars, NoneIsAccepted
  <2> QED
    BY <2>1 DEF BootFails, StartFails, guestVars, serviceVars, AttemptIsSound, Alive, Runs, IsOver, RuntimesTyped
<1>3. ASSUME NEW m \in Attempts, m # n PROVE AttemptIsSound(m)'
  BY <1>3, AttemptStays DEF BootFails, StartFails, guestVars, serviceVars, IsOver, RuntimesTyped
<1>4. OneRuns'
  BY DEF BootFails, StartFails, guestVars, serviceVars, OneRuns, Runs, IsOver, RuntimesTyped
<1>5. RequestsAreCounted' /\ \A c \in Calls : CallIsSound(c)'
  BY CallsRest DEF BootFails, StartFails, guestVars, serviceVars
<1> QED BY <1>1, <1>2, <1>3, <1>4, <1>5 DEF GuestInv

(* Stops. *)
LEMMA ClientStopKeeps ==
  ASSUME GuestInv, NEW n \in Attempts, ClientStop(n)
  PROVE  GuestInv'
<1> USE GuestParts
<1>1. RuntimesTyped'
  BY DEF ClientStop, BeginStop, guestVars, serviceVars, RuntimesTyped, Quit, RequestLines
<1>2. AttemptIsSound(n)'
  <2>1. AttemptIsSound(n) /\ NoneIsAccepted(n)' = NoneIsAccepted(n)
    BY DEF ClientStop, BeginStop, guestVars, serviceVars, NoneIsAccepted
  <2> QED
    BY <2>1 DEF ClientStop, BeginStop, guestVars, serviceVars, AttemptIsSound, Alive, Runs, IsOver, RuntimesTyped
<1>3. ASSUME NEW m \in Attempts, m # n PROVE AttemptIsSound(m)'
  BY <1>3, AttemptStays DEF ClientStop, BeginStop, guestVars, serviceVars, IsOver, RuntimesTyped
<1>4. OneRuns'
  BY DEF ClientStop, BeginStop, guestVars, serviceVars, OneRuns, Runs, IsOver, RuntimesTyped
<1>5. RequestsAreCounted' /\ \A c \in Calls : CallIsSound(c)'
  BY CallsRest DEF ClientStop, BeginStop, guestVars, serviceVars
<1> QED BY <1>1, <1>2, <1>3, <1>4, <1>5 DEF GuestInv

(* Where QUIT is written no accepted call is left. *)
LEMMA SayQuitKeeps ==
  ASSUME GuestInv, NEW n \in Attempts, SayQuit(n)
  PROVE  GuestInv'
<1> USE GuestParts
<1>1. NoneIsAccepted(n) BY DEF SayQuit, Drained, Accepted, NoneIsAccepted
<1>2. CASE terminated[n]
  <2>1. /\ status' = [status EXCEPT ![n] = "none"]
        /\ stopping' = [stopping EXCEPT ![n] = "no"]
        /\ terminated' = [terminated EXCEPT ![n] = TRUE]
        /\ UNCHANGED <<cache, start, guest, inbox, lines, killed, stopFailed, requests, queue, call, closer>>
    BY <1>2 DEF SayQuit, StopEnds
  <2>2. RuntimesTyped' BY <2>1 DEF RuntimesTyped
  <2>3. AttemptIsSound(n)'
    <3>1. AttemptIsSound(n) /\ NoneIsAccepted(n)'
      BY <1>1, <2>1 DEF NoneIsAccepted
    <3> QED BY <1>2, <2>1, <3>1 DEF AttemptIsSound, Alive, Runs, IsOver, RuntimesTyped
  <2>4. ASSUME NEW m \in Attempts, m # n PROVE AttemptIsSound(m)'
    BY <2>1, <2>4, AttemptStays DEF IsOver, RuntimesTyped
  <2>5. OneRuns' BY <2>1 DEF OneRuns, Runs, IsOver
  <2>6. RequestsAreCounted' /\ \A c \in Calls : CallIsSound(c)'
    BY <2>1, CallsRest
  <2> QED BY <2>2, <2>3, <2>4, <2>5, <2>6 DEF GuestInv
<1>3. CASE ~terminated[n]
  <2>1. /\ stopping' = [stopping EXCEPT ![n] = "quitting"]
        /\ inbox' = [inbox EXCEPT ![n] = Append(inbox[n], Quit)]
        /\ UNCHANGED <<cache, start, guest, lines, killed, status, stopFailed, terminated, requests, queue, call, closer>>
    BY <1>3 DEF SayQuit
  <2>2. RuntimesTyped'
    <3>1. Quit \in RequestLines BY DEF Quit, RequestLines
    <3>2. Append(inbox[n], Quit) \in Seq(RequestLines)
      BY <3>1, AppendProperties DEF RuntimesTyped
    <3> QED BY <2>1, <3>2 DEF RuntimesTyped
  <2>3. AttemptIsSound(n)'
    <3>1. AttemptIsSound(n) /\ NoneIsAccepted(n)'
      BY <1>1, <2>1 DEF NoneIsAccepted
    <3>2. stopping[n] = "draining" BY DEF SayQuit
    <3> QED BY <1>3, <2>1, <3>1, <3>2 DEF AttemptIsSound, Alive, Runs, IsOver, RuntimesTyped
  <2>4. ASSUME NEW m \in Attempts, m # n PROVE AttemptIsSound(m)'
    BY <2>1, <2>4, AttemptStays DEF IsOver, RuntimesTyped
  <2>5. OneRuns' BY <2>1 DEF OneRuns, Runs, IsOver
  <2>6. \A m \in Attempts, line \in RequestLines :
          OnItsWay(m, line)' => OnItsWay(m, line) \/ line.id = 0
    <3>1. ASSUME NEW m \in Attempts, NEW line \in RequestLines, OnItsWay(m, line)'
          PROVE  OnItsWay(m, line) \/ line.id = 0
      <4>1. CASE m # n
        BY <2>1, <3>1, <4>1 DEF OnItsWay, RuntimesTyped
      <4>2. CASE m = n
        <5>1. inbox'[n] = Append(inbox[n], Quit) /\ inbox[n] \in Seq(RequestLines)
          BY <2>1 DEF RuntimesTyped
        <5>2. \A i \in DOMAIN inbox'[n] : inbox'[n][i] = Quit \/ (i \in DOMAIN inbox[n] /\ inbox'[n][i] = inbox[n][i])
          BY <5>1
        <5>3. Quit.id = 0 BY DEF Quit
        <5> QED BY <2>1, <3>1, <4>2, <5>2, <5>3 DEF OnItsWay
      <4> QED BY <4>1, <4>2
    <3> QED BY <3>1
  <2>7. RequestsAreCounted' /\ \A c \in Calls : CallIsSound(c)'
    BY <2>1, <2>6, NothingNewIsSaid
  <2> QED BY <2>2, <2>3, <2>4, <2>5, <2>7 DEF GuestInv
<1> QED BY <1>2, <1>3

(* Lines of calls that gave up are skipped until BYE. *)
LEMMA ReadByeKeeps ==
  ASSUME GuestInv, NEW n \in Attempts, ReadBye(n)
  PROVE  GuestInv'
<1> USE GuestParts
<1>1. RuntimesTyped'
  <2>1. Tail(lines[n]) \in Seq(RequestLines)
    BY HeadTailProperties DEF ReadBye, RuntimesTyped
  <2>2. lines' = [lines EXCEPT ![n] = Tail(lines[n])] BY DEF ReadBye
  <2>3. stopping' \in [Attempts -> {"no", "draining", "quitting", "leaving", "killing"}]
    BY DEF ReadBye, RuntimesTyped
  <2> QED BY <2>1, <2>2, <2>3 DEF ReadBye, RuntimesTyped
<1>2. AttemptIsSound(n)'
  <2>1. AttemptIsSound(n) /\ NoneIsAccepted(n)' = NoneIsAccepted(n)
    BY DEF ReadBye, guestVars, serviceVars, NoneIsAccepted
  <2> QED
    BY <2>1 DEF ReadBye, guestVars, serviceVars, AttemptIsSound, Alive, Runs, IsOver, RuntimesTyped
<1>3. ASSUME NEW m \in Attempts, m # n PROVE AttemptIsSound(m)'
  BY <1>3, AttemptStays DEF ReadBye, guestVars, serviceVars, IsOver, RuntimesTyped
<1>4. OneRuns'
  BY DEF ReadBye, guestVars, serviceVars, OneRuns, Runs, IsOver, RuntimesTyped
<1>5. RequestsAreCounted' /\ \A c \in Calls : CallIsSound(c)'
  <2>1. \A m \in Attempts, line \in RequestLines : OnItsWay(m, line)' => OnItsWay(m, line)
    BY DEF ReadBye, guestVars, serviceVars, OnItsWay, RuntimesTyped
  <2> QED BY <2>1, NothingNewIsSaid DEF ReadBye, guestVars, serviceVars
<1> QED BY <1>1, <1>2, <1>3, <1>4, <1>5 DEF GuestInv

(* A guest that does not leave is killed. *)
LEMMA KillGuestKeeps ==
  ASSUME GuestInv, NEW n \in Attempts, KillGuest(n)
  PROVE  GuestInv'
<1> USE GuestParts
<1>1. RuntimesTyped'
  BY DEF KillGuest, guestVars, serviceVars, RuntimesTyped, Quit, RequestLines
<1>2. AttemptIsSound(n)'
  <2>1. AttemptIsSound(n) /\ NoneIsAccepted(n)' = NoneIsAccepted(n)
    BY DEF KillGuest, guestVars, serviceVars, NoneIsAccepted
  <2> QED
    BY <2>1 DEF KillGuest, guestVars, serviceVars, AttemptIsSound, Alive, Runs, IsOver, RuntimesTyped
<1>3. ASSUME NEW m \in Attempts, m # n PROVE AttemptIsSound(m)'
  BY <1>3, AttemptStays DEF KillGuest, guestVars, serviceVars, IsOver, RuntimesTyped
<1>4. OneRuns'
  BY DEF KillGuest, guestVars, serviceVars, OneRuns, Runs, IsOver, RuntimesTyped
<1>5. RequestsAreCounted' /\ \A c \in Calls : CallIsSound(c)'
  BY CallsRest DEF KillGuest, guestVars, serviceVars
<1> QED BY <1>1, <1>2, <1>3, <1>4, <1>5 DEF GuestInv

(* The instance goes with its guest. *)
LEMMA GuestHasLeftKeeps ==
  ASSUME GuestInv, NEW n \in Attempts, GuestHasLeft(n)
  PROVE  GuestInv'
<1> USE GuestParts
<1>1. RuntimesTyped'
  BY DEF GuestHasLeft, StopEnds, guestVars, serviceVars, RuntimesTyped, Quit, RequestLines
<1>2. AttemptIsSound(n)'
  <2>1. AttemptIsSound(n) /\ NoneIsAccepted(n)' = NoneIsAccepted(n)
    BY DEF GuestHasLeft, StopEnds, guestVars, serviceVars, NoneIsAccepted
  <2> QED
    BY <2>1 DEF GuestHasLeft, StopEnds, guestVars, serviceVars, AttemptIsSound, Alive, Runs, IsOver, RuntimesTyped
<1>3. ASSUME NEW m \in Attempts, m # n PROVE AttemptIsSound(m)'
  BY <1>3, AttemptStays DEF GuestHasLeft, StopEnds, guestVars, serviceVars, IsOver, RuntimesTyped
<1>4. OneRuns'
  BY DEF GuestHasLeft, StopEnds, guestVars, serviceVars, OneRuns, Runs, IsOver, RuntimesTyped
<1>5. RequestsAreCounted' /\ \A c \in Calls : CallIsSound(c)'
  BY CallsRest DEF GuestHasLeft, StopEnds, guestVars, serviceVars
<1> QED BY <1>1, <1>2, <1>3, <1>4, <1>5 DEF GuestInv

(* An instance whose stop failed is active, and its handle terminated. *)
LEMMA StopFailsKeeps ==
  ASSUME GuestInv, NEW n \in Attempts, StopFails(n)
  PROVE  GuestInv'
<1> USE GuestParts
<1>1. RuntimesTyped'
  BY DEF StopFails, guestVars, serviceVars, RuntimesTyped, Quit, RequestLines
<1>2. AttemptIsSound(n)'
  <2>1. AttemptIsSound(n) /\ NoneIsAccepted(n)' = NoneIsAccepted(n)
    BY DEF StopFails, guestVars, serviceVars, NoneIsAccepted
  <2> QED
    BY <2>1 DEF StopFails, guestVars, serviceVars, AttemptIsSound, Alive, Runs, IsOver, RuntimesTyped
<1>3. ASSUME NEW m \in Attempts, m # n PROVE AttemptIsSound(m)'
  BY <1>3, AttemptStays DEF StopFails, guestVars, serviceVars, IsOver, RuntimesTyped
<1>4. OneRuns'
  BY DEF StopFails, guestVars, serviceVars, OneRuns, Runs, IsOver, RuntimesTyped
<1>5. RequestsAreCounted' /\ \A c \in Calls : CallIsSound(c)'
  BY CallsRest DEF StopFails, guestVars, serviceVars
<1> QED BY <1>1, <1>2, <1>3, <1>4, <1>5 DEF GuestInv

(* The close of the service stops the next instance, if it is active. *)
LEMMA CloseNextKeeps ==
  ASSUME GuestInv, NEW n \in Attempts, CloseNext(n)
  PROVE  GuestInv'
<1> USE GuestParts
<1>1. RuntimesTyped'
  <2>1. closer' \in [phase : {"no", "closing", "closed", "failed"}, todo : SUBSET Attempts,
                     current : {0} \cup Attempts, failures : Nat]
    <3>1. /\ closer.phase \in {"no", "closing", "closed", "failed"} /\ closer.todo \in SUBSET Attempts
          /\ closer.current \in {0} \cup Attempts /\ closer.failures \in Nat
      BY DEF RuntimesTyped
    <3>2. closer' = [phase |-> closer.phase, todo |-> closer.todo \ {n},
                     current |-> IF status[n] = "active" THEN n ELSE closer.current,
                     failures |-> IF status[n] = "active" THEN closer.failures ELSE closer.failures + 1]
      BY DEF CloseNext, RuntimesTyped
    <3> QED BY <3>1, <3>2
  <2>2. /\ status' \in [Attempts -> {"none", "active", "stopping"}]
        /\ stopping' \in [Attempts -> {"no", "draining", "quitting", "leaving", "killing"}]
    BY DEF CloseNext, BeginStop, RuntimesTyped
  <2> QED BY <2>1, <2>2 DEF CloseNext, guestVars, RuntimesTyped
<1>2. AttemptIsSound(n)'
  <2>1. AttemptIsSound(n) /\ NoneIsAccepted(n)' = NoneIsAccepted(n)
    BY DEF CloseNext, BeginStop, guestVars, serviceVars, NoneIsAccepted
  <2> QED
    BY <2>1 DEF CloseNext, BeginStop, guestVars, serviceVars, AttemptIsSound, Alive, Runs, IsOver, RuntimesTyped
<1>3. ASSUME NEW m \in Attempts, m # n PROVE AttemptIsSound(m)'
  BY <1>3, AttemptStays DEF CloseNext, BeginStop, guestVars, serviceVars, IsOver, RuntimesTyped
<1>4. OneRuns'
  BY DEF CloseNext, BeginStop, guestVars, serviceVars, OneRuns, Runs, IsOver, RuntimesTyped
<1>5. RequestsAreCounted' /\ \A c \in Calls : CallIsSound(c)'
  BY CallsRest DEF CloseNext, BeginStop, guestVars, serviceVars
<1> QED BY <1>1, <1>2, <1>3, <1>4, <1>5 DEF GuestInv

(* The guest. *)
LEMMA GuestReadyKeeps ==
  ASSUME GuestInv, NEW n \in Attempts, GuestReady(n)
  PROVE  GuestInv'
<1> USE GuestParts
<1>1. RuntimesTyped'
  BY DEF GuestReady, guestVars, serviceVars, RuntimesTyped, Quit, RequestLines
<1>2. AttemptIsSound(n)'
  <2>1. AttemptIsSound(n) /\ NoneIsAccepted(n)' = NoneIsAccepted(n)
    BY DEF GuestReady, guestVars, serviceVars, NoneIsAccepted
  <2> QED
    BY <2>1 DEF GuestReady, guestVars, serviceVars, AttemptIsSound, Alive, Runs, IsOver, RuntimesTyped
<1>3. ASSUME NEW m \in Attempts, m # n PROVE AttemptIsSound(m)'
  BY <1>3, AttemptStays DEF GuestReady, guestVars, serviceVars, IsOver, RuntimesTyped
<1>4. OneRuns'
  BY DEF GuestReady, guestVars, serviceVars, OneRuns, Runs, IsOver, RuntimesTyped
<1>5. RequestsAreCounted' /\ \A c \in Calls : CallIsSound(c)'
  BY CallsRest DEF GuestReady, guestVars, serviceVars
<1> QED BY <1>1, <1>2, <1>3, <1>4, <1>5 DEF GuestInv

(* A guest answers what it read, once. *)
LEMMA GuestAnswersKeeps ==
  ASSUME GuestInv, NEW n \in Attempts, GuestAnswers(n)
  PROVE  GuestInv'
<1> USE GuestParts
<1>1. RuntimesTyped'
  <2>1. inbox[n] \in Seq(RequestLines) /\ inbox[n] # <<>> /\ lines[n] \in Seq(RequestLines)
    BY DEF GuestAnswers, RuntimesTyped
  <2>2. Tail(inbox[n]) \in Seq(RequestLines) /\ Head(inbox[n]) \in RequestLines
    BY <2>1, HeadTailProperties
  <2>3. Append(lines[n], Head(inbox[n])) \in Seq(RequestLines)
    BY <2>1, <2>2, AppendProperties
  <2>4. /\ lines' = [lines EXCEPT ![n] = Append(lines[n], Head(inbox[n]))]
        /\ inbox' = [inbox EXCEPT ![n] = Tail(inbox[n])]
    BY DEF GuestAnswers
  <2>5. guest' \in [Attempts -> {"none", "booting", "ready", "exited"}]
    BY DEF GuestAnswers, RuntimesTyped
  <2> QED BY <2>2, <2>3, <2>4, <2>5 DEF GuestAnswers, serviceVars, RuntimesTyped
<1>2. AttemptIsSound(n)'
  <2>1. AttemptIsSound(n) /\ NoneIsAccepted(n)' = NoneIsAccepted(n)
    BY DEF GuestAnswers, guestVars, serviceVars, NoneIsAccepted
  <2> QED
    BY <2>1 DEF GuestAnswers, guestVars, serviceVars, AttemptIsSound, Alive, Runs, IsOver, RuntimesTyped
<1>3. ASSUME NEW m \in Attempts, m # n PROVE AttemptIsSound(m)'
  BY <1>3, AttemptStays DEF GuestAnswers, guestVars, serviceVars, IsOver, RuntimesTyped
<1>4. OneRuns'
  BY DEF GuestAnswers, guestVars, serviceVars, OneRuns, Runs, IsOver, RuntimesTyped
<1>5. RequestsAreCounted' /\ \A c \in Calls : CallIsSound(c)'
  <2>1. \A m \in Attempts, line \in RequestLines : OnItsWay(m, line)' => OnItsWay(m, line)
    BY DEF GuestAnswers, guestVars, serviceVars, OnItsWay, RuntimesTyped
  <2> QED BY <2>1, NothingNewIsSaid DEF GuestAnswers, guestVars, serviceVars
<1> QED BY <1>1, <1>2, <1>3, <1>4, <1>5 DEF GuestInv

(* A guest may die at any time. *)
LEMMA GuestDiesKeeps ==
  ASSUME GuestInv, NEW n \in Attempts, GuestDies(n)
  PROVE  GuestInv'
<1> USE GuestParts
<1>1. RuntimesTyped'
  BY DEF GuestDies, guestVars, serviceVars, RuntimesTyped, Quit, RequestLines
<1>2. AttemptIsSound(n)'
  <2>1. AttemptIsSound(n) /\ NoneIsAccepted(n)' = NoneIsAccepted(n)
    BY DEF GuestDies, guestVars, serviceVars, NoneIsAccepted
  <2> QED
    BY <2>1 DEF GuestDies, guestVars, serviceVars, AttemptIsSound, Alive, Runs, IsOver, RuntimesTyped
<1>3. ASSUME NEW m \in Attempts, m # n PROVE AttemptIsSound(m)'
  BY <1>3, AttemptStays DEF GuestDies, guestVars, serviceVars, IsOver, RuntimesTyped
<1>4. OneRuns'
  BY DEF GuestDies, guestVars, serviceVars, OneRuns, Runs, IsOver, RuntimesTyped
<1>5. RequestsAreCounted' /\ \A c \in Calls : CallIsSound(c)'
  BY CallsRest DEF GuestDies, guestVars, serviceVars
<1> QED BY <1>1, <1>2, <1>3, <1>4, <1>5 DEF GuestInv

(* The close of the service. *)
LEMMA CloseBeginsKeeps ==
  ASSUME GuestInv, CloseBegins
  PROVE  GuestInv'
<1> USE GuestParts
<1>1. RuntimesTyped' BY DEF CloseBegins, guestVars, serviceVars, RuntimesTyped
<1>2. OneRuns' /\ \A n \in Attempts : AttemptIsSound(n)'
  BY AttemptsRest DEF CloseBegins, guestVars, serviceVars, IsOver, RuntimesTyped
<1>3. RequestsAreCounted' /\ \A c \in Calls : CallIsSound(c)'
  BY CallsRest DEF CloseBegins, guestVars, serviceVars
<1> QED BY <1>1, <1>2, <1>3 DEF GuestInv

(* It goes on when the stop it waits for is over. *)
LEMMA CloseAwaitsKeeps ==
  ASSUME GuestInv, CloseAwaits
  PROVE  GuestInv'
<1> USE GuestParts
<1>1. RuntimesTyped'
  <2>1. closer' \in [phase : {"no", "closing", "closed", "failed"}, todo : SUBSET Attempts,
                     current : {0} \cup Attempts, failures : Nat]
    <3>1. /\ closer.phase \in {"no", "closing", "closed", "failed"} /\ closer.todo \in SUBSET Attempts
          /\ closer.failures \in Nat
      BY DEF RuntimesTyped
    <3>2. closer' = [phase |-> closer.phase, todo |-> closer.todo, current |-> 0,
                     failures |-> closer.failures + (IF status[closer.current] = "active" THEN 1 ELSE 0)]
      BY DEF CloseAwaits, RuntimesTyped
    <3> QED BY <3>1, <3>2
  <2> QED BY <2>1 DEF CloseAwaits, guestVars, serviceVars, RuntimesTyped
<1>2. OneRuns' /\ \A n \in Attempts : AttemptIsSound(n)'
  BY AttemptsRest DEF CloseAwaits, guestVars, serviceVars, IsOver, RuntimesTyped
<1>3. RequestsAreCounted' /\ \A c \in Calls : CallIsSound(c)'
  BY CallsRest DEF CloseAwaits, guestVars, serviceVars
<1> QED BY <1>1, <1>2, <1>3 DEF GuestInv

(* At its end there is no cached instance, and no call is taken. *)
LEMMA CloseEndsKeeps ==
  ASSUME GuestInv, CloseEnds
  PROVE  GuestInv'
<1> USE GuestParts
<1>1. RuntimesTyped' BY DEF CloseEnds, guestVars, serviceVars, RuntimesTyped
<1>2. OneRuns' /\ \A n \in Attempts : AttemptIsSound(n)'
  BY AttemptsRest DEF CloseEnds, guestVars, serviceVars, IsOver, RuntimesTyped
<1>3. RequestsAreCounted' /\ \A c \in Calls : CallIsSound(c)'
  BY CallsRest DEF CloseEnds, guestVars, serviceVars
<1> QED BY <1>1, <1>2, <1>3 DEF GuestInv

----------------------------------------
(* Steps of a call. *)
Reasons == {"", "inactive", "terminated", "exited", "timeout"}

(* What a failed call's record is, and that no other changes. *)
LEMMA FailedCall ==
  ASSUME GuestInv, NEW c \in Calls, NEW why \in Reasons, Fails(c, why)
  PROVE  /\ call' \in [Calls -> CallRecords]
         /\ \A d \in Calls : d # c => call'[d] = call[d]
         /\ call'[c].phase = "failed" /\ call'[c].inst = call[c].inst /\ call'[c].why = why
<1>1. call \in [Calls -> CallRecords] /\ call[c] \in CallRecords
  BY GuestParts DEF RuntimesTyped
<1>2. /\ call[c].inst \in {0} \cup Attempts /\ call[c].id \in Nat /\ call[c].result \in Calls \cup {0}
      /\ call[c] = [phase |-> call[c].phase, inst |-> call[c].inst, id |-> call[c].id,
                    result |-> call[c].result, why |-> call[c].why]
  BY <1>1 DEF CallRecords
<1>3. DOMAIN call' = Calls /\ \A d \in Calls : d # c => call'[d] = call[d]
  BY <1>1 DEF Fails
<1>4. call'[c] = [phase |-> "failed", inst |-> call[c].inst, id |-> call[c].id,
                  result |-> call[c].result, why |-> why]
  BY <1>1, <1>2 DEF Fails
<1>5. call'[c] \in CallRecords
  <2>1. [phase |-> "failed", inst |-> call[c].inst, id |-> call[c].id,
         result |-> call[c].result, why |-> why] \in CallRecords
    BY <1>2 DEF CallRecords, Reasons
  <2> QED BY <1>4, <2>1
<1>6. call' = [d \in Calls |-> call'[d]] BY <1>1 DEF Fails
<1>7. call' \in [Calls -> CallRecords] BY <1>1, <1>3, <1>5, <1>6
<1> QED BY <1>3, <1>4, <1>7

(* A call that has failed is sound whoever it was with. *)
LEMMA FailuresAreSound ==
  ASSUME GuestInv, NEW c \in Calls, NEW why \in Reasons, Fails(c, why),
         call[c].phase # "idle", why = "terminated" => call[c].inst \in stopFailed'
  PROVE  CallIsSound(c)'
<1>1. call'[c].phase = "failed" /\ call'[c].inst = call[c].inst /\ call'[c].why = why
  BY FailedCall
<1>2. call[c].inst \in Attempts BY GuestParts DEF CallIsSound
<1> QED BY <1>1, <1>2 DEF CallIsSound

(* A call is accepted while its instance is active. *)
LEMMA AcceptKeeps ==
  ASSUME GuestInv, NEW c \in Calls, Accept(c)
  PROVE  GuestInv'
<1> USE GuestParts
<1>1. PICK n \in Attempts : n = call[c].inst
  BY DEF Accept, CallIsSound
<1>2. call[c].phase = "getting" /\ UNCHANGED <<cache, start, guestVars, killed, serviceVars, requests, closer, stops>>
  BY DEF Accept
<1>3. \A m \in Attempts, line \in RequestLines : OnItsWay(m, line)' => OnItsWay(m, line)
  BY <1>2 DEF OnItsWay, guestVars
<1>4. RequestsAreCounted' BY <1>2, <1>3 DEF RequestsAreCounted
<1>5. CASE status[n] = "active"
  <2>1. call' = [call EXCEPT ![c] = CallAt("queued", n, 0)] /\ queue' = [queue EXCEPT ![n] = Append(queue[n], c)]
    BY <1>1, <1>5 DEF Accept
  <2>2. CallAt("queued", n, 0) \in CallRecords BY DEF CallAt, CallRecords
  <2>3. Append(queue[n], c) \in Seq(Calls) BY AppendProperties DEF RuntimesTyped
  <2>4. RuntimesTyped'
    BY <1>2, <2>1, <2>2, <2>3 DEF RuntimesTyped, guestVars, serviceVars
  <2>5. \A d \in Calls : d # c => call'[d] = call[d] BY <2>1 DEF RuntimesTyped
  <2>6. call'[c].phase = "queued" /\ call'[c].inst = n /\ call'[c].why = ""
    BY <2>1 DEF RuntimesTyped, CallAt
  <2>7. OneRuns' /\ \A m \in Attempts : AttemptIsSound(m)'
    BY <1>1, <1>2, <1>5, <2>5, <2>6, AttemptsRest DEF guestVars, serviceVars, IsOver
  <2>8. ASSUME NEW d \in Calls, d # c PROVE CallIsSound(d)'
    <3>1. \A m \in Attempts : queue'[m] = queue[m] \/ (m = n /\ queue'[m] = Append(queue[m], c))
      BY <2>1 DEF RuntimesTyped
    <3>2. \A m \in Attempts : queue[m] \in Seq(Calls) BY DEF RuntimesTyped
    <3>3. \A m \in Attempts : Serves(m, d) => Serves(m, d)'
      BY <3>1, <3>2, AppendProperties DEF Serves
    <3>4. call[d].phase = "waiting" => Serves(call[d].inst, d)'
      BY <2>5, <2>8, <3>3 DEF CallIsSound, Serves
    <3>5. \A m \in Attempts : requests'[m] \in Nat /\ requests[m] <= requests'[m]
      BY <1>2 DEF RuntimesTyped
    <3> QED BY <1>2, <1>3, <2>5, <2>8, <3>4, <3>5, CallStays DEF serviceVars
  <2>9. CallIsSound(c)' BY <2>6 DEF CallIsSound
  <2> QED BY <1>4, <2>4, <2>7, <2>8, <2>9 DEF GuestInv
<1>6. CASE status[n] # "active"
  <2>1. Fails(c, "inactive") /\ UNCHANGED queue /\ "inactive" \in Reasons
    BY <1>1, <1>6 DEF Accept, Reasons
  <2>2. RuntimesTyped'
    BY <1>2, <2>1, FailedCall DEF RuntimesTyped, guestVars, serviceVars
  <2>3. /\ \A d \in Calls : d # c => call'[d] = call[d]
        /\ call'[c].phase = "failed"
    BY <2>1, FailedCall
  <2>4. OneRuns' /\ \A m \in Attempts : AttemptIsSound(m)'
    BY <1>2, <2>3, AttemptsRest DEF guestVars, serviceVars, IsOver
  <2>5. ASSUME NEW d \in Calls, d # c PROVE CallIsSound(d)'
    <3>1. call[d].phase = "waiting" => Serves(call[d].inst, d)'
      BY <2>1, <2>3, <2>5 DEF CallIsSound, Serves
    <3>2. \A m \in Attempts : requests'[m] \in Nat /\ requests[m] <= requests'[m]
      BY <1>2 DEF RuntimesTyped
    <3> QED BY <1>2, <1>3, <2>3, <2>5, <3>1, <3>2, CallStays DEF serviceVars
  <2>6. CallIsSound(c)' BY <1>2, <2>1, FailuresAreSound
  <2> QED BY <1>4, <2>2, <2>4, <2>5, <2>6 DEF GuestInv
<1> QED BY <1>5, <1>6

(* What a call that leaves the head of its queue does to the others: none  *)
(* of them was waiting on that instance.                                   *)
LEMMA CallLeaves ==
  ASSUME GuestInv, NEW c \in Calls, NEW n \in Attempts, Serves(n, c),
         call' \in [Calls -> CallRecords],
         \A d \in Calls : d # c => call'[d] = call[d],
         call'[c].phase \in {"answered", "failed"},
         CallIsSound(c)',
         queue' = [queue EXCEPT ![n] = Tail(queue[n])],
         inbox' = inbox, lines' \in [Attempts -> Seq(RequestLines)],
         \A m \in Attempts, line \in RequestLines : OnItsWay(m, line)' => OnItsWay(m, line),
         UNCHANGED <<cache, start, guest, killed, serviceVars, requests, closer>>
  PROVE  GuestInv'
<1> USE GuestParts
<1>1. Tail(queue[n]) \in Seq(Calls)
  BY HeadTailProperties DEF Serves, RuntimesTyped
<1>2. RuntimesTyped' BY <1>1 DEF RuntimesTyped, serviceVars
<1>3. OneRuns' /\ \A m \in Attempts : AttemptIsSound(m)'
  <2>1. \A d \in Calls : call'[d].phase \in {"queued", "waiting"} => call'[d] = call[d]
    OBVIOUS
  <2> QED BY <2>1, AttemptsRest DEF serviceVars, IsOver
<1>4. RequestsAreCounted' BY DEF RequestsAreCounted
<1>5. ASSUME NEW d \in Calls, d # c PROVE CallIsSound(d)'
  <2>1. \A m \in Attempts : m # n => queue'[m] = queue[m] BY DEF RuntimesTyped
  <2>2. call[d].phase = "waiting" => call[d].inst \in Attempts /\ Serves(call[d].inst, d)
    BY DEF CallIsSound
  <2>3. ~Serves(n, d) BY <1>5 DEF Serves
  <2>4. call[d].phase = "waiting" => Serves(call[d].inst, d)'
    BY <2>1, <2>2, <2>3 DEF Serves
  <2>5. \A m \in Attempts : requests'[m] \in Nat /\ requests[m] <= requests'[m]
    BY DEF RuntimesTyped
  <2> QED BY <1>5, <2>4, <2>5, CallStays DEF serviceVars
<1> QED BY <1>2, <1>3, <1>4, <1>5 DEF GuestInv

(* A request has an id that no line before it had. *)
LEMMA SendKeeps ==
  ASSUME GuestInv, NEW c \in Calls, Send(c)
  PROVE  GuestInv'
<1> USE GuestParts
<1>1. PICK n \in Attempts : n = call[c].inst
  BY DEF Send, CallIsSound
<1>2. /\ call[c].phase = "queued" /\ Serves(n, c)
      /\ UNCHANGED <<cache, start, guest, killed, serviceVars, lines, closer, stops>>
  BY <1>1 DEF Send
<1>3. CASE terminated[n] \/ ~Alive(n)
  <2>1. PICK why \in Reasons : Fails(c, why) /\ (why = "terminated" => terminated[n])
    BY <1>1, <1>3 DEF Send, Reasons
  <2>2. queue' = [queue EXCEPT ![n] = Tail(queue[n])] /\ UNCHANGED <<inbox, requests>>
    BY <1>1, <1>3 DEF Send
  <2>3. terminated[n] => n \in stopFailed
    BY <1>1, <1>2 DEF AttemptIsSound, NoneIsAccepted
  <2>4. CallIsSound(c)'
    BY <1>1, <1>2, <2>1, <2>3, FailuresAreSound DEF serviceVars
  <2>5. \A m \in Attempts, line \in RequestLines : OnItsWay(m, line)' => OnItsWay(m, line)
    BY <1>2, <2>2 DEF OnItsWay
  <2>6. lines' \in [Attempts -> Seq(RequestLines)] BY <1>2 DEF RuntimesTyped
  <2> QED BY <1>2, <2>1, <2>2, <2>4, <2>5, <2>6, FailedCall, CallLeaves DEF serviceVars
<1>4. CASE ~(terminated[n] \/ ~Alive(n))
  <2> DEFINE r == requests[n] + 1
             sent == [id |-> r, for |-> c]
  <2>1. /\ requests' = [requests EXCEPT ![n] = r]
        /\ inbox' = [inbox EXCEPT ![n] = Append(inbox[n], sent)]
        /\ call' = [call EXCEPT ![c] = CallAt("waiting", n, r)]
        /\ UNCHANGED queue
    BY <1>1, <1>4 DEF Send
  <2>2. r \in Nat /\ sent \in RequestLines /\ inbox[n] \in Seq(RequestLines)
    <3>1. requests[n] \in Nat /\ inbox[n] \in Seq(RequestLines)
      BY DEF RuntimesTyped
    <3>2. r \in Nat BY <3>1
    <3>3. sent \in RequestLines BY <3>2 DEF RequestLines
    <3> QED BY <3>1, <3>2, <3>3
  <2>3. RuntimesTyped'
    <3>1. Append(inbox[n], sent) \in Seq(RequestLines) BY <2>2, AppendProperties
    <3>2. CallAt("waiting", n, r) \in CallRecords
      BY <2>2 DEF CallAt, CallRecords
    <3> QED BY <1>2, <2>1, <2>2, <3>1, <3>2 DEF RuntimesTyped, serviceVars
  <2>4. \A d \in Calls : d # c => call'[d] = call[d] BY <2>1 DEF RuntimesTyped
  <2>5. call'[c].phase = "waiting" /\ call'[c].inst = n /\ call'[c].why = "" /\ call'[c].id = r
    BY <2>1 DEF RuntimesTyped, CallAt
  <2>6. OneRuns' /\ \A m \in Attempts : AttemptIsSound(m)'
    BY <1>1, <1>2, <2>4, <2>5, AttemptsRest DEF serviceVars, IsOver
  <2>7. ASSUME NEW m \in Attempts, NEW line \in RequestLines, OnItsWay(m, line)'
        PROVE  OnItsWay(m, line) \/ (m = n /\ line = sent)
    <3>1. CASE m # n
      BY <1>2, <2>1, <2>7, <3>1 DEF OnItsWay, RuntimesTyped
    <3>2. CASE m = n
      <4>1. inbox'[n] = Append(inbox[n], sent) BY <2>1 DEF RuntimesTyped
      <4>2. \A i \in DOMAIN inbox'[n] :
              inbox'[n][i] = sent \/ (i \in DOMAIN inbox[n] /\ inbox'[n][i] = inbox[n][i])
        BY <2>2, <4>1
      <4> HIDE DEF sent
      <4> QED BY <1>2, <2>7, <3>2, <4>2 DEF OnItsWay
    <3> QED BY <3>1, <3>2
  <2>8. \A m \in Attempts : requests[m] \in Nat /\ requests'[m] = (IF m = n THEN r ELSE requests[m])
    BY <2>1 DEF RuntimesTyped
  <2>9. sent.id = r /\ sent.for = c OBVIOUS
  <2> HIDE DEF sent
  <2>10. RequestsAreCounted'
    <3>1. ASSUME NEW m \in Attempts, NEW line \in RequestLines, OnItsWay(m, line)'
          PROVE  line.id <= requests'[m]
      <4>1. CASE OnItsWay(m, line)
        <5>1. line.id <= requests[m] /\ line.id \in Nat
          BY <4>1 DEF RequestsAreCounted, RequestLines
        <5> QED BY <2>8, <5>1
      <4>2. CASE m = n /\ line = sent
        BY <2>2, <2>8, <2>9, <4>2
      <4> QED BY <2>7, <3>1, <4>1, <4>2
    <3> QED BY <3>1 DEF RequestsAreCounted
  <2>11. ASSUME NEW d \in Calls, d # c PROVE CallIsSound(d)'
    <3>1. call[d].phase = "waiting" => Serves(call[d].inst, d)'
      BY <2>1, <2>4, <2>11 DEF CallIsSound, Serves
    <3>2. \A m \in Attempts : requests'[m] \in Nat /\ requests[m] <= requests'[m]
      BY <2>2, <2>8
    <3>3. \A m \in Attempts, line \in RequestLines :
            OnItsWay(m, line)' => OnItsWay(m, line) \/ line.id > requests[m]
      BY <2>2, <2>7, <2>8, <2>9
    <3> QED BY <1>2, <2>4, <2>11, <3>1, <3>2, <3>3, CallStays DEF serviceVars
  <2>12. CallIsSound(c)'
    <3>1. Serves(n, c)' BY <1>2, <2>1 DEF Serves
    <3>2. r \in 1..requests'[n] BY <2>2, <2>8
    <3>3. ASSUME NEW line \in RequestLines, OnItsWay(n, line)', line.id = r PROVE line.for = c
      <4>1. ~OnItsWay(n, line)
        <5>1. OnItsWay(n, line) => line.id <= requests[n]
          BY DEF RequestsAreCounted
        <5> QED BY <2>8, <3>3, <5>1
      <4> QED BY <2>7, <2>9, <3>3, <4>1
    <3> QED BY <2>5, <3>1, <3>2, <3>3 DEF CallIsSound
  <2> QED BY <2>3, <2>6, <2>10, <2>11, <2>12 DEF GuestInv
<1> QED BY <1>3, <1>4

(* A waiting call reads one line: the answer to its request, or another    *)
(* one's, which it leaves alone.                                           *)
LEMMA ReadAnswerKeeps ==
  ASSUME GuestInv, NEW c \in Calls, ReadAnswer(c)
  PROVE  GuestInv'
<1> USE GuestParts
<1>1. PICK n \in Attempts : n = call[c].inst
  BY DEF ReadAnswer, CallIsSound
<1> DEFINE line == Head(lines[n])
<1>2. /\ call[c].phase = "waiting" /\ Serves(n, c) /\ lines[n] # <<>>
      /\ lines' = [lines EXCEPT ![n] = Tail(lines[n])]
      /\ UNCHANGED <<cache, start, guest, inbox, killed, serviceVars, requests, closer, stops>>
  BY <1>1 DEF ReadAnswer, CallIsSound
<1>3. lines[n] \in Seq(RequestLines) BY DEF RuntimesTyped
<1>4. line \in RequestLines /\ Tail(lines[n]) \in Seq(RequestLines)
  BY <1>2, <1>3, HeadTailProperties
<1>5. lines' \in [Attempts -> Seq(RequestLines)] BY <1>2, <1>4 DEF RuntimesTyped
<1>6. \A m \in Attempts, l \in RequestLines : OnItsWay(m, l)' => OnItsWay(m, l)
  <2>1. ASSUME NEW m \in Attempts, NEW l \in RequestLines, OnItsWay(m, l)' PROVE OnItsWay(m, l)
    <3>1. CASE m # n
      BY <1>2, <2>1, <3>1 DEF OnItsWay, RuntimesTyped
    <3>2. CASE m = n
      <4>1. lines'[n] = Tail(lines[n]) BY <1>2 DEF RuntimesTyped
      <4>2. \A i \in DOMAIN lines'[n] : i + 1 \in DOMAIN lines[n] /\ lines'[n][i] = lines[n][i + 1]
        <5>1. /\ Len(Tail(lines[n])) = Len(lines[n]) - 1
              /\ \A i \in 1..Len(Tail(lines[n])) : Tail(lines[n])[i] = lines[n][i + 1]
          BY <1>2, <1>3, HeadTailProperties
        <5>2. Len(lines[n]) \in Nat /\ DOMAIN lines[n] = 1..Len(lines[n])
              /\ DOMAIN Tail(lines[n]) = 1..Len(Tail(lines[n]))
          BY <1>3, <1>4, LenProperties
        <5> QED BY <4>1, <5>1, <5>2
      <4> QED BY <1>2, <2>1, <3>2, <4>2 DEF OnItsWay
    <3> QED BY <3>1, <3>2
  <2> QED BY <2>1
<1>7. OnItsWay(n, line)
  <2>1. 1 \in DOMAIN lines[n] /\ lines[n][1] = line BY <1>2, <1>3
  <2> QED BY <2>1 DEF OnItsWay
<1>8. CASE Matches(line, call[c].id)
  <2>1. /\ call' = [call EXCEPT ![c].phase = "answered", ![c].result = line.for]
        /\ queue' = [queue EXCEPT ![n] = Tail(queue[n])]
    BY <1>1, <1>8 DEF ReadAnswer
  <2>2. line.for = c BY <1>1, <1>2, <1>4, <1>7, <1>8 DEF CallIsSound, Matches
  <2>3. call \in [Calls -> CallRecords] /\ call[c] \in CallRecords
    BY DEF RuntimesTyped
  <2>4. /\ call[c].id \in Nat /\ call[c].why \in Reasons
        /\ call[c] = [phase |-> call[c].phase, inst |-> call[c].inst, id |-> call[c].id,
                      result |-> call[c].result, why |-> call[c].why]
    BY <2>3 DEF CallRecords, Reasons
  <2>5. DOMAIN call' = Calls /\ \A d \in Calls : d # c => call'[d] = call[d]
    BY <2>1, <2>3
  <2>6. call'[c] = [phase |-> "answered", inst |-> n, id |-> call[c].id, result |-> c, why |-> call[c].why]
    BY <1>1, <2>1, <2>2, <2>3, <2>4
  <2>7. call'[c] \in CallRecords
    <3>1. [phase |-> "answered", inst |-> n, id |-> call[c].id, result |-> c, why |-> call[c].why]
            \in CallRecords
      BY <2>4 DEF CallRecords, Reasons
    <3> QED BY <2>6, <3>1
  <2>8. call' \in [Calls -> CallRecords]
    <3>1. call' = [d \in Calls |-> call'[d]] BY <2>1, <2>3
    <3> QED BY <2>3, <2>5, <2>7, <3>1
  <2>9. CallIsSound(c)'
    <3>1. call[c].why = "terminated" => n \in stopFailed BY <1>1 DEF CallIsSound
    <3>2. /\ call'[c].phase = "answered" /\ call'[c].inst = n /\ call'[c].result = c
          /\ call'[c].why = call[c].why
      BY <2>6
    <3> QED BY <1>2, <3>1, <3>2 DEF CallIsSound, serviceVars
  <2>10. call'[c].phase \in {"answered", "failed"} BY <2>6
  <2> QED BY <1>2, <1>5, <1>6, <2>1, <2>5, <2>8, <2>9, <2>10, CallLeaves
<1>9. CASE ~Matches(line, call[c].id)
  <2>1. UNCHANGED <<call, queue>> BY <1>1, <1>9 DEF ReadAnswer
  <2>2. RuntimesTyped' BY <1>2, <1>5, <2>1 DEF RuntimesTyped, serviceVars
  <2>3. OneRuns' /\ \A m \in Attempts : AttemptIsSound(m)'
    <3>1. \A d \in Calls : call'[d].phase \in {"queued", "waiting"} => call'[d] = call[d]
      BY <2>1
    <3> QED BY <1>2, <3>1, AttemptsRest DEF serviceVars, IsOver
  <2>4. RequestsAreCounted' /\ \A d \in Calls : CallIsSound(d)'
    BY <1>2, <1>6, <2>1, NothingNewIsSaid DEF serviceVars
  <2> QED BY <2>2, <2>3, <2>4 DEF GuestInv
<1> QED BY <1>8, <1>9

(* A call may give up; its answer stays behind under its id. *)
LEMMA GiveUpKeeps ==
  ASSUME GuestInv, NEW c \in Calls, GiveUp(c)
  PROVE  GuestInv'
<1> USE GuestParts
<1>1. PICK n \in Attempts : n = call[c].inst
  BY DEF GiveUp, CallIsSound
<1>2. PICK why \in Reasons : Fails(c, why) /\ why # "terminated"
  BY DEF GiveUp, Reasons
<1>3. /\ call[c].phase = "waiting" /\ Serves(n, c)
      /\ queue' = [queue EXCEPT ![n] = Tail(queue[n])]
      /\ UNCHANGED <<cache, start, guestVars, killed, serviceVars, requests, closer>>
  BY <1>1 DEF GiveUp, CallIsSound
<1>4. CallIsSound(c)' BY <1>2, <1>3, FailuresAreSound
<1>5. \A m \in Attempts, line \in RequestLines : OnItsWay(m, line)' => OnItsWay(m, line)
  BY <1>3 DEF OnItsWay, guestVars
<1>6. lines' \in [Attempts -> Seq(RequestLines)]
  BY <1>3 DEF RuntimesTyped, guestVars
<1> QED BY <1>2, <1>3, <1>4, <1>5, <1>6, FailedCall, CallLeaves DEF guestVars

----------------------------------------
(* Nothing has been started at first. *)
LEMMA GuestsBegin == RuntimesInit => GuestInv
<1> SUFFICES ASSUME RuntimesInit PROVE GuestInv
  OBVIOUS
<1>1. RuntimesTyped
  <2>1. CallAt("idle", 0, 0) \in CallRecords BY DEF CallAt, CallRecords
  <2>2. <<>> \in Seq(RequestLines) /\ <<>> \in Seq(Calls) OBVIOUS
  <2>3. closer \in [phase : {"no", "closing", "closed", "failed"}, todo : SUBSET Attempts,
                    current : {0} \cup Attempts, failures : Nat]
    BY DEF RuntimesInit
  <2> QED BY <2>1, <2>2, <2>3 DEF RuntimesInit, RuntimesTyped
<1>2. OneRuns BY DEF RuntimesInit, OneRuns, Runs
<1>3. \A n \in Attempts, line \in RequestLines : ~OnItsWay(n, line)
  BY DEF RuntimesInit, OnItsWay
<1>4. ASSUME NEW n \in Attempts PROVE AttemptIsSound(n)
  BY DEF RuntimesInit, AttemptIsSound, NoneIsAccepted, Runs, CallAt
<1>5. ASSUME NEW c \in Calls PROVE CallIsSound(c)
  <2>1. call[c].phase = "idle" /\ call[c].why = "" BY DEF RuntimesInit, CallAt
  <2> QED BY <2>1 DEF CallIsSound
<1> QED BY <1>1, <1>2, <1>3, <1>4, <1>5 DEF GuestInv, RequestsAreCounted

(* Nothing changes in a step that changes nothing. *)
LEMMA GuestsRest == GuestInv /\ UNCHANGED runtimeVars => GuestInv'
<1> SUFFICES ASSUME GuestInv, UNCHANGED runtimeVars PROVE GuestInv'
  OBVIOUS
<1> USE GuestParts
<1>1. RuntimesTyped' BY DEF RuntimesTyped, runtimeVars
<1>2. OneRuns' /\ \A n \in Attempts : AttemptIsSound(n)'
  <2>1. \A d \in Calls : call'[d].phase \in {"queued", "waiting"} => call'[d] = call[d]
    BY DEF runtimeVars
  <2> QED BY <2>1, AttemptsRest DEF runtimeVars, IsOver
<1>3. RequestsAreCounted' /\ \A c \in Calls : CallIsSound(c)'
  BY CallsRest DEF runtimeVars
<1> QED BY <1>1, <1>2, <1>3 DEF GuestInv

(* Every step of the host and of a guest keeps the invariant. *)
LEMMA GuestsStep == GuestInv /\ RuntimesNext => GuestInv'
<1> SUFFICES ASSUME GuestInv, RuntimesNext PROVE GuestInv'
  OBVIOUS
<1>1. CASE \E c \in Calls : CallStep(c) \/ Get(c)
  BY <1>1, Gets, AcceptKeeps, SendKeeps, ReadAnswerKeeps, GiveUpKeeps DEF CallStep
<1>2. CASE \E n \in Attempts : StartStep(n)
  BY <1>2, SpawnKeeps, StartEndsKeeps, ResolveFailsKeeps, BootFailsKeeps DEF StartStep
<1>3. CASE \E n \in Attempts : StopStep(n) \/ ClientStop(n)
  BY <1>3, SayQuitKeeps, ReadByeKeeps, KillGuestKeeps, GuestHasLeftKeeps, StopFailsKeeps,
     ClientStopKeeps DEF StopStep
<1>4. CASE CloseStep \/ CloseBegins
  BY <1>4, CloseBeginsKeeps, CloseAwaitsKeeps, CloseEndsKeeps, CloseNextKeeps DEF CloseStep
<1>5. CASE \E n \in Attempts : GuestReady(n) \/ GuestAnswers(n) \/ GuestDies(n)
  BY <1>5, GuestReadyKeeps, GuestAnswersKeeps, GuestDiesKeeps
<1> QED BY <1>1, <1>2, <1>3, <1>4, <1>5 DEF RuntimesNext, HostProgress

(* The invariant holds whatever is relied on. *)
LEMMA GuestsAlways == RuntimesInit /\ [][RuntimesNext]_runtimeVars => []GuestInv
<1>1. GuestInv /\ [RuntimesNext]_runtimeVars => GuestInv'
  BY GuestsRest, GuestsStep
<1> QED BY <1>1, GuestsBegin, PTL

(* The inductive invariant of the foreign runtimes. *)
THEOREM GuestInvariance == RuntimesSpec => []GuestInv
BY GuestsAlways, PTL DEF RuntimesSpec

(* The guests' invariant contains their types. *)
LEMMA GuestTypes == GuestInv => RuntimesTypeOK
BY GuestParts DEF RuntimesTyped, RuntimesTypeOK, CallRecords

(* Types of the cache, the service, the handles and the calls (service.js, *)
(* callable-executor.js, stdio-value-bridge.js).                           *)
THEOREM RuntimesTypeCorrect == RuntimesSpec => []RuntimesTypeOK
BY GuestInvariance, GuestTypes, PTL

(* What the guests' invariant says of calls, stops and processes. *)
LEMMA AccountedGuests ==
  ASSUME GuestInv
  PROVE  AnswersAreTheCallsOwn /\ AcceptedCallsOutliveStops /\ GuestsHaveAnOwner
<1>1. AnswersAreTheCallsOwn BY GuestParts DEF AnswersAreTheCallsOwn, CallIsSound
<1>2. AcceptedCallsOutliveStops
  <2>1. ASSUME NEW c \in Calls, call[c].phase \in {"queued", "waiting"}
        PROVE  stopping[call[c].inst] \in {"no", "draining"}
    <3>1. call[c].inst \in Attempts BY <2>1, GuestParts DEF CallIsSound
    <3>2. stopping[call[c].inst] \in {"no", "draining", "quitting", "leaving", "killing"}
      BY <3>1, GuestParts DEF RuntimesTyped
    <3> QED BY <2>1, <3>1, <3>2, GuestParts DEF AttemptIsSound, NoneIsAccepted
  <2> QED BY <2>1, GuestParts DEF AcceptedCallsOutliveStops, CallIsSound
<1>3. GuestsHaveAnOwner
  <2> DEFINE Unkilled == {n \in Attempts : Alive(n) /\ n \notin killed}
             Owned == {n \in Unkilled : start[n] = "booting" \/ status[n] = "active"}
  <2>1. ASSUME NEW n \in Unkilled PROVE start[n] = "booting" \/ status[n] # "none"
    <3>1. n \in Attempts /\ AttemptIsSound(n) /\ Alive(n) /\ n \notin killed
      BY GuestParts
    <3>2. start[n] \in {"none", "resolving", "booting", "started", "failed"}
      BY <3>1, GuestParts DEF RuntimesTyped
    <3> QED BY <3>1, <3>2 DEF AttemptIsSound, Alive
  <2>2. \A m, n \in Owned : m = n \/ IsOver
    <3>1. ASSUME NEW n \in Owned PROVE n \in Attempts /\ Runs(n)
      BY GuestParts DEF AttemptIsSound, Runs
    <3> QED BY <3>1, GuestParts DEF OneRuns
  <2>3. IsOver \/ Cardinality(Owned) <= 1
    <3> SUFFICES ASSUME ~IsOver PROVE Cardinality(Owned) <= 1
      OBVIOUS
    <3>1. CASE Owned = {}
      BY <3>1, FS_EmptySet
    <3>2. CASE Owned # {}
      <4>1. PICK n : n \in Owned
        BY <3>2
      <4>2. Owned = {n} BY <2>2, <4>1
      <4>3. Cardinality({n}) = 1 BY FS_Singleton
      <4> HIDE DEF Owned
      <4> QED BY <4>2, <4>3
    <3> QED BY <3>1, <3>2
  <2> QED BY <2>1, <2>3 DEF GuestsHaveAnOwner, IsOver
<1> QED BY <1>1, <1>2, <1>3

(* What MCSessions states of the guests, whatever calls, stops and starts  *)
(* there are: an answer is the call's own, a stop waits for what was       *)
(* accepted, and no process is left without somebody who will end it.      *)
THEOREM GuestsAreOwned ==
  RuntimesSpec => [](AnswersAreTheCallsOwn /\ AcceptedCallsOutliveStops /\ GuestsHaveAnOwner)
BY GuestInvariance, AccountedGuests, PTL

----------------------------------------
(* The lab suite.  What the scheduler holds. *)
Schedulers ==
  [queue : SUBSET LabJobs, attempt : [LabJobs -> 1..2], ready : SUBSET Workers,
   alive : SUBSET Workers, inFlight : [Workers -> SUBSET LabJobs], started : BOOLEAN]

(* A file is at one worker only or queued, no worker has more than its     *)
(* slots, and a queue is left only where every hand is full.               *)
FilesAreOnce(s) ==
  \A w \in Workers : \A j \in s.inFlight[w] :
    j \notin s.queue /\ \A v \in Workers : j \in s.inFlight[v] => v = w
SlotsAreKept(s) == \A w \in Workers : Cardinality(s.inFlight[w]) <= WorkerSlots[w]
FullHand(s, w) == Cardinality(s.inFlight[w]) = WorkerSlots[w]
HandsAreFull(s) == s.started /\ s.queue # {} => \A w \in Hands(s) : FullHand(s, w)
IsSoundSchedule(s) ==
  s \in Schedulers /\ FilesAreOnce(s) /\ SlotsAreKept(s) /\ HandsAreFull(s)

Outcomes == {"pass", "fail", "crash", "lost"}
LabFacts ==
  [t : {"ready", "error"}] \cup [t : {"fail"}, job : LabJobs]
    \cup [t : {"done"}, job : LabJobs, code : {0, 1}]
SessionRecords ==
  [commands : Seq(LabJobs \cup {End}), facts : Seq(LabFacts),
   driver : {"starting", "up", "ended", "gone"}, running : SUBSET LabJobs,
   ending : BOOLEAN, killed : BOOLEAN]
ReportRecords ==
  [dispatched : SUBSET LabJobs, done : SUBSET (LabJobs \X {0, 1}), failed : SUBSET LabJobs,
   errors : {0, 1}]

LabTyped ==
  /\ sessions \in [Workers -> SessionRecords]
  /\ reports \in [Workers -> ReportRecords]
  /\ startTimer \in {"unset", "set", "off"}
  /\ timedOut \in BOOLEAN
  /\ ran \subseteq Workers \X LabJobs \X Outcomes
  /\ drops \in Nat

(* The files of a session: what a command asks for, runs, or has been told *)
(* is done is in flight, and in one of these places only.                  *)
Ordered(w, j) == \E i \in DOMAIN sessions[w].commands : sessions[w].commands[i] = j
IsDone(w, i) == sessions[w].facts[i].t = "done"

OrdersOnce(w) ==
  \A i, k \in DOMAIN sessions[w].commands :
    sessions[w].commands[i] = sessions[w].commands[k] => i = k \/ sessions[w].commands[i] = End

PipeIsSound(w) ==
  LET x == sessions[w] IN
  /\ x.running \subseteq lab.inFlight[w]
  /\ x.driver # "gone" =>
       /\ OrdersOnce(w)
       /\ \A j \in LabJobs : Ordered(w, j) => j \in lab.inFlight[w] \ x.running
  /\ x.driver \in {"starting", "gone"} => x.running = {}
  /\ \A i \in DOMAIN x.facts : IsDone(w, i) =>
       /\ x.facts[i].job \in lab.inFlight[w] \ x.running
       /\ x.driver # "gone" => ~Ordered(w, x.facts[i].job)
       /\ \A k \in DOMAIN x.facts : IsDone(w, k) /\ x.facts[k].job = x.facts[i].job => k = i
  /\ w \notin lab.alive => x.driver = "gone" /\ x.facts = <<>> /\ lab.inFlight[w] = {}

(* A file runs once on a worker: until that worker is lost it is nowhere   *)
(* else afterwards.                                                        *)
HasRun(w, j) == \E o \in Outcomes : <<w, j, o>> \in ran
RunsAreSound(w) ==
  \A j \in LabJobs : HasRun(w, j) =>
    /\ j \notin sessions[w].running
    /\ sessions[w].driver # "gone" => ~Ordered(w, j)
    /\ w \in lab.alive => j \notin lab.queue /\ \A v \in Workers : j \in lab.inFlight[v] => v = w
    /\ \A o, p \in Outcomes : <<w, j, o>> \in ran /\ <<w, j, p>> \in ran => o = p

(* What a session has told, and what was noted of it, is what ran there. *)
IsTrue(w, fact) ==
  /\ fact.t = "fail" => <<w, fact.job, "fail">> \in ran
  /\ fact.t = "done" => IF fact.code = 0 THEN <<w, fact.job, "pass">> \in ran
                        ELSE <<w, fact.job, "fail">> \in ran \/ <<w, fact.job, "crash">> \in ran
ReportsAreTrue(w) ==
  /\ \A i \in DOMAIN sessions[w].facts : IsTrue(w, sessions[w].facts[i])
  /\ \A j \in reports[w].failed : <<w, j, "fail">> \in ran
  /\ \A d \in reports[w].done : IsTrue(w, [t |-> "done", job |-> d[1], code |-> d[2]])

(* No file is forgotten. *)
EveryFileIsKnown == \A j \in LabJobs : j \in lab.queue \/ \E w \in Workers : j \in reports[w].dispatched

(* A run in which nothing broke: sessions end only when nothing is left,   *)
(* and what was dispatched is in flight, queued again or done.             *)
IsCalm == drops = 0 /\ ~timedOut
NoErrors == \A w \in Workers : reports[w].errors = 0
EndsAreDue(w) ==
  /\ Ordered(w, End) \/ sessions[w].driver = "ended" \/ sessions[w].killed => NothingLeft(lab)
  /\ sessions[w].driver = "gone" =>
       \/ NothingLeft(lab) \/ reports[w].errors = 1
       \/ \E i \in DOMAIN sessions[w].facts : sessions[w].facts[i].t = "error"
DispatchesAreKept ==
  \A w \in Workers : \A j \in reports[w].dispatched :
    j \in lab.queue \/ j \in DoneAnywhere \/ \E v \in Workers : j \in lab.inFlight[v]
CalmRuns == IsCalm => (\A w \in Workers : EndsAreDue(w)) /\ (NoErrors => DispatchesAreKept)

LabInv ==
  /\ IsSoundSchedule(lab) /\ LabTyped /\ EveryFileIsKnown /\ CalmRuns
  /\ \A w \in Workers : PipeIsSound(w) /\ RunsAreSound(w) /\ ReportsAreTrue(w)

----------------------------------------
(* Places in an order. *)
RankIn(R, S) == [x \in S |-> 1 + Cardinality({y \in S : <<y, x>> \in R})]
Orders(R, S) ==
  /\ \A x \in S : <<x, x>> \notin R
  /\ \A x, y \in S : x = y \/ <<x, y>> \in R \/ <<y, x>> \in R
  /\ \A x, y, z \in S : <<x, y>> \in R /\ <<y, z>> \in R => <<x, z>> \in R

(* The places of a finite set in a total order are 1 to its size. *)
LEMMA PlacesAreNumbers ==
  ASSUME NEW S, IsFiniteSet(S), NEW R, Orders(R, S)
  PROVE  RankIn(R, S) \in Bijection(S, 1..Cardinality(S))
<1> DEFINE below(x) == {y \in S : <<y, x>> \in R}
           f == RankIn(R, S)
<1>1. Cardinality(S) \in Nat BY FS_CardinalityType
<1>2. ASSUME NEW x \in S
      PROVE  IsFiniteSet(below(x)) /\ Cardinality(below(x)) \in Nat /\ Cardinality(below(x)) < Cardinality(S)
  <2>1. below(x) \in SUBSET S /\ x \notin below(x) BY DEF Orders
  <2>2. IsFiniteSet(below(x)) /\ Cardinality(below(x)) <= Cardinality(S) /\ below(x) # S
        /\ (Cardinality(S) = Cardinality(below(x)) => S = below(x))
    <3> HIDE DEF below
    <3> QED BY <2>1, FS_Subset
  <2>3. Cardinality(below(x)) \in Nat BY <2>2, FS_CardinalityType
  <2> HIDE DEF below
  <2> QED BY <1>1, <2>2, <2>3
<1>3. ASSUME NEW x \in S, NEW y \in S, <<x, y>> \in R
      PROVE  Cardinality(below(x)) < Cardinality(below(y))
  <2>1. below(x) \in SUBSET below(y) /\ x \in below(y) /\ x \notin below(x)
    BY <1>3 DEF Orders
  <2>2. IsFiniteSet(below(y)) /\ Cardinality(below(y)) \in Nat /\ Cardinality(below(x)) \in Nat
    BY <1>2
  <2> HIDE DEF below
  <2>3. Cardinality(below(x)) <= Cardinality(below(y))
        /\ (Cardinality(below(y)) = Cardinality(below(x)) => below(y) = below(x))
    BY <2>1, <2>2, FS_Subset
  <2> QED BY <2>1, <2>2, <2>3
<1>4. \A x \in S : f[x] = 1 + Cardinality(below(x)) BY DEF RankIn
<1>5. DOMAIN f = S /\ f = [x \in S |-> f[x]] BY DEF RankIn
<1> HIDE DEF f, below
<1>6. f \in [S -> 1..Cardinality(S)]
  <2>1. \A x \in S : f[x] \in 1..Cardinality(S) BY <1>1, <1>2, <1>4
  <2> QED BY <1>5, <2>1
<1>7. \A x, y \in S : f[x] = f[y] => x = y
  <2>1. ASSUME NEW x \in S, NEW y \in S, <<x, y>> \in R PROVE f[x] # f[y]
    BY <1>2, <1>3, <1>4, <2>1
  <2> QED BY <2>1 DEF Orders
<1>8. f \in Injection(S, 1..Cardinality(S))
  BY <1>6, <1>7 DEF Injection, IsInjective
<1>9. IsFiniteSet(1..Cardinality(S)) /\ Cardinality(1..Cardinality(S)) = Cardinality(S)
  BY <1>1, FS_Interval
<1>10. f \in Surjection(S, 1..Cardinality(S)) BY <1>8, <1>9, FS_Injection
<1> QED BY <1>8, <1>10 DEF Bijection, f

(* Jobs are dealt to free slots of the same place: no more of them than    *)
(* slots, and as many where a job is left over.                            *)
LEMMA DealIsEven ==
  ASSUME NEW Q, IsFiniteSet(Q), NEW f \in Bijection(Q, 1..Cardinality(Q)),
         NEW L, IsFiniteSet(L), NEW g \in Bijection(L, 1..Cardinality(L)),
         NEW M \in SUBSET L, NEW T \in SUBSET Q,
         \A j \in Q : j \in T <=> \E p \in M : g[p] = f[j]
  PROVE  /\ Cardinality(T) \in Nat /\ Cardinality(M) \in Nat /\ Cardinality(T) <= Cardinality(M)
         /\ (\E j \in Q : \A p \in L : g[p] # f[j]) => Cardinality(T) = Cardinality(M)
<1>1. IsFiniteSet(M) /\ IsFiniteSet(T) /\ T \in SUBSET Q BY FS_Subset
<1>2. /\ Cardinality(M) \in Nat /\ Cardinality(T) \in Nat
      /\ Cardinality(Q) \in Nat /\ Cardinality(L) \in Nat
  BY <1>1, FS_CardinalityType
<1>3. /\ f \in [Q -> 1..Cardinality(Q)] /\ \A x, y \in Q : f[x] = f[y] => x = y
      /\ \A n \in 1..Cardinality(Q) : \E x \in Q : f[x] = n
  BY DEF Bijection, Injection, Surjection, IsInjective
<1>4. /\ g \in [L -> 1..Cardinality(L)] /\ \A x, y \in L : g[x] = g[y] => x = y
      /\ \A n \in 1..Cardinality(L) : \E x \in L : g[x] = n
  BY DEF Bijection, Injection, Surjection, IsInjective
<1> DEFINE h == [j \in T |-> CHOOSE p \in M : g[p] = f[j]]
<1>5. \A j \in T : h[j] \in M /\ g[h[j]] = f[j] OBVIOUS
<1>6. h \in [T -> M] BY <1>5
<1> HIDE DEF h
<1>7. h \in Injection(T, M) BY <1>1, <1>3, <1>5, <1>6 DEF Injection, IsInjective
<1>8. Cardinality(T) <= Cardinality(M) /\ (h \in Surjection(T, M) => Cardinality(T) = Cardinality(M))
  BY <1>1, <1>7, FS_Injection
<1>9. ASSUME NEW k \in Q, \A p \in L : g[p] # f[k] PROVE h \in Surjection(T, M)
  <2>1. f[k] > Cardinality(L) /\ f[k] <= Cardinality(Q) /\ f[k] \in Nat
    BY <1>2, <1>3, <1>4, <1>9
  <2>2. ASSUME NEW p \in M PROVE \E j \in T : h[j] = p
    <3>1. g[p] \in 1..Cardinality(L) /\ p \in L BY <1>4
    <3>2. g[p] \in 1..Cardinality(Q) BY <1>2, <2>1, <3>1
    <3>3. PICK j \in Q : f[j] = g[p]
      BY <1>3, <3>2
    <3>4. j \in T BY <3>3
    <3>5. h[j] = p BY <1>4, <1>5, <3>1, <3>3, <3>4
    <3> QED BY <3>4, <3>5
  <2> QED BY <1>6, <2>2 DEF Surjection
<1> QED BY <1>2, <1>8, <1>9

(* The queue by length, the slots by round or by worker. *)
LEMMA JobPlaces ==
  ASSUME NEW J \in SUBSET LabJobs
  PROVE  /\ IsFiniteSet(J)
         /\ \E f \in Bijection(J, 1..Cardinality(J)) : \A j \in J : Place(j, J, Longer) = f[j]
<1> DEFINE R == {p \in J \X J : p[1] < p[2]}
<1>1. IsFiniteSet(J) BY LabAssumption, FS_Subset
<1>2. J \subseteq Nat BY LabAssumption
<1>3. Orders(R, J) BY <1>2 DEF Orders
<1>4. RankIn(R, J) \in Bijection(J, 1..Cardinality(J))
  BY <1>1, <1>3, PlacesAreNumbers
<1>5. ASSUME NEW j \in J PROVE Place(j, J, Longer) = RankIn(R, J)[j]
  <2>1. {y \in J : Longer(y, j)} = {y \in J : <<y, j>> \in R} BY DEF Longer
  <2> HIDE DEF R
  <2>2. RankIn(R, J)[j] = 1 + Cardinality({y \in J : <<y, j>> \in R})
    BY DEF RankIn
  <2>3. Place(j, J, Longer) = 1 + Cardinality({y \in J : Longer(y, j)})
    BY DEF Place
  <2> QED BY <2>1, <2>2, <2>3
<1> QED BY <1>1, <1>4, <1>5

(* Slots have places round by round. *)
LEMMA RoundPlaces ==
  ASSUME NEW L \in SUBSET (Workers \X Nat), IsFiniteSet(L)
  PROVE  \E g \in Bijection(L, 1..Cardinality(L)) : \A p \in L : Place(p, L, RoundByRound) = g[p]
<1> DEFINE R == {e \in L \X L : RoundByRound(e[1], e[2])}
<1>1. Orders(R, L)
  <2>1. \A x, y \in L : <<x, y>> \in R <=> RoundByRound(x, y) OBVIOUS
  <2>2. \A x \in L : x[1] \in Workers /\ x[2] \in Nat /\ x = <<x[1], x[2]>>
    OBVIOUS
  <2>3. \A x \in L : ~RoundByRound(x, x) BY <2>2, LabAssumption DEF RoundByRound
  <2>4. \A x, y \in L : x = y \/ RoundByRound(x, y) \/ RoundByRound(y, x)
    <3>1. ASSUME NEW x \in L, NEW y \in L, x[2] = y[2], x[1] = y[1] PROVE x = y
      BY <2>2, <3>1
    <3> QED BY <2>2, <3>1, LabAssumption DEF RoundByRound
  <2>5. \A x, y, z \in L : RoundByRound(x, y) /\ RoundByRound(y, z) => RoundByRound(x, z)
    BY <2>2, LabAssumption DEF RoundByRound
  <2> HIDE DEF R
  <2> QED BY <2>1, <2>3, <2>4, <2>5 DEF Orders
<1>2. RankIn(R, L) \in Bijection(L, 1..Cardinality(L)) BY <1>1, PlacesAreNumbers
<1>3. ASSUME NEW p \in L PROVE Place(p, L, RoundByRound) = RankIn(R, L)[p]
  <2>1. {y \in L : RoundByRound(y, p)} = {y \in L : <<y, p>> \in R} OBVIOUS
  <2> HIDE DEF R
  <2>2. RankIn(R, L)[p] = 1 + Cardinality({y \in L : <<y, p>> \in R})
    BY DEF RankIn
  <2>3. Place(p, L, RoundByRound) = 1 + Cardinality({y \in L : RoundByRound(y, p)})
    BY DEF Place
  <2> QED BY <2>1, <2>2, <2>3
<1> QED BY <1>2, <1>3

(* Slots have places worker by worker. *)
LEMMA WorkerPlaces ==
  ASSUME NEW L \in SUBSET (Workers \X Nat), IsFiniteSet(L)
  PROVE  \E g \in Bijection(L, 1..Cardinality(L)) : \A p \in L : Place(p, L, WorkerByWorker) = g[p]
<1> DEFINE R == {e \in L \X L : WorkerByWorker(e[1], e[2])}
<1>1. Orders(R, L)
  <2>1. \A x, y \in L : <<x, y>> \in R <=> WorkerByWorker(x, y) OBVIOUS
  <2>2. \A x \in L : x[1] \in Workers /\ x[2] \in Nat /\ x = <<x[1], x[2]>>
    OBVIOUS
  <2>3. \A x \in L : ~WorkerByWorker(x, x)
    BY <2>2, LabAssumption DEF WorkerByWorker
  <2>4. \A x, y \in L : x = y \/ WorkerByWorker(x, y) \/ WorkerByWorker(y, x)
    <3>1. ASSUME NEW x \in L, NEW y \in L, x[2] = y[2], x[1] = y[1] PROVE x = y
      BY <2>2, <3>1
    <3> QED BY <2>2, <3>1, LabAssumption DEF WorkerByWorker
  <2>5. \A x, y, z \in L : WorkerByWorker(x, y) /\ WorkerByWorker(y, z) => WorkerByWorker(x, z)
    BY <2>2, LabAssumption DEF WorkerByWorker
  <2> HIDE DEF R
  <2> QED BY <2>1, <2>3, <2>4, <2>5 DEF Orders
<1>2. RankIn(R, L) \in Bijection(L, 1..Cardinality(L)) BY <1>1, PlacesAreNumbers
<1>3. ASSUME NEW p \in L PROVE Place(p, L, WorkerByWorker) = RankIn(R, L)[p]
  <2>1. {y \in L : WorkerByWorker(y, p)} = {y \in L : <<y, p>> \in R} OBVIOUS
  <2> HIDE DEF R
  <2>2. RankIn(R, L)[p] = 1 + Cardinality({y \in L : <<y, p>> \in R})
    BY DEF RankIn
  <2>3. Place(p, L, WorkerByWorker) = 1 + Cardinality({y \in L : WorkerByWorker(y, p)})
    BY DEF Place
  <2> QED BY <2>1, <2>2, <2>3
<1> QED BY <1>2, <1>3

(* A worker's free slots, and those of several workers. *)
SlotsOf(s, w) == {<<w, r>> : r \in FreeSlots(s, w)}

(* A worker's free slots are what its files in flight leave. *)
LEMMA FreeSlotsAreCounted ==
  ASSUME NEW s \in Schedulers, SlotsAreKept(s), NEW w \in Workers
  PROVE  /\ IsFiniteSet(s.inFlight[w]) /\ Cardinality(s.inFlight[w]) \in Nat
         /\ IsFiniteSet(SlotsOf(s, w))
         /\ Cardinality(SlotsOf(s, w)) = WorkerSlots[w] - Cardinality(s.inFlight[w])
         /\ Cardinality(SlotsOf(s, w)) \in Nat
         /\ SlotsOf(s, w) \subseteq {w} \X Nat
<1> DEFINE n == WorkerSlots[w] - Cardinality(s.inFlight[w])
<1>1. s.inFlight[w] \in SUBSET LabJobs BY DEF Schedulers
<1>2. IsFiniteSet(s.inFlight[w]) BY <1>1, LabAssumption, FS_Subset
<1>3. Cardinality(s.inFlight[w]) \in Nat BY <1>2, FS_CardinalityType
<1>4. n \in Nat BY <1>3, LabAssumption DEF SlotsAreKept
<1>5. IsFiniteSet(1..n) /\ Cardinality(1..n) = n BY <1>4, FS_Interval
<1>6. FreeSlots(s, w) = 1..n BY DEF FreeSlots
<1> HIDE DEF n
<1>7. ExistsBijection(1..n, SlotsOf(s, w))
  <2> DEFINE b == [r \in 1..n |-> <<w, r>>]
  <2>1. b \in [1..n -> SlotsOf(s, w)] /\ IsInjective(b)
    BY <1>6 DEF SlotsOf, IsInjective
  <2>2. \A p \in SlotsOf(s, w) : \E r \in 1..n : b[r] = p BY <1>6 DEF SlotsOf
  <2>3. b \in Bijection(1..n, SlotsOf(s, w))
    BY <2>1, <2>2 DEF Bijection, Injection, Surjection
  <2> QED BY <2>3 DEF ExistsBijection
<1>8. IsFiniteSet(SlotsOf(s, w)) /\ Cardinality(SlotsOf(s, w)) = n
  BY <1>5, <1>7, FS_Bijection
<1>9. SlotsOf(s, w) \subseteq {w} \X Nat BY <1>4, <1>6 DEF SlotsOf
<1> QED BY <1>2, <1>3, <1>4, <1>8, <1>9 DEF n

(* The slots of some workers are finitely many, each of its worker. *)
LEMMA SlotsAreFinite ==
  ASSUME NEW s \in Schedulers, SlotsAreKept(s), NEW W \in SUBSET Workers
  PROVE  /\ IsFiniteSet(SlotsOfWorkers(s, W)) /\ SlotsOfWorkers(s, W) \subseteq Workers \X Nat
         /\ \A w \in W : {p \in SlotsOfWorkers(s, W) : p[1] = w} = SlotsOf(s, w)
         /\ \A p \in SlotsOfWorkers(s, W) : p[1] \in W
<1>1. SlotsOfWorkers(s, W) = UNION {SlotsOf(s, w) : w \in W}
  BY DEF SlotsOfWorkers, SlotsOf
<1>2. IsFiniteSet({SlotsOf(s, w) : w \in W})
  <2> DEFINE b == [w \in W |-> SlotsOf(s, w)]
             T == {SlotsOf(s, w) : w \in W}
  <2>1. b \in Surjection(W, T)
    <3>1. b \in [W -> T] /\ \A x \in T : \E w \in W : b[w] = x OBVIOUS
    <3> QED BY <3>1 DEF Surjection
  <2>2. IsFiniteSet(W) BY LabAssumption, FS_Subset
  <2> HIDE DEF b, T
  <2>3. IsFiniteSet(T) BY <2>1, <2>2, FS_Surjection
  <2> QED BY <2>3 DEF T
<1>3. \A T \in {SlotsOf(s, w) : w \in W} : IsFiniteSet(T) BY FreeSlotsAreCounted
<1>4. IsFiniteSet(SlotsOfWorkers(s, W))
  <2> DEFINE C == {SlotsOf(s, w) : w \in W}
  <2>1. IsFiniteSet(C) /\ (\A T \in C : IsFiniteSet(T)) /\ SlotsOfWorkers(s, W) = UNION C
    BY <1>1, <1>2, <1>3
  <2> HIDE DEF C
  <2> QED BY <2>1, FS_UNION
<1>5. \A w \in W : SlotsOf(s, w) \subseteq {w} \X Nat BY FreeSlotsAreCounted
<1> QED BY <1>1, <1>4, <1>5

----------------------------------------
(* What dealing the queue to workers W makes of a scheduler. *)
HandsOut(s, t, W) ==
  /\ t \in Schedulers /\ FilesAreOnce(t) /\ SlotsAreKept(t)
  /\ t.attempt = s.attempt /\ t.ready = s.ready /\ t.alive = s.alive /\ t.started = s.started
  /\ \A w \in Workers : /\ s.inFlight[w] \subseteq t.inFlight[w]
                        /\ t.inFlight[w] \ s.inFlight[w] \subseteq s.queue \ t.queue
                        /\ w \notin W => t.inFlight[w] = s.inFlight[w]
  /\ t.queue \subseteq s.queue
  /\ \A j \in s.queue : j \in t.queue \/ \E w \in Workers : j \in t.inFlight[w]
  /\ t.queue # {} => \A w \in W : FullHand(t, w)

(* A scheduler with another queue and other files in flight. *)
LEMMA SchedulerUpdated ==
  ASSUME NEW s \in Schedulers, NEW Q, NEW F
  PROVE  [s EXCEPT !.queue = Q, !.inFlight = F]
           = [queue |-> Q, attempt |-> s.attempt, ready |-> s.ready, alive |-> s.alive,
              inFlight |-> F, started |-> s.started]
<1>1. s = [queue |-> s.queue, attempt |-> s.attempt, ready |-> s.ready, alive |-> s.alive,
           inFlight |-> s.inFlight, started |-> s.started]
  BY DEF Schedulers
<1>2. [s EXCEPT !.queue = Q]
        = [queue |-> Q, attempt |-> s.attempt, ready |-> s.ready, alive |-> s.alive,
           inFlight |-> s.inFlight, started |-> s.started]
  BY <1>1
<1> DEFINE u == [s EXCEPT !.queue = Q]
<1>3. u = [queue |-> Q, attempt |-> s.attempt, ready |-> s.ready, alive |-> s.alive,
           inFlight |-> s.inFlight, started |-> s.started]
  BY <1>2
<1>4. [s EXCEPT !.queue = Q, !.inFlight = F] = [u EXCEPT !.inFlight = F] OBVIOUS
<1> HIDE DEF u
<1>5. [u EXCEPT !.inFlight = F]
        = [queue |-> Q, attempt |-> s.attempt, ready |-> s.ready, alive |-> s.alive,
           inFlight |-> F, started |-> s.started]
  BY <1>3
<1> QED BY <1>4, <1>5

TakenBy(s, L, f, g, w) == {j \in s.queue : \E p \in L : p[1] = w /\ g[p] = f[j]}

DealtWith(s, L, f, g) ==
  [s EXCEPT !.queue = s.queue \ UNION {TakenBy(s, L, f, g, w) : w \in Workers},
            !.inFlight = [w \in Workers |-> s.inFlight[w] \cup TakenBy(s, L, f, g, w)]]

(* No more files than free slots, and where files are left, no fewer. *)
LEMMA DealHandsOut ==
  ASSUME NEW s \in Schedulers, FilesAreOnce(s), SlotsAreKept(s), NEW W \in SUBSET Workers,
         NEW f \in Bijection(s.queue, 1..Cardinality(s.queue)),
         NEW g \in Bijection(SlotsOfWorkers(s, W), 1..Cardinality(SlotsOfWorkers(s, W)))
  PROVE  HandsOut(s, DealtWith(s, SlotsOfWorkers(s, W), f, g), W)
<1> DEFINE L == SlotsOfWorkers(s, W)
           T(w) == TakenBy(s, L, f, g, w)
           t == DealtWith(s, L, f, g)
<1>1. /\ s.queue \in SUBSET LabJobs /\ s.inFlight \in [Workers -> SUBSET LabJobs]
      /\ s.attempt \in [LabJobs -> 1..2] /\ s.ready \in SUBSET Workers
      /\ s.alive \in SUBSET Workers /\ s.started \in BOOLEAN
  BY DEF Schedulers
<1>2. /\ IsFiniteSet(L) /\ L \subseteq Workers \X Nat
      /\ \A w \in W : {p \in L : p[1] = w} = SlotsOf(s, w)
      /\ \A p \in L : p[1] \in W
  BY SlotsAreFinite
<1>3. \A p, q \in L : g[p] = g[q] => p = q
  BY DEF Bijection, Injection, IsInjective
<1>4. \A w : T(w) \subseteq s.queue /\ \A j \in T(w) : \E p \in L : p[1] = w /\ g[p] = f[j]
  BY DEF TakenBy
<1>5. \A w : \A j \in s.queue : \A p \in L : p[1] = w /\ g[p] = f[j] => j \in T(w)
  BY DEF TakenBy
<1>6. /\ t.queue = s.queue \ UNION {T(w) : w \in Workers}
      /\ t.inFlight = [w \in Workers |-> s.inFlight[w] \cup T(w)]
      /\ t.attempt = s.attempt /\ t.ready = s.ready /\ t.alive = s.alive /\ t.started = s.started
      /\ t = [queue |-> t.queue, attempt |-> t.attempt, ready |-> t.ready, alive |-> t.alive,
              inFlight |-> t.inFlight, started |-> t.started]
  <2> DEFINE Q == s.queue \ UNION {T(w) : w \in Workers}
             F == [w \in Workers |-> s.inFlight[w] \cup T(w)]
  <2>1. t = [s EXCEPT !.queue = Q, !.inFlight = F] BY DEF DealtWith
  <2> HIDE DEF Q, F, t
  <2>2. t = [queue |-> Q, attempt |-> s.attempt, ready |-> s.ready, alive |-> s.alive,
             inFlight |-> F, started |-> s.started]
    BY <2>1, SchedulerUpdated
  <2>3. t.queue = Q /\ t.inFlight = F
        /\ t.attempt = s.attempt /\ t.ready = s.ready /\ t.alive = s.alive /\ t.started = s.started
    BY <2>2
  <2> QED BY <2>2, <2>3 DEF Q, F
<1> HIDE DEF t
<1>7. \A v, w : \A j : j \in T(v) /\ j \in T(w) => v = w BY <1>3, <1>4
<1>8. \A w : w \notin W => T(w) = {} BY <1>2, <1>4
<1>9. ASSUME NEW w \in W
      PROVE  /\ Cardinality(T(w)) \in Nat /\ IsFiniteSet(T(w))
             /\ Cardinality(T(w)) <= WorkerSlots[w] - Cardinality(s.inFlight[w])
             /\ t.queue # {} => Cardinality(T(w)) = WorkerSlots[w] - Cardinality(s.inFlight[w])
  <2> DEFINE M == SlotsOf(s, w)
  <2>1. M = {p \in L : p[1] = w} BY <1>2
  <2>2. /\ M \in SUBSET L /\ T(w) \in SUBSET s.queue
        /\ \A j \in s.queue : j \in T(w) <=> \E p \in M : g[p] = f[j]
    BY <2>1 DEF TakenBy
  <2>3. w \in Workers OBVIOUS
  <2>4. Cardinality(M) = WorkerSlots[w] - Cardinality(s.inFlight[w])
    BY <2>3, FreeSlotsAreCounted
  <2>5. IsFiniteSet(s.queue) BY <1>1, LabAssumption, FS_Subset
  <2>6. IsFiniteSet(T(w)) BY <1>4, <2>5, FS_Subset
  <2>7. t.queue # {} => \E j \in s.queue : \A p \in L : g[p] # f[j]
    <3>1. ASSUME NEW j \in t.queue PROVE j \in s.queue /\ \A p \in L : g[p] # f[j]
      BY <1>2, <1>5, <1>6, <3>1
    <3> QED BY <3>1
  <2>9. g \in Bijection(L, 1..Cardinality(L)) /\ IsFiniteSet(L) BY <1>2
  <2> HIDE DEF T, L, M
  <2>8. /\ Cardinality(T(w)) \in Nat /\ Cardinality(T(w)) <= Cardinality(M)
        /\ ((\E j \in s.queue : \A p \in L : g[p] # f[j]) => Cardinality(T(w)) = Cardinality(M))
    BY <2>2, <2>5, <2>9, DealIsEven
  <2> QED BY <2>4, <2>6, <2>7, <2>8
<1> HIDE DEF T
<1>10. ASSUME NEW w \in W
       PROVE  Cardinality(t.inFlight[w]) = Cardinality(s.inFlight[w]) + Cardinality(T(w))
  <2>1. w \in Workers /\ IsFiniteSet(s.inFlight[w]) /\ Cardinality(s.inFlight[w]) \in Nat
    BY FreeSlotsAreCounted
  <2>2. s.inFlight[w] \cap T(w) = {} BY <1>4, <2>1 DEF FilesAreOnce
  <2>3. Cardinality(s.inFlight[w] \cup T(w))
          = Cardinality(s.inFlight[w]) + Cardinality(T(w)) - Cardinality(s.inFlight[w] \cap T(w))
    BY <1>9, <2>1, FS_Union
  <2>4. Cardinality(s.inFlight[w] \cap T(w)) = 0 BY <2>2, FS_EmptySet
  <2> QED BY <1>6, <1>9, <2>1, <2>3, <2>4
<1>11. t \in Schedulers BY <1>1, <1>4, <1>6 DEF Schedulers
<1>12. FilesAreOnce(t)
  <2>1. ASSUME NEW w \in Workers, NEW j \in t.inFlight[w]
        PROVE  j \notin t.queue /\ \A v \in Workers : j \in t.inFlight[v] => v = w
    <3>1. CASE j \in s.inFlight[w]
      BY <1>4, <1>6, <3>1 DEF FilesAreOnce
    <3>2. CASE j \in T(w)
      BY <1>4, <1>6, <1>7, <3>2 DEF FilesAreOnce
    <3> QED BY <1>6, <2>1, <3>1, <3>2
  <2> QED BY <2>1 DEF FilesAreOnce
<1>13. SlotsAreKept(t)
  <2>1. ASSUME NEW w \in Workers PROVE Cardinality(t.inFlight[w]) <= WorkerSlots[w]
    <3>1. CASE w \in W
      <4>1. Cardinality(s.inFlight[w]) \in Nat /\ WorkerSlots[w] \in Nat
        BY LabAssumption, FreeSlotsAreCounted
      <4> QED BY <1>9, <1>10, <3>1, <4>1
    <3>2. CASE w \notin W
      <4>1. t.inFlight[w] = s.inFlight[w] BY <1>6, <1>8, <3>2
      <4> QED BY <4>1 DEF SlotsAreKept
    <3> QED BY <3>1, <3>2
  <2> QED BY <2>1 DEF SlotsAreKept
<1>14. t.queue # {} => \A w \in W : FullHand(t, w)
  <2>1. ASSUME t.queue # {}, NEW w \in W PROVE FullHand(t, w)
    <3>1. Cardinality(s.inFlight[w]) \in Nat /\ WorkerSlots[w] \in Nat
      BY LabAssumption, FreeSlotsAreCounted
    <3> QED BY <1>9, <1>10, <2>1, <3>1 DEF FullHand
  <2> QED BY <2>1
<1>15. \A w \in Workers : /\ s.inFlight[w] \subseteq t.inFlight[w]
                          /\ t.inFlight[w] \ s.inFlight[w] \subseteq s.queue \ t.queue
                          /\ w \notin W => t.inFlight[w] = s.inFlight[w]
  BY <1>4, <1>6, <1>8
<1>16. \A j \in s.queue : j \in t.queue \/ \E w \in Workers : j \in t.inFlight[w]
  BY <1>6
<1>17. t.queue \subseteq s.queue BY <1>6
<1> QED BY <1>6, <1>11, <1>12, <1>13, <1>14, <1>15, <1>16, <1>17 DEF HandsOut, t

(* The two ways in which the controller deals. *)
LEMMA RoundsHandOut ==
  ASSUME NEW s \in Schedulers, FilesAreOnce(s), SlotsAreKept(s), NEW W \in SUBSET Workers
  PROVE  HandsOut(s, Dealt(s, SlotsOfWorkers(s, W), RoundByRound), W)
<1> DEFINE L == SlotsOfWorkers(s, W)
<1>1. L \in SUBSET (Workers \X Nat) /\ IsFiniteSet(L) BY SlotsAreFinite
<1>2. PICK g \in Bijection(L, 1..Cardinality(L)) : \A p \in L : Place(p, L, RoundByRound) = g[p]
  <2> HIDE DEF L
  <2> QED BY <1>1, RoundPlaces
<1>3. s.queue \in SUBSET LabJobs BY DEF Schedulers
<1>4. PICK f \in Bijection(s.queue, 1..Cardinality(s.queue)) :
        \A j \in s.queue : Place(j, s.queue, Longer) = f[j]
  BY <1>3, JobPlaces
<1>5. Dealt(s, L, RoundByRound) = DealtWith(s, L, f, g)
  <2> DEFINE K(w) == {j \in s.queue : \E p \in L :
                        p[1] = w /\ Place(p, L, RoundByRound) = Place(j, s.queue, Longer)}
  <2>1. \A w : K(w) = TakenBy(s, L, f, g, w) BY <1>2, <1>4 DEF TakenBy
  <2> HIDE DEF L
  <2>2. Dealt(s, L, RoundByRound)
          = [s EXCEPT !.queue = s.queue \ UNION {K(w) : w \in Workers},
                      !.inFlight = [w \in Workers |-> s.inFlight[w] \cup K(w)]]
    BY DEF Dealt
  <2> HIDE DEF K
  <2>3. UNION {K(w) : w \in Workers} = UNION {TakenBy(s, L, f, g, w) : w \in Workers}
    BY <2>1
  <2>4. [w \in Workers |-> s.inFlight[w] \cup K(w)]
          = [w \in Workers |-> s.inFlight[w] \cup TakenBy(s, L, f, g, w)]
    BY <2>1
  <2> QED BY <2>2, <2>3, <2>4 DEF DealtWith
<1> QED BY <1>5, DealHandsOut

(* Dealing worker by worker hands files out as well. *)
LEMMA WorkersHandOut ==
  ASSUME NEW s \in Schedulers, FilesAreOnce(s), SlotsAreKept(s), NEW W \in SUBSET Workers
  PROVE  HandsOut(s, Dealt(s, SlotsOfWorkers(s, W), WorkerByWorker), W)
<1> DEFINE L == SlotsOfWorkers(s, W)
<1>1. L \in SUBSET (Workers \X Nat) /\ IsFiniteSet(L) BY SlotsAreFinite
<1>2. PICK g \in Bijection(L, 1..Cardinality(L)) : \A p \in L : Place(p, L, WorkerByWorker) = g[p]
  <2> HIDE DEF L
  <2> QED BY <1>1, WorkerPlaces
<1>3. s.queue \in SUBSET LabJobs BY DEF Schedulers
<1>4. PICK f \in Bijection(s.queue, 1..Cardinality(s.queue)) :
        \A j \in s.queue : Place(j, s.queue, Longer) = f[j]
  BY <1>3, JobPlaces
<1>5. Dealt(s, L, WorkerByWorker) = DealtWith(s, L, f, g)
  <2> DEFINE K(w) == {j \in s.queue : \E p \in L :
                        p[1] = w /\ Place(p, L, WorkerByWorker) = Place(j, s.queue, Longer)}
  <2>1. \A w : K(w) = TakenBy(s, L, f, g, w) BY <1>2, <1>4 DEF TakenBy
  <2> HIDE DEF L
  <2>2. Dealt(s, L, WorkerByWorker)
          = [s EXCEPT !.queue = s.queue \ UNION {K(w) : w \in Workers},
                      !.inFlight = [w \in Workers |-> s.inFlight[w] \cup K(w)]]
    BY DEF Dealt
  <2> HIDE DEF K
  <2>3. UNION {K(w) : w \in Workers} = UNION {TakenBy(s, L, f, g, w) : w \in Workers}
    BY <2>1
  <2>4. [w \in Workers |-> s.inFlight[w] \cup K(w)]
          = [w \in Workers |-> s.inFlight[w] \cup TakenBy(s, L, f, g, w)]
    BY <2>1
  <2> QED BY <2>2, <2>3, <2>4 DEF DealtWith
<1> QED BY <1>5, DealHandsOut

----------------------------------------
(* Feeding: files go from the queue to hands, and nothing else changes. *)
IsKept(s) == s \in Schedulers /\ FilesAreOnce(s) /\ SlotsAreKept(s)

Feeds(s, t) ==
  /\ t.ready = s.ready /\ t.alive = s.alive /\ (s.started => t.started)
  /\ \A w \in Workers : /\ s.inFlight[w] \subseteq t.inFlight[w]
                        /\ t.inFlight[w] \ s.inFlight[w] \subseteq s.queue
                        /\ w \notin Hands(s) => t.inFlight[w] = s.inFlight[w]
  /\ t.queue \subseteq s.queue
  /\ \A j \in s.queue : j \in t.queue \/ \E w \in Workers : j \in t.inFlight[w]

(* What has been handed out to hands has been fed. *)
LEMMA HandedOutIsFed ==
  ASSUME NEW s, NEW t, NEW W, HandsOut(s, t, W), W \subseteq Hands(s)
  PROVE  Feeds(s, t) /\ IsKept(t)
BY DEF HandsOut, Feeds, IsKept
(* A scheduler with another mark of its start. *)
LEMMA SchedulerStarted ==
  ASSUME NEW s \in Schedulers, NEW b
  PROVE  [s EXCEPT !.started = b]
           = [queue |-> s.queue, attempt |-> s.attempt, ready |-> s.ready, alive |-> s.alive,
              inFlight |-> s.inFlight, started |-> b]
BY DEF Schedulers

(* The start: every hand is filled, round by round. *)
LEMMA StartFeeds ==
  ASSUME NEW s, IsKept(s)
  PROVE  IsSoundSchedule(Start(s)) /\ Feeds(s, Start(s)) /\ Start(s).started
<1> DEFINE u == [s EXCEPT !.started = TRUE]
           t == Dealt(u, SlotsOfWorkers(s, Hands(s)), RoundByRound)
<1>2. u = [queue |-> s.queue, attempt |-> s.attempt, ready |-> s.ready, alive |-> s.alive,
           inFlight |-> s.inFlight, started |-> TRUE]
  <2>1. s \in Schedulers BY DEF IsKept
  <2> QED BY <2>1, SchedulerStarted
<1> HIDE DEF u
<1>3. IsKept(u) /\ Hands(u) = Hands(s) /\ Hands(u) \in SUBSET Workers /\ u.started
  BY <1>2 DEF IsKept, Schedulers, FilesAreOnce, SlotsAreKept, Hands
<1>4. SlotsOfWorkers(u, Hands(u)) = SlotsOfWorkers(s, Hands(s))
  BY <1>2, <1>3 DEF SlotsOfWorkers, FreeSlots
<1>5. HandsOut(u, t, Hands(u)) BY <1>3, <1>4, RoundsHandOut DEF IsKept
<1>6. Start(s) = t BY DEF Start, u
<1> HIDE DEF t
<1>7. Feeds(u, t) /\ IsKept(t) BY <1>5, HandedOutIsFed
<1>8. Feeds(s, t) BY <1>2, <1>3, <1>7 DEF Feeds
<1>9. HandsAreFull(t) /\ t.started
  BY <1>3, <1>5 DEF HandsOut, HandsAreFull, Hands
<1> QED BY <1>6, <1>7, <1>8, <1>9 DEF IsSoundSchedule, IsKept

(* A scheduler feeds itself. *)
LEMMA FeedsItself ==
  ASSUME NEW s
  PROVE  Feeds(s, s)
BY DEF Feeds

(* One worker's free slots, where the other hands are full. *)
LEMMA FillFeeds ==
  ASSUME NEW s, IsKept(s), NEW w \in Workers,
         s.started /\ s.queue # {} => \A v \in Hands(s) \ {w} : FullHand(s, v)
  PROVE  IsSoundSchedule(Fill(s, w)) /\ Feeds(s, Fill(s, w))
<1>1. CASE s.started /\ w \in Hands(s)
  <2> DEFINE t == Dealt(s, SlotsOfWorkers(s, {w}), WorkerByWorker)
  <2>1. HandsOut(s, t, {w}) BY WorkersHandOut DEF IsKept
  <2>2. Fill(s, w) = t BY <1>1 DEF Fill
  <2> HIDE DEF t
  <2>3. Feeds(s, t) /\ IsKept(t) BY <1>1, <2>1, HandedOutIsFed
  <2>4. ASSUME t.queue # {}, NEW v \in Hands(t) PROVE FullHand(t, v)
    <3>1. CASE v = w
      BY <2>1, <2>4, <3>1 DEF HandsOut
    <3>2. CASE v # w
      <4>1. v \in Hands(s) /\ v \in Workers /\ s.queue # {} /\ t.inFlight[v] = s.inFlight[v]
        BY <2>1, <2>4, <3>2 DEF HandsOut, Hands, Schedulers, IsKept
      <4> QED BY <1>1, <3>2, <4>1 DEF FullHand
    <3> QED BY <3>1, <3>2
  <2> QED BY <2>2, <2>3, <2>4 DEF IsSoundSchedule, IsKept, HandsAreFull
<1>2. CASE ~(s.started /\ w \in Hands(s))
  <2>1. Fill(s, w) = s BY <1>2 DEF Fill
  <2>2. HandsAreFull(s) BY <1>2 DEF HandsAreFull
  <2> QED BY <2>1, <2>2, FeedsItself DEF IsSoundSchedule, IsKept
<1> QED BY <1>1, <1>2

(* Every free slot of every hand. *)
LEMMA FillAllFeeds ==
  ASSUME NEW s, IsKept(s)
  PROVE  IsSoundSchedule(FillAll(s)) /\ Feeds(s, FillAll(s))
<1>1. CASE s.started
  <2> DEFINE t == Dealt(s, SlotsOfWorkers(s, Hands(s)), WorkerByWorker)
  <2>1. Hands(s) \in SUBSET Workers BY DEF Hands, IsKept, Schedulers
  <2>2. HandsOut(s, t, Hands(s)) BY <2>1, WorkersHandOut DEF IsKept
  <2>3. FillAll(s) = t BY <1>1 DEF FillAll
  <2> HIDE DEF t
  <2>4. Feeds(s, t) /\ IsKept(t) BY <2>2, HandedOutIsFed
  <2>5. HandsAreFull(t) BY <2>2 DEF HandsOut, HandsAreFull, Hands
  <2> QED BY <2>3, <2>4, <2>5 DEF IsSoundSchedule, IsKept
<1>2. CASE ~s.started
  BY <1>2, FeedsItself DEF FillAll, IsSoundSchedule, IsKept, HandsAreFull
<1> QED BY <1>1, <1>2

(* The start, when it is due. *)
LEMMA BeginFeeds ==
  ASSUME NEW s, IsSoundSchedule(s)
  PROVE  IsSoundSchedule(BeginIfDue(s)) /\ Feeds(s, BeginIfDue(s))
BY StartFeeds, FeedsItself DEF BeginIfDue, IsSoundSchedule, IsKept

----------------------------------------
(* What a handler makes of the scheduler: the workers G are lost with what *)
(* they had in flight, w loses no more than X, and hands are fed.          *)
LostWith(s, G) == UNION {s.inFlight[v] : v \in G}

Alters(s, t, w, X, G) ==
  /\ t.alive = s.alive \ G /\ s.ready \subseteq t.ready /\ (s.started => t.started)
  /\ \A v \in Workers :
       /\ s.inFlight[v] \ t.inFlight[v] \subseteq (IF v = w THEN X ELSE {})
       /\ t.inFlight[v] \ s.inFlight[v] \subseteq s.queue \cup LostWith(s, G)
       /\ v \notin t.alive => t.inFlight[v] \subseteq s.inFlight[v]
       /\ v \in G => t.inFlight[v] = {}
  /\ t.queue \subseteq s.queue \cup LostWith(s, G)
  /\ \A j \in s.queue : j \in t.queue \/ \E v \in Workers : j \in t.inFlight[v]

(* An alteration, and then what it leaves to be fed. *)
LEMMA AlteredAndFed ==
  ASSUME NEW s, NEW t, NEW u, NEW w, NEW X, NEW G, Alters(s, t, w, X, G), Feeds(t, u)
  PROVE  Alters(s, u, w, X, G)
<1>1. /\ u.alive = s.alive \ G /\ s.ready \subseteq u.ready /\ (s.started => u.started)
      /\ u.queue \subseteq s.queue \cup LostWith(s, G)
  BY DEF Alters, Feeds
<1>2. \A j \in s.queue : j \in u.queue \/ \E v \in Workers : j \in u.inFlight[v]
  BY DEF Alters, Feeds
<1>3. \A v \in Workers :
       /\ s.inFlight[v] \ u.inFlight[v] \subseteq (IF v = w THEN X ELSE {})
       /\ u.inFlight[v] \ s.inFlight[v] \subseteq s.queue \cup LostWith(s, G)
  BY DEF Alters, Feeds
<1>4. \A v \in Workers : v \notin u.alive \/ v \in G => u.inFlight[v] = t.inFlight[v]
  BY DEF Alters, Feeds, Hands
<1>5. \A v \in Workers : /\ v \notin u.alive => u.inFlight[v] \subseteq s.inFlight[v]
                         /\ v \in G => u.inFlight[v] = {}
  BY <1>4 DEF Alters, Feeds
<1> QED BY <1>1, <1>2, <1>3, <1>5 DEF Alters

(* A handler that changes nothing. *)
LEMMA AltersNothing ==
  ASSUME NEW s, NEW w, s.ready = s.ready
  PROVE  Alters(s, s, w, {}, {})
BY DEF Alters, LostWith

(* A worker becomes ready. *)
LEMMA ReadyAlters ==
  ASSUME NEW s, IsSoundSchedule(s), NEW w \in Workers
  PROVE  LET t == BeginIfDue(MarkReady(s, w))
         IN IsSoundSchedule(t) /\ Alters(s, t, w, {}, {})
<1> DEFINE u == [s EXCEPT !.ready = @ \cup {w}]
           m == MarkReady(s, w)
           t == BeginIfDue(m)
<1>1. IsSoundSchedule(m) /\ Alters(s, m, w, {}, {})
  <2>1. CASE w \in s.alive
    <3>1. u = [queue |-> s.queue, attempt |-> s.attempt, ready |-> s.ready \cup {w}, alive |-> s.alive,
               inFlight |-> s.inFlight, started |-> s.started]
      BY DEF Schedulers, IsSoundSchedule
    <3>2. m = Fill(u, w) BY <2>1 DEF MarkReady
    <3> HIDE DEF u, m
    <3>3. IsKept(u)
      BY <3>1 DEF IsSoundSchedule, IsKept, Schedulers, FilesAreOnce, SlotsAreKept
    <3>4. u.started /\ u.queue # {} => \A v \in Hands(u) \ {w} : FullHand(u, v)
      BY <3>1 DEF IsSoundSchedule, HandsAreFull, Hands, FullHand
    <3>5. IsSoundSchedule(m) /\ Feeds(u, m) BY <3>2, <3>3, <3>4, FillFeeds
    <3>6. Alters(s, u, w, {}, {}) BY <3>1 DEF Alters, LostWith
    <3> QED BY <3>5, <3>6, AlteredAndFed
  <2>2. CASE w \notin s.alive
    BY <2>2, AltersNothing DEF MarkReady
  <2> QED BY <2>1, <2>2
<1> HIDE DEF m
<1>2. IsSoundSchedule(t) /\ Feeds(m, t) BY <1>1, BeginFeeds
<1> HIDE DEF t
<1>3. Alters(s, t, w, {}, {}) BY <1>1, <1>2, AlteredAndFed
<1> QED BY <1>2, <1>3 DEF t, m

(* A file's result is in: the worker's slot is free again. *)
LEMMA CompleteAlters ==
  ASSUME NEW s, IsSoundSchedule(s), NEW w \in Workers, NEW j
  PROVE  IsSoundSchedule(Complete(s, w, j)) /\ Alters(s, Complete(s, w, j), w, {j}, {})
<1> DEFINE F == [s.inFlight EXCEPT ![w] = @ \ {j}]
           u == [s EXCEPT !.inFlight[w] = @ \ {j}]
           t == Complete(s, w, j)
<1>1. CASE j \in s.inFlight[w]
  <2>1. u = [queue |-> s.queue, attempt |-> s.attempt, ready |-> s.ready, alive |-> s.alive,
             inFlight |-> F, started |-> s.started]
    BY DEF Schedulers, IsSoundSchedule
  <2>2. s.inFlight \in [Workers -> SUBSET LabJobs]
    BY DEF Schedulers, IsSoundSchedule
  <2>3. /\ F \in [Workers -> SUBSET LabJobs] /\ F[w] = s.inFlight[w] \ {j}
        /\ \A v \in Workers : v # w => F[v] = s.inFlight[v]
        /\ \A v \in Workers : F[v] \subseteq s.inFlight[v]
    BY <2>2
  <2>4. t = Fill(u, w) BY <1>1 DEF Complete
  <2> HIDE DEF u, F, t
  <2>5. SlotsAreKept(u)
    <3>1. IsFiniteSet(s.inFlight[w]) BY <2>2, LabAssumption, FS_Subset
    <3>2. Cardinality(F[w]) <= Cardinality(s.inFlight[w])
      BY <2>3, <3>1, FS_Subset
    <3>3. Cardinality(s.inFlight[w]) \in Nat /\ Cardinality(F[w]) \in Nat /\ WorkerSlots[w] \in Nat
      <4>1. IsFiniteSet(F[w]) BY <2>3, <3>1, FS_Subset
      <4> QED BY <3>1, <4>1, LabAssumption, FS_CardinalityType
    <3>4. Cardinality(s.inFlight[w]) <= WorkerSlots[w]
      BY DEF IsSoundSchedule, SlotsAreKept
    <3>5. Cardinality(F[w]) <= WorkerSlots[w] BY <3>2, <3>3, <3>4
    <3>6. \A v \in Workers : v # w => Cardinality(F[v]) <= WorkerSlots[v]
      BY <2>3 DEF IsSoundSchedule, SlotsAreKept
    <3> QED BY <2>1, <3>5, <3>6 DEF SlotsAreKept
  <2>6. IsKept(u)
    BY <2>1, <2>3, <2>5 DEF IsSoundSchedule, IsKept, Schedulers, FilesAreOnce
  <2>7. u.started /\ u.queue # {} => \A v \in Hands(u) \ {w} : FullHand(u, v)
    <3>1. Hands(s) \subseteq Workers BY DEF IsSoundSchedule, Schedulers, Hands
    <3> QED BY <2>1, <2>3, <3>1 DEF IsSoundSchedule, HandsAreFull, Hands, FullHand
  <2>8. IsSoundSchedule(t) /\ Feeds(u, t) BY <2>4, <2>6, <2>7, FillFeeds
  <2>9. Alters(s, u, w, {j}, {}) BY <2>1, <2>3 DEF Alters, LostWith
  <2>10. Alters(s, t, w, {j}, {}) BY <2>8, <2>9, AlteredAndFed
  <2> QED BY <2>8, <2>10 DEF t
<1>2. CASE j \notin s.inFlight[w]
  BY <1>2 DEF Complete, Alters, LostWith
<1> QED BY <1>1, <1>2

(* A worker is lost: what it had is queued once more, and dealt. *)
LEMMA LossAlters ==
  ASSUME NEW s, IsSoundSchedule(s), NEW w \in Workers
  PROVE  LET t == BeginIfDue(AfterLoss(DropWorker(s, w), s.inFlight[w]))
         IN IsSoundSchedule(t) /\ Alters(s, t, w, s.inFlight[w], {w})
<1> DEFINE F == [s.inFlight EXCEPT ![w] = {}]
           lost == s.inFlight[w]
           u == DropWorker(s, w)
           a == AfterLoss(u, lost)
           t == BeginIfDue(a)
<1>1. u = [queue |-> s.queue, attempt |-> s.attempt, ready |-> s.ready, alive |-> s.alive \ {w},
           inFlight |-> F, started |-> s.started]
  <2> DEFINE d == [s EXCEPT !.alive = @ \ {w}]
  <2>1. s = [queue |-> s.queue, attempt |-> s.attempt, ready |-> s.ready, alive |-> s.alive,
             inFlight |-> s.inFlight, started |-> s.started]
    BY DEF Schedulers, IsSoundSchedule
  <2>2. d = [queue |-> s.queue, attempt |-> s.attempt, ready |-> s.ready, alive |-> s.alive \ {w},
             inFlight |-> s.inFlight, started |-> s.started]
    BY <2>1
  <2>3. u = [d EXCEPT !.inFlight[w] = {}] BY DEF DropWorker
  <2> HIDE DEF d, u
  <2> QED BY <2>2, <2>3
<1>2. s.inFlight \in [Workers -> SUBSET LabJobs] /\ s.queue \in SUBSET LabJobs
      /\ s.attempt \in [LabJobs -> 1..2]
  BY DEF Schedulers, IsSoundSchedule
<1>3. /\ F \in [Workers -> SUBSET LabJobs] /\ F[w] = {}
      /\ \A v \in Workers : v # w => F[v] = s.inFlight[v]
      /\ \A v \in Workers : F[v] \subseteq s.inFlight[v]
  BY <1>2
<1>4. LostWith(s, {w}) = lost BY DEF LostWith
<1> HIDE DEF F, u
<1>5. Cardinality({}) = 0 BY FS_EmptySet
<1>6. \A v \in Workers : Cardinality(F[v]) <= WorkerSlots[v]
  <2>1. WorkerSlots[w] \in Nat BY LabAssumption
  <2> QED BY <1>3, <1>5, <2>1 DEF IsSoundSchedule, SlotsAreKept
<1>7. IsSoundSchedule(a) /\ Alters(s, a, w, lost, {w})
  <2>1. CASE lost # {} /\ u.started
    <3> DEFINE again == {j \in lost : u.attempt[j] < 2}
               A == [j \in LabJobs |-> IF j \in again THEN 2 ELSE u.attempt[j]]
               r == Requeue(u, lost)
    <3>1. r = [queue |-> u.queue \cup again, attempt |-> A, ready |-> s.ready,
               alive |-> s.alive \ {w}, inFlight |-> F, started |-> s.started]
      <4> DEFINE Q == u.queue \cup again
                 d == [u EXCEPT !.queue = Q]
      <4>1. r = [d EXCEPT !.attempt = A] BY <1>1 DEF Requeue
      <4> HIDE DEF Q, r, A, again
      <4>2. d = [queue |-> Q, attempt |-> s.attempt, ready |-> s.ready,
                 alive |-> s.alive \ {w}, inFlight |-> F, started |-> s.started]
        BY <1>1
      <4> HIDE DEF d
      <4> QED BY <4>1, <4>2 DEF Q
    <3>2. again \subseteq lost /\ lost \in SUBSET LabJobs BY <1>2
    <3>3. A \in [LabJobs -> 1..2] BY <1>1, <1>2
    <3>4. a = FillAll(r) BY <2>1 DEF AfterLoss
    <3> HIDE DEF again, A, r, a
    <3>5. \A v \in Workers : \A j \in F[v] : j \notin again
      BY <1>3, <3>2 DEF IsSoundSchedule, FilesAreOnce
    <3>6. FilesAreOnce(r)
      BY <1>1, <1>3, <3>1, <3>5 DEF IsSoundSchedule, FilesAreOnce
    <3>7. SlotsAreKept(r) BY <1>6, <3>1 DEF SlotsAreKept
    <3>8. r \in Schedulers
      BY <1>1, <1>2, <1>3, <3>1, <3>2, <3>3 DEF IsSoundSchedule, Schedulers
    <3>9. IsSoundSchedule(a) /\ Feeds(r, a)
      BY <3>4, <3>6, <3>7, <3>8, FillAllFeeds DEF IsKept
    <3>10. Alters(s, r, w, lost, {w}) BY <1>1, <1>3, <1>4, <3>1, <3>2 DEF Alters
    <3> QED BY <3>9, <3>10, AlteredAndFed
  <2>2. CASE ~(lost # {} /\ u.started)
    <3>1. a = u BY <2>2 DEF AfterLoss
    <3> HIDE DEF a
    <3>2. u \in Schedulers BY <1>1, <1>3 DEF IsSoundSchedule, Schedulers
    <3>3. FilesAreOnce(u) BY <1>1, <1>3 DEF IsSoundSchedule, FilesAreOnce
    <3>4. SlotsAreKept(u) BY <1>1, <1>6 DEF SlotsAreKept
    <3>5. HandsAreFull(u)
      <4>1. Hands(s) \subseteq Workers BY DEF IsSoundSchedule, Schedulers, Hands
      <4>2. \A v \in Hands(u) : v \in Hands(s) /\ v # w /\ v \in Workers /\ u.inFlight[v] = s.inFlight[v]
        BY <1>1, <1>3, <4>1 DEF Hands
      <4>3. u.started = s.started /\ u.queue = s.queue BY <1>1
      <4> QED BY <4>2, <4>3 DEF HandsAreFull, FullHand, IsSoundSchedule
    <3>6. Alters(s, u, w, lost, {w}) BY <1>1, <1>3, <1>4 DEF Alters
    <3> QED BY <3>1, <3>2, <3>3, <3>4, <3>5, <3>6 DEF IsSoundSchedule
  <2> QED BY <2>1, <2>2
<1> HIDE DEF a
<1>8. IsSoundSchedule(t) /\ Feeds(a, t) BY <1>7, BeginFeeds
<1> HIDE DEF t
<1>9. Alters(s, t, w, lost, {w}) BY <1>7, <1>8, AlteredAndFed
<1> QED BY <1>8, <1>9 DEF t, a, u

----------------------------------------
(* What is written on a session: every file once, and only those handed    *)
(* out.                                                                    *)
LEMMA LongestFirstListsFiles ==
  ASSUME NEW J \in SUBSET LabJobs
  PROVE  /\ LongestFirst(J) \in Seq(LabJobs)
         /\ \A i \in DOMAIN LongestFirst(J) : LongestFirst(J)[i] \in J
         /\ \A i, k \in DOMAIN LongestFirst(J) : LongestFirst(J)[i] = LongestFirst(J)[k] => i = k
<1>1. PICK f \in Bijection(J, 1..Cardinality(J)) : \A j \in J : Place(j, J, Longer) = f[j]
  BY JobPlaces
<1>2. IsFiniteSet(J) /\ Cardinality(J) \in Nat BY JobPlaces, FS_CardinalityType
<1>3. \A n \in 1..Cardinality(J) : \E j \in J : Place(j, J, Longer) = n
  BY <1>1 DEF Bijection, Surjection
<1> DEFINE n == Cardinality(J)
           c(k) == CHOOSE j \in J : Place(j, J, Longer) = k
<1>4. \A k \in 1..n : c(k) \in J /\ Place(c(k), J, Longer) = k BY <1>3
<1>5. LongestFirst(J) = [k \in 1..n |-> c(k)] BY DEF LongestFirst
<1> HIDE DEF c, n
<1>6. n \in Nat BY <1>2 DEF n
<1> QED BY <1>4, <1>5, <1>6

(* Where the elements of three sequences are in the whole of them. *)
LEMMA ThreeParts ==
  ASSUME NEW S, NEW p \in Seq(S), NEW q \in Seq(S), NEW r \in Seq(S), NEW z, z = p \o q \o r
  PROVE  /\ z \in Seq(S) /\ Len(z) = Len(p) + Len(q) + Len(r)
         /\ \A i \in DOMAIN z :
              \/ i \in DOMAIN p /\ z[i] = p[i]
              \/ i - Len(p) \in DOMAIN q /\ z[i] = q[i - Len(p)]
              \/ i - Len(p) - Len(q) \in DOMAIN r /\ z[i] = r[i - Len(p) - Len(q)]
<1> DEFINE m == p \o q
<1>1. /\ m \in Seq(S) /\ Len(m) = Len(p) + Len(q)
      /\ \A i \in 1..Len(m) : m[i] = IF i <= Len(p) THEN p[i] ELSE q[i - Len(p)]
  OBVIOUS
<1>2. z = m \o r OBVIOUS
<1> HIDE DEF m
<1>3. /\ z \in Seq(S) /\ Len(z) = Len(m) + Len(r)
      /\ \A i \in 1..Len(z) : z[i] = IF i <= Len(m) THEN m[i] ELSE r[i - Len(m)]
  <2>1. m \in Seq(S) /\ r \in Seq(S) BY <1>1
  <2>2. m \o r \in Seq(S) /\ Len(m \o r) = Len(m) + Len(r) BY ONLY <2>1
  <2>3. \A i \in 1..Len(m \o r) : (m \o r)[i] = IF i <= Len(m) THEN m[i] ELSE r[i - Len(m)]
    BY ONLY <2>1
  <2> QED BY <1>2, <2>2, <2>3
<1>4. Len(p) \in Nat /\ Len(q) \in Nat /\ Len(r) \in Nat
      /\ DOMAIN p = 1..Len(p) /\ DOMAIN q = 1..Len(q) /\ DOMAIN r = 1..Len(r) /\ DOMAIN z = 1..Len(z)
  BY <1>3
<1>5. ASSUME NEW i \in 1..Len(z)
      PROVE  \/ i \in 1..Len(p) /\ z[i] = p[i]
             \/ i - Len(p) \in 1..Len(q) /\ z[i] = q[i - Len(p)]
             \/ i - Len(p) - Len(q) \in 1..Len(r) /\ z[i] = r[i - Len(p) - Len(q)]
  <2>1. CASE i <= Len(p)
    BY <1>1, <1>3, <1>4, <2>1
  <2>2. CASE i > Len(p) /\ i <= Len(m)
    BY <1>1, <1>3, <1>4, <2>2
  <2>3. CASE i > Len(m)
    <3>1. i - Len(p) - Len(q) = i - Len(m) BY <1>1, <1>4
    <3> QED BY <1>1, <1>3, <1>4, <2>3, <3>1
  <2> QED BY <1>1, <1>4, <2>1, <2>2, <2>3
<1> QED BY <1>1, <1>3, <1>4, <1>5

(* A session with other commands, facts and marks. *)
LEMMA SessionUpdated ==
  ASSUME NEW x \in SessionRecords, NEW c, NEW f, NEW e, NEW k
  PROVE  [x EXCEPT !.commands = c, !.facts = f, !.ending = e, !.killed = k]
           = [commands |-> c, facts |-> f, driver |-> x.driver, running |-> x.running,
              ending |-> e, killed |-> k]
<1>1. [x EXCEPT !.commands = c]
        = [commands |-> c, facts |-> x.facts, driver |-> x.driver, running |-> x.running,
           ending |-> x.ending, killed |-> x.killed]
  BY DEF SessionRecords
<1> DEFINE y == [x EXCEPT !.commands = c]
<1>2. /\ [x EXCEPT !.commands = c, !.facts = f, !.ending = e, !.killed = k]
           = [y EXCEPT !.facts = f, !.ending = e, !.killed = k]
      /\ y = [commands |-> c, facts |-> x.facts, driver |-> x.driver, running |-> x.running,
              ending |-> x.ending, killed |-> x.killed]
  BY <1>1
<1> HIDE DEF y
<1>3. [y EXCEPT !.facts = f]
        = [commands |-> c, facts |-> f, driver |-> x.driver, running |-> x.running,
           ending |-> x.ending, killed |-> x.killed]
  BY <1>2
<1> DEFINE z == [y EXCEPT !.facts = f]
<1>4. /\ [y EXCEPT !.facts = f, !.ending = e, !.killed = k] = [z EXCEPT !.ending = e, !.killed = k]
      /\ z = [commands |-> c, facts |-> f, driver |-> x.driver, running |-> x.running,
              ending |-> x.ending, killed |-> x.killed]
  BY <1>3
<1> HIDE DEF z
<1>5. [z EXCEPT !.ending = e]
        = [commands |-> c, facts |-> f, driver |-> x.driver, running |-> x.running,
           ending |-> e, killed |-> x.killed]
  BY <1>4
<1> DEFINE u == [z EXCEPT !.ending = e]
<1>6. /\ [z EXCEPT !.ending = e, !.killed = k] = [u EXCEPT !.killed = k]
      /\ u = [commands |-> c, facts |-> f, driver |-> x.driver, running |-> x.running,
              ending |-> e, killed |-> x.killed]
  BY <1>5
<1> HIDE DEF u
<1>7. [u EXCEPT !.killed = k]
        = [commands |-> c, facts |-> f, driver |-> x.driver, running |-> x.running,
           ending |-> e, killed |-> k]
  BY <1>6
<1> QED BY <1>2, <1>4, <1>6, <1>7

----------------------------------------
(* A handler of the controller: it takes a fact of worker w, or none, or   *)
(* loses w, and moves the scheduler.                                       *)
NewFiles(next, v) == next.inFlight[v] \ lab.inFlight[v]

Handles(next, settles, heard, w, fact, X, G) ==
  /\ IsSoundSchedule(next) /\ Alters(lab, next, w, X, G)
  /\ Moves(next, settles, heard) /\ Reports(next, w, fact) /\ settles \in BOOLEAN
  /\ startTimer' \in {"unset", "set", "off"}
  /\ timedOut' = timedOut /\ ran' = ran /\ drops' = drops
  /\ \/ heard = {} /\ fact = NoFact
     \/ heard = {w} /\ sessions[w].facts # <<>> /\ fact = Head(sessions[w].facts)
  /\ \/ G = {} /\ X = {}
     \/ G = {} /\ heard = {w} /\ fact.t = "done" /\ X = {fact.job}
     \/ G = {w} /\ heard = {} /\ sessions[w].driver = "gone" /\ sessions[w].facts = <<>>
        /\ X = lab.inFlight[w]

SessionsHandled(next, heard) ==
  /\ sessions' \in [Workers -> SessionRecords]
  /\ \A v \in Workers :
       /\ sessions'[v].driver = sessions[v].driver
       /\ sessions'[v].running = sessions[v].running
       /\ sessions'[v].facts = IF v \in heard THEN Tail(sessions[v].facts)
                               ELSE sessions[v].facts
       /\ sessions'[v].killed => sessions[v].killed \/ NothingLeft(next)
       /\ \A j \in LabJobs : Ordered(v, j)' => Ordered(v, j) \/ j \in NewFiles(next, v)
       /\ Ordered(v, End)' => Ordered(v, End) \/ NothingLeft(next)
       /\ OrdersOnce(v) /\ (\A j \in NewFiles(next, v) : ~Ordered(v, j)) => OrdersOnce(v)'

(* What it writes on the sessions. *)
LEMMA HandledSessions ==
  ASSUME LabInv, NEW next, NEW settles, NEW heard, NEW w \in Workers, NEW fact, NEW X, NEW G,
         Handles(next, settles, heard, w, fact, X, G)
  PROVE  SessionsHandled(next, heard)
<1> DEFINE c(v) == sessions[v].commands
           l(v) == LongestFirst(NewFiles(next, v))
           e(v) == IF settles /\ Ends(next, v) THEN <<End>> ELSE <<>>
           z(v) == c(v) \o l(v) \o e(v)
           f(v) == IF v \in heard THEN Tail(sessions[v].facts) ELSE sessions[v].facts
           g(v) == sessions[v].ending \/ (settles /\ Ends(next, v))
           k(v) == sessions[v].killed \/ (settles /\ Kills(next, v))
           y(v) == [commands |-> z(v), facts |-> f(v), driver |-> sessions[v].driver,
                    running |-> sessions[v].running, ending |-> g(v), killed |-> k(v)]
<1>1. sessions \in [Workers -> SessionRecords] BY DEF LabInv, LabTyped
<1>2. sessions' = [v \in Workers |->
        [sessions[v] EXCEPT !.commands = z(v), !.facts = f(v), !.ending = g(v), !.killed = k(v)]]
  BY DEF Handles, Moves, NewFiles
<1>3. \A v \in Workers : NewFiles(next, v) \in SUBSET LabJobs
  BY DEF NewFiles, Handles, IsSoundSchedule, Schedulers
<1>4. \A v \in Workers : NothingLeft(next) \/ e(v) = <<>> BY DEF Ends
<1>5. \A v \in Workers : k(v) => sessions[v].killed \/ NothingLeft(next)
  BY DEF Kills
<1>6. \A v \in Workers : /\ c(v) \in Seq(LabJobs \cup {End}) /\ sessions[v].facts \in Seq(LabFacts)
                         /\ sessions[v].driver \in {"starting", "up", "ended", "gone"}
                         /\ sessions[v].running \in SUBSET LabJobs
                         /\ sessions[v].ending \in BOOLEAN /\ sessions[v].killed \in BOOLEAN
  BY <1>1 DEF SessionRecords
<1>7. \A v \in Workers : f(v) \in Seq(LabFacts)
  <2>1. ASSUME NEW v \in Workers PROVE f(v) \in Seq(LabFacts)
    <3>1. v \in heard => sessions[v].facts # <<>> BY DEF Handles
    <3> QED BY <1>6, <3>1
  <2> QED BY <2>1
<1>8. \A v \in Workers : e(v) \in Seq({End}) /\ \A i \in DOMAIN e(v) : e(v)[i] = End /\ e(v) # <<>>
  <2>1. ASSUME NEW v \in Workers
        PROVE  e(v) \in Seq({End}) /\ \A i \in DOMAIN e(v) : e(v)[i] = End /\ e(v) # <<>>
    <3>1. <<End>> \in Seq({End}) /\ DOMAIN <<End>> = {1} /\ <<End>>[1] = End /\ <<End>> # <<>>
      OBVIOUS
    <3>2. <<>> \in Seq({End}) /\ DOMAIN <<>> = {} OBVIOUS
    <3>3. CASE settles /\ Ends(next, v)
      BY <3>1, <3>3
    <3>4. CASE ~(settles /\ Ends(next, v))
      BY <3>2, <3>4
    <3> QED BY <3>3, <3>4
  <2> QED BY <2>1
<1>9. \A v \in Workers : g(v) \in BOOLEAN /\ k(v) \in BOOLEAN OBVIOUS
<1>10. \A v \in Workers : /\ l(v) \in Seq(LabJobs)
                          /\ \A i \in DOMAIN l(v) : l(v)[i] \in NewFiles(next, v)
                          /\ \A i, n \in DOMAIN l(v) : l(v)[i] = l(v)[n] => i = n
  BY <1>3, LongestFirstListsFiles
<1> HIDE DEF l, e, c, f, g, k
<1>11. ASSUME NEW v \in Workers
       PROVE  /\ z(v) \in Seq(LabJobs \cup {End})
              /\ \A i \in DOMAIN z(v) :
                   \/ \E n \in DOMAIN c(v) : z(v)[i] = c(v)[n]
                   \/ z(v)[i] \in NewFiles(next, v)
                   \/ z(v)[i] = End /\ e(v) # <<>>
              /\ \A i \in DOMAIN z(v) :
                   /\ i \in Nat /\ Len(c(v)) \in Nat
                   /\ \/ i \in DOMAIN c(v) /\ z(v)[i] = c(v)[i]
                      \/ i - Len(c(v)) \in DOMAIN l(v) /\ z(v)[i] = l(v)[i - Len(c(v))]
                      \/ z(v)[i] = End
  <2>1. c(v) \in Seq(LabJobs \cup {End}) /\ l(v) \in Seq(LabJobs \cup {End})
        /\ e(v) \in Seq(LabJobs \cup {End})
    <3>1. l(v) \in Seq(LabJobs) /\ e(v) \in Seq({End}) BY <1>8, <1>10
    <3>2. \A S, U : U \subseteq S => Seq(U) \subseteq Seq(S) OBVIOUS
    <3> QED BY <1>6, <3>1, <3>2
  <2> HIDE DEF z
  <2>2. /\ z(v) \in Seq(LabJobs \cup {End})
        /\ \A i \in DOMAIN z(v) :
              \/ i \in DOMAIN c(v) /\ z(v)[i] = c(v)[i]
              \/ i - Len(c(v)) \in DOMAIN l(v) /\ z(v)[i] = l(v)[i - Len(c(v))]
              \/ i - Len(c(v)) - Len(l(v)) \in DOMAIN e(v) /\ z(v)[i] = e(v)[i - Len(c(v)) - Len(l(v))]
    <3>1. z(v) = c(v) \o l(v) \o e(v) BY DEF z
    <3> QED BY <2>1, <3>1, ThreeParts
  <2>3. \A i \in DOMAIN z(v) : i \in Nat /\ Len(c(v)) \in Nat BY <2>1, <2>2
  <2>4. \A i \in DOMAIN z(v) :
                   \/ \E n \in DOMAIN c(v) : z(v)[i] = c(v)[n]
                   \/ z(v)[i] \in NewFiles(next, v)
                   \/ z(v)[i] = End /\ e(v) # <<>>
    BY <1>8, <1>10, <2>2
  <2>5. \A i \in DOMAIN z(v) :
                      \/ i \in DOMAIN c(v) /\ z(v)[i] = c(v)[i]
                      \/ i - Len(c(v)) \in DOMAIN l(v) /\ z(v)[i] = l(v)[i - Len(c(v))]
                      \/ z(v)[i] = End
    BY <1>8, <2>2
  <2> QED BY <2>2, <2>3, <2>4, <2>5
<1> HIDE DEF z
<1>12. ASSUME NEW v \in Workers PROVE sessions'[v] = y(v)
  <2>1. sessions[v] \in SessionRecords BY <1>1
  <2> QED BY <1>2, <2>1, SessionUpdated
<1>13. \A v \in Workers : y(v) \in SessionRecords
  BY <1>6, <1>7, <1>9, <1>11 DEF SessionRecords
<1>14. sessions' \in [Workers -> SessionRecords] BY <1>2, <1>12, <1>13
<1>15. ASSUME NEW v \in Workers
       PROVE  /\ sessions'[v].driver = sessions[v].driver
              /\ sessions'[v].running = sessions[v].running
              /\ sessions'[v].facts = f(v)
              /\ sessions'[v].killed => sessions[v].killed \/ NothingLeft(next)
              /\ sessions'[v].commands = z(v)
  <2> HIDE DEF y
  <2>4. sessions'[v] = y(v) BY <1>12 DEF y
  <2>1. /\ sessions'[v].driver = sessions[v].driver
        /\ sessions'[v].running = sessions[v].running
        /\ sessions'[v].facts = f(v)
        /\ sessions'[v].commands = z(v)
    BY <2>4 DEF y
  <2>2. sessions'[v].killed = k(v) BY <2>4 DEF y
  <2>3. sessions'[v].killed => sessions[v].killed \/ NothingLeft(next)
    BY <1>5, <2>2
  <2> QED BY <2>1, <2>3
<1>16. ASSUME NEW v \in Workers, NEW j \in LabJobs, Ordered(v, j)'
       PROVE  Ordered(v, j) \/ j \in NewFiles(next, v)
  <2>1. j # End BY LabAssumption DEF End
  <2>2. PICK i \in DOMAIN z(v) : z(v)[i] = j
    BY <1>15, <1>16 DEF Ordered
  <2> QED BY <1>11, <2>1, <2>2 DEF Ordered, c
<1>17. ASSUME NEW v \in Workers, Ordered(v, End)' PROVE Ordered(v, End) \/ NothingLeft(next)
  <2>1. End \notin LabJobs BY LabAssumption DEF End
  <2>2. PICK i \in DOMAIN z(v) : z(v)[i] = End
    BY <1>15, <1>17 DEF Ordered
  <2> QED BY <1>3, <1>4, <1>11, <2>1, <2>2 DEF Ordered, c
<1>18. ASSUME NEW v \in Workers, OrdersOnce(v), \A j \in NewFiles(next, v) : ~Ordered(v, j)
       PROVE  OrdersOnce(v)'
  <2>1. End \notin NewFiles(next, v) BY <1>3, LabAssumption DEF End
  <2>2. \A n \in DOMAIN c(v) : c(v)[n] \notin NewFiles(next, v)
    BY <1>18 DEF Ordered, c
  <2>3. \A i, n \in DOMAIN c(v) : c(v)[i] = c(v)[n] => i = n \/ c(v)[i] = End
    BY <1>18 DEF OrdersOnce, c
  <2>4. ASSUME NEW i \in DOMAIN z(v), NEW n \in DOMAIN z(v), z(v)[i] = z(v)[n]
        PROVE  i = n \/ z(v)[i] = End
    <3> DEFINE m == Len(c(v))
    <3>1. m \in Nat /\ i \in Nat /\ n \in Nat BY <1>11
    <3>2. CASE i \in DOMAIN c(v) /\ z(v)[i] = c(v)[i]
      BY <1>10, <1>11, <2>2, <2>3, <2>4, <3>2
    <3>3. CASE i - m \in DOMAIN l(v) /\ z(v)[i] = l(v)[i - m]
      <4>1. CASE n \in DOMAIN c(v) /\ z(v)[n] = c(v)[n]
        BY <1>10, <2>2, <2>4, <3>3, <4>1
      <4>2. CASE n - m \in DOMAIN l(v) /\ z(v)[n] = l(v)[n - m]
        <5>1. i - m = n - m BY <1>10, <2>4, <3>3, <4>2
        <5> QED BY <3>1, <5>1
      <4> QED BY <1>11, <2>4, <4>1, <4>2
    <3> QED BY <1>11, <3>2, <3>3
  <2> QED BY <1>15, <2>4 DEF OrdersOnce
<1> QED BY <1>14, <1>15, <1>16, <1>17, <1>18 DEF SessionsHandled, f

FactHandled(heard, w, fact) ==
  /\ \/ fact.t = "none" /\ heard = {}
     \/ /\ heard = {w} /\ 1 \in DOMAIN sessions[w].facts /\ fact = sessions[w].facts[1]
        /\ fact \in LabFacts
  /\ fact.t = "done" => fact.job \in LabJobs /\ fact.code \in {0, 1}
  /\ fact.t = "fail" => fact.job \in LabJobs
  /\ fact.t \notin {"done", "fail"} => fact.t \in {"none", "ready", "error"}

(* The fact it takes. *)
LEMMA HandledFact ==
  ASSUME LabInv, NEW next, NEW settles, NEW heard, NEW w \in Workers, NEW fact, NEW X, NEW G,
         Handles(next, settles, heard, w, fact, X, G)
  PROVE  FactHandled(heard, w, fact)
<1>1. CASE heard = {} /\ fact = NoFact
  BY <1>1 DEF NoFact, FactHandled
<1>2. CASE heard = {w} /\ sessions[w].facts # <<>> /\ fact = Head(sessions[w].facts)
  <2>1. sessions[w].facts \in Seq(LabFacts)
    BY DEF LabInv, LabTyped, SessionRecords
  <2>2. 1 \in DOMAIN sessions[w].facts /\ fact = sessions[w].facts[1] /\ fact \in LabFacts
    BY <1>2, <2>1
  <2> QED BY <1>2, <2>2 DEF LabFacts, FactHandled
<1> QED BY <1>1, <1>2 DEF FactHandled, Handles

ReportsHandled(next, w, fact) ==
  /\ reports' \in [Workers -> ReportRecords]
  /\ \A v \in Workers :
       /\ reports'[v].dispatched = reports[v].dispatched \cup NewFiles(next, v)
       /\ reports'[v].done = IF v = w /\ fact.t = "done"
                             THEN reports[v].done \cup {<<fact.job, fact.code>>}
                             ELSE reports[v].done
       /\ reports'[v].failed = IF v = w /\ fact.t = "fail"
                               THEN reports[v].failed \cup {fact.job}
                               ELSE reports[v].failed
       /\ reports'[v].errors = IF v = w /\ fact.t = "error" THEN 1 ELSE reports[v].errors

(* What it notes of the workers. *)
LEMMA HandledReports ==
  ASSUME LabInv, NEW next, NEW settles, NEW heard, NEW w \in Workers, NEW fact, NEW X, NEW G,
         Handles(next, settles, heard, w, fact, X, G)
  PROVE  ReportsHandled(next, w, fact)
<1>0. FactHandled(heard, w, fact) BY HandledFact
<1> DEFINE d(v) == reports[v].dispatched \cup NewFiles(next, v)
           c(v) == IF v = w /\ fact.t = "done" THEN reports[v].done \cup {<<fact.job, fact.code>>}
                   ELSE reports[v].done
           f(v) == IF v = w /\ fact.t = "fail" THEN reports[v].failed \cup {fact.job}
                   ELSE reports[v].failed
           e(v) == IF v = w /\ fact.t = "error" THEN 1 ELSE reports[v].errors
           y(v) == [dispatched |-> d(v), done |-> c(v), failed |-> f(v), errors |-> e(v)]
<1>1. reports \in [Workers -> ReportRecords] BY DEF LabInv, LabTyped
<1>2. reports' = [v \in Workers |->
        [reports[v] EXCEPT !.dispatched = d(v), !.done = c(v), !.failed = f(v), !.errors = e(v)]]
  BY DEF Handles, Reports, Dispatches, NewFiles
<1>3. \A v \in Workers : NewFiles(next, v) \in SUBSET LabJobs
  BY DEF NewFiles, Handles, IsSoundSchedule, Schedulers
<1>4. \A v \in Workers : /\ d(v) \in SUBSET LabJobs /\ c(v) \in SUBSET (LabJobs \X {0, 1})
                         /\ f(v) \in SUBSET LabJobs /\ e(v) \in {0, 1}
  <2>1. /\ fact.t = "done" => fact.job \in LabJobs /\ fact.code \in {0, 1}
        /\ fact.t = "fail" => fact.job \in LabJobs
    BY <1>0 DEF FactHandled
  <2>2. ASSUME NEW v \in Workers
        PROVE  /\ reports[v].dispatched \in SUBSET LabJobs
               /\ reports[v].done \in SUBSET (LabJobs \X {0, 1})
               /\ reports[v].failed \in SUBSET LabJobs /\ reports[v].errors \in {0, 1}
    BY <1>1 DEF ReportRecords
  <2>3. ASSUME NEW v \in Workers PROVE d(v) \in SUBSET LabJobs /\ f(v) \in SUBSET LabJobs
    BY <1>3, <2>1, <2>2
  <2>4. ASSUME NEW v \in Workers PROVE c(v) \in SUBSET (LabJobs \X {0, 1})
    BY <2>1, <2>2
  <2>5. ASSUME NEW v \in Workers PROVE e(v) \in {0, 1}
    BY <2>2
  <2> QED BY <2>3, <2>4, <2>5
<1> HIDE DEF d, c, f, e
<1>5. ASSUME NEW v \in Workers PROVE reports'[v] = y(v)
  <2>1. reports[v] \in ReportRecords BY <1>1
  <2>2. reports'[v] = [reports[v] EXCEPT !.dispatched = d(v), !.done = c(v), !.failed = f(v),
                                         !.errors = e(v)]
    BY <1>2
  <2> DEFINE x == reports[v]
             d1 == d(v)
             c1 == c(v)
             f1 == f(v)
             e1 == e(v)
  <2>3. x \in ReportRecords /\ reports'[v] = [x EXCEPT !.dispatched = d1, !.done = c1, !.failed = f1,
                                                        !.errors = e1]
    BY <2>1, <2>2
  <2> HIDE DEF x, d1, c1, f1, e1
  <2> DEFINE p == [x EXCEPT !.dispatched = d1]
             q == [p EXCEPT !.done = c1]
             r == [q EXCEPT !.failed = f1]
  <2>4. reports'[v] = [r EXCEPT !.errors = e1] BY <2>3
  <2>5. p = [dispatched |-> d1, done |-> x.done, failed |-> x.failed, errors |-> x.errors]
    BY <2>3 DEF ReportRecords
  <2> HIDE DEF p
  <2>6. q = [dispatched |-> d1, done |-> c1, failed |-> x.failed, errors |-> x.errors]
    BY <2>5
  <2> HIDE DEF q
  <2>7. r = [dispatched |-> d1, done |-> c1, failed |-> f1, errors |-> x.errors]
    BY <2>6
  <2> HIDE DEF r
  <2>8. reports'[v] = [dispatched |-> d1, done |-> c1, failed |-> f1, errors |-> e1]
    BY <2>4, <2>7
  <2> QED BY <2>8 DEF d1, c1, f1, e1
<1>6. \A v \in Workers : y(v) \in ReportRecords BY <1>4 DEF ReportRecords
<1>7. reports' \in [Workers -> ReportRecords] BY <1>2, <1>5, <1>6
<1>8. ASSUME NEW v \in Workers
      PROVE  /\ reports'[v].dispatched = d(v) /\ reports'[v].done = c(v)
             /\ reports'[v].failed = f(v) /\ reports'[v].errors = e(v)
  <2> HIDE DEF y
  <2>1. reports'[v] = y(v) BY <1>5 DEF y
  <2> QED BY <2>1 DEF y
<1> QED BY <1>7, <1>8 DEF ReportsHandled, d, c, f, e

FactsHandled(heard, w, fact, v) ==
  LET n == IF v \in heard THEN 1 ELSE 0
  IN /\ \A i \in DOMAIN sessions'[v].facts :
          /\ i \in Nat \ {0} /\ i + n \in DOMAIN sessions[v].facts
          /\ sessions'[v].facts[i] = sessions[v].facts[i + n]
     /\ \A i \in DOMAIN sessions[v].facts : 
          /\ i \in Nat \ {0}
          /\ i > n => /\ i - n \in DOMAIN sessions'[v].facts
                      /\ sessions'[v].facts[i - n] = sessions[v].facts[i]
     /\ n = 1 => v = w /\ 1 \in DOMAIN sessions[v].facts /\ sessions[v].facts[1] = fact

(* The facts still held are those held before, but the one it took. *)
LEMMA HandledFacts ==
  ASSUME LabInv, NEW next, NEW settles, NEW heard, NEW w \in Workers, NEW fact, NEW X, NEW G,
         Handles(next, settles, heard, w, fact, X, G), NEW v \in Workers
  PROVE  FactsHandled(heard, w, fact, v)
<1>0. SessionsHandled(next, heard) /\ FactHandled(heard, w, fact)
  BY HandledSessions, HandledFact
<1> DEFINE q == sessions[v].facts
           z == sessions'[v].facts
<1>1. q \in Seq(LabFacts) BY DEF LabInv, LabTyped, SessionRecords
<1>2. z = IF v \in heard THEN Tail(q) ELSE q BY <1>0 DEF SessionsHandled
<1>3. v \in heard => v = w /\ 1 \in DOMAIN q /\ q[1] = fact
  BY <1>0 DEF FactHandled
<1> HIDE DEF q, z, FactsHandled
<1>4. CASE v \in heard
  <2>1. q # <<>> BY <1>1, <1>3, <1>4
  <2>2. /\ z \in Seq(LabFacts) /\ Len(z) = Len(q) - 1
        /\ \A i \in 1..Len(z) : z[i] = q[i + 1]
    BY <1>1, <1>2, <1>4, <2>1
  <2>3. Len(q) \in Nat /\ Len(z) \in Nat /\ DOMAIN q = 1..Len(q) /\ DOMAIN z = 1..Len(z)
    BY <1>1, <2>2
  <2>4. \A i \in DOMAIN z : i \in Nat \ {0} /\ i + 1 \in DOMAIN q /\ z[i] = q[i + 1]
    BY <2>2, <2>3
  <2>5. ASSUME NEW i \in DOMAIN q
        PROVE  i \in Nat \ {0} /\ (i > 1 => i - 1 \in DOMAIN z /\ z[i - 1] = q[i])
    <3>1. i \in Nat \ {0} /\ i <= Len(q) BY <2>3
    <3>2. CASE i > 1
      <4>1. i - 1 \in 1..Len(z) BY <2>2, <2>3, <3>1, <3>2
      <4>2. (i - 1) + 1 = i BY <3>1
      <4> QED BY <2>2, <2>3, <3>1, <4>1, <4>2
    <3> QED BY <3>1, <3>2
  <2> QED BY <1>3, <1>4, <2>4, <2>5 DEF q, z, FactsHandled
<1>5. CASE v \notin heard
  <2>1. z = q BY <1>2, <1>5
  <2>2. \A i \in DOMAIN q : i \in Nat \ {0} /\ i + 0 = i /\ i - 0 = i BY <1>1
  <2> QED BY <1>5, <2>1, <2>2 DEF q, z, FactsHandled
<1> QED BY <1>4, <1>5 DEF FactsHandled

FilesHandled(next, w, X, G) ==
  /\ lab' = next /\ next \in Schedulers /\ lab \in Schedulers
  /\ \A v \in Workers : \A j \in NewFiles(next, v) :
       /\ j \in LabJobs /\ v \in next.alive /\ v \in lab.alive /\ v \notin G
       /\ j \notin lab.inFlight[v] /\ j \in next.inFlight[v]
       /\ j \in lab.queue \/ (G = {w} /\ j \in lab.inFlight[w])
  /\ \A j \in next.queue : j \in lab.queue \/ (G = {w} /\ j \in lab.inFlight[w])
  /\ \A v \in Workers : \A j \in lab.inFlight[v] :
       j \in next.inFlight[v] \/ (v = w /\ j \in X)
  /\ \A v \in Workers : v \in next.alive <=> v \in lab.alive /\ v \notin G
  /\ \A v \in Workers : v \notin next.alive => next.inFlight[v] \subseteq lab.inFlight[v]
  /\ \A v \in G : v = w /\ next.inFlight[v] = {}

(* The files it hands out were queued, or came back with the lost worker. *)
LEMMA HandledFiles ==
  ASSUME LabInv, NEW next, NEW settles, NEW heard, NEW w \in Workers, NEW fact, NEW X, NEW G,
         Handles(next, settles, heard, w, fact, X, G)
  PROVE  FilesHandled(next, w, X, G)
<1>1. lab' = next BY DEF Handles, Moves
<1>2. lab \in Schedulers /\ next \in Schedulers
  BY DEF LabInv, Handles, IsSoundSchedule
<1>3. G = {} \/ G = {w} BY DEF Handles
<1>4. LostWith(lab, G) = IF G = {w} THEN lab.inFlight[w] ELSE {}
  BY <1>3 DEF LostWith
<1>5. Alters(lab, next, w, X, G) BY DEF Handles
<1>6. \A v \in Workers : /\ lab.inFlight[v] \ next.inFlight[v] \subseteq (IF v = w THEN X ELSE {})
                         /\ next.inFlight[v] \ lab.inFlight[v] \subseteq lab.queue \cup LostWith(lab, G)
                         /\ v \notin next.alive => next.inFlight[v] \subseteq lab.inFlight[v]
                         /\ v \in G => next.inFlight[v] = {}
  BY <1>5 DEF Alters
<1>7. next.alive = lab.alive \ G /\ next.queue \subseteq lab.queue \cup LostWith(lab, G)
  BY <1>5 DEF Alters
<1>8. \A v \in Workers : next.inFlight[v] \in SUBSET LabJobs
  BY <1>2 DEF Schedulers
<1>9. ASSUME NEW v \in Workers, NEW j \in NewFiles(next, v)
      PROVE  /\ j \in LabJobs /\ v \in next.alive /\ v \in lab.alive /\ v \notin G
             /\ j \notin lab.inFlight[v] /\ j \in next.inFlight[v]
             /\ j \in lab.queue \/ (G = {w} /\ j \in lab.inFlight[w])
  <2>1. j \in next.inFlight[v] /\ j \notin lab.inFlight[v] BY <1>9 DEF NewFiles
  <2>2. j \in LabJobs /\ v \in next.alive /\ v \notin G BY <1>6, <1>8, <2>1
  <2>3. j \in lab.queue \/ j \in LostWith(lab, G) BY <1>6, <2>1
  <2> QED BY <1>4, <1>7, <2>1, <2>2, <2>3
<1>10. \A j \in next.queue : j \in lab.queue \/ (G = {w} /\ j \in lab.inFlight[w])
  BY <1>4, <1>7
<1>11. \A v \in Workers : \A j \in lab.inFlight[v] : j \in next.inFlight[v] \/ (v = w /\ j \in X)
  BY <1>6
<1>12. \A v \in G : v = w /\ next.inFlight[v] = {} BY <1>3, <1>6
<1> QED BY <1>1, <1>2, <1>6, <1>7, <1>9, <1>10, <1>11, <1>12 DEF FilesHandled

(* It forgets no file. *)
LEMMA HandledKnown ==
  ASSUME LabInv, NEW next, NEW settles, NEW heard, NEW w \in Workers, NEW fact, NEW X, NEW G,
         Handles(next, settles, heard, w, fact, X, G)
  PROVE  EveryFileIsKnown'
<1>0. FilesHandled(next, w, X, G) /\ ReportsHandled(next, w, fact)
  BY HandledFiles, HandledReports
<1>1. lab' = next BY <1>0 DEF FilesHandled
<1>2. \A v \in Workers : reports'[v].dispatched = reports[v].dispatched \cup NewFiles(next, v)
  BY <1>0 DEF ReportsHandled
<1>3. ASSUME NEW j \in LabJobs PROVE j \in next.queue \/ \E v \in Workers : j \in reports'[v].dispatched
  <2>1. j \in lab.queue \/ \E v \in Workers : j \in reports[v].dispatched
    BY DEF LabInv, EveryFileIsKnown
  <2>2. CASE j \in lab.queue
    <3>1. j \in next.queue \/ \E v \in Workers : j \in next.inFlight[v]
      BY <2>2 DEF Handles, Alters
    <3>2. \A v \in Workers : j \notin lab.inFlight[v]
      BY <2>2 DEF LabInv, IsSoundSchedule, FilesAreOnce
    <3> QED BY <1>2, <3>1, <3>2 DEF NewFiles
  <2> QED BY <1>2, <2>1, <2>2
<1> QED BY <1>1, <1>3 DEF EveryFileIsKnown

(* It notes what really ran. *)
LEMMA HandledTruth ==
  ASSUME LabInv, NEW next, NEW settles, NEW heard, NEW w \in Workers, NEW fact, NEW X, NEW G,
         Handles(next, settles, heard, w, fact, X, G),
         NEW v \in Workers
  PROVE  ReportsAreTrue(v)'
<1>0. FactsHandled(heard, w, fact, v) /\ FactHandled(heard, w, fact) /\ ReportsHandled(next, w, fact)
  BY HandledFacts, HandledFact, HandledReports
<1>1. ran' = ran BY DEF Handles
<1>2. ReportsAreTrue(v) BY DEF LabInv
<1>3. ASSUME NEW i \in DOMAIN sessions'[v].facts PROVE IsTrue(v, sessions'[v].facts[i])
  <2>1. PICK k \in DOMAIN sessions[v].facts : sessions'[v].facts[i] = sessions[v].facts[k]
    BY <1>0 DEF FactsHandled
  <2>2. IsTrue(v, sessions[v].facts[k]) BY <1>2 DEF ReportsAreTrue
  <2> QED BY <1>1, <2>1, <2>2 DEF IsTrue
<1>4. (fact.t = "done" \/ fact.t = "fail") /\ v = w => IsTrue(v, fact)
  <2>1. (fact.t = "done" \/ fact.t = "fail") /\ v = w
          => 1 \in DOMAIN sessions[v].facts /\ fact = sessions[v].facts[1]
    BY <1>0 DEF FactHandled
  <2> QED BY <1>2, <2>1 DEF ReportsAreTrue
<1>5. ASSUME NEW j \in reports'[v].failed PROVE <<v, j, "fail">> \in ran'
  <2>1. j \in reports[v].failed \/ (v = w /\ fact.t = "fail" /\ j = fact.job)
    BY <1>0, <1>5 DEF ReportsHandled
  <2> QED BY <1>1, <1>2, <1>4, <2>1 DEF ReportsAreTrue, IsTrue
<1>6. ASSUME NEW d \in reports'[v].done
      PROVE  IsTrue(v, [t |-> "done", job |-> d[1], code |-> d[2]])
  <2>1. d \in reports[v].done \/ (v = w /\ fact.t = "done" /\ d = <<fact.job, fact.code>>)
    BY <1>0, <1>6 DEF ReportsHandled
  <2>2. CASE d \in reports[v].done
    <3>1. IsTrue(v, [t |-> "done", job |-> d[1], code |-> d[2]])
      BY <1>2, <2>2 DEF ReportsAreTrue
    <3> QED BY <1>1, <3>1 DEF IsTrue
  <2>3. CASE v = w /\ fact.t = "done" /\ d = <<fact.job, fact.code>>
    <3>1. IsTrue(v, fact) BY <1>4, <2>3
    <3> QED BY <1>1, <2>3, <3>1 DEF IsTrue
  <2> QED BY <2>1, <2>2, <2>3
<1> QED
  <2>1. \A f : IsTrue(v, f)' <=> IsTrue(v, f) BY <1>1 DEF IsTrue
  <2> QED BY <1>3, <1>5, <1>6, <2>1 DEF ReportsAreTrue

ResultHandled(next, heard, fact, v) ==
  /\ \A j \in lab.inFlight[v] : j \in next.inFlight[v] \/ (v \in heard /\ fact.t = "done" /\ j = fact.job)
  /\ fact.t = "done" /\ v \in heard =>
       /\ fact.job \notin sessions[v].running
       /\ sessions[v].driver # "gone" => ~Ordered(v, fact.job)
       /\ \A k \in DOMAIN sessions[v].facts :
            IsDone(v, k) /\ sessions[v].facts[k].job = fact.job => k = 1

(* The file whose result it takes is in no other place of the session. *)
LEMMA HandledResult ==
  ASSUME LabInv, NEW next, NEW settles, NEW heard, NEW w \in Workers, NEW fact, NEW X, NEW G,
         Handles(next, settles, heard, w, fact, X, G),
         NEW v \in Workers, v \notin G
  PROVE  ResultHandled(next, heard, fact, v)
<1>0. FilesHandled(next, w, X, G) /\ FactHandled(heard, w, fact)
  BY HandledFiles, HandledFact
<1>1. ASSUME NEW j \in lab.inFlight[v]
      PROVE  j \in next.inFlight[v] \/ (v \in heard /\ fact.t = "done" /\ j = fact.job)
  <2>1. j \in next.inFlight[v] \/ (v = w /\ j \in X) BY <1>0 DEF FilesHandled
  <2> QED BY <2>1 DEF Handles
<1>2. ASSUME fact.t = "done", v \in heard
      PROVE  /\ fact.job \notin sessions[v].running
             /\ sessions[v].driver # "gone" => ~Ordered(v, fact.job)
             /\ \A k \in DOMAIN sessions[v].facts :
                  IsDone(v, k) /\ sessions[v].facts[k].job = fact.job => k = 1
  <2>1. 1 \in DOMAIN sessions[v].facts /\ fact = sessions[v].facts[1]
    BY <1>0, <1>2 DEF FactHandled
  <2>2. IsDone(v, 1) BY <1>2, <2>1 DEF IsDone
  <2>3. PipeIsSound(v) BY DEF LabInv
  <2> QED BY <2>1, <2>2, <2>3 DEF PipeIsSound
<1> QED BY <1>1, <1>2 DEF ResultHandled

(* The sessions stay as they should be. *)
LEMMA HandledPipe ==
  ASSUME LabInv, NEW next, NEW settles, NEW heard, NEW w \in Workers, NEW fact, NEW X, NEW G,
         Handles(next, settles, heard, w, fact, X, G),
         NEW v \in Workers
  PROVE  PipeIsSound(v)'
<1>0. SessionsHandled(next, heard) /\ FilesHandled(next, w, X, G) /\ FactsHandled(heard, w, fact, v)
  BY HandledSessions, HandledFiles, HandledFacts
<1> DEFINE y == sessions'[v]
           x == sessions[v]
<1>1. /\ y.driver = x.driver /\ y.running = x.running
      /\ \A j \in LabJobs : Ordered(v, j)' => Ordered(v, j) \/ j \in NewFiles(next, v)
      /\ OrdersOnce(v) /\ (\A j \in NewFiles(next, v) : ~Ordered(v, j)) => OrdersOnce(v)'
  BY <1>0 DEF SessionsHandled
<1>2. lab' = next BY <1>0 DEF FilesHandled
<1>3. PipeIsSound(v) BY DEF LabInv
<1>4. /\ \A j \in NewFiles(next, v) :
              /\ j \in LabJobs /\ v \in next.alive /\ v \in lab.alive /\ v \notin G
              /\ j \notin lab.inFlight[v] /\ j \in next.inFlight[v]
      /\ v \in next.alive <=> v \in lab.alive /\ v \notin G
      /\ v \notin next.alive => next.inFlight[v] \subseteq lab.inFlight[v]
      /\ v \in G => v = w /\ next.inFlight[v] = {}
  BY <1>0 DEF FilesHandled
<1>5. v \in G => x.driver = "gone" /\ x.facts = <<>> /\ heard = {}
  BY <1>4 DEF Handles
<1>16. v \notin G => ResultHandled(next, heard, fact, v) BY HandledResult
<1>6. v \notin G =>
        /\ \A j \in lab.inFlight[v] : j \in next.inFlight[v] \/ (v \in heard /\ fact.t = "done" /\ j = fact.job)
        /\ fact.t = "done" /\ v \in heard =>
              /\ fact.job \notin x.running
              /\ x.driver # "gone" => ~Ordered(v, fact.job)
              /\ \A k \in DOMAIN x.facts : IsDone(v, k) /\ x.facts[k].job = fact.job => k = 1
  BY <1>16 DEF ResultHandled, x
<1>7. /\ x.running \subseteq lab.inFlight[v]
      /\ x.driver # "gone" => OrdersOnce(v)
      /\ x.driver # "gone" => \A j \in LabJobs : Ordered(v, j) => j \in lab.inFlight[v] \ x.running
      /\ x.driver \in {"starting", "gone"} => x.running = {}
      /\ v \notin lab.alive => x.driver = "gone" /\ x.facts = <<>> /\ lab.inFlight[v] = {}
  BY <1>3 DEF PipeIsSound
<1>8. \A i \in DOMAIN x.facts : IsDone(v, i) =>
       /\ x.facts[i].job \in lab.inFlight[v] \ x.running
       /\ x.driver # "gone" => ~Ordered(v, x.facts[i].job)
       /\ \A k \in DOMAIN x.facts : IsDone(v, k) /\ x.facts[k].job = x.facts[i].job => k = i
  BY <1>3 DEF PipeIsSound
<1> HIDE DEF x, y
<1>9. y.running \subseteq next.inFlight[v] BY <1>1, <1>5, <1>6, <1>7
<1>10. y.driver # "gone" => OrdersOnce(v)'
  <2>1. x.driver # "gone" => \A j \in NewFiles(next, v) : ~Ordered(v, j)
    BY <1>4, <1>7
  <2> QED BY <1>1, <1>7, <2>1
<1>11. ASSUME y.driver # "gone", NEW j \in LabJobs, Ordered(v, j)' PROVE j \in next.inFlight[v] \ y.running
  <2>1. Ordered(v, j) \/ j \in NewFiles(next, v) BY <1>1, <1>11
  <2>2. CASE Ordered(v, j)
    BY <1>1, <1>5, <1>6, <1>7, <1>11, <2>2
  <2>3. CASE j \in NewFiles(next, v)
    BY <1>1, <1>4, <1>7, <2>3
  <2> QED BY <2>1, <2>2, <2>3
<1>12. y.driver \in {"starting", "gone"} => y.running = {} BY <1>1, <1>7
<1>13. LET n == IF v \in heard THEN 1 ELSE 0
       IN /\ \A i \in DOMAIN y.facts :
               /\ i \in Nat \ {0} /\ i + n \in DOMAIN x.facts /\ y.facts[i] = x.facts[i + n]
          /\ n = 1 => 1 \in DOMAIN x.facts /\ x.facts[1] = fact
  BY <1>0 DEF FactsHandled, x, y
<1>14. ASSUME NEW i, i \in DOMAIN y.facts, IsDone(v, i)'
       PROVE  /\ y.facts[i].job \in next.inFlight[v] \ y.running
              /\ y.driver # "gone" => ~\E k \in DOMAIN y.commands : y.commands[k] = y.facts[i].job
              /\ \A k \in DOMAIN y.facts : IsDone(v, k)' /\ y.facts[k].job = y.facts[i].job => k = i
  <2> DEFINE n == IF v \in heard THEN 1 ELSE 0
             m == i + n
             j == y.facts[i].job
  <2>1. i \in Nat \ {0} /\ m \in DOMAIN x.facts /\ y.facts[i] = x.facts[m]
    BY <1>13, <1>14
  <2>2. y.facts[i].t = "done" BY <1>14 DEF IsDone, y
  <2>3. IsDone(v, m) /\ x.facts[m].job = j BY <2>1, <2>2 DEF IsDone, x
  <2>4. n = 1 => m # 1 BY <2>1
  <2>5. j \in lab.inFlight[v] \ x.running /\ (x.driver # "gone" => ~Ordered(v, j))
    BY <1>8, <2>1, <2>3
  <2>6. v \notin G
    <3>1. DOMAIN x.facts # {} BY <2>1
    <3> QED BY <1>5, <3>1
  <2>7. v \in heard /\ fact.t = "done" => j # fact.job
    BY <1>6, <2>1, <2>3, <2>4, <2>6
  <2>8. j \in next.inFlight[v] BY <1>6, <2>5, <2>6, <2>7
  <2>9. j \in LabJobs
    <3>1. lab \in Schedulers BY <1>0 DEF FilesHandled
    <3> QED BY <2>5, <3>1 DEF Schedulers
  <2>10. y.driver # "gone" => ~\E k \in DOMAIN y.commands : y.commands[k] = j
    <3>1. \A q \in LabJobs : (\E k \in DOMAIN y.commands : y.commands[k] = q) => Ordered(v, q) \/ q \in NewFiles(next, v)
      BY <1>1 DEF Ordered, y
    <3> QED BY <1>1, <1>4, <2>5, <2>9, <3>1
  <2>11. ASSUME NEW k, k \in DOMAIN y.facts, IsDone(v, k)', y.facts[k].job = j PROVE k = i
    <3>1. k \in Nat \ {0} /\ k + n \in DOMAIN x.facts /\ y.facts[k] = x.facts[k + n]
      BY <1>13, <2>11
    <3>2. y.facts[k].t = "done" BY <2>11 DEF IsDone, y
    <3>3. IsDone(v, k + n) /\ x.facts[k + n].job = j
      BY <2>11, <3>1, <3>2 DEF IsDone, x
    <3>4. k + n = m BY <1>8, <2>1, <2>3, <3>1, <3>3
    <3> QED BY <2>1, <3>1, <3>4
  <2> QED BY <1>1, <2>5, <2>8, <2>10, <2>11
<1>15. v \notin next.alive => y.driver = "gone" /\ y.facts = <<>> /\ next.inFlight[v] = {}
  <2>1. ASSUME v \notin next.alive PROVE x.driver = "gone" /\ x.facts = <<>> /\ next.inFlight[v] = {}
    BY <1>4, <1>5, <1>7, <2>1
  <2>2. ASSUME v \notin next.alive PROVE v \notin heard
    <3>1. ASSUME v \in heard PROVE 1 \in DOMAIN x.facts
      BY <1>13, <3>1
    <3> QED BY <2>1, <2>2, <3>1
  <2>3. v \notin heard => y.facts = x.facts BY <1>0 DEF SessionsHandled, x, y
  <2> QED BY <1>1, <2>1, <2>2, <2>3
<1> QED BY <1>2, <1>9, <1>10, <1>11, <1>12, <1>14, <1>15 DEF PipeIsSound, y, Ordered

(* What has run stays where it ran. *)
LEMMA HandledRuns ==
  ASSUME LabInv, NEW next, NEW settles, NEW heard, NEW w \in Workers, NEW fact, NEW X, NEW G,
         Handles(next, settles, heard, w, fact, X, G),
         NEW v \in Workers
  PROVE  RunsAreSound(v)'
<1>0. FilesHandled(next, w, X, G) /\ SessionsHandled(next, heard)
  BY HandledFiles, HandledSessions
<1>1. RunsAreSound(v) /\ PipeIsSound(v) BY DEF LabInv
<1>2. lab' = next /\ ran' = ran BY <1>0 DEF FilesHandled, Handles
<1>3. /\ sessions'[v].driver = sessions[v].driver /\ sessions'[v].running = sessions[v].running
      /\ \A j \in LabJobs : Ordered(v, j)' => Ordered(v, j) \/ j \in NewFiles(next, v)
  BY <1>0 DEF SessionsHandled
<1>4. ASSUME NEW j \in LabJobs, HasRun(v, j)'
      PROVE  /\ j \notin sessions'[v].running
             /\ sessions'[v].driver # "gone" => ~Ordered(v, j)'
             /\ v \in next.alive => j \notin next.queue /\ \A u \in Workers : j \in next.inFlight[u] => u = v
             /\ \A o, p \in Outcomes : <<v, j, o>> \in ran' /\ <<v, j, p>> \in ran' => o = p
  <2>1. HasRun(v, j) BY <1>2, <1>4 DEF HasRun
  <2>2. /\ j \notin sessions[v].running
        /\ sessions[v].driver # "gone" => ~Ordered(v, j)
        /\ v \in lab.alive => j \notin lab.queue /\ \A u \in Workers : j \in lab.inFlight[u] => u = v
        /\ \A o, p \in Outcomes : <<v, j, o>> \in ran /\ <<v, j, p>> \in ran => o = p
    BY <1>1, <2>1 DEF RunsAreSound
  <2>3. sessions[v].driver # "gone" => v \in lab.alive BY <1>1 DEF PipeIsSound
  <2>4. G = {w} => sessions[w].driver = "gone" BY DEF Handles
  <2>5. /\ \A u \in Workers : j \in NewFiles(next, u) => j \in lab.queue \/ (G = {w} /\ j \in lab.inFlight[w])
        /\ j \in next.queue => j \in lab.queue \/ (G = {w} /\ j \in lab.inFlight[w])
        /\ v \in next.alive => v \in lab.alive /\ v \notin G
    BY <1>0 DEF FilesHandled
  <2>6. \A u \in Workers : j \in next.inFlight[u] => j \in lab.inFlight[u] \/ j \in NewFiles(next, u)
    BY DEF NewFiles
  <2>7. sessions[v].driver # "gone" => j \notin NewFiles(next, v)
    BY <2>2, <2>3, <2>4, <2>5
  <2>8. ASSUME v \in next.alive
        PROVE  j \notin next.queue /\ \A u \in Workers : j \in next.inFlight[u] => u = v
    BY <2>2, <2>5, <2>6, <2>8
  <2> QED BY <1>2, <1>3, <2>2, <2>7, <2>8
<1> QED BY <1>2, <1>4 DEF RunsAreSound

(* Where nothing is left, nothing comes back. *)
LEMMA HandledRest ==
  ASSUME LabInv, NEW next, NEW settles, NEW heard, NEW w \in Workers, NEW fact, NEW X, NEW G,
         Handles(next, settles, heard, w, fact, X, G),
         NothingLeft(lab)
  PROVE  NothingLeft(next)
<1>0. FilesHandled(next, w, X, G) BY HandledFiles
<1>1. lab.started /\ lab.queue = {} /\ \A v \in Workers : lab.inFlight[v] = {}
  BY DEF NothingLeft
<1>2. next.started BY <1>1 DEF Handles, Alters
<1>3. next.queue = {} BY <1>0, <1>1 DEF FilesHandled
<1>4. \A v \in Workers : next.inFlight[v] = {}
  <2>1. ASSUME NEW v \in Workers, NEW j \in next.inFlight[v] PROVE FALSE
    <3>1. j \in NewFiles(next, v) BY <1>1, <2>1 DEF NewFiles
    <3> QED BY <1>0, <1>1, <3>1 DEF FilesHandled
  <2> QED BY <2>1
<1> QED BY <1>2, <1>3, <1>4 DEF NothingLeft

(* A calm run stays accounted for. *)
LEMMA HandledCalm ==
  ASSUME LabInv, NEW next, NEW settles, NEW heard, NEW w \in Workers, NEW fact, NEW X, NEW G,
         Handles(next, settles, heard, w, fact, X, G)
  PROVE  CalmRuns'
<1>0. FilesHandled(next, w, X, G) /\ SessionsHandled(next, heard) /\ ReportsHandled(next, w, fact)
  BY HandledFiles, HandledSessions, HandledReports
<1>1. lab' = next BY <1>0 DEF FilesHandled
<1>2. NothingLeft(lab)' <=> NothingLeft(next) BY <1>1 DEF NothingLeft
<1>3. SUFFICES ASSUME IsCalm' PROVE (\A v \in Workers : EndsAreDue(v)') /\ (NoErrors' => DispatchesAreKept')
  BY DEF CalmRuns
<1>4. IsCalm BY <1>3 DEF IsCalm, Handles
<1>5. (\A v \in Workers : EndsAreDue(v)) /\ (NoErrors => DispatchesAreKept)
  BY <1>4 DEF LabInv, CalmRuns
<1>6. NothingLeft(lab) => NothingLeft(next) BY HandledRest
<1>7. \A v \in Workers : reports[v].errors \in {0, 1}
  BY DEF LabInv, LabTyped, ReportRecords
<1>8. ASSUME NEW v \in Workers PROVE EndsAreDue(v)'
  <2>4. FactsHandled(heard, w, fact, v) BY HandledFacts
  <2>1. /\ sessions'[v].driver = sessions[v].driver
        /\ sessions'[v].killed => sessions[v].killed \/ NothingLeft(next)
        /\ Ordered(v, End)' => Ordered(v, End) \/ NothingLeft(next)
    BY <1>0 DEF SessionsHandled
  <2>2. Ordered(v, End)' \/ sessions'[v].driver = "ended" \/ sessions'[v].killed => NothingLeft(next)
    BY <1>5, <1>6, <2>1 DEF EndsAreDue
  <2>3. ASSUME sessions'[v].driver = "gone"
        PROVE  \/ NothingLeft(next) \/ reports'[v].errors = 1
               \/ \E i \in DOMAIN sessions'[v].facts : sessions'[v].facts[i].t = "error"
    <3>1. \/ NothingLeft(lab) \/ reports[v].errors = 1
          \/ \E i \in DOMAIN sessions[v].facts : sessions[v].facts[i].t = "error"
      BY <1>5, <2>1, <2>3 DEF EndsAreDue
    <3>2. reports'[v].errors = IF v = w /\ fact.t = "error" THEN 1 ELSE reports[v].errors
      BY <1>0 DEF ReportsHandled
    <3>3. ASSUME NEW i \in DOMAIN sessions[v].facts, sessions[v].facts[i].t = "error"
          PROVE  \/ reports'[v].errors = 1
                 \/ \E k \in DOMAIN sessions'[v].facts : sessions'[v].facts[k].t = "error"
      <4> DEFINE n == IF v \in heard THEN 1 ELSE 0
      <4>1. /\ i \in Nat \ {0}
            /\ i > n => i - n \in DOMAIN sessions'[v].facts
                        /\ sessions'[v].facts[i - n] = sessions[v].facts[i]
            /\ n = 1 => v = w /\ sessions[v].facts[1] = fact
        BY <2>4 DEF FactsHandled
      <4>2. CASE i > n
        BY <3>3, <4>1, <4>2
      <4>3. CASE ~(i > n)
        <5>1. n = 1 /\ i = 1 BY <4>1, <4>3
        <5> QED BY <3>2, <3>3, <4>1, <5>1
      <4> QED BY <4>2, <4>3
    <3> QED BY <1>6, <3>1, <3>2, <3>3
  <2> QED BY <1>2, <2>2, <2>3 DEF EndsAreDue
<1>9. ASSUME NoErrors' PROVE DispatchesAreKept'
  <2>1. \A v \in Workers : reports'[v].errors = IF v = w /\ fact.t = "error" THEN 1 ELSE reports[v].errors
    BY <1>0 DEF ReportsHandled
  <2>2. NoErrors BY <1>9, <2>1 DEF NoErrors
  <2>3. DispatchesAreKept BY <1>5, <2>2
  <2>4. \A v \in Workers : reports[v].done \subseteq reports'[v].done
    BY <1>0 DEF ReportsHandled
  <2>5. DoneAnywhere \subseteq DoneAnywhere' BY <2>4 DEF DoneAnywhere
  <2>6. ASSUME G = {w} PROVE X = {}
    <3>1. sessions[w].driver = "gone" /\ sessions[w].facts = <<>> /\ X = lab.inFlight[w]
      BY <2>6 DEF Handles
    <3>2. NothingLeft(lab) BY <1>5, <2>2, <3>1 DEF EndsAreDue, NoErrors
    <3> QED BY <3>1, <3>2 DEF NothingLeft
  <2>7. ASSUME NEW j \in X PROVE j \in DoneAnywhere'
    <3>1. heard = {w} /\ fact.t = "done" /\ j = fact.job
      BY <2>6, <2>7 DEF Handles
    <3>2. <<fact.job, fact.code>> \in reports'[w].done
      BY <1>0, <3>1 DEF ReportsHandled
    <3> QED BY <3>1, <3>2 DEF DoneAnywhere
  <2>8. ASSUME NEW v \in Workers, NEW j \in reports'[v].dispatched
        PROVE  j \in next.queue \/ j \in DoneAnywhere' \/ \E u \in Workers : j \in next.inFlight[u]
    <3>1. j \in reports[v].dispatched \/ j \in NewFiles(next, v)
      BY <1>0, <2>8 DEF ReportsHandled
    <3>2. CASE j \in NewFiles(next, v)
      BY <3>2 DEF NewFiles
    <3>3. CASE j \in reports[v].dispatched
      <4>1. j \in lab.queue \/ j \in DoneAnywhere \/ \E u \in Workers : j \in lab.inFlight[u]
        BY <2>3, <3>3 DEF DispatchesAreKept
      <4>2. j \in lab.queue => j \in next.queue \/ \E u \in Workers : j \in next.inFlight[u]
        BY DEF Handles, Alters
      <4>3. \A u \in Workers : j \in lab.inFlight[u] => j \in next.inFlight[u] \/ j \in X
        BY <1>0 DEF FilesHandled
      <4> QED BY <2>5, <2>7, <4>1, <4>2, <4>3
    <3> QED BY <3>1, <3>2, <3>3
  <2> QED BY <1>1, <2>8 DEF DispatchesAreKept
<1> QED BY <1>8, <1>9

(* A handler of the controller keeps the invariant. *)
LEMMA HandlerStep ==
  ASSUME LabInv, NEW next, NEW settles, NEW heard, NEW w \in Workers, NEW fact, NEW X, NEW G,
         Handles(next, settles, heard, w, fact, X, G)
  PROVE  LabInv'
<1>0. FilesHandled(next, w, X, G) /\ SessionsHandled(next, heard) /\ ReportsHandled(next, w, fact)
  BY HandledFiles, HandledSessions, HandledReports
<1>1. lab' = next /\ IsSoundSchedule(next) BY <1>0 DEF FilesHandled, Handles
<1>2. IsSoundSchedule(lab)'
  BY <1>1 DEF IsSoundSchedule, Schedulers, FilesAreOnce, SlotsAreKept, HandsAreFull, Hands, FullHand
<1>3. sessions' \in [Workers -> SessionRecords] /\ reports' \in [Workers -> ReportRecords]
  BY <1>0 DEF SessionsHandled, ReportsHandled
<1>4. LabTyped' BY <1>3 DEF LabInv, LabTyped, Handles
<1>5. EveryFileIsKnown' /\ CalmRuns' BY HandledKnown, HandledCalm
<1>6. \A v \in Workers : PipeIsSound(v)' /\ RunsAreSound(v)' /\ ReportsAreTrue(v)'
  BY HandledPipe, HandledRuns, HandledTruth
<1> QED BY <1>2, <1>4, <1>5, <1>6 DEF LabInv

----------------------------------------
(* The controller's handlers. *)
LEMMA HearsStep ==
  ASSUME LabInv, NEW w \in Workers, Hears(w)
  PROVE  LabInv'
<1> DEFINE fact == Head(sessions[w].facts)
           next == CASE fact.t = "ready" -> BeginIfDue(MarkReady(lab, w))
                     [] fact.t = "done" -> Complete(lab, w, fact.job)
                     [] OTHER -> lab
           begun == ~lab.started /\ next.started
           settles == fact.t = "done" \/ begun
           X == IF fact.t = "done" THEN {fact.job} ELSE {}
<1>1. IsSoundSchedule(lab) /\ LabTyped BY DEF LabInv
<1>2. IsSoundSchedule(next) /\ Alters(lab, next, w, X, {})
  <2>1. CASE fact.t = "ready"
    <3>1. next = BeginIfDue(MarkReady(lab, w)) /\ X = {} BY <2>1
    <3> QED BY <1>1, <3>1, ReadyAlters
  <2>2. CASE fact.t = "done"
    <3>1. next = Complete(lab, w, fact.job) /\ X = {fact.job} BY <2>2
    <3> QED BY <1>1, <3>1, CompleteAlters
  <2>3. CASE fact.t # "ready" /\ fact.t # "done"
    <3>1. next = lab /\ X = {} BY <2>3
    <3> QED BY <1>1, <3>1, AltersNothing
  <2> QED BY <2>1, <2>2, <2>3
<1>3. /\ sessions[w].facts # <<>> /\ Moves(next, settles, {w}) /\ Reports(next, w, fact)
      /\ timedOut' = timedOut /\ ran' = ran /\ drops' = drops
  BY DEF Hears
<1>4. startTimer' \in {"unset", "set", "off"}
  <2>1. startTimer' = IF begun THEN "off"
                      ELSE IF fact.t = "ready" /\ ~lab.started /\ startTimer = "unset"
                      THEN "set" ELSE startTimer
    BY DEF Hears
  <2> HIDE DEF begun, fact
  <2> QED BY <1>1, <2>1 DEF LabTyped
<1>5. settles \in BOOLEAN OBVIOUS
<1>6. X = {} \/ (fact.t = "done" /\ X = {fact.job}) OBVIOUS
<1> HIDE DEF fact, next, begun, settles, X
<1>7. Handles(next, settles, {w}, w, fact, X, {})
  BY <1>2, <1>3, <1>4, <1>5, <1>6 DEF Handles, fact
<1> QED BY <1>7, HandlerStep

(* The start timer fires: the run begins with the hands there are. *)
LEMMA StartTimerStep ==
  ASSUME LabInv, StartTimerFires
  PROVE  LabInv'
<1> DEFINE next == Start(lab)
           w == CHOOSE u \in Workers : TRUE
<1>1. w \in Workers BY LabAssumption
<1>2. IsSoundSchedule(lab) BY DEF LabInv
<1>3. IsSoundSchedule(next) /\ Feeds(lab, next)
  BY <1>2, StartFeeds DEF IsSoundSchedule, IsKept
<1>4. Alters(lab, next, w, {}, {}) BY <1>3, AltersNothing, AlteredAndFed
<1>5. /\ Moves(next, TRUE, {}) /\ Reports(next, w, NoFact) /\ startTimer' = "off"
      /\ timedOut' = timedOut /\ ran' = ran /\ drops' = drops
  BY DEF StartTimerFires
<1> HIDE DEF next, w
<1>6. Handles(next, TRUE, {}, w, NoFact, {}, {}) BY <1>3, <1>4, <1>5 DEF Handles
<1> QED BY <1>1, <1>6, HandlerStep

(* A session has closed: its worker is lost, its files go to others. *)
LEMMA ClosesStep ==
  ASSUME LabInv, NEW w \in Workers, Closes(w)
  PROVE  LabInv'
<1> DEFINE next == BeginIfDue(AfterLoss(DropWorker(lab, w), lab.inFlight[w]))
           begun == ~lab.started /\ next.started
           last == next.alive = {}
           X == lab.inFlight[w]
<1>1. IsSoundSchedule(lab) /\ LabTyped BY DEF LabInv
<1>2. IsSoundSchedule(next) /\ Alters(lab, next, w, X, {w}) BY <1>1, LossAlters
<1>3. /\ sessions[w].driver = "gone" /\ sessions[w].facts = <<>>
      /\ Moves(next, TRUE, {}) /\ Reports(next, w, NoFact)
      /\ startTimer' = IF begun \/ last THEN "off" ELSE startTimer
      /\ timedOut' = timedOut /\ ran' = ran /\ drops' = drops
  BY DEF Closes
<1>4. startTimer' \in {"unset", "set", "off"} BY <1>1, <1>3 DEF LabTyped
<1> HIDE DEF next, begun, last
<1>5. Handles(next, TRUE, {}, w, NoFact, X, {w}) BY <1>2, <1>3, <1>4 DEF Handles
<1> QED BY <1>5, HandlerStep

----------------------------------------
(* The driver's steps: one session changes, and what has run grows there. *)
SessionStep(w) ==
  /\ UNCHANGED <<lab, reports, startTimer>>
  /\ sessions' \in [Workers -> SessionRecords]
  /\ \A v \in Workers : v # w => sessions'[v] = sessions[v]
  /\ ran' \subseteq Workers \X LabJobs \X Outcomes /\ ran \subseteq ran'
  /\ \A r \in ran' : r \in ran \/ (r[1] = w /\ r[2] \in sessions[w].running)

(* The sessions that do not change stay as they are. *)
LEMMA OtherSessions ==
  ASSUME LabInv, NEW w \in Workers, SessionStep(w), NEW v \in Workers, v # w
  PROVE  PipeIsSound(v)' /\ RunsAreSound(v)' /\ ReportsAreTrue(v)'
<1>1. lab' = lab /\ reports' = reports /\ sessions'[v] = sessions[v]
  BY DEF SessionStep
<1>2. \A j, o : <<v, j, o>> \in ran' <=> <<v, j, o>> \in ran BY DEF SessionStep
<1>3. PipeIsSound(v) /\ RunsAreSound(v) /\ ReportsAreTrue(v) BY DEF LabInv
<1>4. PipeIsSound(v)' BY <1>1, <1>3 DEF PipeIsSound, OrdersOnce, Ordered, IsDone
<1>5. RunsAreSound(v)' BY <1>1, <1>2, <1>3 DEF RunsAreSound, HasRun, Ordered
<1>6. ReportsAreTrue(v)' BY <1>1, <1>2, <1>3 DEF ReportsAreTrue, IsTrue
<1> QED BY <1>4, <1>5, <1>6

FactsAreTrue(w) == \A i \in DOMAIN sessions[w].facts : IsTrue(w, sessions[w].facts[i])

(* What a driver's step has to keep. *)
LEMMA SessionKeeps ==
  ASSUME LabInv, NEW w \in Workers, SessionStep(w),
         timedOut' \in BOOLEAN, drops' \in Nat,
         PipeIsSound(w)', RunsAreSound(w)', FactsAreTrue(w)',
         IsCalm' => IsCalm /\ (EndsAreDue(w) => EndsAreDue(w)')
  PROVE  LabInv'
<1>1. lab' = lab /\ reports' = reports /\ startTimer' = startTimer
  BY DEF SessionStep
<1>2. IsSoundSchedule(lab)'
  BY <1>1 DEF LabInv, IsSoundSchedule, Schedulers, FilesAreOnce, SlotsAreKept, HandsAreFull, Hands, FullHand
<1>3. LabTyped' BY <1>1 DEF LabInv, LabTyped, SessionStep
<1>4. EveryFileIsKnown' BY <1>1 DEF LabInv, EveryFileIsKnown
<1>5. ReportsAreTrue(w)'
  <2>1. ran \subseteq ran' /\ ReportsAreTrue(w) BY DEF SessionStep, LabInv
  <2>2. \A f : IsTrue(w, f) => IsTrue(w, f)' BY <2>1 DEF IsTrue
  <2> QED BY <1>1, <2>1, <2>2 DEF ReportsAreTrue, FactsAreTrue
<1>6. CalmRuns'
  <2>1. SUFFICES ASSUME IsCalm' PROVE (\A v \in Workers : EndsAreDue(v)') /\ (NoErrors' => DispatchesAreKept')
    BY DEF CalmRuns
  <2>2. (\A v \in Workers : EndsAreDue(v)) /\ (NoErrors => DispatchesAreKept)
    BY <2>1 DEF LabInv, CalmRuns
  <2>3. NoErrors' => DispatchesAreKept'
    BY <1>1, <2>2 DEF NoErrors, DispatchesAreKept, DoneAnywhere
  <2>4. ASSUME NEW v \in Workers, v # w PROVE EndsAreDue(v)'
    <3>1. sessions'[v] = sessions[v] BY <2>4 DEF SessionStep
    <3> QED BY <1>1, <2>2, <3>1 DEF EndsAreDue, Ordered, NothingLeft
  <2> QED BY <2>1, <2>2, <2>3, <2>4
<1>7. \A v \in Workers : PipeIsSound(v)' /\ RunsAreSound(v)' /\ ReportsAreTrue(v)'
  BY <1>5, OtherSessions
<1> QED BY <1>2, <1>3, <1>4, <1>6, <1>7 DEF LabInv

(* Facts that were held before are as true as before. *)
LEMMA OldFactsAreTrue ==
  ASSUME LabInv, NEW w \in Workers, SessionStep(w),
         \A i \in DOMAIN sessions'[w].facts : \E k \in DOMAIN sessions[w].facts :
            sessions'[w].facts[i] = sessions[w].facts[k]
  PROVE  FactsAreTrue(w)'
<1>1. ReportsAreTrue(w) /\ ran \subseteq ran' BY DEF LabInv, SessionStep
<1>2. \A f : IsTrue(w, f) => IsTrue(w, f)' BY <1>1 DEF IsTrue
<1> QED BY <1>1, <1>2 DEF ReportsAreTrue, FactsAreTrue

(* The run's limit: every session is killed, and the run is not calm. *)
LEMMA TimesOutStep ==
  ASSUME LabInv, TimesOut
  PROVE  LabInv'
<1>1. /\ timedOut' = TRUE /\ lab' = lab /\ reports' = reports /\ startTimer' = startTimer
      /\ ran' = ran /\ drops' = drops
      /\ sessions' = [w \in Workers |-> [sessions[w] EXCEPT !.killed = TRUE]]
  BY DEF TimesOut
<1>2. sessions \in [Workers -> SessionRecords] BY DEF LabInv, LabTyped
<1>3. ASSUME NEW w \in Workers
      PROVE  /\ sessions'[w] \in SessionRecords
             /\ sessions'[w].commands = sessions[w].commands /\ sessions'[w].facts = sessions[w].facts
             /\ sessions'[w].driver = sessions[w].driver /\ sessions'[w].running = sessions[w].running
  <2> DEFINE x == sessions[w]
             b == TRUE
  <2>1. x \in SessionRecords /\ sessions'[w] = [x EXCEPT !.killed = b] /\ b \in BOOLEAN
    BY <1>1, <1>2
  <2> HIDE DEF b, x
  <2>2. sessions'[w] = [commands |-> x.commands, facts |-> x.facts, driver |-> x.driver,
                        running |-> x.running, ending |-> x.ending, killed |-> b]
    BY <2>1 DEF SessionRecords
  <2>3. x.commands \in Seq(LabJobs \cup {End}) /\ x.facts \in Seq(LabFacts)
        /\ x.driver \in {"starting", "up", "ended", "gone"} /\ x.running \in SUBSET LabJobs
        /\ x.ending \in BOOLEAN
    BY <2>1 DEF SessionRecords
  <2>4. sessions'[w] \in SessionRecords BY <2>1, <2>2, <2>3 DEF SessionRecords
  <2>5. sessions'[w].commands = x.commands /\ sessions'[w].facts = x.facts
        /\ sessions'[w].driver = x.driver /\ sessions'[w].running = x.running
    BY <2>2
  <2> QED BY <2>4, <2>5 DEF x
<1>4. LabTyped'
  <2>1. sessions' \in [Workers -> SessionRecords] BY <1>1, <1>3
  <2> QED BY <1>1, <2>1 DEF LabInv, LabTyped
<1>5. IsSoundSchedule(lab)' /\ EveryFileIsKnown'
  BY <1>1 DEF LabInv, IsSoundSchedule, Schedulers, FilesAreOnce, SlotsAreKept, HandsAreFull, Hands,
              FullHand, EveryFileIsKnown
<1>6. CalmRuns' BY <1>1 DEF CalmRuns, IsCalm
<1>7. ASSUME NEW w \in Workers PROVE PipeIsSound(w)' /\ RunsAreSound(w)' /\ ReportsAreTrue(w)'
  <2>1. PipeIsSound(w) /\ RunsAreSound(w) /\ ReportsAreTrue(w) BY DEF LabInv
  <2>2. PipeIsSound(w)'
    BY <1>1, <1>3, <2>1 DEF PipeIsSound, OrdersOnce, Ordered, IsDone
  <2>3. RunsAreSound(w)' BY <1>1, <1>3, <2>1 DEF RunsAreSound, HasRun, Ordered
  <2>4. ReportsAreTrue(w)'
    <3>1. \A f : IsTrue(w, f)' <=> IsTrue(w, f) BY <1>1 DEF IsTrue
    <3> QED BY <1>1, <1>3, <2>1, <3>1 DEF ReportsAreTrue
  <2> QED BY <2>2, <2>3, <2>4
<1> QED BY <1>4, <1>5, <1>6, <1>7 DEF LabInv

(* A session with other commands. *)
CommandLists == Seq(LabJobs \cup {End})

(* A session with other commands. *)
LEMMA OtherCommands ==
  ASSUME NEW s \in [Workers -> SessionRecords], NEW w \in Workers,
         NEW c \in CommandLists, NEW t, t = [s EXCEPT ![w].commands = c]
  PROVE  /\ t \in [Workers -> SessionRecords] /\ t[w].commands = c
         /\ \A v \in Workers : v # w => t[v] = s[v]
         /\ t[w].facts = s[w].facts /\ t[w].driver = s[w].driver
         /\ t[w].running = s[w].running /\ t[w].killed = s[w].killed
<1> DEFINE x == s[w]
<1>1. x \in SessionRecords /\ t[w] = [x EXCEPT !.commands = c] OBVIOUS
<1> HIDE DEF x
<1>2. t[w] = [commands |-> c, facts |-> x.facts, driver |-> x.driver,
           running |-> x.running, ending |-> x.ending, killed |-> x.killed]
  BY <1>1 DEF SessionRecords
<1>3. /\ x.commands \in Seq(LabJobs \cup {End}) /\ x.facts \in Seq(LabFacts)
      /\ x.driver \in {"starting", "up", "ended", "gone"} /\ x.running \in SUBSET LabJobs
      /\ x.ending \in BOOLEAN /\ x.killed \in BOOLEAN
  BY <1>1 DEF SessionRecords
<1>4. t[w] \in SessionRecords BY <1>2, <1>3 DEF SessionRecords, CommandLists
<1>5. /\ t[w].commands = c
      /\ t[w].facts = x.facts /\ t[w].driver = x.driver /\ t[w].running = x.running /\ t[w].killed = x.killed
  BY <1>2
<1>6. t \in [Workers -> SessionRecords] /\ \A v \in Workers : v # w => t[v] = s[v]
  BY <1>4
<1> QED BY <1>5, <1>6 DEF x

(* A session with other facts. *)
LEMMA OtherFacts ==
  ASSUME NEW s \in [Workers -> SessionRecords], NEW w \in Workers,
         NEW f \in Seq(LabFacts), NEW t, t = [s EXCEPT ![w].facts = f]
  PROVE  /\ t \in [Workers -> SessionRecords] /\ t[w].facts = f
         /\ \A v \in Workers : v # w => t[v] = s[v]
         /\ t[w].commands = s[w].commands /\ t[w].driver = s[w].driver
         /\ t[w].running = s[w].running /\ t[w].killed = s[w].killed
<1> DEFINE x == s[w]
<1>1. x \in SessionRecords /\ t[w] = [x EXCEPT !.facts = f] OBVIOUS
<1> HIDE DEF x
<1>2. t[w] = [commands |-> x.commands, facts |-> f, driver |-> x.driver,
           running |-> x.running, ending |-> x.ending, killed |-> x.killed]
  BY <1>1 DEF SessionRecords
<1>3. /\ x.commands \in Seq(LabJobs \cup {End}) /\ x.facts \in Seq(LabFacts)
      /\ x.driver \in {"starting", "up", "ended", "gone"} /\ x.running \in SUBSET LabJobs
      /\ x.ending \in BOOLEAN /\ x.killed \in BOOLEAN
  BY <1>1 DEF SessionRecords
<1>4. t[w] \in SessionRecords BY <1>2, <1>3 DEF SessionRecords
<1>5. /\ t[w].facts = f
      /\ t[w].commands = x.commands /\ t[w].driver = x.driver /\ t[w].running = x.running /\ t[w].killed = x.killed
  BY <1>2
<1>6. t \in [Workers -> SessionRecords] /\ \A v \in Workers : v # w => t[v] = s[v]
  BY <1>4
<1> QED BY <1>5, <1>6 DEF x

(* A session with other driver. *)
LEMMA OtherDriver ==
  ASSUME NEW s \in [Workers -> SessionRecords], NEW w \in Workers,
         NEW d \in {"starting", "up", "ended", "gone"}, NEW t, t = [s EXCEPT ![w].driver = d]
  PROVE  /\ t \in [Workers -> SessionRecords] /\ t[w].driver = d
         /\ \A v \in Workers : v # w => t[v] = s[v]
         /\ t[w].commands = s[w].commands /\ t[w].facts = s[w].facts
         /\ t[w].running = s[w].running /\ t[w].killed = s[w].killed
<1> DEFINE x == s[w]
<1>1. x \in SessionRecords /\ t[w] = [x EXCEPT !.driver = d] OBVIOUS
<1> HIDE DEF x
<1>2. t[w] = [commands |-> x.commands, facts |-> x.facts, driver |-> d,
           running |-> x.running, ending |-> x.ending, killed |-> x.killed]
  BY <1>1 DEF SessionRecords
<1>3. /\ x.commands \in Seq(LabJobs \cup {End}) /\ x.facts \in Seq(LabFacts)
      /\ x.driver \in {"starting", "up", "ended", "gone"} /\ x.running \in SUBSET LabJobs
      /\ x.ending \in BOOLEAN /\ x.killed \in BOOLEAN
  BY <1>1 DEF SessionRecords
<1>4. t[w] \in SessionRecords BY <1>2, <1>3 DEF SessionRecords
<1>5. /\ t[w].driver = d
      /\ t[w].commands = x.commands /\ t[w].facts = x.facts /\ t[w].running = x.running /\ t[w].killed = x.killed
  BY <1>2
<1>6. t \in [Workers -> SessionRecords] /\ \A v \in Workers : v # w => t[v] = s[v]
  BY <1>4
<1> QED BY <1>5, <1>6 DEF x

(* A session with other files running. *)
FileSets == SUBSET LabJobs

(* A session with other files running. *)
LEMMA OtherRunning ==
  ASSUME NEW s \in [Workers -> SessionRecords], NEW w \in Workers,
         NEW r \in FileSets, NEW t, t = [s EXCEPT ![w].running = r]
  PROVE  /\ t \in [Workers -> SessionRecords] /\ t[w].running = r
         /\ \A v \in Workers : v # w => t[v] = s[v]
         /\ t[w].commands = s[w].commands /\ t[w].facts = s[w].facts
         /\ t[w].driver = s[w].driver /\ t[w].killed = s[w].killed
<1> DEFINE x == s[w]
<1>1. x \in SessionRecords /\ t[w] = [x EXCEPT !.running = r] OBVIOUS
<1> HIDE DEF x
<1>2. t[w] = [commands |-> x.commands, facts |-> x.facts, driver |-> x.driver,
           running |-> r, ending |-> x.ending, killed |-> x.killed]
  BY <1>1 DEF SessionRecords
<1>3. /\ x.commands \in Seq(LabJobs \cup {End}) /\ x.facts \in Seq(LabFacts)
      /\ x.driver \in {"starting", "up", "ended", "gone"} /\ x.running \in SUBSET LabJobs
      /\ x.ending \in BOOLEAN /\ x.killed \in BOOLEAN
  BY <1>1 DEF SessionRecords
<1>4. t[w] \in SessionRecords BY <1>2, <1>3 DEF SessionRecords, FileSets
<1>5. /\ t[w].running = r
      /\ t[w].commands = x.commands /\ t[w].facts = x.facts /\ t[w].driver = x.driver /\ t[w].killed = x.killed
  BY <1>2
<1>6. t \in [Workers -> SessionRecords] /\ \A v \in Workers : v # w => t[v] = s[v]
  BY <1>4
<1> QED BY <1>5, <1>6 DEF x

(* The driver is up, or cannot be: it says so. *)
LEMMA GetsReadyStep ==
  ASSUME LabInv, NEW w \in Workers, GetsReady(w)
  PROVE  LabInv'
<1> DEFINE x == sessions[w]
           y == sessions'[w]
<1>1. sessions \in [Workers -> SessionRecords] /\ PipeIsSound(w) /\ RunsAreSound(w)
  BY DEF LabInv, LabTyped
<1>2. /\ x.driver = "starting" /\ UNCHANGED <<lab, reports, startTimer, timedOut, ran, drops>>
  BY DEF GetsReady
<1>3. PICK d \in {"up", "gone"}, t \in {"ready", "error"} :
        /\ (d = "gone") = (t = "error")
        /\ sessions' = [sessions EXCEPT ![w].driver = d, ![w].facts = Append(@, [t |-> t])]
  BY DEF GetsReady
<1> DEFINE f == Append(x.facts, [t |-> t])
           z == [sessions EXCEPT ![w].driver = d]
<1>4. /\ z \in [Workers -> SessionRecords] /\ z[w].driver = d
      /\ \A v \in Workers : v # w => z[v] = sessions[v]
      /\ z[w].commands = x.commands /\ z[w].facts = x.facts
      /\ z[w].running = x.running /\ z[w].killed = x.killed
  <2>1. z = [sessions EXCEPT ![w].driver = d] /\ d \in {"starting", "up", "ended", "gone"}
    OBVIOUS
  <2> HIDE DEF z
  <2> QED BY <1>1, <2>1, OtherDriver
<1>5. sessions' = [z EXCEPT ![w].facts = Append(z[w].facts, [t |-> t])] BY <1>3
<1> HIDE DEF z
<1>6. x.facts \in Seq(LabFacts) /\ [t |-> t] \in LabFacts
  BY <1>1 DEF SessionRecords, LabFacts
<1>7. /\ f \in Seq(LabFacts) /\ sessions' = [z EXCEPT ![w].facts = f]
      /\ DOMAIN f = 1..(Len(x.facts) + 1) /\ DOMAIN x.facts = 1..Len(x.facts) /\ Len(x.facts) \in Nat
      /\ \A i \in 1..Len(x.facts) : f[i] = x.facts[i]
      /\ f[Len(x.facts) + 1] = [t |-> t]
  BY <1>4, <1>5, <1>6
<1> HIDE DEF f
<1>8. /\ sessions' \in [Workers -> SessionRecords] /\ y.facts = f
      /\ \A v \in Workers : v # w => sessions'[v] = z[v]
      /\ y.commands = z[w].commands /\ y.driver = z[w].driver
      /\ y.running = z[w].running /\ y.killed = z[w].killed
  BY <1>4, <1>7, OtherFacts
<1>9. /\ \A v \in Workers : v # w => sessions'[v] = sessions[v]
      /\ y.commands = x.commands /\ y.driver = d /\ y.running = x.running /\ y.killed = x.killed
  BY <1>4, <1>8
<1>10. SessionStep(w) BY <1>2, <1>8, <1>9 DEF SessionStep, LabInv, LabTyped
<1>11. \A i \in DOMAIN f : \/ i \in DOMAIN x.facts /\ f[i] = x.facts[i]
                           \/ f[i] = [t |-> t] /\ f[i].t \notin {"done", "fail"}
  BY <1>7
<1> HIDE DEF x, y
<1>12. PipeIsSound(w)'
  <2>1. /\ x.running \subseteq lab.inFlight[w] /\ OrdersOnce(w)
        /\ \A j \in LabJobs : Ordered(w, j) => j \in lab.inFlight[w] \ x.running
        /\ x.running = {} /\ w \in lab.alive
    BY <1>1, <1>2 DEF PipeIsSound, x
  <2>2. OrdersOnce(w)' /\ \A j \in LabJobs : Ordered(w, j)' <=> Ordered(w, j)
    BY <1>9, <2>1 DEF OrdersOnce, Ordered, x, y
  <2>3. \A i \in DOMAIN f : f[i].t = "done" =>
       /\ f[i].job \in lab.inFlight[w] \ x.running
       /\ ~\E k \in DOMAIN x.commands : x.commands[k] = f[i].job
       /\ \A k \in DOMAIN f : f[k].t = "done" /\ f[k].job = f[i].job => k = i
    BY <1>1, <1>2, <1>11 DEF PipeIsSound, IsDone, Ordered, x
  <2> QED BY <1>2, <1>8, <1>9, <2>1, <2>2, <2>3 DEF PipeIsSound, IsDone, Ordered, x, y
<1>13. RunsAreSound(w)'
  BY <1>1, <1>2, <1>9 DEF RunsAreSound, HasRun, Ordered, x, y
<1>14. FactsAreTrue(w)'
  <2>1. ReportsAreTrue(w) BY DEF LabInv
  <2>2. \A g : IsTrue(w, g)' <=> IsTrue(w, g) BY <1>2 DEF IsTrue
  <2>3. \A i \in DOMAIN f : IsTrue(w, f[i])
    <3>1. \A g : g.t \notin {"done", "fail"} => IsTrue(w, g) BY DEF IsTrue
    <3> QED BY <1>11, <2>1, <3>1 DEF ReportsAreTrue, x
  <2> QED BY <1>8, <2>2, <2>3 DEF FactsAreTrue, y
<1>15. EndsAreDue(w) => EndsAreDue(w)'
  <2>1. d = "gone" => \E i \in DOMAIN f : f[i].t = "error"
    <3>1. d = "gone" => f[Len(x.facts) + 1].t = "error" BY <1>3, <1>7
    <3> QED BY <1>7, <3>1
  <2>2. NothingLeft(lab)' <=> NothingLeft(lab) BY <1>2 DEF NothingLeft
  <2>3. Ordered(w, End)' <=> Ordered(w, End) BY <1>9 DEF Ordered, x, y
  <2>4. d # "ended" OBVIOUS
  <2> QED BY <1>8, <1>9, <2>1, <2>2, <2>3, <2>4 DEF EndsAreDue, x, y
<1>16. IsCalm' <=> IsCalm BY <1>2 DEF IsCalm
<1>17. timedOut' \in BOOLEAN /\ drops' \in Nat BY <1>2 DEF LabInv, LabTyped
<1> QED BY <1>10, <1>12, <1>13, <1>14, <1>15, <1>16, <1>17, SessionKeeps

(* A file is started, or the end is taken note of. *)
LEMMA TakesCommandStep ==
  ASSUME LabInv, NEW w \in Workers, TakesCommand(w)
  PROVE  LabInv'
<1> DEFINE x == sessions[w]
           y == sessions'[w]
           a == Head(x.commands)
           c == Tail(x.commands)
           r == IF a = End THEN x.running ELSE x.running \cup {a}
           d == IF a = End THEN "ended" ELSE x.driver
           z == [sessions EXCEPT ![w].commands = c]
           u == [z EXCEPT ![w].running = r]
<1>1. sessions \in [Workers -> SessionRecords] /\ PipeIsSound(w) /\ RunsAreSound(w)
  BY DEF LabInv, LabTyped
<1>2. /\ x.driver = "up" /\ x.commands # <<>> /\ UNCHANGED <<lab, reports, startTimer, timedOut, ran, drops>>
  BY DEF TakesCommand
<1>26. sessions' = [sessions EXCEPT ![w].commands = Tail(@),
                              ![w].running = IF a = End THEN @ ELSE @ \cup {a},
                              ![w].driver = IF a = End THEN "ended" ELSE @]
  BY DEF TakesCommand
<1>3. x.commands \in Seq(LabJobs \cup {End}) /\ x.running \in SUBSET LabJobs
  BY <1>1 DEF SessionRecords
<1>4. /\ c \in Seq(LabJobs \cup {End}) /\ a \in LabJobs \cup {End} /\ r \in SUBSET LabJobs
      /\ d \in {"starting", "up", "ended", "gone"}
  BY <1>2, <1>3
<1>5. /\ z \in [Workers -> SessionRecords] /\ z[w].commands = c
      /\ \A v \in Workers : v # w => z[v] = sessions[v]
      /\ z[w].driver = x.driver /\ z[w].facts = x.facts
      /\ z[w].running = x.running /\ z[w].killed = x.killed
  <2>1. z = [sessions EXCEPT ![w].commands = c] /\ sessions \in [Workers -> SessionRecords]
    BY <1>1
  <2>2. c \in CommandLists BY <1>4 DEF CommandLists
  <2> HIDE DEF c, z
  <2>3. /\ z \in [Workers -> SessionRecords] /\ z[w].commands = c
        /\ \A v \in Workers : v # w => z[v] = sessions[v]
        /\ z[w].driver = sessions[w].driver /\ z[w].facts = sessions[w].facts
        /\ z[w].running = sessions[w].running /\ z[w].killed = sessions[w].killed
    BY ONLY <2>1, <2>2, w \in Workers, OtherCommands
  <2> QED BY <2>3
<1>6. sessions' = [z EXCEPT ![w].running = IF a = End THEN z[w].running ELSE z[w].running \cup {a},
                            ![w].driver = IF a = End THEN "ended" ELSE @]
  BY <1>26
<1>7. sessions' = [z EXCEPT ![w].running = r, ![w].driver = IF a = End THEN "ended" ELSE @]
  <2> HIDE DEF z
  <2> QED BY <1>5, <1>6
<1> HIDE DEF z
<1>8. /\ u \in [Workers -> SessionRecords] /\ u[w].running = r
      /\ \A v \in Workers : v # w => u[v] = z[v]
      /\ u[w].driver = z[w].driver /\ u[w].facts = z[w].facts
      /\ u[w].commands = z[w].commands /\ u[w].killed = z[w].killed
  <2>1. u = [z EXCEPT ![w].running = r] /\ z \in [Workers -> SessionRecords]
    BY <1>5
  <2>2. r \in FileSets BY <1>4 DEF FileSets
  <2> HIDE DEF r, u
  <2> QED BY ONLY <2>1, <2>2, w \in Workers, OtherRunning
<1>9. sessions' = [u EXCEPT ![w].driver = IF a = End THEN "ended" ELSE u[w].driver]
  BY <1>7
<1>10. sessions' = [u EXCEPT ![w].driver = d]
  <2> HIDE DEF u
  <2> QED BY <1>5, <1>8, <1>9
<1> HIDE DEF u
<1>11. /\ sessions' \in [Workers -> SessionRecords] /\ y.driver = d
       /\ \A v \in Workers : v # w => sessions'[v] = u[v]
       /\ y.running = u[w].running /\ y.facts = u[w].facts
       /\ y.commands = u[w].commands /\ y.killed = u[w].killed
  <2> HIDE DEF d
  <2> QED BY <1>4, <1>8, <1>10, OtherDriver
<1>12. /\ \A v \in Workers : v # w => sessions'[v] = sessions[v]
       /\ y.driver = d /\ y.running = r /\ y.commands = c /\ y.facts = x.facts /\ y.killed = x.killed
  BY <1>5, <1>8, <1>11
<1>13. SessionStep(w) BY <1>2, <1>11, <1>12 DEF SessionStep, LabInv, LabTyped
<1>14. /\ 1 \in DOMAIN x.commands /\ x.commands[1] = a
       /\ \A i \in DOMAIN c : i \in Nat \ {0} /\ i + 1 \in DOMAIN x.commands /\ c[i] = x.commands[i + 1]
  BY <1>2, <1>3
<1> HIDE DEF c
<1>15. \A j : Ordered(w, j)' => Ordered(w, j) BY <1>12, <1>14 DEF Ordered
<1>16. Ordered(w, a) BY <1>14 DEF Ordered
<1>17. a # End => ~\E i \in DOMAIN y.commands : y.commands[i] = a
  <2>1. OrdersOnce(w) BY <1>1, <1>2 DEF PipeIsSound
  <2>2. ASSUME a # End, NEW i \in DOMAIN c, c[i] = a PROVE FALSE
    <3>1. i \in Nat \ {0} /\ i + 1 \in DOMAIN x.commands /\ x.commands[i + 1] = x.commands[1]
      BY <1>14, <2>2
    <3>2. i + 1 = 1 BY <1>14, <2>1, <2>2, <3>1 DEF OrdersOnce
    <3> QED BY <3>1, <3>2
  <2>3. y.commands = c BY <1>12
  <2> QED BY <2>2, <2>3
<1>18. OrdersOnce(w)'
  <2>1. OrdersOnce(w) BY <1>1, <1>2 DEF PipeIsSound
  <2>2. ASSUME NEW i \in DOMAIN c, NEW k \in DOMAIN c, c[i] = c[k] PROVE i = k \/ c[i] = End
    <3>1. i + 1 = k + 1 \/ c[i] = End BY <1>14, <2>1, <2>2 DEF OrdersOnce
    <3> QED BY <1>14, <3>1
  <2> QED BY <1>12, <2>2 DEF OrdersOnce
<1>19. a # End => a \in LabJobs /\ a \in lab.inFlight[w] \ x.running
  BY <1>1, <1>2, <1>4, <1>16 DEF PipeIsSound
<1> HIDE DEF x, y, a
<1>20. PipeIsSound(w)'
  <2>1. r \subseteq lab.inFlight[w] BY <1>1, <1>19 DEF PipeIsSound, x
  <2>2. \A j \in LabJobs : Ordered(w, j)' => j \in lab.inFlight[w] \ r
    <3>1. \A j \in LabJobs : Ordered(w, j) => j \in lab.inFlight[w] \ x.running
      BY <1>1, <1>2 DEF PipeIsSound, x
    <3>2. ASSUME NEW j \in LabJobs, Ordered(w, j)' PROVE j # a \/ a = End
      BY <1>17, <3>2 DEF Ordered, y
    <3> QED BY <1>15, <3>1, <3>2
  <2>3. d \in {"up", "ended"} /\ w \in lab.alive
    BY <1>1, <1>2 DEF PipeIsSound, x
  <2>4. ASSUME NEW i \in DOMAIN x.facts, x.facts[i].t = "done"
        PROVE  /\ x.facts[i].job \in lab.inFlight[w] \ r
               /\ ~Ordered(w, x.facts[i].job)
               /\ \A k \in DOMAIN x.facts : x.facts[k].t = "done" /\ x.facts[k].job = x.facts[i].job => k = i
    BY <1>1, <1>2, <1>16, <2>4 DEF PipeIsSound, IsDone, x
  <2> HIDE DEF r, d
  <2> QED BY <1>2, <1>12, <1>15, <1>18, <2>1, <2>2, <2>3, <2>4 DEF PipeIsSound, IsDone, y
<1>21. RunsAreSound(w)'
  <2>1. ASSUME NEW j \in LabJobs, HasRun(w, j)
        PROVE  /\ j \notin r /\ ~Ordered(w, j)'
               /\ w \in lab.alive => j \notin lab.queue /\ \A v \in Workers : j \in lab.inFlight[v] => v = w
               /\ \A o, p \in Outcomes : <<w, j, o>> \in ran /\ <<w, j, p>> \in ran => o = p
    <3>1. j \notin x.running /\ ~Ordered(w, j)
      BY <1>1, <1>2, <2>1 DEF RunsAreSound, x
    <3>2. j # a BY <1>16, <3>1
    <3> QED BY <1>1, <1>15, <2>1, <3>1, <3>2 DEF RunsAreSound
  <2> HIDE DEF r, d
  <2>2. HasRun(w, 0) \in BOOLEAN /\ \A j : HasRun(w, j)' <=> HasRun(w, j)
    BY <1>2 DEF HasRun
  <2> QED BY <1>2, <1>12, <2>1, <2>2 DEF RunsAreSound, y
<1>22. FactsAreTrue(w)'
  <2>1. sessions'[w].facts = sessions[w].facts BY <1>12 DEF x, y
  <2> QED BY <1>13, <2>1, OldFactsAreTrue
<1>23. EndsAreDue(w) => EndsAreDue(w)'
  <2>1. NothingLeft(lab)' <=> NothingLeft(lab) BY <1>2 DEF NothingLeft
  <2>2. d # "gone" /\ (d = "ended" => Ordered(w, End)) BY <1>2, <1>16
  <2> HIDE DEF d
  <2> QED BY <1>12, <1>15, <2>1, <2>2 DEF EndsAreDue, x, y
<1>24. IsCalm' <=> IsCalm BY <1>2 DEF IsCalm
<1>25. timedOut' \in BOOLEAN /\ drops' \in Nat BY <1>2 DEF LabInv, LabTyped
<1> QED BY <1>13, <1>20, <1>21, <1>22, <1>23, <1>24, <1>25, SessionKeeps

(* What the end of a file adds to what a session has to tell. *)
Tells(p, j, o, f) ==
  /\ f \in Seq(LabFacts) /\ Len(p) \in Nat /\ Len(f) \in Nat /\ Len(f) > Len(p)
  /\ DOMAIN f = 1..Len(f) /\ DOMAIN p = 1..Len(p)
  /\ \A i \in DOMAIN p : f[i] = p[i]
  /\ f[Len(f)] = [t |-> "done", job |-> j, code |-> IF o = "pass" THEN 0 ELSE 1]
  /\ \A i \in DOMAIN f : \/ i \in DOMAIN p \/ i = Len(f)
                         \/ f[i] = [t |-> "fail", job |-> j] /\ o = "fail"

(* The facts p are followed by a failure, if it failed, and the end. *)
LEMMA TellingAppends ==
  ASSUME NEW p \in Seq(LabFacts), NEW j \in LabJobs, NEW o \in {"pass", "fail", "crash"},
         NEW f, f = p \o Told(j, o)
  PROVE  Tells(p, j, o, f)
<1> DEFINE done == [t |-> "done", job |-> j, code |-> IF o = "pass" THEN 0 ELSE 1]
           fail == [t |-> "fail", job |-> j]
<1>1. done \in LabFacts /\ fail \in LabFacts BY DEF LabFacts
<1>2. ASSUME NEW a \in LabFacts, NEW q, q = p \o <<a>>
      PROVE  /\ q \in Seq(LabFacts) /\ Len(q) = Len(p) + 1 /\ q[Len(q)] = a
             /\ \A i \in 1..Len(p) : q[i] = p[i]
  BY <1>2
<1>3. ASSUME NEW a \in LabFacts, NEW b \in LabFacts, NEW q, q = p \o (<<a>> \o <<b>>)
      PROVE  /\ q \in Seq(LabFacts) /\ Len(q) = Len(p) + 2 /\ q[Len(q)] = b /\ q[Len(p) + 1] = a
             /\ \A i \in 1..Len(p) : q[i] = p[i]
  BY <1>3
<1>4. Len(p) \in Nat /\ DOMAIN p = 1..Len(p) OBVIOUS
<1>5. CASE o = "fail"
  <2>1. Told(j, o) = <<fail>> \o <<done>> BY <1>5 DEF Told
  <2> HIDE DEF done, fail
  <2>2. f = p \o (<<fail>> \o <<done>>) BY <2>1
  <2>3. /\ f \in Seq(LabFacts) /\ Len(f) = Len(p) + 2 /\ f[Len(f)] = done /\ f[Len(p) + 1] = fail
        /\ \A i \in 1..Len(p) : f[i] = p[i]
    BY <1>1, <1>3, <2>2
  <2>4. DOMAIN f = 1..Len(f) BY <2>3
  <2>5. \A i \in DOMAIN f : i \in DOMAIN p \/ i = Len(f) \/ f[i] = fail
    <3>1. \A i \in 1..(Len(p) + 2) : i \in 1..Len(p) \/ i = Len(p) + 2 \/ i = Len(p) + 1
      BY <1>4
    <3> QED BY <1>4, <2>3, <2>4, <3>1
  <2> QED BY <1>4, <1>5, <2>3, <2>4, <2>5 DEF done, fail, Tells
<1>6. CASE o # "fail"
  <2>1. Told(j, o) = <<>> \o <<done>> BY <1>6 DEF Told
  <2> HIDE DEF done, fail
  <2>2. f = p \o <<done>> BY <1>1, <2>1
  <2>3. /\ f \in Seq(LabFacts) /\ Len(f) = Len(p) + 1 /\ f[Len(f)] = done
        /\ \A i \in 1..Len(p) : f[i] = p[i]
    BY <1>1, <1>2, <2>2
  <2>4. DOMAIN f = 1..Len(f) BY <2>3
  <2> QED BY <1>4, <2>3, <2>4 DEF done, Tells
<1> QED BY <1>5, <1>6

(* A file ends, and is told of. *)
LEMMA FileEndsStep ==
  ASSUME LabInv, NEW w \in Workers, FileEnds(w)
  PROVE  LabInv'
<1> DEFINE x == sessions[w]
           y == sessions'[w]
<1>1. sessions \in [Workers -> SessionRecords] /\ PipeIsSound(w) /\ RunsAreSound(w)
  BY DEF LabInv, LabTyped
<1>2. /\ x.driver \in {"up", "ended"} /\ UNCHANGED <<lab, reports, startTimer, timedOut, drops>>
  BY DEF FileEnds
<1>3. PICK j \in x.running : \E o \in MayEnd[j] :
        /\ sessions' = [sessions EXCEPT ![w].running = @ \ {j}, ![w].facts = @ \o Told(j, o)]
        /\ ran' = ran \cup {<<w, j, o>>}
  BY DEF FileEnds
<1>21. PICK o \in MayEnd[j] :
        /\ sessions' = [sessions EXCEPT ![w].running = @ \ {j}, ![w].facts = @ \o Told(j, o)]
        /\ ran' = ran \cup {<<w, j, o>>}
  BY <1>3
<1>4. j \in LabJobs /\ o \in {"pass", "fail", "crash"} /\ x.facts \in Seq(LabFacts) /\ x.running \in SUBSET LabJobs
  <2>1. x.facts \in Seq(LabFacts) /\ x.running \in SUBSET LabJobs
    BY <1>1 DEF SessionRecords
  <2> QED BY <2>1, LabAssumption
<1> DEFINE r == x.running \ {j}
           f == x.facts \o Told(j, o)
           z == [sessions EXCEPT ![w].running = r]
<1>5. /\ z \in [Workers -> SessionRecords] /\ z[w].running = r
      /\ \A v \in Workers : v # w => z[v] = sessions[v]
      /\ z[w].commands = x.commands /\ z[w].facts = x.facts
      /\ z[w].driver = x.driver /\ z[w].killed = x.killed
  <2>1. z = [sessions EXCEPT ![w].running = r] /\ sessions \in [Workers -> SessionRecords]
    BY <1>1
  <2>2. r \in FileSets BY <1>4 DEF FileSets
  <2> HIDE DEF r, z
  <2> QED BY ONLY <2>1, <2>2, w \in Workers, OtherRunning
<1>6. sessions' = [z EXCEPT ![w].facts = z[w].facts \o Told(j, o)] BY <1>21
<1> HIDE DEF z
<1>7. sessions' = [z EXCEPT ![w].facts = f] BY <1>5, <1>6
<1> DEFINE n == Len(f)
           m == Len(x.facts)
           done == [t |-> "done", job |-> j, code |-> IF o = "pass" THEN 0 ELSE 1]
<1>8. /\ f \in Seq(LabFacts) /\ m \in Nat /\ n \in Nat /\ n > m
      /\ DOMAIN f = 1..n /\ DOMAIN x.facts = 1..m
      /\ \A i \in DOMAIN x.facts : f[i] = x.facts[i]
      /\ f[n] = done
      /\ \A i \in DOMAIN f : \/ i \in DOMAIN x.facts \/ i = n
                             \/ f[i] = [t |-> "fail", job |-> j] /\ o = "fail"
  <2>1. f = x.facts \o Told(j, o) OBVIOUS
  <2>2. x.facts \in Seq(LabFacts) BY <1>4
  <2> HIDE DEF f, x
  <2>3. Tells(x.facts, j, o, f) BY <1>4, <2>1, <2>2, TellingAppends
  <2> QED BY <2>3 DEF Tells
<1> HIDE DEF f
<1>9. /\ sessions' \in [Workers -> SessionRecords] /\ y.facts = f
      /\ \A v \in Workers : v # w => sessions'[v] = z[v]
      /\ y.commands = z[w].commands /\ y.driver = z[w].driver
      /\ y.running = z[w].running /\ y.killed = z[w].killed
  BY <1>5, <1>7, <1>8, OtherFacts
<1>10. /\ \A v \in Workers : v # w => sessions'[v] = sessions[v]
       /\ y.commands = x.commands /\ y.driver = x.driver /\ y.running = r /\ y.killed = x.killed
  BY <1>5, <1>9
<1>11. /\ ran' \subseteq Workers \X LabJobs \X Outcomes /\ ran \subseteq ran'
       /\ \A e \in ran' : e \in ran \/ e = <<w, j, o>>
  BY <1>21, <1>4 DEF LabInv, LabTyped, Outcomes
<1>12. SessionStep(w) BY <1>2, <1>21, <1>9, <1>10, <1>11 DEF SessionStep
<1>13. /\ j \in lab.inFlight[w] /\ ~HasRun(w, j) /\ ~Ordered(w, j) /\ w \in lab.alive
       /\ \A i \in DOMAIN x.facts : x.facts[i].t = "done" => x.facts[i].job # j
  <2>1. j \in lab.inFlight[w] /\ ~Ordered(w, j) /\ w \in lab.alive
    BY <1>1, <1>2, <1>4 DEF PipeIsSound
  <2>2. ~HasRun(w, j) BY <1>1, <1>4 DEF RunsAreSound
  <2>3. \A i \in DOMAIN x.facts : x.facts[i].t = "done" => x.facts[i].job # j
    BY <1>1 DEF PipeIsSound, IsDone
  <2> QED BY <2>1, <2>2, <2>3
<1> HIDE DEF x, y, n, m
<1>14. Ordered(w, End)' = Ordered(w, End) /\ \A k : Ordered(w, k)' <=> Ordered(w, k)
  BY <1>10 DEF Ordered, x, y
<1>15. PipeIsSound(w)'
  <2>1. /\ x.running \subseteq lab.inFlight[w] /\ OrdersOnce(w)
        /\ \A k \in LabJobs : Ordered(w, k) => k \in lab.inFlight[w] \ x.running
    BY <1>1, <1>2 DEF PipeIsSound, x
  <2>2. OrdersOnce(w)' BY <1>10, <2>1 DEF OrdersOnce, x, y
  <2>3. \A i \in DOMAIN x.facts : x.facts[i].t = "done" =>
          /\ x.facts[i].job \in lab.inFlight[w] \ x.running
          /\ ~Ordered(w, x.facts[i].job)
          /\ \A k \in DOMAIN x.facts : x.facts[k].t = "done" /\ x.facts[k].job = x.facts[i].job => k = i
    BY <1>1, <1>2 DEF PipeIsSound, IsDone, x
  <2>4. \A i \in DOMAIN f : f[i].t = "done" => i \in DOMAIN x.facts \/ (i = n /\ f[i].job = j)
    <3>1. done.job = j OBVIOUS
    <3>2. \A i \in DOMAIN f : f[i] = [t |-> "fail", job |-> j] => f[i].t # "done"
      OBVIOUS
    <3> HIDE DEF done
    <3> QED BY <1>8, <3>1, <3>2
  <2>5. ASSUME NEW i \in DOMAIN f, f[i].t = "done"
        PROVE  f[i].job \in lab.inFlight[w] \ r /\ ~Ordered(w, f[i].job)
    <3>1. CASE i = n /\ f[i].job = j
      BY <1>13, <3>1
    <3>2. CASE i \in DOMAIN x.facts
      <4>1. f[i] = x.facts[i] BY <1>8, <3>2
      <4> QED BY <2>3, <2>5, <3>2, <4>1
    <3> QED BY <2>4, <2>5, <3>1, <3>2
  <2>6. ASSUME NEW i \in DOMAIN f, NEW k \in DOMAIN f, f[i].t = "done", f[k].t = "done",
               f[k].job = f[i].job
        PROVE  k = i
    <3>1. ASSUME NEW l \in DOMAIN x.facts, f[l].t = "done" PROVE f[l].job # j /\ f[l] = x.facts[l]
      BY <1>8, <1>13, <3>1
    <3>2. f[n].job = j BY <1>8
    <3> QED BY <2>3, <2>4, <2>6, <3>1, <3>2
  <2>7. r \subseteq lab.inFlight[w] /\ \A k \in LabJobs : Ordered(w, k) => k \in lab.inFlight[w] \ r
    BY <2>1
  <2> HIDE DEF r, done
  <2>8. y.driver # "gone" /\ y.driver # "starting" BY <1>2, <1>10 DEF x
  <2> QED
    BY <1>2, <1>9, <1>10, <1>13, <1>14, <2>2, <2>5, <2>6, <2>7, <2>8 DEF PipeIsSound, IsDone, y
<1>16. RunsAreSound(w)'
  <2>1. \A k, p : <<w, k, p>> \in ran' <=> <<w, k, p>> \in ran \/ (k = j /\ p = o)
    BY <1>21
  <2>2. \A k \in LabJobs : HasRun(w, k) =>
          /\ k \notin x.running /\ ~Ordered(w, k)
          /\ w \in lab.alive => k \notin lab.queue /\ \A v \in Workers : k \in lab.inFlight[v] => v = w
          /\ \A p, q \in Outcomes : <<w, k, p>> \in ran /\ <<w, k, q>> \in ran => p = q
    BY <1>1, <1>2 DEF RunsAreSound, x
  <2>3. j \notin lab.queue /\ \A v \in Workers : j \in lab.inFlight[v] => v = w
    BY <1>13 DEF LabInv, IsSoundSchedule, FilesAreOnce
  <2>4. ASSUME NEW k \in LabJobs, HasRun(w, k)'
        PROVE  /\ k \notin r /\ ~Ordered(w, k)
               /\ k \notin lab.queue /\ \A v \in Workers : k \in lab.inFlight[v] => v = w
               /\ \A p, q \in Outcomes : <<w, k, p>> \in ran' /\ <<w, k, q>> \in ran' => p = q
    <3>1. CASE k = j
      <4>1. \A p \in Outcomes : <<w, k, p>> \notin ran BY <1>13, <3>1 DEF HasRun
      <4> QED BY <1>13, <2>1, <2>3, <3>1, <4>1
    <3>2. CASE k # j
      <4>1. HasRun(w, k) BY <2>1, <2>4, <3>2 DEF HasRun
      <4> QED BY <1>13, <2>1, <2>2, <3>2, <4>1
    <3> QED BY <3>1, <3>2
  <2> HIDE DEF r
  <2> QED BY <1>2, <1>10, <1>14, <2>4 DEF RunsAreSound, y
<1>17. FactsAreTrue(w)'
  <2>1. ReportsAreTrue(w) /\ \A g : IsTrue(w, g) => IsTrue(w, g)'
    BY <1>11 DEF LabInv, IsTrue
  <2>2. <<w, j, o>> \in ran' BY <1>21
  <2>3. ASSUME NEW g, g = done PROVE IsTrue(w, g)'
    <3>1. g.t = "done" /\ g.job = j /\ g.code = IF o = "pass" THEN 0 ELSE 1
      BY <2>3
    <3> QED BY <1>4, <2>2, <3>1 DEF IsTrue
  <2>4. \A g : o = "fail" /\ g = [t |-> "fail", job |-> j] => IsTrue(w, g)'
    BY <2>2 DEF IsTrue
  <2> HIDE DEF done
  <2>5. \A i \in DOMAIN f :
           IsTrue(w, f[i]) \/ f[i] = done \/ (o = "fail" /\ f[i] = [t |-> "fail", job |-> j])
    BY <1>8, <2>1 DEF ReportsAreTrue, x
  <2>6. y.facts = f BY <1>9
  <2> QED BY <2>1, <2>3, <2>4, <2>5, <2>6 DEF FactsAreTrue, y
<1>18. EndsAreDue(w) => EndsAreDue(w)'
  <2>1. NothingLeft(lab)' <=> NothingLeft(lab) BY <1>2 DEF NothingLeft
  <2>2. x.driver # "gone" BY <1>2 DEF x
  <2> QED BY <1>10, <1>14, <2>1, <2>2 DEF EndsAreDue, x, y
<1>19. IsCalm' <=> IsCalm BY <1>2 DEF IsCalm
<1>20. timedOut' \in BOOLEAN /\ drops' \in Nat BY <1>2 DEF LabInv, LabTyped
<1> QED BY <1>12, <1>15, <1>16, <1>17, <1>18, <1>19, <1>20, SessionKeeps

(* The driver exits: it was told to end, so nothing is left. *)
LEMMA DriverExitsStep ==
  ASSUME LabInv, NEW w \in Workers, DriverExits(w)
  PROVE  LabInv'
<1> DEFINE x == sessions[w]
           y == sessions'[w]
<1>1. sessions \in [Workers -> SessionRecords] /\ PipeIsSound(w) /\ RunsAreSound(w)
  BY DEF LabInv, LabTyped
<1>2. /\ x.driver = "ended" /\ x.running = {} /\ sessions' = [sessions EXCEPT ![w].driver = "gone"]
      /\ UNCHANGED <<lab, reports, startTimer, timedOut, ran, drops>>
  BY DEF DriverExits
<1>3. /\ sessions' \in [Workers -> SessionRecords] /\ y.driver = "gone"
      /\ \A v \in Workers : v # w => sessions'[v] = sessions[v]
      /\ y.commands = x.commands /\ y.facts = x.facts
      /\ y.running = x.running /\ y.killed = x.killed
  <2>1. "gone" \in {"starting", "up", "ended", "gone"} OBVIOUS
  <2> QED BY <1>1, <1>2, <2>1, OtherDriver
<1>4. SessionStep(w) BY <1>2, <1>3 DEF SessionStep, LabInv, LabTyped
<1>5. PipeIsSound(w)'
  <2>1. w \in lab.alive BY <1>1, <1>2 DEF PipeIsSound
  <2> QED BY <1>1, <1>2, <1>3, <2>1 DEF PipeIsSound, IsDone
<1>6. RunsAreSound(w)' BY <1>1, <1>2, <1>3 DEF RunsAreSound, HasRun
<1>7. FactsAreTrue(w)' BY <1>3, <1>4, OldFactsAreTrue
<1>8. EndsAreDue(w) => EndsAreDue(w)' BY <1>2, <1>3 DEF EndsAreDue, NothingLeft
<1>9. IsCalm' <=> IsCalm BY <1>2 DEF IsCalm
<1>10. timedOut' \in BOOLEAN /\ drops' \in Nat BY <1>2 DEF LabInv, LabTyped
<1> QED BY <1>4, <1>5, <1>6, <1>7, <1>8, <1>9, <1>10, SessionKeeps

(* A cut session runs nothing, and holds what it had told up to some fact. *)
LEMMA CutSession ==
  ASSUME LabInv, NEW w \in Workers, Cut(w), UNCHANGED <<lab, reports, startTimer>>
  PROVE  /\ SessionStep(w) /\ PipeIsSound(w)' /\ RunsAreSound(w)' /\ FactsAreTrue(w)'
         /\ sessions'[w].driver = "gone" /\ sessions'[w].commands = <<>>
         /\ sessions'[w].killed = sessions[w].killed
<1> DEFINE x == sessions[w]
           y == sessions'[w]
           lost == {<<w, j, "lost">> : j \in x.running}
<1>1. sessions \in [Workers -> SessionRecords] /\ PipeIsSound(w) /\ RunsAreSound(w)
  BY DEF LabInv, LabTyped
<1>2. x.driver # "gone" /\ ran' = ran \cup lost BY DEF Cut
<1>3. PICK n \in 0..Len(x.facts) :
        sessions' = [sessions EXCEPT ![w].driver = "gone", ![w].running = {}, ![w].commands = <<>>,
                                     ![w].facts = SubSeq(@, 1, n)]
  BY DEF Cut
<1>4. x.facts \in Seq(LabFacts) /\ x.running \in SUBSET LabJobs
  BY <1>1 DEF SessionRecords
<1> DEFINE d == "gone"
           r == {}
           c == <<>>
           f == SubSeq(x.facts, 1, n)
           z == [sessions EXCEPT ![w].driver = d]
           u == [z EXCEPT ![w].running = r]
           t == [u EXCEPT ![w].commands = c]
<1>5. /\ f \in Seq(LabFacts) /\ DOMAIN f \subseteq DOMAIN x.facts
      /\ \A i \in DOMAIN f : f[i] = x.facts[i]
  BY <1>3, <1>4
<1>6. /\ z \in [Workers -> SessionRecords] /\ z[w].driver = d
      /\ \A v \in Workers : v # w => z[v] = sessions[v]
      /\ z[w].facts = x.facts /\ z[w].killed = x.killed
  <2>1. z = [sessions EXCEPT ![w].driver = d] /\ sessions \in [Workers -> SessionRecords]
    BY <1>1
  <2>2. d \in {"starting", "up", "ended", "gone"} OBVIOUS
  <2> HIDE DEF d, z
  <2> QED BY ONLY <2>1, <2>2, w \in Workers, OtherDriver
<1>7. sessions' = [z EXCEPT ![w].running = r, ![w].commands = c, ![w].facts = SubSeq(@, 1, n)]
  BY <1>3
<1> HIDE DEF z
<1>8. /\ u \in [Workers -> SessionRecords] /\ u[w].running = r
      /\ \A v \in Workers : v # w => u[v] = z[v]
      /\ u[w].driver = z[w].driver /\ u[w].facts = z[w].facts /\ u[w].killed = z[w].killed
  <2>1. u = [z EXCEPT ![w].running = r] /\ z \in [Workers -> SessionRecords]
    BY <1>6
  <2>2. r \in FileSets BY DEF FileSets
  <2> HIDE DEF r, u
  <2> QED BY ONLY <2>1, <2>2, w \in Workers, OtherRunning
<1>9. sessions' = [u EXCEPT ![w].commands = c, ![w].facts = SubSeq(@, 1, n)]
  BY <1>7
<1> HIDE DEF u
<1>10. /\ t \in [Workers -> SessionRecords] /\ t[w].commands = c
       /\ \A v \in Workers : v # w => t[v] = u[v]
       /\ t[w].driver = u[w].driver /\ t[w].facts = u[w].facts
       /\ t[w].running = u[w].running /\ t[w].killed = u[w].killed
  <2>1. t = [u EXCEPT ![w].commands = c] /\ u \in [Workers -> SessionRecords]
    BY <1>8
  <2>2. c \in CommandLists BY DEF CommandLists
  <2> HIDE DEF c, t
  <2> QED BY ONLY <2>1, <2>2, w \in Workers, OtherCommands
<1>11. sessions' = [t EXCEPT ![w].facts = SubSeq(t[w].facts, 1, n)] BY <1>9
<1> HIDE DEF t
<1>12. sessions' = [t EXCEPT ![w].facts = f] BY <1>6, <1>8, <1>10, <1>11
<1> HIDE DEF f
<1>13. /\ sessions' \in [Workers -> SessionRecords] /\ y.facts = f
       /\ \A v \in Workers : v # w => sessions'[v] = t[v]
       /\ y.commands = t[w].commands /\ y.driver = t[w].driver
       /\ y.running = t[w].running /\ y.killed = t[w].killed
  BY <1>5, <1>10, <1>12, OtherFacts
<1>14. /\ \A v \in Workers : v # w => sessions'[v] = sessions[v]
       /\ y.commands = <<>> /\ y.driver = "gone" /\ y.running = {} /\ y.killed = x.killed
  BY <1>6, <1>8, <1>10, <1>13
<1>15. \A k, p : <<w, k, p>> \in ran' <=> <<w, k, p>> \in ran \/ (k \in x.running /\ p = "lost")
  BY <1>2
<1>16. /\ ran' \subseteq Workers \X LabJobs \X Outcomes /\ ran \subseteq ran'
       /\ \A e \in ran' : e \in ran \/ (e[1] = w /\ e[2] \in x.running)
  BY <1>2, <1>4 DEF LabInv, LabTyped, Outcomes
<1>17. SessionStep(w) BY <1>13, <1>14, <1>16 DEF SessionStep
<1> HIDE DEF x, y
<1>18. PipeIsSound(w)'
  <2>1. \A i \in DOMAIN f : f[i].t = "done" =>
          /\ f[i].job \in lab.inFlight[w]
          /\ \A k \in DOMAIN f : f[k].t = "done" /\ f[k].job = f[i].job => k = i
    BY <1>1, <1>5 DEF PipeIsSound, IsDone, x
  <2>2. w \in lab.alive BY <1>1, <1>2 DEF PipeIsSound, x
  <2> QED BY <1>13, <1>14, <2>1, <2>2 DEF PipeIsSound, IsDone, y
<1>19. RunsAreSound(w)'
  <2>1. \A k \in LabJobs : HasRun(w, k) =>
          /\ k \notin x.running
          /\ w \in lab.alive => k \notin lab.queue /\ \A v \in Workers : k \in lab.inFlight[v] => v = w
          /\ \A p, q \in Outcomes : <<w, k, p>> \in ran /\ <<w, k, q>> \in ran => p = q
    BY <1>1 DEF RunsAreSound, x
  <2>2. \A k \in x.running : k \notin lab.queue /\ \A v \in Workers : k \in lab.inFlight[v] => v = w
    BY <1>1 DEF PipeIsSound, x, LabInv, IsSoundSchedule, FilesAreOnce
  <2>3. ASSUME NEW k \in LabJobs, HasRun(w, k)'
        PROVE  /\ w \in lab.alive => k \notin lab.queue /\ \A v \in Workers : k \in lab.inFlight[v] => v = w
               /\ \A p, q \in Outcomes : <<w, k, p>> \in ran' /\ <<w, k, q>> \in ran' => p = q
    <3>1. CASE k \in x.running
      <4>1. \A p \in Outcomes : <<w, k, p>> \notin ran BY <2>1, <3>1 DEF HasRun
      <4> QED BY <1>15, <2>2, <3>1, <4>1
    <3>2. CASE k \notin x.running
      <4>1. HasRun(w, k) BY <1>15, <2>3, <3>2 DEF HasRun
      <4> QED BY <1>15, <2>1, <3>2, <4>1
    <3> QED BY <3>1, <3>2
  <2> QED BY <1>14, <2>3 DEF RunsAreSound, y
<1>20. FactsAreTrue(w)' BY <1>5, <1>13, <1>17, OldFactsAreTrue DEF x, y
<1> QED BY <1>14, <1>17, <1>18, <1>19, <1>20 DEF x, y

(* A session that was killed ends: in a calm run nothing is left then. *)
LEMMA KilledSessionEndsStep ==
  ASSUME LabInv, NEW w \in Workers, KilledSessionEnds(w)
  PROVE  LabInv'
<1>1. sessions[w].killed /\ Cut(w) /\ UNCHANGED <<lab, reports, startTimer, timedOut, drops>>
  BY DEF KilledSessionEnds
<1>2. /\ SessionStep(w) /\ PipeIsSound(w)' /\ RunsAreSound(w)' /\ FactsAreTrue(w)'
      /\ sessions'[w].driver = "gone" /\ sessions'[w].commands = <<>>
      /\ sessions'[w].killed = sessions[w].killed
  BY <1>1, CutSession
<1>3. EndsAreDue(w) => EndsAreDue(w)' BY <1>1, <1>2 DEF EndsAreDue, NothingLeft
<1>4. IsCalm' <=> IsCalm BY <1>1 DEF IsCalm
<1>5. timedOut' \in BOOLEAN /\ drops' \in Nat BY <1>1 DEF LabInv, LabTyped
<1> QED BY <1>2, <1>3, <1>4, <1>5, SessionKeeps

(* A session breaks: the run is not calm any more. *)
LEMMA WorkerDropsStep ==
  ASSUME LabInv, NEW w \in Workers, WorkerDrops(w)
  PROVE  LabInv'
<1>1. drops' = drops + 1 /\ Cut(w) /\ UNCHANGED <<lab, reports, startTimer, timedOut>>
  BY DEF WorkerDrops
<1>2. SessionStep(w) /\ PipeIsSound(w)' /\ RunsAreSound(w)' /\ FactsAreTrue(w)'
  BY <1>1, CutSession
<1>3. timedOut' \in BOOLEAN /\ drops \in Nat BY <1>1 DEF LabInv, LabTyped
<1>4. ~IsCalm' /\ drops' \in Nat BY <1>1, <1>3 DEF IsCalm
<1> QED BY <1>2, <1>3, <1>4, SessionKeeps

(* Every step of the run keeps the invariant. *)
LEMMA LabStep ==
  ASSUME LabInv, [LabNext]_labVars
  PROVE  LabInv'
<1>1. CASE StartTimerFires
  BY <1>1, StartTimerStep
<1>2. CASE TimesOut
  BY <1>2, TimesOutStep
<1>3. CASE UNCHANGED labVars
  <2>1. UNCHANGED <<lab, sessions, reports, startTimer, timedOut, ran, drops>>
    BY <1>3 DEF labVars
  <2>2. LabTyped' /\ IsSoundSchedule(lab)' /\ EveryFileIsKnown'
    BY <2>1 DEF LabInv, LabTyped, IsSoundSchedule, Schedulers, FilesAreOnce, SlotsAreKept,
                HandsAreFull, Hands, FullHand, EveryFileIsKnown
  <2>3. CalmRuns'
    BY <2>1 DEF LabInv, CalmRuns, IsCalm, NoErrors, EndsAreDue, Ordered, NothingLeft,
                DispatchesAreKept, DoneAnywhere
  <2>4. ASSUME NEW w \in Workers PROVE PipeIsSound(w)' /\ RunsAreSound(w)' /\ ReportsAreTrue(w)'
    <3>1. PipeIsSound(w) /\ RunsAreSound(w) /\ ReportsAreTrue(w) BY DEF LabInv
    <3>2. PipeIsSound(w)'
      BY <2>1, <3>1 DEF PipeIsSound, OrdersOnce, Ordered, IsDone
    <3>3. RunsAreSound(w)' BY <2>1, <3>1 DEF RunsAreSound, HasRun, Ordered
    <3>4. ReportsAreTrue(w)' BY <2>1, <3>1 DEF ReportsAreTrue, IsTrue
    <3> QED BY <3>2, <3>3, <3>4
  <2> QED BY <2>2, <2>3, <2>4 DEF LabInv
<1>4. CASE \E w \in Workers :
             \/ Hears(w) \/ Closes(w) \/ GetsReady(w) \/ TakesCommand(w) \/ FileEnds(w)
             \/ DriverExits(w) \/ KilledSessionEnds(w) \/ WorkerDrops(w)
  BY <1>4, HearsStep, ClosesStep, GetsReadyStep, TakesCommandStep, FileEndsStep, DriverExitsStep,
     KilledSessionEndsStep, WorkerDropsStep
<1> QED BY <1>1, <1>2, <1>3, <1>4 DEF LabNext, LabProgress

(* The run begins soundly. *)
LEMMA LabBegins ==
  ASSUME LabInit
  PROVE  LabInv
<1>1. /\ lab = [queue |-> LabJobs, attempt |-> [j \in LabJobs |-> 1], ready |-> {}, alive |-> Workers,
                inFlight |-> [w \in Workers |-> {}], started |-> FALSE]
      /\ sessions = [w \in Workers |-> [commands |-> <<>>, facts |-> <<>>, driver |-> "starting",
                                        running |-> {}, ending |-> FALSE, killed |-> FALSE]]
      /\ reports = [w \in Workers |-> [dispatched |-> {}, done |-> {}, failed |-> {}, errors |-> 0]]
      /\ startTimer = "unset" /\ timedOut = FALSE /\ ran = {} /\ drops = 0
  BY DEF LabInit
<1>2. /\ lab.queue = LabJobs /\ lab.alive = Workers /\ lab.started = FALSE
      /\ \A w \in Workers : lab.inFlight[w] = {}
  BY <1>1
<1>3. \A w \in Workers : /\ sessions[w].commands = <<>> /\ sessions[w].facts = <<>>
                         /\ sessions[w].driver = "starting" /\ sessions[w].running = {}
                         /\ sessions[w].killed = FALSE
  BY <1>1
<1>4. \A w \in Workers : reports[w].dispatched = {} /\ reports[w].done = {} /\ reports[w].failed = {}
  BY <1>1
<1>5. IsSoundSchedule(lab)
  <2>1. lab \in Schedulers
    <3>1. [j \in LabJobs |-> 1] \in [LabJobs -> 1..2] OBVIOUS
    <3> QED BY <1>1, <3>1 DEF Schedulers
  <2>2. SlotsAreKept(lab) BY <1>2, LabAssumption, FS_EmptySet DEF SlotsAreKept
  <2> QED BY <1>2, <2>1, <2>2 DEF IsSoundSchedule, FilesAreOnce, HandsAreFull
<1>6. LabTyped
  <2>1. <<>> \in Seq(LabJobs \cup {End}) /\ <<>> \in Seq(LabFacts) OBVIOUS
  <2>2. sessions \in [Workers -> SessionRecords]
    BY <1>1, <2>1 DEF SessionRecords
  <2>3. reports \in [Workers -> ReportRecords] BY <1>1 DEF ReportRecords
  <2> QED BY <1>1, <2>2, <2>3 DEF LabTyped
<1>7. EveryFileIsKnown BY <1>2 DEF EveryFileIsKnown
<1>8. CalmRuns
  BY <1>3, <1>4 DEF CalmRuns, EndsAreDue, Ordered, DispatchesAreKept
<1>9. ASSUME NEW w \in Workers PROVE PipeIsSound(w) /\ RunsAreSound(w) /\ ReportsAreTrue(w)
  <2>1. PipeIsSound(w) BY <1>2, <1>3 DEF PipeIsSound, OrdersOnce, Ordered
  <2>2. RunsAreSound(w) BY <1>1 DEF RunsAreSound, HasRun
  <2>3. ReportsAreTrue(w) BY <1>3, <1>4 DEF ReportsAreTrue
  <2> QED BY <2>1, <2>2, <2>3
<1> QED BY <1>5, <1>6, <1>7, <1>8, <1>9 DEF LabInv

(* The invariant holds whatever is relied on. *)
LEMMA LabAlways == LabInit /\ [][LabNext]_labVars => []LabInv
<1>1. LabInit => LabInv BY LabBegins
<1>2. LabInv /\ [LabNext]_labVars => LabInv' BY LabStep
<1> QED BY <1>1, <1>2, PTL

(* A run that ends "ok" has run every file to a passing end. *)
LEMMA GreenMeansPassed ==
  ASSUME LabInv, RunIsOver, Ok
  PROVE  \A j \in LabJobs :
           /\ \E w \in Workers : <<w, j, "pass">> \in ran
           /\ \A w \in Workers, o \in {"fail", "crash"} :
                <<w, j, o>> \in ran => \E v \in Workers \ {w} : <<v, j, "pass">> \in ran
<1> SUFFICES ASSUME NEW j \in LabJobs
             PROVE  \E v \in Workers : /\ <<v, j, "pass">> \in ran
                                       /\ \A o \in {"fail", "crash"} : <<v, j, o>> \notin ran
  OBVIOUS
<1>1. PICK w \in Workers : j \in reports[w].dispatched
  BY DEF LabInv, EveryFileIsKnown, Ok
<1>2. j \in DoneAnywhere BY <1>1 DEF Ok, NeverFinished
<1>3. PICK v \in Workers : \E d \in reports[v].done : d[1] = j
  BY <1>2 DEF DoneAnywhere
<1>4. PICK d \in reports[v].done : d[1] = j
  BY <1>3
<1>5. reports[v] \in ReportRecords BY DEF LabInv, LabTyped
<1>6. d[2] \in {0, 1} BY <1>4, <1>5 DEF ReportRecords
<1>7. d[2] = 0
  <2>1. ExitedUnexplained(v) = {} /\ reports[v].failed = {} BY DEF Ok
  <2>2. d[2] # 0 => j \in ExitedUnexplained(v)
    BY <1>4, <2>1 DEF ExitedUnexplained
  <2> QED BY <2>1, <2>2
<1>8. <<v, j, "pass">> \in ran
  <2>1. IsTrue(v, [t |-> "done", job |-> d[1], code |-> d[2]])
    BY DEF LabInv, ReportsAreTrue
  <2> QED BY <1>4, <1>7, <2>1 DEF IsTrue
<1>9. \A o \in {"fail", "crash"} : <<v, j, o>> \notin ran
  <2>1. RunsAreSound(v) /\ HasRun(v, j) BY <1>8 DEF LabInv, HasRun, Outcomes
  <2>2. \A o, p \in Outcomes : <<v, j, o>> \in ran /\ <<v, j, p>> \in ran => o = p
    BY <2>1 DEF RunsAreSound
  <2> QED BY <1>8, <2>2 DEF Outcomes
<1> QED BY <1>8, <1>9

(* A run in which nothing broke and every file passed is green. *)
LEMMA PassedMeansGreen ==
  ASSUME LabInv, RunIsOver, IsCalm, NoErrors, \A r \in ran : r[3] = "pass"
  PROVE  Ok
<1>1. (\A w \in Workers : EndsAreDue(w)) /\ DispatchesAreKept
  BY DEF LabInv, CalmRuns
<1>2. NothingLeft(lab)
  <2>1. PICK w \in Workers : TRUE
    BY LabAssumption
  <2>2. sessions[w].driver = "gone" /\ sessions[w].facts = <<>>
    BY DEF LabInv, PipeIsSound, RunIsOver
  <2>3. reports[w].errors = 0 BY DEF NoErrors
  <2> QED BY <1>1, <2>2, <2>3 DEF EndsAreDue
<1>3. lab.queue = {} /\ \A w \in Workers : lab.inFlight[w] = {}
  BY <1>2 DEF NothingLeft
<1>4. ASSUME NEW w \in Workers
      PROVE  /\ NeverFinished(w) = {} /\ ExitedUnexplained(w) = {}
             /\ reports[w].errors = 0 /\ reports[w].failed = {}
  <2>1. NeverFinished(w) = {} BY <1>1, <1>3 DEF DispatchesAreKept, NeverFinished
  <2>2. \A j, o : <<w, j, o>> \in ran => o = "pass" OBVIOUS
  <2>3. ReportsAreTrue(w) BY DEF LabInv
  <2>4. reports[w].failed = {} BY <2>2, <2>3 DEF ReportsAreTrue
  <2>5. \A d \in reports[w].done : d[2] = 0
    <3>1. SUFFICES ASSUME NEW d \in reports[w].done, d[2] # 0 PROVE FALSE
      OBVIOUS
    <3>2. IsTrue(w, [t |-> "done", job |-> d[1], code |-> d[2]])
      BY <2>3 DEF ReportsAreTrue
    <3>3. <<w, d[1], "fail">> \in ran \/ <<w, d[1], "crash">> \in ran
      BY <3>1, <3>2 DEF IsTrue
    <3> QED BY <2>2, <3>3
  <2>6. ExitedUnexplained(w) = {} BY <2>5 DEF ExitedUnexplained
  <2> QED BY <2>1, <2>4, <2>6 DEF NoErrors
<1> QED BY <1>3, <1>4 DEF Ok

(* Hands are full while a file waits, and a file is at one place. *)
LEMMA SharedWork ==
  ASSUME LabInv
  PROVE  WorkIsShared
<1>1. IsSoundSchedule(lab) BY DEF LabInv
<1>2. lab.started /\ lab.queue # {} =>
        \A w \in Hands(lab) : Cardinality(lab.inFlight[w]) = WorkerSlots[w]
  BY <1>1 DEF IsSoundSchedule, HandsAreFull, FullHand
<1>3. ASSUME NEW w \in Workers PROVE Cardinality(sessions[w].running) <= WorkerSlots[w]
  <2>1. sessions[w].running \subseteq lab.inFlight[w] /\ WorkerSlots[w] \in Nat
    BY LabAssumption DEF LabInv, PipeIsSound
  <2>2. IsFiniteSet(lab.inFlight[w])
    BY <1>1, LabAssumption, FS_Subset DEF IsSoundSchedule, Schedulers
  <2>3. Cardinality(lab.inFlight[w]) <= WorkerSlots[w]
    BY <1>1 DEF IsSoundSchedule, SlotsAreKept
  <2>4. /\ Cardinality(sessions[w].running) <= Cardinality(lab.inFlight[w])
        /\ Cardinality(sessions[w].running) \in Nat /\ Cardinality(lab.inFlight[w]) \in Nat
    BY <2>1, <2>2, FS_Subset, FS_CardinalityType
  <2> QED BY <2>1, <2>3, <2>4
<1>4. ASSUME NEW j \in LabJobs
      PROVE  Cardinality({w \in Workers : j \in lab.inFlight[w]}) + (IF j \in lab.queue THEN 1 ELSE 0) <= 1
  <2> DEFINE S == {w \in Workers : j \in lab.inFlight[w]}
  <2>1. \A v, w \in S : v = w /\ j \notin lab.queue
    BY <1>1 DEF IsSoundSchedule, FilesAreOnce
  <2>2. CASE S = {}
    <3>1. Cardinality(S) = 0 BY <2>2, FS_EmptySet
    <3> QED BY <3>1
  <2>3. CASE S # {}
    <3>1. PICK w : w \in S
      BY <2>3
    <3>2. S = {w} /\ j \notin lab.queue BY <2>1, <3>1
    <3> HIDE DEF S
    <3>3. Cardinality(S) = 1 BY <3>2, FS_Singleton
    <3> QED BY <3>2, <3>3 DEF S
  <2> QED BY <2>2, <2>3
<1> QED BY <1>2, <1>3, <1>4 DEF WorkIsShared

(* The verdict, whichever way the run went. *)
LEMMA HonestVerdict ==
  ASSUME LabInv
  PROVE  VerdictIsHonest
BY GreenMeansPassed, PassedMeansGreen DEF VerdictIsHonest, IsCalm, NoErrors

(* The inductive invariant of the lab suite: the scheduler is sound, a     *)
(* file is at one place of its session's pipe and runs once there, what is *)
(* told and noted has happened, and a run in which nothing breaks ends     *)
(* only when nothing is left.                                              *)
THEOREM LabInvariance == LabSpec => []LabInv
BY LabAlways, PTL DEF LabSpec

(* The lab's invariant contains its types. *)
LEMMA LabTypes == LabInv => LabTypeOK
BY DEF LabInv, LabTyped, IsSoundSchedule, Schedulers, LabTypeOK

(* The scheduler's state and the start timer stay within their types. *)
THEOREM LabTypeCorrect == LabSpec => []LabTypeOK
BY LabInvariance, LabTypes, PTL

(* A green verdict means that every file passed somewhere, a run in which  *)
(* nothing broke and all passed is green, and no file is at two workers or *)
(* waits beside an idle one: for any workers, slots, files and outcomes,   *)
(* and however many sessions break (runSessions, aggregate).               *)
THEOREM VerdictsAreEarned == LabSpec => [](VerdictIsHonest /\ WorkIsShared)
<1>1. LabInv => VerdictIsHonest /\ WorkIsShared BY HonestVerdict, SharedWork
<1> QED BY <1>1, LabInvariance, PTL

----------------------------------------
(* Conditions.  What the stacks are made of. *)
Controls ==
  {Running, Answering, Failing}
    \cup [what : {"return", "resume", "nonlocal"}, target : Nat]
CodeFrames == [type : {"method", "block"}, id : Nat, home : Nat, auth : Authorities]
OnFrames == [type : {"on"}, id : Nat, home : Nat, auth : Authorities]
ProtectFrames ==
  [type : {"protect"}, id : Nat, home : Nat, auth : Authorities, kind : {"ensure", "ifCurtailed"},
   phase : {"protected", "cleanup"}, primary : Controls \ {Running}]
SignalFrames == [type : {"signal"}, id : Nat, home : Nat, auth : Authorities, scope : Nat]
StackFrames == CodeFrames \cup OnFrames \cup ProtectFrames \cup SignalFrames

ScopeRecords ==
  [id : Nat, kind : {"handler", "ensure", "ifCurtailed"},
   class : Classes \cup {"ensure", "ifCurtailed"}, active : BOOLEAN, home : Nat,
   auth : Authorities]
OccurrenceRecords == [id : Nat, cond : Signals, scope : Nat]
ProtectionRecords ==
  [kind : {"ensure", "ifCurtailed"}, began : BOOLEAN, curtailed : BOOLEAN, cleaned : Nat]

(* What follows speaks of any stack st and what goes with it, so that a    *)
(* step can be taken apart into the frames it takes off and puts on.       *)
(* Every activation but a Block has an id, later than those below it, and  *)
(* the home of code that was entered.                                      *)
HasId(f) == f.type # "block"
IdsGrow(st, hm, mn) ==
  /\ \A i \in DOMAIN st :
       /\ HasId(st[i]) => st[i].id \in 1..mn
       /\ st[i].type = "method" => st[i].home = st[i].id
       /\ st[i].home \in DOMAIN hm
  /\ \A i, j \in DOMAIN st :
       i < j /\ HasId(st[i]) /\ HasId(st[j]) => st[i].id < st[j].id

(* A method's frame is live as long as it is on the stack. *)
HomesFit(hm, st) ==
  \A h \in DOMAIN hm :
    hm[h] = "live" <=> \E i \in DOMAIN st : st[i].type = "method" /\ st[i].id = h

(* The runtime's entries, in the order of their ids, each with what its    *)
(* activation has.                                                         *)
IsScopeOf(s, f) ==
  /\ HoldsScope(f) /\ f.id = s.id /\ f.home = s.home /\ f.auth = s.auth
  /\ s.kind = "handler" <=> f.type = "on"
ScopesFit(sc, st) ==
  /\ \A m, n \in DOMAIN sc : m < n => sc[m].id < sc[n].id
  /\ \A m \in DOMAIN sc : \E i \in DOMAIN st : IsScopeOf(sc[m], st[i])
  /\ \A i \in DOMAIN st : HoldsScope(st[i]) => \E m \in DOMAIN sc : sc[m].id = st[i].id

IsOccurrenceOf(o, f) == f.type = "signal" /\ f.id = o.id /\ f.scope = o.scope
OccurrencesFit(oc, st) ==
  /\ \A m, n \in DOMAIN oc : m < n => oc[m].id < oc[n].id
  /\ \A m \in DOMAIN oc : \E i \in DOMAIN st : IsOccurrenceOf(oc[m], st[i])
  /\ \A i \in DOMAIN st : st[i].type = "signal" => \E m \in DOMAIN oc : oc[m].id = st[i].id

(* A handler is disabled exactly while a signal that it handles is on the  *)
(* stack, above its on:do:, and handles one at a time.                     *)
SignalsFit(sc, st) ==
  /\ \A m \in DOMAIN sc :
       sc[m].active <=> ~\E i \in DOMAIN st : st[i].type = "signal" /\ st[i].scope = sc[m].id
  /\ \A i \in DOMAIN st : st[i].type = "signal" =>
       \E j \in 1..(i - 1) :
         /\ st[j].type = "on" /\ st[j].id = st[i].scope
         /\ i < Len(st) => st[i + 1].auth = st[j].auth
  /\ \A i, j \in DOMAIN st :
       st[i].type = "signal" /\ st[j].type = "signal" /\ st[i].scope = st[j].scope => i = j

(* The record of a protection whose Block still runs, and what the others  *)
(* have run.                                                               *)
Protects(f, id) == f.id = id /\ f.type = "protect" /\ f.phase = "protected"
ProtectionsFit(pr, st) ==
  /\ \A i \in DOMAIN st : st[i].type = "protect" =>
       /\ st[i].id \in DOMAIN pr
       /\ pr[st[i].id].kind = st[i].kind
       /\ st[i].phase = "protected" =>
            /\ ~pr[st[i].id].curtailed
            /\ pr[st[i].id].began <=> i < MaxDepth
  /\ \A id \in DOMAIN pr :
       pr[id].cleaned = IF /\ pr[id].began /\ ~\E i \in DOMAIN st : Protects(st[i], id)
                           /\ pr[id].kind = "ensure" \/ pr[id].curtailed
                        THEN 1 ELSE 0

(* A transfer lands among the first n of a stack. *)
LandsIn(m, st, n) ==
  m.what \in {"run", "value", "error"} \/ \E i \in 1..n : Receives(st[i], m)
CleanupsLand(st) ==
  \A i \in DOMAIN st : st[i].type = "protect" => LandsIn(st[i].primary, st, i - 1)

Typed(st, sc, oc, hm, pr, mn) ==
  /\ st \in Seq(StackFrames)
  /\ sc \in Seq(ScopeRecords) /\ oc \in Seq(OccurrenceRecords)
  /\ mn \in Nat \ {0}
  /\ hm \in [DOMAIN hm -> {"live", "dead"}] /\ DOMAIN hm \subseteq 1..mn
  /\ pr \in [DOMAIN pr -> ProtectionRecords] /\ DOMAIN pr \subseteq 1..mn

Consistent(st, sc, oc, hm, pr, mn) ==
  /\ Typed(st, sc, oc, hm, pr, mn) /\ IdsGrow(st, hm, mn) /\ HomesFit(hm, st)
  /\ ScopesFit(sc, st) /\ OccurrencesFit(oc, st) /\ SignalsFit(sc, st)
  /\ ProtectionsFit(pr, st) /\ CleanupsLand(st)

CodeRuns == mode = Running /\ stack # <<>> => IsCode(TopActivation)

ConditionsInv ==
  /\ Consistent(stack, scopes, occurrences, homes, protections, minted)
  /\ Depth <= MaxDepth
  /\ mode \in Controls /\ LandsIn(mode, stack, Depth) /\ CodeRuns

----------------------------------------
(* up is low with the frame f on top. *)
Pushes(low, f, up) ==
  /\ Len(low) \in Nat /\ DOMAIN low = 1..Len(low)
  /\ Len(up) = Len(low) + 1 /\ DOMAIN up = 1..Len(up)
  /\ up[Len(up)] = f /\ \A i \in DOMAIN low : up[i] = low[i]

(* Putting one on. *)
LEMMA AppendPushes ==
  ASSUME NEW S, NEW low \in Seq(S), NEW f \in S
  PROVE  Append(low, f) \in Seq(S) /\ Pushes(low, f, Append(low, f))
BY DEF Pushes

(* Taking one off. *)
LEMMA FrontPushes ==
  ASSUME NEW S, NEW up \in Seq(S), up # <<>>
  PROVE  /\ Front(up) \in Seq(S) /\ Last(up) \in S /\ Last(up) = up[Len(up)]
         /\ Len(up) \in Nat \ {0} /\ Pushes(Front(up), Last(up), up)
<1>1. Len(up) \in Nat \ {0} /\ DOMAIN up = 1..Len(up) BY EmptySeq
<1>2. /\ Front(up) \in Seq(S) /\ Len(Front(up)) = Len(up) - 1
      /\ \A i \in 1..(Len(up) - 1) : Front(up)[i] = up[i]
  BY <1>1 DEF Front
<1>3. Last(up) = up[Len(up)] BY DEF Last
<1>4. DOMAIN Front(up) = 1..(Len(up) - 1) BY <1>1, <1>2
<1>5. QED BY <1>1, <1>2, <1>3, <1>4 DEF Pushes

(* What a frame has. *)
LEMMA FrameFields ==
  ASSUME NEW f \in StackFrames
  PROVE  /\ f.id \in Nat /\ f.home \in Nat /\ f.auth \in Authorities
         /\ f.type \in {"method", "block", "on", "protect", "signal"}
         /\ f.type = "protect" => /\ f.kind \in {"ensure", "ifCurtailed"}
                                  /\ f.phase \in {"protected", "cleanup"}
                                  /\ f.primary \in Controls /\ f.primary # Running
         /\ f.type = "signal" => f.scope \in Nat
BY DEF StackFrames, CodeFrames, OnFrames, ProtectFrames, SignalFrames

----------------------------------------
(* Ids. *)
Above(low, f) == HasId(f) => \A i \in DOMAIN low : HasId(low[i]) => low[i].id < f.id

(* A frame with a later id goes on. *)
LEMMA IdsPushed ==
  ASSUME NEW low, NEW f, NEW up, Pushes(low, f, up), NEW hm, NEW nm, NEW mn \in Nat, NEW nn \in Nat,
         IdsGrow(low, hm, mn), mn <= nn, DOMAIN hm \subseteq DOMAIN nm, Above(low, f),
         HasId(f) => f.id \in 1..nn, f.type = "method" => f.home = f.id, f.home \in DOMAIN nm
  PROVE  IdsGrow(up, nm, nn)
BY DEF IdsGrow, Pushes, Above

(* One is taken off. *)
LEMMA IdsPopped ==
  ASSUME NEW low, NEW f, NEW up, Pushes(low, f, up), NEW hm, NEW nm, NEW mn,
         IdsGrow(up, hm, mn), DOMAIN hm = DOMAIN nm
  PROVE  IdsGrow(low, nm, mn) /\ Above(low, f)
BY DEF IdsGrow, Pushes, Above

(* A new id is above all. *)
LEMMA NewIsAbove ==
  ASSUME NEW st, NEW hm, NEW mn \in Nat, IdsGrow(st, hm, mn), NEW f, f.id = mn + 1
  PROVE  Above(st, f)
BY DEF IdsGrow, Above

----------------------------------------
(* Homes. *)
LEMMA HomesStay ==
  ASSUME NEW low, NEW f, NEW up, Pushes(low, f, up), NEW hm, f.type # "method"
  PROVE  HomesFit(hm, low) <=> HomesFit(hm, up)
BY DEF HomesFit, Pushes

(* A method is entered. *)
LEMMA HomesPushed ==
  ASSUME NEW low, NEW f, NEW up, Pushes(low, f, up), NEW hm, f.type = "method",
         HomesFit(hm, low)
  PROVE  HomesFit(With(hm, f.id, "live"), up)
BY DEF HomesFit, Pushes, With

(* A method is left. *)
LEMMA HomesPopped ==
  ASSUME NEW low, NEW f, NEW up, Pushes(low, f, up), NEW hm, f.type = "method",
         HomesFit(hm, up), Above(low, f), f.id \in Nat
  PROVE  HomesFit([hm EXCEPT ![f.id] = "dead"], low)
<1> DEFINE nm == [hm EXCEPT ![f.id] = "dead"]
<1>1. DOMAIN nm = DOMAIN hm /\ \A h \in DOMAIN hm : nm[h] = IF h = f.id THEN "dead" ELSE hm[h]
  OBVIOUS
<1>2. \A i \in DOMAIN low : low[i].type = "method" => low[i].id < f.id
  BY DEF Above, HasId
<1>3. \A i \in DOMAIN low : low[i].type = "method" => low[i].id # f.id BY <1>2
<1> HIDE DEF nm
<1>4. ASSUME NEW h \in DOMAIN hm
      PROVE  nm[h] = "live" <=> \E i \in DOMAIN low : low[i].type = "method" /\ low[i].id = h
  <2>1. hm[h] = "live" <=> \E i \in DOMAIN up : up[i].type = "method" /\ up[i].id = h
    BY <1>4 DEF HomesFit
  <2>2. CASE h = f.id
    BY <1>1, <1>3, <2>2
  <2>3. CASE h # f.id
    BY <1>1, <2>1, <2>3 DEF Pushes
  <2>4. QED BY <2>2, <2>3
<1>5. HomesFit(nm, low) BY <1>1, <1>4 DEF HomesFit
<1>6. QED BY <1>5 DEF nm

----------------------------------------
(* Scopes. *)
LEMMA ScopesStay ==
  ASSUME NEW low, NEW f, NEW up, Pushes(low, f, up), NEW sc, ~HoldsScope(f)
  PROVE  ScopesFit(sc, low) <=> ScopesFit(sc, up)
<1>1. DOMAIN low \subseteq DOMAIN up /\ \A i \in DOMAIN low : up[i] = low[i]
  BY DEF Pushes
<1>2. \A i \in DOMAIN up : i \in DOMAIN low \/ ~HoldsScope(up[i]) BY DEF Pushes
<1>3. \A s : (\E i \in DOMAIN low : IsScopeOf(s, low[i]))
             <=> \E i \in DOMAIN up : IsScopeOf(s, up[i])
  BY <1>1, <1>2 DEF IsScopeOf
<1>4. QED BY <1>1, <1>2, <1>3 DEF ScopesFit

(* Disabling and enabling changes nothing but that. *)
LEMMA ScopesSet ==
  ASSUME NEW st, NEW sc, NEW ns, ScopesFit(sc, st), DOMAIN ns = DOMAIN sc,
         \A m \in DOMAIN sc : /\ ns[m].id = sc[m].id /\ ns[m].home = sc[m].home
                              /\ ns[m].auth = sc[m].auth /\ ns[m].kind = sc[m].kind
  PROVE  ScopesFit(ns, st)
BY DEF ScopesFit, IsScopeOf

(* An activation that has an id holds a scope. *)
LEMMA HoldersHaveIds ==
  ASSUME NEW f, HoldsScope(f)
  PROVE  HasId(f)
BY DEF HoldsScope, HasId

(* A scope is pushed with its activation. *)
LEMMA ScopesPushed ==
  ASSUME NEW low, NEW f, NEW up, Pushes(low, f, up), NEW sc, NEW s, NEW ns, Pushes(sc, s, ns),
         ScopesFit(sc, low), IsScopeOf(s, f), Above(low, f)
  PROVE  ScopesFit(ns, up)
<1>1. HoldsScope(f) /\ HasId(f) /\ s.id = f.id BY HoldersHaveIds DEF IsScopeOf
<1>2. \A m \in DOMAIN sc : sc[m].id < s.id
  BY <1>1, HoldersHaveIds DEF ScopesFit, IsScopeOf, Above
<1>3. \A m, n \in DOMAIN ns : m < n => ns[m].id < ns[n].id
  BY <1>2 DEF ScopesFit, Pushes
<1>4. \A m \in DOMAIN ns : \E i \in DOMAIN up : IsScopeOf(ns[m], up[i])
  <2>1. \A m \in DOMAIN sc : \E i \in DOMAIN up : IsScopeOf(ns[m], up[i])
    BY DEF ScopesFit, Pushes
  <2>2. IsScopeOf(ns[Len(ns)], up[Len(up)]) /\ Len(up) \in DOMAIN up
    BY DEF Pushes
  <2>3. \A m \in DOMAIN ns : m \in DOMAIN sc \/ m = Len(ns) BY DEF Pushes
  <2>4. QED BY <2>1, <2>2, <2>3
<1>5. ASSUME NEW i \in DOMAIN up, HoldsScope(up[i])
      PROVE  \E m \in DOMAIN ns : ns[m].id = up[i].id
  <2>1. CASE i \in DOMAIN low
    <3>1. up[i] = low[i] BY <2>1 DEF Pushes
    <3>2. PICK m \in DOMAIN sc : sc[m].id = low[i].id
      BY <1>5, <2>1, <3>1 DEF ScopesFit
    <3>3. m \in DOMAIN ns /\ ns[m] = sc[m] BY <3>2 DEF Pushes
    <3>4. QED BY <3>1, <3>2, <3>3
  <2>2. CASE i = Len(up)
    <3>1. up[i] = f /\ Len(ns) \in DOMAIN ns /\ ns[Len(ns)] = s
      BY <2>2 DEF Pushes
    <3>2. QED BY <1>1, <3>1
  <2>3. QED BY <2>1, <2>2 DEF Pushes
<1>6. QED BY <1>3, <1>4, <1>5 DEF ScopesFit

(* The scope of the top activation is the innermost one. *)
LEMMA TopScope ==
  ASSUME NEW low, NEW f, NEW up, Pushes(low, f, up), NEW n \in Nat, NEW sc, DOMAIN sc = 1..n,
         f.id \in Nat, \A m \in 1..n : sc[m].id \in Nat, ScopesFit(sc, up), HoldsScope(f), Above(low, f)
  PROVE  /\ n > 0 /\ sc[n].id = f.id
         /\ \A m \in 1..n : sc[m].id = f.id => m = n
<1>0. Len(up) \in DOMAIN up /\ up[Len(up)] = f BY DEF Pushes
<1>1. PICK m \in 1..n : sc[m].id = f.id
  <2>1. \E m \in DOMAIN sc : sc[m].id = up[Len(up)].id BY <1>0 DEF ScopesFit
  <2>2. QED BY <1>0, <2>1
<1>2. ASSUME NEW k \in 1..n PROVE sc[k].id < f.id \/ sc[k].id = f.id
  <2>1. PICK i \in DOMAIN up : IsScopeOf(sc[k], up[i])
    BY DEF ScopesFit
  <2>2. HasId(up[i]) /\ up[i].id = sc[k].id
    BY <2>1, HoldersHaveIds DEF IsScopeOf
  <2>3. CASE i \in DOMAIN low
    <3>1. HasId(f) /\ up[i] = low[i] BY <2>3, HoldersHaveIds DEF Pushes
    <3>2. QED BY <2>2, <2>3, <3>1 DEF Above
  <2>4. CASE i = Len(up)
    BY <1>0, <2>2, <2>4
  <2>5. QED BY <2>3, <2>4 DEF Pushes
<1>3. \A k \in 1..n : k > m => FALSE BY <1>1, <1>2 DEF ScopesFit
<1>4. \A k \in 1..n : k < m => sc[k].id # f.id BY <1>1 DEF ScopesFit
<1>5. m = n BY <1>3
<1>6. QED BY <1>1, <1>4, <1>5

(* A scope goes with its activation. *)
LEMMA ScopesPopped ==
  ASSUME NEW low, NEW f, NEW up, Pushes(low, f, up), NEW sc, NEW s, NEW ns, Pushes(ns, s, sc),
         f.id \in Nat, \A m \in DOMAIN sc : sc[m].id \in Nat,
         ScopesFit(sc, up), HoldsScope(f), Above(low, f)
  PROVE  ScopesFit(ns, low) /\ s.id = f.id
<1>1. /\ Len(sc) \in Nat /\ DOMAIN sc = 1..Len(sc) /\ Len(sc) = Len(ns) + 1
      /\ DOMAIN ns = 1..Len(ns) /\ Len(ns) \in Nat
      /\ sc[Len(sc)] = s /\ \A m \in DOMAIN ns : ns[m] = sc[m]
  BY DEF Pushes
<1>2. s.id = f.id /\ \A m \in DOMAIN sc : sc[m].id = f.id => m = Len(sc)
  BY <1>1, TopScope
<1>3. ASSUME NEW m \in DOMAIN ns PROVE \E i \in DOMAIN low : IsScopeOf(ns[m], low[i])
  <2>1. PICK i \in DOMAIN up : IsScopeOf(sc[m], up[i])
    BY <1>1 DEF ScopesFit
  <2>2. sc[m].id # f.id BY <1>1, <1>2
  <2>3. i \in DOMAIN low /\ up[i] = low[i] BY <2>1, <2>2 DEF Pushes, IsScopeOf
  <2>4. QED BY <1>1, <2>1, <2>3
<1>4. ASSUME NEW i \in DOMAIN low, HoldsScope(low[i])
      PROVE  \E m \in DOMAIN ns : ns[m].id = low[i].id
  <2>1. PICK m \in DOMAIN sc : sc[m].id = low[i].id
    BY <1>4 DEF ScopesFit, Pushes
  <2>2. low[i].id < f.id BY <1>4, HoldersHaveIds DEF Above
  <2>3. m # Len(sc) BY <1>1, <1>2, <2>1, <2>2
  <2>4. QED BY <1>1, <2>1, <2>3
<1>5. \A m, n \in DOMAIN ns : m < n => ns[m].id < ns[n].id BY <1>1 DEF ScopesFit
<1>6. QED BY <1>2, <1>3, <1>4, <1>5 DEF ScopesFit

----------------------------------------
(* Occurrences. *)
LEMMA OccurrencesStay ==
  ASSUME NEW low, NEW f, NEW up, Pushes(low, f, up), NEW oc, f.type # "signal"
  PROVE  OccurrencesFit(oc, low) <=> OccurrencesFit(oc, up)
<1>1. /\ \A i \in DOMAIN low : i \in DOMAIN up /\ up[i] = low[i]
      /\ \A i \in DOMAIN up : up[i] # f => i \in DOMAIN low
  BY DEF Pushes
<1>2. \A o : ~IsOccurrenceOf(o, f) BY DEF IsOccurrenceOf
<1>3. \A m \in DOMAIN oc : (\E i \in DOMAIN low : IsOccurrenceOf(oc[m], low[i]))
                             <=> (\E i \in DOMAIN up : IsOccurrenceOf(oc[m], up[i]))
  BY <1>1, <1>2
<1>4. (\A i \in DOMAIN low : low[i].type = "signal" => \E m \in DOMAIN oc : oc[m].id = low[i].id)
        <=> (\A i \in DOMAIN up : up[i].type = "signal" => \E m \in DOMAIN oc : oc[m].id = up[i].id)
  BY <1>1
<1>5. QED BY <1>3, <1>4 DEF OccurrencesFit

(* An occurrence is pushed with its activation. *)
LEMMA OccurrencesPushed ==
  ASSUME NEW low, NEW f, NEW up, Pushes(low, f, up), NEW oc, NEW o, NEW no, Pushes(oc, o, no),
         OccurrencesFit(oc, low), IsOccurrenceOf(o, f), Above(low, f)
  PROVE  OccurrencesFit(no, up)
<1>1. \A m \in DOMAIN oc : oc[m].id < o.id
  BY DEF OccurrencesFit, IsOccurrenceOf, Above, HasId
<1>2. \A m, n \in DOMAIN no : m < n => no[m].id < no[n].id
  BY <1>1 DEF OccurrencesFit, Pushes
<1>3. \A m \in DOMAIN no : \E i \in DOMAIN up : IsOccurrenceOf(no[m], up[i])
  <2>1. \A m \in DOMAIN oc : \E i \in DOMAIN up : IsOccurrenceOf(no[m], up[i])
    BY DEF OccurrencesFit, Pushes
  <2>2. IsOccurrenceOf(no[Len(no)], up[Len(up)]) /\ Len(up) \in DOMAIN up
    BY DEF Pushes
  <2>3. \A m \in DOMAIN no : m \in DOMAIN oc \/ m = Len(no) BY DEF Pushes
  <2>4. QED BY <2>1, <2>2, <2>3
<1>4. ASSUME NEW i \in DOMAIN up, up[i].type = "signal"
      PROVE  \E m \in DOMAIN no : no[m].id = up[i].id
  <2>1. CASE i \in DOMAIN low
    BY <1>4, <2>1 DEF OccurrencesFit, Pushes
  <2>2. CASE i = Len(up)
    BY <2>2 DEF Pushes, IsOccurrenceOf
  <2>3. QED BY <2>1, <2>2 DEF Pushes
<1>5. QED BY <1>2, <1>3, <1>4 DEF OccurrencesFit

(* An occurrence goes with its activation: it is the newest one. *)
LEMMA OccurrencesPopped ==
  ASSUME NEW low, NEW f, NEW up, Pushes(low, f, up), NEW oc, NEW n \in Nat, DOMAIN oc = 1..n,
         f.id \in Nat, \A m \in DOMAIN oc : oc[m].id \in Nat,
         OccurrencesFit(oc, up), f.type = "signal", Above(low, f)
  PROVE  /\ n > 0 /\ oc[n].id = f.id /\ \A m \in DOMAIN oc : oc[m].id = f.id => m = n
         /\ \A no : DOMAIN no = 1..(n - 1) /\ (\A m \in DOMAIN no : no[m] = oc[m])
              => OccurrencesFit(no, low)
<1>1. PICK p \in 1..n : oc[p].id = f.id
  BY DEF OccurrencesFit, Pushes
<1>2. ASSUME NEW k \in 1..n
      PROVE  oc[k].id < f.id \/ oc[k].id = f.id
  <2>1. PICK i \in DOMAIN up : IsOccurrenceOf(oc[k], up[i])
    BY DEF OccurrencesFit
  <2>2. CASE i \in DOMAIN low
    <3>1. up[i] = low[i] /\ HasId(low[i]) /\ low[i].id = oc[k].id /\ HasId(f)
      BY <2>1, <2>2 DEF Pushes, IsOccurrenceOf, HasId
    <3>2. QED BY <2>2, <3>1 DEF Above
  <2>3. CASE i = Len(up)
    BY <2>1, <2>3 DEF Pushes, IsOccurrenceOf
  <2>4. QED BY <2>2, <2>3 DEF Pushes
<1>3. p = n /\ \A m \in 1..n : oc[m].id = f.id => m = n
  <2>1. \A k \in 1..n : k > p => FALSE BY <1>1, <1>2 DEF OccurrencesFit
  <2>2. \A k \in 1..n : k < p => oc[k].id # f.id BY <1>1 DEF OccurrencesFit
  <2>3. QED BY <2>1, <2>2
<1>4. ASSUME NEW no, DOMAIN no = 1..(n - 1), \A m \in DOMAIN no : no[m] = oc[m]
      PROVE  OccurrencesFit(no, low)
  <2>1. ASSUME NEW m \in DOMAIN no PROVE \E i \in DOMAIN low : IsOccurrenceOf(no[m], low[i])
    <3>1. PICK i \in DOMAIN up : IsOccurrenceOf(oc[m], up[i])
      BY <1>4 DEF OccurrencesFit
    <3>2. oc[m].id # f.id BY <1>3, <1>4
    <3>3. i \in DOMAIN low /\ up[i] = low[i]
      BY <3>1, <3>2 DEF Pushes, IsOccurrenceOf
    <3>4. QED BY <1>4, <3>1, <3>3
  <2>2. ASSUME NEW i \in DOMAIN low, low[i].type = "signal"
        PROVE  \E m \in DOMAIN no : no[m].id = low[i].id
    <3>1. PICK m \in DOMAIN oc : oc[m].id = low[i].id
      BY <2>2 DEF OccurrencesFit, Pushes
    <3>2. low[i].id < f.id BY <2>2 DEF Above, HasId
    <3>3. m # n BY <1>1, <1>3, <3>1, <3>2
    <3>4. QED BY <1>4, <3>1, <3>3
  <2>3. \A m, k \in DOMAIN no : m < k => no[m].id < no[k].id
    BY <1>4 DEF OccurrencesFit
  <2>4. QED BY <2>1, <2>2, <2>3 DEF OccurrencesFit
<1>5. QED BY <1>1, <1>3, <1>4

----------------------------------------
(* Signals.                                                                *)
(* What may go on a signal is code with the authority of its handler.      *)
Continues(low, f) ==
  \A i \in DOMAIN low :
    i = Len(low) /\ low[i].type = "signal" =>
      \E j \in 1..(i - 1) :
        low[j].type = "on" /\ low[j].id = low[i].scope /\ f.auth = low[j].auth

(* Each signal's on:do: is below it. *)
HandlersBelow(st) ==
  \A i \in DOMAIN st : st[i].type = "signal" =>
    \E j \in 1..(i - 1) :
      /\ st[j].type = "on" /\ st[j].id = st[i].scope
      /\ i < Len(st) => st[i + 1].auth = st[j].auth

(* A frame goes on a stack whose signals have their on:do:. *)
LEMMA HandlersStay ==
  ASSUME NEW low, NEW f, NEW up, Pushes(low, f, up), HandlersBelow(low), Continues(low, f)
  PROVE  \A i \in DOMAIN low : up[i].type = "signal" =>
           \E j \in 1..(i - 1) :
             /\ up[j].type = "on" /\ up[j].id = up[i].scope
             /\ i < Len(up) => up[i + 1].auth = up[j].auth
<1> SUFFICES ASSUME NEW i \in DOMAIN low, low[i].type = "signal"
             PROVE  \E j \in 1..(i - 1) :
                      /\ up[j].type = "on" /\ up[j].id = up[i].scope
                      /\ i < Len(up) => up[i + 1].auth = up[j].auth
  BY DEF Pushes
<1>1. CASE i = Len(low)
  <2>1. PICK j \in 1..(i - 1) :
          low[j].type = "on" /\ low[j].id = low[i].scope /\ f.auth = low[j].auth
    BY <1>1 DEF Continues
  <2>2. QED BY <1>1, <2>1 DEF Pushes
<1>2. CASE i < Len(low)
  <2>1. PICK j \in 1..(i - 1) :
          /\ low[j].type = "on" /\ low[j].id = low[i].scope
          /\ low[i + 1].auth = low[j].auth
    BY <1>2 DEF HandlersBelow
  <2>2. up[i + 1] = low[i + 1] /\ up[j] = low[j] /\ up[i] = low[i]
    BY <1>2, <2>1 DEF Pushes
  <2>3. QED BY <2>1, <2>2
<1>3. QED BY <1>1, <1>2 DEF Pushes

(* A signal's on:do: has an earlier id. *)
LEMMA SignalsAreInside ==
  ASSUME NEW st, HandlersBelow(st), NEW n \in Nat, DOMAIN st = 1..n, NEW i \in 1..n, st[i].type = "signal"
  PROVE  \E j \in DOMAIN st : HasId(st[j]) /\ st[j].id = st[i].scope
BY DEF HandlersBelow, HasId

(* The clauses about signals: of a scope, and of any two of them. *)
ActiveFits(sc, st) ==
  \A m \in DOMAIN sc :
    sc[m].active <=> ~\E i \in DOMAIN st : st[i].type = "signal" /\ st[i].scope = sc[m].id
OneSignalEach(st) ==
  \A i, j \in DOMAIN st :
    st[i].type = "signal" /\ st[j].type = "signal" /\ st[i].scope = st[j].scope => i = j

(* SignalsFit is the three of them. *)
LEMMA SignalClauses ==
  ASSUME NEW sc, NEW st
  PROVE  SignalsFit(sc, st) <=> ActiveFits(sc, st) /\ HandlersBelow(st) /\ OneSignalEach(st)
BY DEF SignalsFit, ActiveFits, HandlersBelow, OneSignalEach

(* Another frame goes on. *)
LEMMA SignalsPushedOver ==
  ASSUME NEW low, NEW f, NEW up, Pushes(low, f, up), NEW sc, SignalsFit(sc, low),
         f.type # "signal", Continues(low, f)
  PROVE  SignalsFit(sc, up)
<1>1. ActiveFits(sc, low) /\ HandlersBelow(low) /\ OneSignalEach(low)
  BY SignalClauses
<1>2. HandlersBelow(up)
  <2>1. \A i \in DOMAIN low : up[i].type = "signal" =>
          \E j \in 1..(i - 1) :
            /\ up[j].type = "on" /\ up[j].id = up[i].scope
            /\ i < Len(up) => up[i + 1].auth = up[j].auth
    BY <1>1, HandlersStay
  <2>2. \A i \in DOMAIN up : up[i].type = "signal" => i \in DOMAIN low
    BY DEF Pushes
  <2>3. QED BY <2>1, <2>2 DEF HandlersBelow
<1>3. \A i \in DOMAIN up : up[i].type = "signal" => i \in DOMAIN low /\ up[i] = low[i]
  BY DEF Pushes
<1>4. \A i \in DOMAIN low : i \in DOMAIN up /\ up[i] = low[i] BY DEF Pushes
<1>5. ActiveFits(sc, up) BY <1>1, <1>3, <1>4 DEF ActiveFits
<1>6. OneSignalEach(up) BY <1>1, <1>3 DEF OneSignalEach
<1>7. QED BY <1>2, <1>5, <1>6, SignalClauses

(* A new scope is active. *)
LEMMA SignalsScoped ==
  ASSUME NEW low, NEW f, Above(low, f), HasId(f), NEW n \in Nat, DOMAIN low = 1..n, f.id \in Nat,
         NEW sc, NEW s, NEW ns, Pushes(sc, s, ns), SignalsFit(sc, low),
         s.id = f.id, s.active = TRUE
  PROVE  SignalsFit(ns, low)
<1>1. ActiveFits(sc, low) /\ HandlersBelow(low) /\ OneSignalEach(low)
  BY SignalClauses
<1>2. ASSUME NEW i \in DOMAIN low, low[i].type = "signal" PROVE low[i].scope # f.id
  <2>1. PICK j \in DOMAIN low : HasId(low[j]) /\ low[j].id = low[i].scope
    BY <1>1, <1>2, SignalsAreInside
  <2>2. low[j].id < f.id BY <2>1 DEF Above
  <2>3. QED BY <2>1, <2>2
<1>3. \A m \in DOMAIN ns : (m \in DOMAIN sc /\ ns[m] = sc[m]) \/ ns[m] = s
  BY DEF Pushes
<1>4. ActiveFits(ns, low) BY <1>1, <1>2, <1>3 DEF ActiveFits
<1>5. QED BY <1>1, <1>4, SignalClauses

(* A signal is begun, and its handler disabled. *)
LEMMA SignalsPushed ==
  ASSUME NEW low, NEW f, NEW up, Pushes(low, f, up), NEW sc, NEW ns, SignalsFit(sc, low),
         f.type = "signal", Continues(low, f),
         \E j \in DOMAIN low : low[j].type = "on" /\ low[j].id = f.scope,
         \E m \in DOMAIN sc : sc[m].id = f.scope /\ sc[m].active = TRUE,
         DOMAIN ns = DOMAIN sc,
         \A m \in DOMAIN sc : /\ ns[m].id = sc[m].id
                              /\ ns[m].active = IF sc[m].id = f.scope THEN FALSE ELSE sc[m].active
  PROVE  SignalsFit(ns, up)
<1>1. ActiveFits(sc, low) /\ HandlersBelow(low) /\ OneSignalEach(low)
  BY SignalClauses
<1>2. /\ Len(up) \in DOMAIN up /\ up[Len(up)] = f /\ Len(up) = Len(low) + 1 /\ Len(low) \in Nat
      /\ DOMAIN low = 1..Len(low) /\ DOMAIN up = 1..Len(up)
      /\ \A i \in DOMAIN low : up[i] = low[i]
  BY DEF Pushes
<1>3. \A i \in DOMAIN low : low[i].type = "signal" => low[i].scope # f.scope
  BY <1>1 DEF ActiveFits
<1>4. \A i \in DOMAIN up : (i \in DOMAIN low /\ up[i] = low[i]) \/ (i = Len(up) /\ up[i] = f)
  BY <1>2
<1>5. \A i \in DOMAIN low : i \in DOMAIN up BY <1>2
<1>6. OneSignalEach(up) BY <1>1, <1>3, <1>4 DEF OneSignalEach
<1>7. ASSUME NEW m \in DOMAIN ns
      PROVE  ns[m].active
               <=> ~\E i \in DOMAIN up : up[i].type = "signal" /\ up[i].scope = ns[m].id
  <2>1. CASE sc[m].id = f.scope
    BY <1>2, <2>1
  <2>2. CASE sc[m].id # f.scope
    <3>1. (\E i \in DOMAIN up : up[i].type = "signal" /\ up[i].scope = sc[m].id)
            <=> (\E i \in DOMAIN low : low[i].type = "signal" /\ low[i].scope = sc[m].id)
      BY <1>2, <1>4, <1>5, <2>2
    <3>2. ns[m].active = sc[m].active /\ ns[m].id = sc[m].id BY <2>2
    <3>3. QED BY <1>1, <3>1, <3>2 DEF ActiveFits
  <2>3. QED BY <2>1, <2>2
<1>8. HandlersBelow(up)
  <2>1. PICK k \in DOMAIN low : low[k].type = "on" /\ low[k].id = f.scope
    OBVIOUS
  <2>2. k \in 1..(Len(up) - 1) /\ up[k] = low[k] BY <1>2
  <2>3. ~(Len(up) < Len(up)) BY <1>2
  <2>4. ASSUME NEW i \in DOMAIN up, up[i].type = "signal"
        PROVE  \E j \in 1..(i - 1) :
                 /\ up[j].type = "on" /\ up[j].id = up[i].scope
                 /\ i < Len(up) => up[i + 1].auth = up[j].auth
    <3>1. CASE i \in DOMAIN low
      BY <1>1, <2>4, <3>1, HandlersStay
    <3>2. CASE i = Len(up)
      BY <1>2, <2>1, <2>2, <2>3, <3>2
    <3>3. QED BY <1>4, <3>1, <3>2
  <2>5. QED BY <2>4 DEF HandlersBelow
<1>9. QED BY <1>6, <1>7, <1>8, SignalClauses DEF ActiveFits

(* A frame that is no signal is taken off, with its scope or without. *)
LEMMA SignalsPoppedOver ==
  ASSUME NEW low, NEW f, NEW up, Pushes(low, f, up), NEW sc, NEW ns, SignalsFit(sc, up),
         f.type # "signal", DOMAIN ns \subseteq DOMAIN sc, \A m \in DOMAIN ns : ns[m] = sc[m]
  PROVE  SignalsFit(ns, low)
<1>1. ActiveFits(sc, up) /\ HandlersBelow(up) /\ OneSignalEach(up)
  BY SignalClauses
<1>2. /\ \A i \in DOMAIN low : i \in DOMAIN up /\ up[i] = low[i]
      /\ \A i \in DOMAIN up : up[i].type = "signal" => i \in DOMAIN low
  BY DEF Pushes
<1>3. ActiveFits(ns, low) /\ OneSignalEach(low)
  BY <1>1, <1>2 DEF ActiveFits, OneSignalEach
<1>4. HandlersBelow(low) BY <1>1 DEF HandlersBelow, Pushes
<1>5. QED BY <1>3, <1>4, SignalClauses

(* A signal ends, and its handler is enabled again. *)
LEMMA SignalsPopped ==
  ASSUME NEW low, NEW f, NEW up, Pushes(low, f, up), NEW sc, NEW ns, SignalsFit(sc, up),
         f.type = "signal", DOMAIN ns = DOMAIN sc,
         \A m \in DOMAIN sc : /\ ns[m].id = sc[m].id
                              /\ ns[m].active = IF sc[m].id = f.scope THEN TRUE ELSE sc[m].active
  PROVE  SignalsFit(ns, low)
<1>1. ActiveFits(sc, up) /\ HandlersBelow(up) /\ OneSignalEach(up)
  BY SignalClauses
<1>2. /\ \A i \in DOMAIN low : i \in DOMAIN up /\ up[i] = low[i] /\ i # Len(up)
      /\ Len(up) \in DOMAIN up /\ up[Len(up)] = f
      /\ \A i \in DOMAIN up : i \in DOMAIN low \/ i = Len(up)
  BY DEF Pushes
<1>3. \A i \in DOMAIN low : low[i].type = "signal" => low[i].scope # f.scope
  BY <1>1, <1>2 DEF OneSignalEach
<1>4. OneSignalEach(low) BY <1>1, <1>2 DEF OneSignalEach
<1>5. ASSUME NEW m \in DOMAIN ns
      PROVE  ns[m].active
               <=> ~\E i \in DOMAIN low : low[i].type = "signal" /\ low[i].scope = ns[m].id
  <2>1. CASE sc[m].id = f.scope
    BY <1>3, <2>1
  <2>2. CASE sc[m].id # f.scope
    <3>1. (\E i \in DOMAIN up : up[i].type = "signal" /\ up[i].scope = sc[m].id)
            <=> (\E i \in DOMAIN low : low[i].type = "signal" /\ low[i].scope = sc[m].id)
      BY <1>2, <2>2
    <3>2. ns[m].active = sc[m].active /\ ns[m].id = sc[m].id BY <2>2
    <3>3. QED BY <1>1, <3>1, <3>2 DEF ActiveFits
  <2>3. QED BY <2>1, <2>2
<1>6. HandlersBelow(low) BY <1>1 DEF HandlersBelow, Pushes
<1>7. QED BY <1>4, <1>5, <1>6, SignalClauses DEF ActiveFits

----------------------------------------
(* Protections.                                                            *)
(* The two clauses: of an activation's record, and of what has been run.   *)
RecordsFit(pr, st) ==
  \A i \in DOMAIN st : st[i].type = "protect" =>
    /\ st[i].id \in DOMAIN pr
    /\ pr[st[i].id].kind = st[i].kind
    /\ st[i].phase = "protected" =>
         /\ ~pr[st[i].id].curtailed
         /\ pr[st[i].id].began <=> i < MaxDepth
CountsFit(pr, st) ==
  \A id \in DOMAIN pr :
    pr[id].cleaned = IF /\ pr[id].began /\ ~\E i \in DOMAIN st : Protects(st[i], id)
                        /\ pr[id].kind = "ensure" \/ pr[id].curtailed
                     THEN 1 ELSE 0

(* ProtectionsFit is the two of them. *)
LEMMA ProtectionClauses ==
  ASSUME NEW pr, NEW st
  PROVE  ProtectionsFit(pr, st) <=> RecordsFit(pr, st) /\ CountsFit(pr, st)
BY DEF ProtectionsFit, RecordsFit, CountsFit

(* A frame whose protected Block does not run goes on or comes off. *)
LEMMA ProtectionsStay ==
  ASSUME NEW low, NEW f, NEW up, Pushes(low, f, up), NEW pr,
         f.type = "protect" =>
           /\ f.phase = "cleanup"
           /\ RecordsFit(pr, up) \/ (f.id \in DOMAIN pr /\ pr[f.id].kind = f.kind)
  PROVE  ProtectionsFit(pr, low) <=> ProtectionsFit(pr, up)
<1>1. /\ \A i \in DOMAIN low : i \in DOMAIN up /\ up[i] = low[i]
      /\ \A i \in DOMAIN up : (i \in DOMAIN low /\ up[i] = low[i]) \/ up[i] = f
  BY DEF Pushes
<1>2. \A id : ~Protects(f, id) BY DEF Protects
<1>3. \A id : (\E i \in DOMAIN low : Protects(low[i], id)) <=> (\E i \in DOMAIN up : Protects(up[i], id))
  BY <1>1, <1>2
<1>4. CountsFit(pr, low) <=> CountsFit(pr, up) BY <1>3 DEF CountsFit
<1>5. RecordsFit(pr, low) <=> RecordsFit(pr, up) BY <1>1 DEF RecordsFit
<1>6. QED BY <1>4, <1>5, ProtectionClauses

(* A protection begins: nothing with its id is on record or on the stack. *)
LEMMA ProtectionsPushed ==
  ASSUME NEW low, NEW f, NEW up, Pushes(low, f, up), NEW pr, ProtectionsFit(pr, low),
         f.type = "protect", f.phase = "protected", f.id \notin DOMAIN pr, NEW p,
         p.kind = f.kind, p.began <=> Len(up) < MaxDepth, p.curtailed = FALSE, p.cleaned = 0
  PROVE  ProtectionsFit(With(pr, f.id, p), up)
<1> DEFINE np == With(pr, f.id, p)
<1>1. /\ DOMAIN np = DOMAIN pr \cup {f.id} /\ np[f.id] = p
      /\ \A id \in DOMAIN pr : id # f.id /\ np[id] = pr[id]
  BY DEF With
<1> HIDE DEF np
<1>2. /\ \A i \in DOMAIN low : i \in DOMAIN up /\ up[i] = low[i]
      /\ \A i \in DOMAIN up : (i \in DOMAIN low /\ up[i] = low[i]) \/ (i = Len(up) /\ up[i] = f)
      /\ Len(up) \in DOMAIN up /\ up[Len(up)] = f
  BY DEF Pushes
<1>3. RecordsFit(pr, low) /\ CountsFit(pr, low) BY ProtectionClauses
<1>4. RecordsFit(np, up)
  <2> SUFFICES ASSUME NEW i \in DOMAIN up, up[i].type = "protect"
               PROVE  /\ up[i].id \in DOMAIN np
                      /\ np[up[i].id].kind = up[i].kind
                      /\ up[i].phase = "protected" =>
                           /\ ~np[up[i].id].curtailed
                           /\ np[up[i].id].began <=> i < MaxDepth
    BY DEF RecordsFit
  <2>1. CASE i \in DOMAIN low /\ up[i] = low[i]
    BY <1>1, <1>3, <2>1 DEF RecordsFit
  <2>2. CASE i = Len(up) /\ up[i] = f
    BY <1>1, <2>2
  <2>3. QED BY <1>2, <2>1, <2>2
<1>5. CountsFit(np, up)
  <2>1. \A id \in DOMAIN pr :
          (\E i \in DOMAIN low : Protects(low[i], id)) <=> (\E i \in DOMAIN up : Protects(up[i], id))
    BY <1>1, <1>2 DEF Protects
  <2>2. \E i \in DOMAIN up : Protects(up[i], f.id) BY <1>2 DEF Protects
  <2>3. QED BY <1>1, <1>3, <2>1, <2>2 DEF CountsFit
<1>6. QED BY <1>4, <1>5, ProtectionClauses DEF np

(* The top protection's Block is left: no other protects under its id. *)
LEMMA ProtectedOnce ==
  ASSUME NEW low, NEW f, NEW up, Pushes(low, f, up), NEW pr, ProtectionsFit(pr, up),
         f.type = "protect", f.phase = "protected", f.id \in Nat, Above(low, f)
  PROVE  /\ RecordsFit(pr, low) /\ f.id \in DOMAIN pr /\ pr[f.id].kind = f.kind
         /\ ~pr[f.id].curtailed /\ (pr[f.id].began <=> Len(up) < MaxDepth)
         /\ pr[f.id].cleaned = 0
         /\ \A i \in DOMAIN low : ~Protects(low[i], f.id)
         /\ \A id \in DOMAIN pr \ {f.id} :
              (\E i \in DOMAIN low : Protects(low[i], id)) <=> (\E i \in DOMAIN up : Protects(up[i], id))
<1>1. /\ \A i \in DOMAIN low : i \in DOMAIN up /\ up[i] = low[i]
      /\ \A i \in DOMAIN up : (i \in DOMAIN low /\ up[i] = low[i]) \/ (i = Len(up) /\ up[i] = f)
      /\ Len(up) \in DOMAIN up /\ up[Len(up)] = f
  BY DEF Pushes
<1>2. RecordsFit(pr, up) /\ CountsFit(pr, up) BY ProtectionClauses
<1>3. RecordsFit(pr, low) BY <1>1, <1>2 DEF RecordsFit
<1>4. /\ f.id \in DOMAIN pr /\ pr[f.id].kind = f.kind
      /\ ~pr[f.id].curtailed /\ (pr[f.id].began <=> Len(up) < MaxDepth)
  BY <1>1, <1>2 DEF RecordsFit
<1>5. pr[f.id].cleaned = 0
  <2>1. \E i \in DOMAIN up : Protects(up[i], f.id) BY <1>1 DEF Protects
  <2>2. QED BY <1>2, <1>4, <2>1 DEF CountsFit
<1>6. \A i \in DOMAIN low : ~Protects(low[i], f.id)
  <2> SUFFICES ASSUME NEW i \in DOMAIN low, Protects(low[i], f.id) PROVE FALSE
    OBVIOUS
  <2>1. low[i].id < f.id /\ low[i].id = f.id BY DEF Protects, Above, HasId
  <2>2. QED BY <2>1
<1>7. \A id \in DOMAIN pr \ {f.id} :
        (\E i \in DOMAIN low : Protects(low[i], id)) <=> (\E i \in DOMAIN up : Protects(up[i], id))
  BY <1>1 DEF Protects
<1>8. QED BY <1>3, <1>4, <1>5, <1>6, <1>7

(* An ifCurtailed: whose Block answers comes off, its cleanup not run. *)
LEMMA ProtectionsAnswered ==
  ASSUME NEW low, NEW f, NEW up, Pushes(low, f, up), NEW pr, ProtectionsFit(pr, up),
         f.type = "protect", f.phase = "protected", f.id \in Nat, Above(low, f),
         f.kind = "ifCurtailed"
  PROVE  ProtectionsFit(pr, low)
<1>1. CountsFit(pr, up) BY ProtectionClauses
<1>2. /\ RecordsFit(pr, low) /\ f.id \in DOMAIN pr /\ pr[f.id].kind = f.kind
      /\ ~pr[f.id].curtailed /\ pr[f.id].cleaned = 0
      /\ \A id \in DOMAIN pr \ {f.id} :
           (\E i \in DOMAIN low : Protects(low[i], id)) <=> (\E i \in DOMAIN up : Protects(up[i], id))
  BY ProtectedOnce
<1>3. CountsFit(pr, low) BY <1>1, <1>2 DEF CountsFit
<1>4. QED BY <1>2, <1>3, ProtectionClauses

(* Its cleanup Block is begun, at once when there is room for it. *)
LEMMA ProtectionsCleaned ==
  ASSUME NEW low, NEW f, NEW up, Pushes(low, f, up), NEW pr, ProtectionsFit(pr, up),
         f.type = "protect", f.phase = "protected", f.id \in Nat, Above(low, f),
         NEW np, DOMAIN np = DOMAIN pr, \A id \in DOMAIN pr \ {f.id} : np[id] = pr[id],
         np[f.id].kind = pr[f.id].kind, np[f.id].began = pr[f.id].began,
         np[f.id].curtailed \/ f.kind = "ensure",
         np[f.id].cleaned = pr[f.id].cleaned + IF Len(up) < MaxDepth THEN 1 ELSE 0
  PROVE  ProtectionsFit(np, low) /\ f.id \in DOMAIN np /\ np[f.id].kind = f.kind
<1>1. /\ RecordsFit(pr, low) /\ f.id \in DOMAIN pr /\ pr[f.id].kind = f.kind
      /\ ~pr[f.id].curtailed /\ (pr[f.id].began <=> Len(up) < MaxDepth)
      /\ pr[f.id].cleaned = 0
      /\ \A i \in DOMAIN low : ~Protects(low[i], f.id)
      /\ \A id \in DOMAIN pr \ {f.id} :
           (\E i \in DOMAIN low : Protects(low[i], id)) <=> (\E i \in DOMAIN up : Protects(up[i], id))
  BY ProtectedOnce
<1>2. CountsFit(pr, up) BY ProtectionClauses
<1>3. RecordsFit(np, low)
  <2> SUFFICES ASSUME NEW i \in DOMAIN low, low[i].type = "protect"
               PROVE  /\ low[i].id \in DOMAIN np
                      /\ np[low[i].id].kind = low[i].kind
                      /\ low[i].phase = "protected" =>
                           /\ ~np[low[i].id].curtailed
                           /\ np[low[i].id].began <=> i < MaxDepth
    BY DEF RecordsFit
  <2>1. low[i].id < f.id BY DEF Above, HasId
  <2>2. low[i].id # f.id BY <2>1
  <2>3. QED BY <1>1, <2>2 DEF RecordsFit
<1>4. np[f.id].cleaned = IF Len(up) < MaxDepth THEN 1 ELSE 0 BY <1>1
<1>5. CountsFit(np, low) BY <1>1, <1>2, <1>4 DEF CountsFit
<1>6. QED BY <1>1, <1>3, <1>5, ProtectionClauses

----------------------------------------
(* Transfers. *)
LEMMA LandsStay ==
  ASSUME NEW low, NEW f, NEW up, Pushes(low, f, up), NEW m, NEW n \in Nat, n <= Len(low)
  PROVE  LandsIn(m, low, n) <=> LandsIn(m, up, n)
BY DEF LandsIn, Pushes
(* A frame goes on. *)
LEMMA CleanupsPushed ==
  ASSUME NEW low, NEW f, NEW up, Pushes(low, f, up), CleanupsLand(low),
         f.type = "protect" => LandsIn(f.primary, low, Len(low))
  PROVE  CleanupsLand(up)
<1> SUFFICES ASSUME NEW i \in DOMAIN up, up[i].type = "protect"
             PROVE  LandsIn(up[i].primary, up, i - 1)
  BY DEF CleanupsLand
<1>1. CASE i \in DOMAIN low
  <2>1. LandsIn(low[i].primary, low, i - 1) /\ up[i] = low[i]
    BY <1>1 DEF CleanupsLand, Pushes
  <2>2. i - 1 \in Nat /\ i - 1 <= Len(low) BY <1>1 DEF Pushes
  <2>3. QED BY <2>1, <2>2, LandsStay
<1>2. CASE i = Len(up)
  BY <1>2, LandsStay DEF Pushes
<1>3. QED BY <1>1, <1>2 DEF Pushes

(* One comes off. *)
LEMMA CleanupsPopped ==
  ASSUME NEW low, NEW f, NEW up, Pushes(low, f, up), CleanupsLand(up)
  PROVE  /\ CleanupsLand(low)
         /\ f.type = "protect" => LandsIn(f.primary, low, Len(low))
<1>1. ASSUME NEW i \in DOMAIN up, up[i].type = "protect"
      PROVE  LandsIn(up[i].primary, low, i - 1)
  <2>1. i - 1 \in Nat /\ i - 1 <= Len(low) BY DEF Pushes
  <2>2. LandsIn(up[i].primary, up, i - 1) BY <1>1 DEF CleanupsLand
  <2>3. QED BY <2>1, <2>2, LandsStay
<1>2. CleanupsLand(low)
  <2> SUFFICES ASSUME NEW i \in DOMAIN low, low[i].type = "protect"
               PROVE  LandsIn(low[i].primary, low, i - 1)
    BY DEF CleanupsLand
  <2>1. i \in DOMAIN up /\ up[i] = low[i] BY DEF Pushes
  <2>2. QED BY <1>1, <2>1
<1>3. ASSUME f.type = "protect" PROVE LandsIn(f.primary, low, Len(low))
  <2>1. Len(up) \in DOMAIN up /\ up[Len(up)] = f /\ Len(up) - 1 = Len(low)
    BY DEF Pushes
  <2>2. QED BY <1>1, <1>3, <2>1
<1>4. QED BY <1>2, <1>3

(* A transfer that does not land on the top lands below it. *)
LEMMA LandsFurther ==
  ASSUME NEW low, NEW f, NEW up, Pushes(low, f, up), NEW m \in Controls, LandsIn(m, up, Len(up)),
         \/ f.type \in {"block", "protect"}
         \/ m # Transfer(CASE f.type = "on" -> "return" [] f.type = "signal" -> "resume"
                           [] f.type = "method" -> "nonlocal", f.id)
  PROVE  LandsIn(m, low, Len(low))
<1>1. CASE m.what \in {"run", "value", "error"}
  BY <1>1 DEF LandsIn
<1>2. CASE m.what \notin {"run", "value", "error"}
  <2>1. /\ m.what \in {"return", "resume", "nonlocal"} /\ m = [what |-> m.what, target |-> m.target]
    BY <1>2 DEF Controls, Running, Answering, Failing
  <2>2. PICK i \in 1..Len(up) : Receives(up[i], m)
    BY <1>2 DEF LandsIn
  <2>3. i # Len(up)
    <3> SUFFICES ASSUME i = Len(up) PROVE FALSE
      OBVIOUS
    <3>1. up[i] = f BY DEF Pushes
    <3>2. CASE m.what = "return"
      BY <2>1, <2>2, <3>1, <3>2 DEF Transfer, Receives
    <3>3. CASE m.what = "resume"
      BY <2>1, <2>2, <3>1, <3>3 DEF Transfer, Receives
    <3>4. CASE m.what = "nonlocal"
      BY <2>1, <2>2, <3>1, <3>4 DEF Transfer, Receives
    <3>5. QED BY <2>1, <3>2, <3>3, <3>4
  <2>4. i \in 1..Len(low) /\ up[i] = low[i] BY <2>3 DEF Pushes
  <2>5. QED BY <2>2, <2>4 DEF LandsIn
<1>3. QED BY <1>1, <1>2

----------------------------------------
(* A Block. *)
LEMMA BlockPushed ==
  ASSUME NEW st, NEW sc, NEW oc, NEW hm, NEW pr, NEW mn, Consistent(st, sc, oc, hm, pr, mn),
         NEW home \in DOMAIN hm, NEW auth \in Authorities, Continues(st, Block(home, auth))
  PROVE  Consistent(Append(st, Block(home, auth)), sc, oc, hm, pr, mn)
<1> DEFINE f == Block(home, auth)
           up == Append(st, f)
<1>1. Typed(st, sc, oc, hm, pr, mn) /\ mn \in Nat /\ DOMAIN hm \subseteq 1..mn
  BY DEF Consistent, Typed
<1>2. /\ f.type = "block" /\ f.home = home /\ f \in StackFrames
      /\ ~HasId(f) /\ ~HoldsScope(f)
  BY <1>1 DEF Block, StackFrames, CodeFrames, HasId, HoldsScope
<1>3. up \in Seq(StackFrames) /\ Pushes(st, f, up)
  BY <1>1, <1>2, AppendPushes DEF Typed
<1> HIDE DEF f, up
<1>4. Typed(up, sc, oc, hm, pr, mn) BY <1>1, <1>3 DEF Typed
<1>5. IdsGrow(up, hm, mn) BY <1>1, <1>2, <1>3, IdsPushed DEF Consistent, Above
<1>6. HomesFit(hm, up) /\ ScopesFit(sc, up) /\ OccurrencesFit(oc, up)
  BY <1>2, <1>3, HomesStay, ScopesStay, OccurrencesStay DEF Consistent
<1>7. SignalsFit(sc, up) BY <1>2, <1>3, SignalsPushedOver DEF Consistent, f
<1>8. ProtectionsFit(pr, up) /\ CleanupsLand(up)
  BY <1>2, <1>3, ProtectionsStay, CleanupsPushed DEF Consistent
<1>9. QED BY <1>4, <1>5, <1>6, <1>7, <1>8 DEF Consistent, up, f

(* A method, with a new home frame. *)
LEMMA MethodPushed ==
  ASSUME NEW st, NEW sc, NEW oc, NEW hm, NEW pr, NEW mn, Consistent(st, sc, oc, hm, pr, mn),
         NEW auth \in Authorities, Continues(st, Method(mn + 1, auth))
  PROVE  Consistent(Append(st, Method(mn + 1, auth)), sc, oc, With(hm, mn + 1, "live"), pr, mn + 1)
<1> DEFINE f == Method(mn + 1, auth)
           up == Append(st, f)
           nm == With(hm, mn + 1, "live")
<1>1. Typed(st, sc, oc, hm, pr, mn) /\ mn \in Nat /\ DOMAIN hm \subseteq 1..mn
  BY DEF Consistent, Typed
<1>2. /\ f.type = "method" /\ f.home = mn + 1 /\ f.id = mn + 1 /\ f \in StackFrames
      /\ ~HoldsScope(f)
  BY <1>1 DEF Method, StackFrames, CodeFrames, HoldsScope
<1>3. up \in Seq(StackFrames) /\ Pushes(st, f, up)
  BY <1>1, <1>2, AppendPushes DEF Typed
<1>4. nm \in [DOMAIN nm -> {"live", "dead"}] /\ DOMAIN nm = DOMAIN hm \cup {mn + 1}
  <2>1. hm \in [DOMAIN hm -> {"live", "dead"}] /\ "live" \in {"live", "dead"}
    BY <1>1 DEF Typed
  <2>2. QED BY <2>1 DEF With
<1>5. HomesFit(nm, up) BY <1>2, <1>3, HomesPushed DEF Consistent
<1> HIDE DEF f, up, nm
<1>6. Typed(up, sc, oc, nm, pr, mn + 1) BY <1>1, <1>3, <1>4 DEF Typed
<1>7. IdsGrow(up, nm, mn + 1)
  <2>1. Above(st, f) BY <1>1, <1>2, NewIsAbove DEF Consistent
  <2>2. QED BY <1>1, <1>2, <1>3, <1>4, <2>1, IdsPushed DEF Consistent
<1>8. ScopesFit(sc, up) /\ OccurrencesFit(oc, up)
  BY <1>2, <1>3, ScopesStay, OccurrencesStay DEF Consistent
<1>9. SignalsFit(sc, up) BY <1>2, <1>3, SignalsPushedOver DEF Consistent, f
<1>10. ProtectionsFit(pr, up) /\ CleanupsLand(up)
  BY <1>2, <1>3, ProtectionsStay, CleanupsPushed DEF Consistent
<1>11. QED BY <1>5, <1>6, <1>7, <1>8, <1>9, <1>10 DEF Consistent, up, f, nm

(* An activation of on:do:, with its scope. *)
LEMMA OnPushed ==
  ASSUME NEW st, NEW sc, NEW oc, NEW hm, NEW pr, NEW mn, Consistent(st, sc, oc, hm, pr, mn),
         NEW f \in OnFrames, f.id = mn + 1, f.home \in DOMAIN hm, Continues(st, f),
         NEW s \in ScopeRecords, IsScopeOf(s, f), s.active = TRUE
  PROVE  Consistent(Append(st, f), Append(sc, s), oc, hm, pr, mn + 1)
<1> DEFINE up == Append(st, f)
           ns == Append(sc, s)
<1>1. /\ Typed(st, sc, oc, hm, pr, mn) /\ mn \in Nat /\ DOMAIN hm \subseteq 1..mn
      /\ sc \in Seq(ScopeRecords) /\ st \in Seq(StackFrames)
  BY DEF Consistent, Typed
<1>2. /\ f.type = "on" /\ f.id \in Nat /\ f \in StackFrames /\ HasId(f) /\ s.id = f.id
  BY DEF StackFrames, OnFrames, HasId, IsScopeOf
<1>3. /\ up \in Seq(StackFrames) /\ Pushes(st, f, up)
      /\ ns \in Seq(ScopeRecords) /\ Pushes(sc, s, ns)
  BY <1>1, <1>2, AppendPushes
<1>4. Above(st, f) /\ Len(st) \in Nat /\ DOMAIN st = 1..Len(st)
  BY <1>1, <1>2, NewIsAbove DEF Consistent
<1> HIDE DEF up, ns
<1>5. Typed(up, ns, oc, hm, pr, mn + 1) BY <1>1, <1>3 DEF Typed
<1>6. IdsGrow(up, hm, mn + 1)
  BY <1>1, <1>2, <1>3, <1>4, IdsPushed DEF Consistent
<1>7. HomesFit(hm, up) /\ OccurrencesFit(oc, up)
  BY <1>2, <1>3, HomesStay, OccurrencesStay DEF Consistent
<1>8. ScopesFit(ns, up) BY <1>3, <1>4, ScopesPushed DEF Consistent
<1>9. SignalsFit(ns, up)
  <2>1. SignalsFit(ns, st) BY <1>2, <1>3, <1>4, SignalsScoped DEF Consistent
  <2>2. QED BY <1>2, <1>3, <2>1, SignalsPushedOver
<1>10. ProtectionsFit(pr, up) /\ CleanupsLand(up)
  BY <1>2, <1>3, ProtectionsStay, CleanupsPushed DEF Consistent
<1>11. QED BY <1>5, <1>6, <1>7, <1>8, <1>9, <1>10 DEF Consistent, up, ns

(* One of ensure: or ifCurtailed:, with its scope and its record. *)
LEMMA ProtectPushed ==
  ASSUME NEW st, NEW sc, NEW oc, NEW hm, NEW pr, NEW mn, Consistent(st, sc, oc, hm, pr, mn),
         NEW f \in ProtectFrames, f.id = mn + 1, f.home \in DOMAIN hm, Continues(st, f),
         f.phase = "protected", f.primary = Answering,
         NEW s \in ScopeRecords, IsScopeOf(s, f), s.active = TRUE,
         NEW p \in ProtectionRecords, p.kind = f.kind, p.began <=> Len(st) + 1 < MaxDepth,
         p.curtailed = FALSE, p.cleaned = 0
  PROVE  Consistent(Append(st, f), Append(sc, s), oc, hm, With(pr, f.id, p), mn + 1)
<1> DEFINE up == Append(st, f)
           ns == Append(sc, s)
           np == With(pr, f.id, p)
<1>1. /\ Typed(st, sc, oc, hm, pr, mn) /\ mn \in Nat /\ DOMAIN hm \subseteq 1..mn
      /\ sc \in Seq(ScopeRecords) /\ st \in Seq(StackFrames) /\ DOMAIN pr \subseteq 1..mn
  BY DEF Consistent, Typed
<1>2. /\ f.type = "protect" /\ f.id \in Nat /\ f \in StackFrames /\ HasId(f) /\ s.id = f.id
      /\ f.id \notin DOMAIN pr
  BY <1>1 DEF StackFrames, ProtectFrames, HasId, IsScopeOf
<1>3. /\ up \in Seq(StackFrames) /\ Pushes(st, f, up)
      /\ ns \in Seq(ScopeRecords) /\ Pushes(sc, s, ns)
  BY <1>1, <1>2, AppendPushes
<1>4. Above(st, f) /\ Len(st) \in Nat /\ DOMAIN st = 1..Len(st)
  BY <1>1, <1>2, NewIsAbove DEF Consistent
<1>5. np \in [DOMAIN np -> ProtectionRecords] /\ DOMAIN np = DOMAIN pr \cup {f.id}
  <2>1. pr \in [DOMAIN pr -> ProtectionRecords] /\ p \in ProtectionRecords
    BY <1>1 DEF Typed
  <2>2. QED BY <2>1 DEF With, np
<1>6. ProtectionsFit(np, up)
  <2>1. Len(up) = Len(st) + 1 BY <1>3 DEF Pushes
  <2>2. QED BY <1>2, <1>3, <2>1, ProtectionsPushed DEF Consistent
<1> HIDE DEF up, ns, np
<1>7. Typed(up, ns, oc, hm, np, mn + 1) BY <1>1, <1>3, <1>5 DEF Typed
<1>8. IdsGrow(up, hm, mn + 1)
  BY <1>1, <1>2, <1>3, <1>4, IdsPushed DEF Consistent
<1>9. HomesFit(hm, up) /\ OccurrencesFit(oc, up)
  BY <1>2, <1>3, HomesStay, OccurrencesStay DEF Consistent
<1>10. ScopesFit(ns, up) BY <1>3, <1>4, ScopesPushed DEF Consistent
<1>11. SignalsFit(ns, up)
  <2>1. SignalsFit(ns, st) BY <1>2, <1>3, <1>4, SignalsScoped DEF Consistent
  <2>2. QED BY <1>2, <1>3, <2>1, SignalsPushedOver
<1>12. CleanupsLand(up)
  <2>1. LandsIn(f.primary, st, Len(st)) BY DEF LandsIn, Answering
  <2>2. QED BY <1>3, <2>1, CleanupsPushed DEF Consistent
<1>13. QED BY <1>6, <1>7, <1>8, <1>9, <1>10, <1>11, <1>12 DEF Consistent, up, ns, np

(* One of signal, with its occurrence, and its handler disabled. *)
LEMMA SignalPushed ==
  ASSUME NEW st, NEW sc, NEW oc, NEW hm, NEW pr, NEW mn, Consistent(st, sc, oc, hm, pr, mn),
         NEW f \in SignalFrames, f.id = mn + 1, f.home \in DOMAIN hm, Continues(st, f),
         NEW o \in OccurrenceRecords, IsOccurrenceOf(o, f),
         \E m \in DOMAIN sc : sc[m].id = f.scope /\ sc[m].active = TRUE /\ sc[m].kind = "handler",
         NEW ns \in Seq(ScopeRecords), DOMAIN ns = DOMAIN sc,
         \A m \in DOMAIN sc : /\ ns[m].id = sc[m].id /\ ns[m].home = sc[m].home
                              /\ ns[m].auth = sc[m].auth /\ ns[m].kind = sc[m].kind
                              /\ ns[m].active = IF sc[m].id = f.scope THEN FALSE ELSE sc[m].active
  PROVE  Consistent(Append(st, f), ns, Append(oc, o), hm, pr, mn + 1)
<1> DEFINE up == Append(st, f)
           no == Append(oc, o)
<1>1. /\ Typed(st, sc, oc, hm, pr, mn) /\ mn \in Nat /\ DOMAIN hm \subseteq 1..mn
      /\ oc \in Seq(OccurrenceRecords) /\ st \in Seq(StackFrames)
  BY DEF Consistent, Typed
<1>2. /\ f.type = "signal" /\ f.id \in Nat /\ f \in StackFrames /\ ~HoldsScope(f)
  BY DEF StackFrames, SignalFrames, HoldsScope
<1>3. /\ up \in Seq(StackFrames) /\ Pushes(st, f, up)
      /\ no \in Seq(OccurrenceRecords) /\ Pushes(oc, o, no)
  BY <1>1, <1>2, AppendPushes
<1>4. Above(st, f) BY <1>1, <1>2, NewIsAbove DEF Consistent
<1> HIDE DEF up, no
<1>5. Typed(up, ns, no, hm, pr, mn + 1)
  <2>1. /\ mn \in Nat /\ hm \in [DOMAIN hm -> {"live", "dead"}] /\ DOMAIN hm \subseteq 1..mn
        /\ pr \in [DOMAIN pr -> ProtectionRecords] /\ DOMAIN pr \subseteq 1..mn
    BY <1>1 DEF Typed
  <2>2. mn + 1 \in Nat \ {0} /\ DOMAIN hm \subseteq 1..(mn + 1) /\ DOMAIN pr \subseteq 1..(mn + 1)
    BY ONLY <2>1
  <2>3. QED BY <1>3, <2>1, <2>2 DEF Typed
<1>6. IdsGrow(up, hm, mn + 1)
  BY <1>1, <1>2, <1>3, <1>4, IdsPushed DEF Consistent
<1>7. HomesFit(hm, up) BY <1>2, <1>3, HomesStay DEF Consistent
<1>8. OccurrencesFit(no, up) BY <1>3, <1>4, OccurrencesPushed DEF Consistent
<1>9. ScopesFit(ns, up)
  <2>1. ScopesFit(sc, st) BY DEF Consistent
  <2>2. ScopesFit(ns, st) BY <2>1, ScopesSet
  <2>3. QED BY <1>2, <1>3, <2>2, ScopesStay
<1>10. SignalsFit(ns, up)
  <2>1. PICK m \in DOMAIN sc : sc[m].id = f.scope /\ sc[m].active = TRUE /\ sc[m].kind = "handler"
    OBVIOUS
  <2>2. \E j \in DOMAIN st : st[j].type = "on" /\ st[j].id = f.scope
    BY <2>1 DEF Consistent, ScopesFit, IsScopeOf
  <2>3. SignalsFit(sc, st) BY DEF Consistent
  <2>4. QED BY <1>2, <1>3, <2>1, <2>2, <2>3, SignalsPushed
<1>11. ProtectionsFit(pr, up) /\ CleanupsLand(up)
  BY <1>2, <1>3, ProtectionsStay, CleanupsPushed DEF Consistent
<1>12. QED BY <1>5, <1>6, <1>7, <1>8, <1>9, <1>10, <1>11 DEF Consistent, up, no

(* A protection that cleans up goes on where it was. *)
LEMMA CleanupPushed ==
  ASSUME NEW st, NEW sc, NEW oc, NEW hm, NEW pr, NEW mn, Consistent(st, sc, oc, hm, pr, mn),
         NEW f \in ProtectFrames, f.id \in 1..mn, f.home \in DOMAIN hm, Continues(st, f),
         f.phase = "cleanup", Above(st, f), f.id \in DOMAIN pr, pr[f.id].kind = f.kind,
         LandsIn(f.primary, st, Len(st))
  PROVE  Consistent(Append(st, f), sc, oc, hm, pr, mn)
<1> DEFINE up == Append(st, f)
<1>1. Typed(st, sc, oc, hm, pr, mn) /\ mn \in Nat /\ st \in Seq(StackFrames)
  BY DEF Consistent, Typed
<1>2. f.type = "protect" /\ f \in StackFrames /\ ~HoldsScope(f)
  BY DEF StackFrames, ProtectFrames, HoldsScope
<1>3. up \in Seq(StackFrames) /\ Pushes(st, f, up) BY <1>1, <1>2, AppendPushes
<1> HIDE DEF up
<1>4. Typed(up, sc, oc, hm, pr, mn) BY <1>1, <1>3 DEF Typed
<1>5. IdsGrow(up, hm, mn) BY <1>1, <1>2, <1>3, IdsPushed DEF Consistent
<1>6. HomesFit(hm, up) /\ ScopesFit(sc, up) /\ OccurrencesFit(oc, up)
  BY <1>2, <1>3, HomesStay, ScopesStay, OccurrencesStay DEF Consistent
<1>7. SignalsFit(sc, up) BY <1>2, <1>3, SignalsPushedOver DEF Consistent
<1>8. ProtectionsFit(pr, up) /\ CleanupsLand(up)
  BY <1>2, <1>3, ProtectionsStay, CleanupsPushed DEF Consistent
<1>9. QED BY <1>4, <1>5, <1>6, <1>7, <1>8 DEF Consistent, up

----------------------------------------
(* The top frame with its bookkeeping comes off. *)
LEMMA TakenOff ==
  ASSUME NEW st, NEW sc, NEW oc, NEW hm, NEW pr, NEW mn, Consistent(st, sc, oc, hm, pr, mn),
         st # <<>>
  PROVE  /\ Pushes(Front(st), Last(st), st) /\ Last(st) = st[Len(st)]
         /\ Len(st) \in Nat \ {0} /\ Len(Front(st)) = Len(st) - 1
         /\ Front(st) \in Seq(StackFrames) /\ Last(st) \in StackFrames
         /\ Last(st).id \in Nat /\ Last(st).home \in DOMAIN hm
         /\ HasId(Last(st)) => Last(st).id \in 1..mn
         /\ IdsGrow(Front(st), hm, mn) /\ Above(Front(st), Last(st))
         /\ CleanupsLand(Front(st))
         /\ Last(st).type = "protect" => LandsIn(Last(st).primary, Front(st), Len(Front(st)))
<1>1. st \in Seq(StackFrames) /\ mn \in Nat /\ IdsGrow(st, hm, mn) /\ CleanupsLand(st)
  BY DEF Consistent, Typed
<1>2. /\ Front(st) \in Seq(StackFrames) /\ Last(st) \in StackFrames
      /\ Last(st) = st[Len(st)] /\ Len(st) \in Nat \ {0} /\ Pushes(Front(st), Last(st), st)
  BY <1>1, FrontPushes
<1>3. Len(Front(st)) = Len(st) - 1 /\ Len(st) \in DOMAIN st BY <1>2 DEF Pushes
<1>4. Last(st).id \in Nat BY <1>2, FrameFields
<1>5. Last(st).home \in DOMAIN hm /\ (HasId(Last(st)) => Last(st).id \in 1..mn)
  BY <1>1, <1>2, <1>3 DEF IdsGrow
<1>6. IdsGrow(Front(st), hm, mn) /\ Above(Front(st), Last(st))
  BY <1>1, <1>2, IdsPopped
<1>7. /\ CleanupsLand(Front(st))
      /\ Last(st).type = "protect" => LandsIn(Last(st).primary, Front(st), Len(Front(st)))
  BY <1>1, <1>2, CleanupsPopped
<1>8. QED BY <1>2, <1>3, <1>4, <1>5, <1>6, <1>7

(* A Block, or a protection after its cleanup: nothing else is kept of it. *)
LEMMA PlainPopped ==
  ASSUME NEW st, NEW sc, NEW oc, NEW hm, NEW pr, NEW mn, Consistent(st, sc, oc, hm, pr, mn),
         st # <<>>,
         Last(st).type = "block" \/ (Last(st).type = "protect" /\ Last(st).phase = "cleanup")
  PROVE  Consistent(Front(st), sc, oc, hm, pr, mn)
<1> DEFINE f == Last(st)
           low == Front(st)
<1>1. /\ Pushes(low, f, st) /\ low \in Seq(StackFrames) /\ IdsGrow(low, hm, mn)
      /\ CleanupsLand(low)
  BY TakenOff
<1>2. ~HoldsScope(f) /\ f.type \notin {"signal", "method"} BY DEF HoldsScope
<1>3. RecordsFit(pr, st) BY ProtectionClauses DEF Consistent
<1>4. f.type = "protect" => f.phase = "cleanup" OBVIOUS
<1> HIDE DEF f, low
<1>5. Typed(low, sc, oc, hm, pr, mn) BY <1>1 DEF Consistent, Typed
<1>6. HomesFit(hm, low) /\ ScopesFit(sc, low) /\ OccurrencesFit(oc, low)
  BY <1>1, <1>2, HomesStay, ScopesStay, OccurrencesStay DEF Consistent
<1>7. SignalsFit(sc, low) BY <1>1, <1>2, SignalsPoppedOver DEF Consistent
<1>8. ProtectionsFit(pr, low)
  BY <1>1, <1>3, <1>4, ProtectionsStay DEF Consistent
<1>9. QED BY <1>1, <1>5, <1>6, <1>7, <1>8 DEF Consistent, low

(* A method, whose home frame is dead from then on. *)
LEMMA MethodPopped ==
  ASSUME NEW st, NEW sc, NEW oc, NEW hm, NEW pr, NEW mn, Consistent(st, sc, oc, hm, pr, mn),
         st # <<>>, Last(st).type = "method"
  PROVE  Consistent(Front(st), sc, oc, [hm EXCEPT ![Last(st).id] = "dead"], pr, mn)
<1> DEFINE f == Last(st)
           low == Front(st)
           nm == [hm EXCEPT ![f.id] = "dead"]
<1>1. /\ Pushes(low, f, st) /\ low \in Seq(StackFrames) /\ IdsGrow(low, hm, mn)
      /\ CleanupsLand(low) /\ Above(low, f) /\ f.id \in Nat
  BY TakenOff
<1>2. ~HoldsScope(f) /\ f.type = "method" BY DEF HoldsScope
<1>3. Typed(st, sc, oc, hm, pr, mn) BY DEF Consistent
<1>4. nm \in [DOMAIN nm -> {"live", "dead"}] /\ DOMAIN nm = DOMAIN hm
  BY <1>3 DEF Typed
<1>5. HomesFit(nm, low) BY <1>1, <1>2, HomesPopped DEF Consistent
<1> HIDE DEF f, low, nm
<1>6. Typed(low, sc, oc, nm, pr, mn) BY <1>1, <1>3, <1>4 DEF Typed
<1>7. IdsGrow(low, nm, mn) BY <1>1, <1>4 DEF IdsGrow
<1>8. ScopesFit(sc, low) /\ OccurrencesFit(oc, low)
  BY <1>1, <1>2, ScopesStay, OccurrencesStay DEF Consistent
<1>9. SignalsFit(sc, low) BY <1>1, <1>2, SignalsPoppedOver DEF Consistent
<1>10. ProtectionsFit(pr, low) BY <1>1, <1>2, ProtectionsStay DEF Consistent
<1>11. QED BY <1>1, <1>5, <1>6, <1>7, <1>8, <1>9, <1>10 DEF Consistent, low, nm, f

(* One that holds a scope, with the innermost one, and what its record     *)
(* says by then.                                                           *)
LEMMA HolderPopped ==
  ASSUME NEW st, NEW sc, NEW oc, NEW hm, NEW pr, NEW mn, Consistent(st, sc, oc, hm, pr, mn),
         st # <<>>, HoldsScope(Last(st)),
         NEW np, np \in [DOMAIN np -> ProtectionRecords], DOMAIN np = DOMAIN pr,
         ProtectionsFit(np, Front(st))
  PROVE  /\ Consistent(Front(st), Front(sc), oc, hm, np, mn)
         /\ Len(sc) \in Nat \ {0} /\ DOMAIN sc = 1..Len(sc) /\ sc[Len(sc)].id = Last(st).id
         /\ \A m \in DOMAIN sc : sc[m].id = Last(st).id => m = Len(sc)
<1> DEFINE f == Last(st)
           low == Front(st)
           ns == Front(sc)
<1>1. /\ Pushes(low, f, st) /\ low \in Seq(StackFrames) /\ IdsGrow(low, hm, mn)
      /\ CleanupsLand(low) /\ Above(low, f) /\ f.id \in Nat
  BY TakenOff
<1>2. HoldsScope(f) /\ f.type \notin {"signal", "method"} BY DEF HoldsScope
<1>3. Typed(st, sc, oc, hm, pr, mn) /\ ScopesFit(sc, st) /\ sc \in Seq(ScopeRecords)
  BY DEF Consistent, Typed
<1>4. Len(sc) \in Nat /\ DOMAIN sc = 1..Len(sc) /\ \A m \in DOMAIN sc : sc[m].id \in Nat
  <2>1. \A r \in ScopeRecords : r.id \in Nat BY DEF ScopeRecords
  <2>2. QED BY <1>3, <2>1
<1>5. /\ Len(sc) > 0 /\ sc[Len(sc)].id = f.id
      /\ \A m \in 1..Len(sc) : sc[m].id = f.id => m = Len(sc)
  BY <1>1, <1>2, <1>3, <1>4, TopScope
<1>6. sc # <<>> BY <1>5, EmptySeq
<1>7. ns \in Seq(ScopeRecords) /\ Pushes(ns, Last(sc), sc)
  BY <1>3, <1>6, FrontPushes
<1> HIDE DEF f, low, ns
<1>8. Typed(low, ns, oc, hm, np, mn) BY <1>1, <1>3, <1>7 DEF Typed
<1>9. HomesFit(hm, low) /\ OccurrencesFit(oc, low)
  BY <1>1, <1>2, HomesStay, OccurrencesStay DEF Consistent
<1>10. ScopesFit(ns, low) BY <1>1, <1>2, <1>3, <1>4, <1>7, ScopesPopped
<1>11. SignalsFit(ns, low)
  <2>1. DOMAIN ns \subseteq DOMAIN sc /\ \A m \in DOMAIN ns : ns[m] = sc[m]
    BY <1>7 DEF Pushes
  <2>2. QED BY <1>1, <1>2, <2>1, SignalsPoppedOver DEF Consistent
<1>12. QED BY <1>1, <1>4, <1>5, <1>8, <1>9, <1>10, <1>11 DEF Consistent, low, ns, f

(* The scopes ns are those of sc, with the handler of that id enabled. *)
EnabledAgain(ns, sc, id) ==
  /\ ns \in Seq(ScopeRecords) /\ DOMAIN ns = DOMAIN sc
  /\ \A m \in DOMAIN sc :
       /\ ns[m].id = sc[m].id /\ ns[m].home = sc[m].home
       /\ ns[m].auth = sc[m].auth /\ ns[m].kind = sc[m].kind
       /\ ns[m].active = IF sc[m].id = id THEN TRUE ELSE sc[m].active

(* A signal, with the newest occurrence, its handler enabled again. *)
LEMMA SignalPopped ==
  ASSUME NEW st, NEW sc, NEW oc, NEW hm, NEW pr, NEW mn, Consistent(st, sc, oc, hm, pr, mn),
         st # <<>>, Last(st).type = "signal", NEW ns, EnabledAgain(ns, sc, Last(st).scope)
  PROVE  /\ Consistent(Front(st), ns, Front(oc), hm, pr, mn)
         /\ Len(oc) \in Nat \ {0} /\ DOMAIN oc = 1..Len(oc) /\ oc[Len(oc)].id = Last(st).id
         /\ \A m \in DOMAIN oc : oc[m].id = Last(st).id => m = Len(oc)
<1> DEFINE f == Last(st)
           low == Front(st)
           no == Front(oc)
<1>0. /\ ns \in Seq(ScopeRecords) /\ DOMAIN ns = DOMAIN sc
      /\ \A m \in DOMAIN sc :
           /\ ns[m].id = sc[m].id /\ ns[m].home = sc[m].home
           /\ ns[m].auth = sc[m].auth /\ ns[m].kind = sc[m].kind
           /\ ns[m].active = IF sc[m].id = Last(st).scope THEN TRUE ELSE sc[m].active
  BY DEF EnabledAgain
<1>1. /\ Pushes(low, f, st) /\ low \in Seq(StackFrames) /\ IdsGrow(low, hm, mn)
      /\ CleanupsLand(low) /\ Above(low, f) /\ f.id \in Nat
  BY TakenOff
<1>2. ~HoldsScope(f) /\ f.type = "signal" BY DEF HoldsScope
<1>3. /\ Typed(st, sc, oc, hm, pr, mn) /\ ScopesFit(sc, st) /\ OccurrencesFit(oc, st)
      /\ oc \in Seq(OccurrenceRecords) /\ SignalsFit(sc, st)
  BY DEF Consistent, Typed
<1>4. Len(oc) \in Nat /\ DOMAIN oc = 1..Len(oc) /\ \A m \in DOMAIN oc : oc[m].id \in Nat
  <2>1. \A r \in OccurrenceRecords : r.id \in Nat BY DEF OccurrenceRecords
  <2>2. QED BY <1>3, <2>1
<1>5. /\ Len(oc) > 0 /\ oc[Len(oc)].id = f.id
      /\ \A m \in DOMAIN oc : oc[m].id = f.id => m = Len(oc)
      /\ \A new : DOMAIN new = 1..(Len(oc) - 1) /\ (\A m \in DOMAIN new : new[m] = oc[m])
           => OccurrencesFit(new, low)
  <2> HIDE DEF f, low
  <2>1. /\ Pushes(low, f, st) /\ f.type = "signal" /\ f.id \in Nat /\ Above(low, f)
        /\ Len(oc) \in Nat /\ DOMAIN oc = 1..Len(oc)
        /\ \A m \in DOMAIN oc : oc[m].id \in Nat
        /\ OccurrencesFit(oc, st)
    BY <1>1, <1>2, <1>3, <1>4
  <2>2. QED BY ONLY <2>1, OccurrencesPopped
<1>6. no \in Seq(OccurrenceRecords) /\ Pushes(no, Last(oc), oc)
  BY <1>3, <1>5, EmptySeq, FrontPushes
<1>7. SignalsFit(ns, low) BY <1>0, <1>1, <1>2, <1>3, SignalsPopped
<1> HIDE DEF low, no
<1>8. Typed(low, ns, no, hm, pr, mn) BY <1>0, <1>1, <1>3, <1>6 DEF Typed
<1>9. HomesFit(hm, low) BY <1>1, <1>2, HomesStay DEF Consistent
<1>10. ScopesFit(ns, low)
  <2>1. ScopesFit(ns, st) BY <1>0, <1>3, ScopesSet
  <2>2. QED BY <1>1, <1>2, <2>1, ScopesStay
<1>11. OccurrencesFit(no, low)
  <2>1. DOMAIN no = 1..(Len(oc) - 1) /\ \A m \in DOMAIN no : no[m] = oc[m]
    BY <1>6 DEF Pushes
  <2>2. QED BY <1>5, <2>1
<1>12. ProtectionsFit(pr, low) BY <1>1, <1>2, ProtectionsStay DEF Consistent
<1>13. QED BY <1>1, <1>4, <1>5, <1>7, <1>8, <1>9, <1>10, <1>11, <1>12 DEF Consistent, low, no, f

----------------------------------------
(* Where control is after a step. *)
Landed(m, st) ==
  /\ Len(st) <= MaxDepth
  /\ m \in Controls /\ LandsIn(m, st, Len(st))
  /\ m = Running /\ st # <<>> => IsCode(Last(st))

(* The invariant of the next state, in its two parts. *)
LEMMA InvariantParts ==
  ASSUME Consistent(stack', scopes', occurrences', homes', protections', minted'),
         Landed(mode', stack')
  PROVE  ConditionsInv'
BY DEF ConditionsInv, Landed, CodeRuns, Depth, TopActivation

(* Entering code, or being refused. *)
LEMMA EnterLands ==
  ASSUME NEW st \in Seq(StackFrames), Len(st) <= MaxDepth, NEW f \in StackFrames, IsCode(f),
         Enter(st, f)
  PROVE  Landed(mode', stack') /\ stack' \in {st, Append(st, f)}
<1>1. \A m \in {Running, Failing} : m \in Controls /\ \A s : LandsIn(m, s, Len(s))
  BY DEF Controls, LandsIn, Running, Failing
<1>2. CASE Len(st) < MaxDepth
  <2>1. stack' = Append(st, f) /\ mode' = Running BY <1>2 DEF Enter
  <2>2. Append(st, f) \in Seq(StackFrames) /\ Pushes(st, f, Append(st, f))
    BY AppendPushes
  <2>3. Last(Append(st, f)) = f /\ Len(Append(st, f)) <= MaxDepth
    BY <1>2, <2>2, ConditionsAssumption DEF Pushes, Last
  <2>4. QED BY <1>1, <2>1, <2>3 DEF Landed
<1>3. CASE ~(Len(st) < MaxDepth)
  <2>1. stack' = st /\ mode' = Failing /\ Failing # Running
    BY <1>3 DEF Enter, Failing, Running
  <2>2. QED BY <1>1, <2>1 DEF Landed
<1>4. QED BY <1>2, <1>3

(* A value, transfer or failure that goes on its way. *)
LEMMA AnswerLands ==
  ASSUME NEW st \in Seq(StackFrames), Len(st) <= MaxDepth,
         NEW m \in Controls, m # Running, LandsIn(m, st, Len(st))
  PROVE  Landed(Answer(st, m), st)
<1>1. Running \in Controls /\ LandsIn(Running, st, Len(st))
  BY DEF Controls, LandsIn, Running
<1>2. QED BY <1>1 DEF Landed, Answer

(* On anything but a signal, anything may go. *)
LEMMA OpenTop ==
  ASSUME NEW st, st # <<>> => st[Len(st)].type # "signal", NEW S, st \in Seq(S), NEW f
  PROVE  Continues(st, f)
BY EmptySeq DEF Continues

(* What replaces the top has its authority. *)
LEMMA ReplacedTop ==
  ASSUME NEW low, NEW f, NEW up, Pushes(low, f, up), NEW sc, SignalsFit(sc, up),
         NEW g, g.auth = f.auth
  PROVE  Continues(low, g)
<1> SUFFICES ASSUME NEW i \in DOMAIN low, i = Len(low), low[i].type = "signal"
             PROVE  \E j \in 1..(i - 1) :
                      low[j].type = "on" /\ low[j].id = low[i].scope /\ g.auth = low[j].auth
  BY DEF Continues
<1>1. /\ i \in DOMAIN up /\ up[i] = low[i] /\ i < Len(up) /\ up[i + 1] = f
      /\ \A j \in 1..(i - 1) : up[j] = low[j]
  BY DEF Pushes
<1>2. \E j \in 1..(i - 1) : up[j].type = "on" /\ up[j].id = up[i].scope /\ up[i + 1].auth = up[j].auth
  BY <1>1 DEF SignalsFit
<1>3. QED BY <1>1, <1>2

(* Where code runs. *)
LEMMA InCodeFacts ==
  ASSUME ConditionsInv, InCode
  PROVE  /\ Consistent(stack, scopes, occurrences, homes, protections, minted)
         /\ stack \in Seq(StackFrames) /\ stack # <<>> /\ IsCode(TopActivation)
         /\ TopActivation = stack[Len(stack)] /\ Len(stack) \in Nat /\ Len(stack) <= MaxDepth
         /\ TopActivation \in StackFrames /\ TopActivation.home \in DOMAIN homes
         /\ TopActivation.auth \in Authorities /\ minted \in Nat
         /\ \A f : Continues(stack, f)
<1>1. /\ Consistent(stack, scopes, occurrences, homes, protections, minted)
      /\ stack # <<>> /\ IsCode(TopActivation) /\ Len(stack) <= MaxDepth
  BY DEF ConditionsInv, InCode, CodeRuns, Depth
<1>2. stack \in Seq(StackFrames) /\ minted \in Nat BY <1>1 DEF Consistent, Typed
<1>3. /\ TopActivation = stack[Len(stack)] /\ Len(stack) \in Nat
      /\ TopActivation \in StackFrames /\ TopActivation.home \in DOMAIN homes
  BY <1>1, TakenOff DEF TopActivation
<1>4. TopActivation.auth \in Authorities BY <1>3, FrameFields
<1>5. stack[Len(stack)].type # "signal" BY <1>1, <1>3 DEF IsCode
<1>6. \A f : Continues(stack, f) BY <1>2, <1>5, OpenTop
<1>7. QED BY <1>1, <1>2, <1>3, <1>4, <1>6

(* What every code frame is. *)
LEMMA CodeOnTop ==
  ASSUME NEW home \in Nat, NEW auth \in Authorities
  PROVE  /\ Block(home, auth) \in StackFrames /\ IsCode(Block(home, auth))
         /\ Method(home, auth) \in StackFrames /\ IsCode(Method(home, auth))
BY DEF Block, Method, StackFrames, CodeFrames, IsCode

(* The homes on record are numbers. *)
LEMMA HomesAreNumbers ==
  ASSUME ConditionsInv, NEW home \in DOMAIN homes
  PROVE  home \in Nat
BY DEF ConditionsInv, Consistent, Typed

(* An ordinary send keeps the invariant. *)
LEMMA CallMethodStep ==
  ASSUME ConditionsInv, NEW a \in Authorities, CallMethod(a)
  PROVE  ConditionsInv'
<1> DEFINE f == Method(minted + 1, a)
<1>1. InCode /\ Enter(stack, f) BY DEF CallMethod, NextId
<1>2. /\ Consistent(stack, scopes, occurrences, homes, protections, minted)
      /\ stack \in Seq(StackFrames) /\ Len(stack) <= MaxDepth /\ minted \in Nat
      /\ Continues(stack, f)
  BY <1>1, InCodeFacts
<1>3. f \in StackFrames /\ IsCode(f) BY <1>2, CodeOnTop
<1>4. Landed(mode', stack') BY <1>1, <1>2, <1>3, EnterLands
<1>5. CASE Len(stack) < MaxDepth
  <2>1. /\ stack' = Append(stack, f) /\ homes' = With(homes, minted + 1, "live")
        /\ minted' = minted + 1 /\ UNCHANGED <<scopes, occurrences, protections>>
    BY <1>5 DEF CallMethod, Enter, Depth, NextId
  <2>2. Consistent(stack', scopes', occurrences', homes', protections', minted')
    BY <1>2, <2>1, MethodPushed
  <2>3. QED BY <1>4, <2>2, InvariantParts
<1>6. CASE ~(Len(stack) < MaxDepth)
  <2>1. UNCHANGED <<stack, homes, minted, scopes, occurrences, protections>>
    BY <1>6 DEF CallMethod, Enter, Depth
  <2>2. Consistent(stack', scopes', occurrences', homes', protections', minted')
    BY <1>2, <2>1
  <2>3. QED BY <1>4, <2>2, InvariantParts
<1>7. QED BY <1>5, <1>6

(* A Block on top of what is consistent: entered, or refused. *)
LEMMA BlockEntered ==
  ASSUME NEW st, NEW sc, NEW oc, NEW hm, NEW pr, NEW mn, Consistent(st, sc, oc, hm, pr, mn),
         Len(st) <= MaxDepth, NEW home \in DOMAIN hm, home \in Nat, NEW auth \in Authorities,
         Continues(st, Block(home, auth)), Enter(st, Block(home, auth)),
         scopes' = sc, occurrences' = oc, homes' = hm, protections' = pr, minted' = mn
  PROVE  ConditionsInv'
<1>1. st \in Seq(StackFrames) BY DEF Consistent, Typed
<1>2. Block(home, auth) \in StackFrames /\ IsCode(Block(home, auth))
  BY CodeOnTop
<1>3. Landed(mode', stack') /\ stack' \in {st, Append(st, Block(home, auth))}
  BY <1>1, <1>2, EnterLands
<1>4. Consistent(Append(st, Block(home, auth)), sc, oc, hm, pr, mn)
  BY BlockPushed
<1>5. Consistent(stack', scopes', occurrences', homes', protections', minted')
  BY <1>3, <1>4
<1>6. QED BY <1>3, <1>5, InvariantParts

(* So does calling a kept Block. *)
LEMMA CallBlockStep ==
  ASSUME ConditionsInv, NEW home \in DOMAIN homes, CallBlock(home)
  PROVE  ConditionsInv'
<1>1. /\ InCode /\ Enter(stack, Block(home, TopActivation.auth))
      /\ UNCHANGED <<scopes, occurrences, homes, protections, minted>>
  BY DEF CallBlock
<1>2. QED BY <1>1, InCodeFacts, HomesAreNumbers, BlockEntered

(* Nothing but an open activation is on top of what was put on code. *)
LEMMA OpenAbove ==
  ASSUME NEW st \in Seq(StackFrames), NEW f \in StackFrames, f.type # "signal", NEW g
  PROVE  /\ Continues(Append(st, f), g) /\ Append(st, f) \in Seq(StackFrames)
         /\ Len(Append(st, f)) = Len(st) + 1
<1>1. /\ Append(st, f) \in Seq(StackFrames) /\ Len(Append(st, f)) = Len(st) + 1
      /\ Append(st, f)[Len(Append(st, f))] = f
  BY AppendPushes DEF Pushes
<1>2. QED BY <1>1, OpenTop

(* on:do: keeps the invariant. *)
LEMMA OnDoStep ==
  ASSUME ConditionsInv, NEW class \in Classes, OnDo(class)
  PROVE  ConditionsInv'
<1> DEFINE c == TopActivation
           f == OnDoOf(minted + 1, c)
           s == Scope("handler", class, c)
<1>1. /\ InCode /\ Len(stack) < MaxDepth /\ scopes' = Append(scopes, s)
      /\ Enter(Append(stack, f), Block(c.home, c.auth))
      /\ minted' = minted + 1 /\ UNCHANGED <<occurrences, homes, protections>>
  BY DEF OnDo, Depth, NextId
<1>2. /\ Consistent(stack, scopes, occurrences, homes, protections, minted)
      /\ stack \in Seq(StackFrames) /\ Len(stack) \in Nat /\ minted \in Nat
      /\ c.home \in DOMAIN homes /\ c.auth \in Authorities /\ Continues(stack, f)
  BY <1>1, InCodeFacts
<1>3. c.home \in Nat BY <1>2, HomesAreNumbers
<1>4. /\ f \in OnFrames /\ f.id = minted + 1 /\ f.home = c.home /\ f.auth = c.auth
      /\ f.type = "on"
  BY <1>2, <1>3 DEF OnDoOf, OnFrames
<1>5. /\ s \in ScopeRecords /\ s.active = TRUE /\ s.id = minted + 1 /\ s.kind = "handler"
      /\ s.home = c.home /\ s.auth = c.auth
  BY <1>2, <1>3 DEF Scope, ScopeRecords, NextId
<1> HIDE DEF c, f, s
<1>6. IsScopeOf(s, f) /\ f \in StackFrames
  BY <1>4, <1>5 DEF IsScopeOf, HoldsScope, StackFrames
<1>7. Consistent(Append(stack, f), Append(scopes, s), occurrences, homes, protections, minted + 1)
  BY <1>2, <1>4, <1>5, <1>6, OnPushed
<1>8. /\ Len(Append(stack, f)) <= MaxDepth
      /\ Continues(Append(stack, f), Block(c.home, c.auth))
  BY <1>1, <1>2, <1>4, <1>6, OpenAbove, ConditionsAssumption
<1>9. QED BY <1>1, <1>2, <1>3, <1>7, <1>8, BlockEntered

(* So do ensure: and ifCurtailed:. *)
LEMMA ProtectStep ==
  ASSUME ConditionsInv, NEW kind \in {"ensure", "ifCurtailed"}, Protect(kind)
  PROVE  ConditionsInv'
<1> DEFINE c == TopActivation
           f == Protection(kind, minted + 1, c)
           s == Scope(kind, kind, c)
           p == [kind |-> kind, began |-> Len(stack) + 1 < MaxDepth, curtailed |-> FALSE,
                 cleaned |-> 0]
<1>1. /\ InCode /\ Len(stack) < MaxDepth /\ scopes' = Append(scopes, s)
      /\ Enter(Append(stack, f), Block(c.home, c.auth))
      /\ protections' = With(protections, minted + 1, p)
      /\ minted' = minted + 1 /\ UNCHANGED <<occurrences, homes>>
  BY DEF Protect, Depth, NextId
<1>2. /\ Consistent(stack, scopes, occurrences, homes, protections, minted)
      /\ stack \in Seq(StackFrames) /\ Len(stack) \in Nat /\ minted \in Nat
      /\ c.home \in DOMAIN homes /\ c.auth \in Authorities /\ Continues(stack, f)
  BY <1>1, InCodeFacts
<1>3. c.home \in Nat BY <1>2, HomesAreNumbers
<1>4. /\ f \in ProtectFrames /\ f.id = minted + 1 /\ f.home = c.home /\ f.auth = c.auth
      /\ f.type = "protect" /\ f.kind = kind /\ f.phase = "protected" /\ f.primary = Answering
  BY <1>2, <1>3 DEF Protection, ProtectFrames, Controls, Answering, Running
<1>5. /\ s \in ScopeRecords /\ s.active = TRUE /\ s.id = minted + 1 /\ s.kind = kind
      /\ s.home = c.home /\ s.auth = c.auth
  BY <1>2, <1>3 DEF Scope, ScopeRecords, NextId
<1>6. /\ p \in ProtectionRecords /\ p.kind = kind /\ (p.began <=> Len(stack) + 1 < MaxDepth)
      /\ p.curtailed = FALSE /\ p.cleaned = 0
  <2> DEFINE room == Len(stack) + 1 < MaxDepth
  <2>1. room \in BOOLEAN OBVIOUS
  <2>2. p = [kind |-> kind, began |-> room, curtailed |-> FALSE, cleaned |-> 0]
    OBVIOUS
  <2> HIDE DEF room, p
  <2>3. p \in ProtectionRecords /\ p.kind = kind /\ p.curtailed = FALSE /\ p.cleaned = 0
    BY <2>1, <2>2 DEF ProtectionRecords
  <2>4. p.began = room BY <2>2
  <2>5. QED BY <2>3, <2>4 DEF room
<1> HIDE DEF c, f, s, p
<1>7. IsScopeOf(s, f) /\ f \in StackFrames
  BY <1>4, <1>5 DEF IsScopeOf, HoldsScope, StackFrames
<1>8. Consistent(Append(stack, f), Append(scopes, s), occurrences, homes,
                 With(protections, minted + 1, p), minted + 1)
  BY <1>2, <1>4, <1>5, <1>6, <1>7, ProtectPushed
<1>9. /\ Len(Append(stack, f)) <= MaxDepth
      /\ Continues(Append(stack, f), Block(c.home, c.auth))
  BY <1>1, <1>2, <1>4, <1>7, OpenAbove, ConditionsAssumption
<1>10. QED BY <1>1, <1>2, <1>3, <1>8, <1>9, BlockEntered

(* The last of some places in a sequence. *)
LEMMA LastPlace ==
  ASSUME NEW n \in Nat, NEW S \in SUBSET (1..n), S # {}
  PROVE  \E i \in S : \A j \in S : j <= i
<1> DEFINE T == {n - i : i \in S}
<1>1. T \subseteq Nat /\ T # {}
  <2>1. \A i \in S : n - i \in Nat OBVIOUS
  <2>2. QED BY <2>1
<1>2. PICK a \in T : \A b \in T : ~ (<<b, a>> \in OpToRel(<, Nat))
  BY <1>1, NatLessThanWellFounded, WFMin
<1>3. \A b \in T : ~(b < a) BY <1>1, <1>2 DEF OpToRel
<1>4. PICK i \in S : a = n - i
  OBVIOUS
<1>5. ASSUME NEW j \in S PROVE j <= i
  <2>1. n - j \in T /\ ~(n - j < a) BY <1>3
  <2>2. QED BY <1>4, <2>1
<1>6. QED BY <1>5

(* The handler that a signal finds. *)
LEMMA InnermostIsActive ==
  ASSUME NEW c, scopes \in Seq(ScopeRecords), Applicable(c) # {}
  PROVE  /\ Innermost(c) \in DOMAIN scopes
         /\ scopes[Innermost(c)].kind = "handler" /\ scopes[Innermost(c)].active = TRUE
<1>1. Len(scopes) \in Nat /\ DOMAIN scopes = 1..Len(scopes) OBVIOUS
<1>2. Applicable(c) \in SUBSET (1..Len(scopes)) BY <1>1 DEF Applicable
<1>3. \E i \in Applicable(c) : \A j \in Applicable(c) : j <= i
  BY <1>1, <1>2, LastPlace
<1>4. Innermost(c) \in Applicable(c) BY <1>3 DEF Innermost
<1>5. \A s \in ScopeRecords : s.active \in BOOLEAN BY DEF ScopeRecords
<1>6. QED BY <1>1, <1>4, <1>5 DEF Applicable

(* Disabling and enabling a handler changes that of its scopes alone. *)
SetTo(ns, id, flag) ==
  /\ ns \in Seq(ScopeRecords) /\ DOMAIN ns = DOMAIN scopes
  /\ \A m \in DOMAIN scopes :
       /\ ns[m].id = scopes[m].id /\ ns[m].home = scopes[m].home
       /\ ns[m].auth = scopes[m].auth /\ ns[m].kind = scopes[m].kind
       /\ ns[m].active = IF scopes[m].id = id THEN flag ELSE scopes[m].active

(* As withDisabled does. *)
LEMMA ScopesAreSet ==
  ASSUME scopes \in Seq(ScopeRecords), NEW id
  PROVE  SetTo(SetActive(id, FALSE), id, FALSE) /\ SetTo(SetActive(id, TRUE), id, TRUE)
<1> SUFFICES ASSUME NEW flag \in BOOLEAN
             PROVE  SetTo(SetActive(id, flag), id, flag)
  OBVIOUS
<1> DEFINE ns == SetActive(id, flag)
<1>1. Len(scopes) \in Nat /\ DOMAIN scopes = 1..Len(scopes) OBVIOUS
<1>2. /\ DOMAIN ns = 1..Len(scopes)
      /\ \A m \in DOMAIN scopes :
           ns[m] = IF scopes[m].id = id THEN [scopes[m] EXCEPT !.active = flag] ELSE scopes[m]
  BY <1>1 DEF SetActive
<1>3. ASSUME NEW m \in DOMAIN scopes
      PROVE  /\ ns[m] \in ScopeRecords
             /\ ns[m].id = scopes[m].id /\ ns[m].home = scopes[m].home
             /\ ns[m].auth = scopes[m].auth /\ ns[m].kind = scopes[m].kind
             /\ ns[m].active = IF scopes[m].id = id THEN flag ELSE scopes[m].active
  <2>1. scopes[m] \in ScopeRecords OBVIOUS
  <2>2. QED BY <1>2, <2>1 DEF ScopeRecords
<1>4. ns \in [1..Len(scopes) -> ScopeRecords]
  <2>1. ns = [m \in 1..Len(scopes) |-> ns[m]] BY <1>1 DEF SetActive
  <2>2. QED BY <1>1, <1>3, <2>1
<1>5. ns \in Seq(ScopeRecords) BY <1>1, <1>4, SeqDef
<1>6. QED BY <1>1, <1>2, <1>3, <1>5 DEF SetTo

(* A signal that a handler takes keeps the invariant. *)
LEMMA SignalStep ==
  ASSUME ConditionsInv, NEW c \in Signals, Signal(c)
  PROVE  ConditionsInv'
<1> DEFINE t == TopActivation
           n == Innermost(c)
           s == scopes[n]
           f == SignalTo(s.id, minted + 1, t)
           o == [id |-> minted + 1, cond |-> c, scope |-> s.id]
           ns == SetActive(s.id, FALSE)
           up == Append(stack, f)
<1>1. /\ InCode /\ Len(stack) < MaxDepth /\ Applicable(c) # {}
      /\ occurrences' = Append(occurrences, o) /\ scopes' = ns
      /\ Enter(up, Block(s.home, s.auth))
      /\ minted' = minted + 1 /\ UNCHANGED <<homes, protections>>
  BY DEF Signal, Depth, NextId, HandlerBlock
<1>2. /\ Consistent(stack, scopes, occurrences, homes, protections, minted)
      /\ stack \in Seq(StackFrames) /\ Len(stack) \in Nat /\ minted \in Nat
      /\ t.home \in DOMAIN homes /\ t.auth \in Authorities /\ Continues(stack, f)
  BY <1>1, InCodeFacts
<1>3. t.home \in Nat BY <1>2, HomesAreNumbers
<1>4. scopes \in Seq(ScopeRecords) /\ ScopesFit(scopes, stack)
  BY <1>2 DEF Consistent, Typed
<1>5. n \in DOMAIN scopes /\ s.kind = "handler" /\ s.active = TRUE
  BY <1>1, <1>4, InnermostIsActive
<1>6. s \in ScopeRecords /\ s.id \in Nat
  <2>1. s \in ScopeRecords BY <1>4, <1>5
  <2>2. QED BY <2>1 DEF ScopeRecords
<1>7. PICK k \in DOMAIN stack : IsScopeOf(s, stack[k])
  BY <1>4, <1>5 DEF ScopesFit
<1>8. stack[k].type = "on" /\ stack[k].id = s.id /\ stack[k].home = s.home /\ stack[k].auth = s.auth
  BY <1>5, <1>7 DEF IsScopeOf
<1>9. /\ f \in SignalFrames /\ f.id = minted + 1 /\ f.home = t.home /\ f.scope = s.id
      /\ f.type = "signal" /\ f \in StackFrames
  BY <1>2, <1>3, <1>6 DEF SignalTo, SignalFrames, StackFrames
<1>10. o \in OccurrenceRecords /\ IsOccurrenceOf(o, f)
  BY <1>2, <1>6, <1>9 DEF OccurrenceRecords, IsOccurrenceOf
<1>11. SetTo(ns, f.scope, FALSE) BY <1>4, <1>9, ScopesAreSet
<1>12. \E m \in DOMAIN scopes :
         scopes[m].id = f.scope /\ scopes[m].active = TRUE /\ scopes[m].kind = "handler"
  BY <1>5, <1>9
<1> HIDE DEF t, n, s, f, o, ns
<1>13. Consistent(up, ns, Append(occurrences, o), homes, protections, minted + 1)
  BY <1>2, <1>9, <1>10, <1>11, <1>12, SignalPushed DEF SetTo
<1>14. up \in Seq(StackFrames) /\ Pushes(stack, f, up)
  BY <1>2, <1>9, AppendPushes
<1>15. Continues(up, Block(s.home, s.auth)) /\ Len(up) <= MaxDepth
  <2>1. Len(up) <= MaxDepth
    BY <1>1, <1>2, <1>14, ConditionsAssumption DEF Pushes
  <2>2. /\ up[Len(up)] = f /\ k \in 1..(Len(up) - 1) /\ up[k] = stack[k]
    BY <1>14 DEF Pushes
  <2>3. Block(s.home, s.auth).auth = up[k].auth BY <1>8, <2>2 DEF Block
  <2>4. QED BY <1>8, <1>9, <2>1, <2>2, <2>3 DEF Continues
<1>16. s.home \in DOMAIN homes /\ s.home \in Nat /\ s.auth \in Authorities
  <2>1. stack[k].home \in DOMAIN homes BY <1>2 DEF Consistent, IdsGrow
  <2>2. s.home \in Nat /\ s.auth \in Authorities BY <1>6 DEF ScopeRecords
  <2>3. QED BY <1>8, <2>1, <2>2
<1> HIDE DEF up
<1>17. QED BY <1>1, <1>13, <1>15, <1>16, BlockEntered

----------------------------------------
(* A throw whose transfer lands keeps the invariant. *)
LEMMA ThrowKeeps ==
  ASSUME ConditionsInv, NEW m \in Controls, m # Running, LandsIn(m, stack, Len(stack)), Throw(m)
  PROVE  ConditionsInv'
<1>1. /\ Consistent(stack, scopes, occurrences, homes, protections, minted)
      /\ Len(stack) <= MaxDepth
  BY DEF ConditionsInv, Depth
<1>2. mode' = m /\ UNCHANGED <<stack, scopes, occurrences, homes, protections, minted>>
  BY DEF Throw
<1>3. Landed(mode', stack') BY <1>1, <1>2 DEF Landed
<1>4. Consistent(stack', scopes', occurrences', homes', protections', minted')
  BY <1>1, <1>2
<1>5. QED BY <1>3, <1>4, InvariantParts

(* What is no transfer lands anyway. *)
LEMMA NoTransferLands ==
  ASSUME NEW m \in {Answering, Failing}, NEW st
  PROVE  m \in Controls /\ m # Running /\ LandsIn(m, st, Len(st))
BY DEF Controls, LandsIn, Answering, Failing, Running

(* What a transfer is. *)
LEMMA TransferIsControl ==
  ASSUME NEW kind \in {"return", "resume", "nonlocal"}, NEW target \in Nat
  PROVE  /\ Transfer(kind, target) \in Controls /\ Transfer(kind, target) # Running
         /\ Transfer(kind, target).what = kind /\ Transfer(kind, target).target = target
BY DEF Transfer, Controls, Running

(* Code ends, or fails. *)
LEMMA FinishStep ==
  ASSUME ConditionsInv, NEW m \in {Answering, Failing}, Finish(m)
  PROVE  ConditionsInv'
BY NoTransferLands, ThrowKeeps DEF Finish

(* A signal that none takes. *)
LEMMA SignalFailsStep ==
  ASSUME ConditionsInv, NEW c, SignalFails(c)
  PROVE  ConditionsInv'
BY NoTransferLands, ThrowKeeps DEF SignalFails

(* return: and resume: of an occurrence that is still on the stack. *)
LEMMA TransferStep ==
  ASSUME ConditionsInv, NEW c, NEW kind \in {"return", "resume"}, TransferOccurrence(c, kind)
  PROVE  ConditionsInv'
<1>1. CASE OccurrencesOf(c) = {}
  BY <1>1, NoTransferLands, ThrowKeeps DEF TransferOccurrence
<1>2. CASE OccurrencesOf(c) # {}
  <2>1. /\ occurrences \in Seq(OccurrenceRecords) /\ OccurrencesFit(occurrences, stack)
        /\ SignalsFit(scopes, stack) /\ stack \in Seq(StackFrames)
    BY DEF ConditionsInv, Consistent, Typed
  <2>2. Len(occurrences) \in Nat /\ DOMAIN occurrences = 1..Len(occurrences)
    BY <2>1
  <2>3. OccurrencesOf(c) \in SUBSET (1..Len(occurrences))
    BY <2>2 DEF OccurrencesOf
  <2>4. \E i \in OccurrencesOf(c) : \A j \in OccurrencesOf(c) : j <= i
    BY <1>2, <2>2, <2>3, LastPlace
  <2>5. PICK n \in DOMAIN occurrences : Newest(c) = occurrences[n]
    BY <2>2, <2>3, <2>4 DEF Newest
  <2>6. Newest(c) \in OccurrenceRecords BY <2>1, <2>5
  <2>7. PICK i \in DOMAIN stack : IsOccurrenceOf(Newest(c), stack[i])
    BY <2>1, <2>5 DEF OccurrencesFit
  <2>8. i \in 1..Len(stack) /\ Len(stack) \in Nat BY <2>1
  <2>9. PICK j \in 1..(i - 1) : stack[j].type = "on" /\ stack[j].id = Newest(c).scope
    BY <2>1, <2>7 DEF SignalsFit, IsOccurrenceOf
  <2>10. CASE kind = "resume"
    <3> DEFINE m == Transfer("resume", Newest(c).id)
    <3>1. Newest(c).id \in Nat BY <2>6 DEF OccurrenceRecords
    <3>2. m \in Controls /\ m # Running /\ m.what = "resume" /\ m.target = Newest(c).id
      BY <3>1, TransferIsControl
    <3>3. Receives(stack[i], m) BY <2>7, <3>2 DEF Receives, IsOccurrenceOf
    <3>4. LandsIn(m, stack, Len(stack)) BY <2>8, <3>3 DEF LandsIn
    <3>5. Throw(m) BY <1>2, <2>10 DEF TransferOccurrence
    <3>6. QED BY <3>2, <3>4, <3>5, ThrowKeeps
  <2>11. CASE kind = "return"
    <3> DEFINE m == Transfer("return", Newest(c).scope)
    <3>1. Newest(c).scope \in Nat BY <2>6 DEF OccurrenceRecords
    <3>2. m \in Controls /\ m # Running /\ m.what = "return" /\ m.target = Newest(c).scope
      BY <3>1, TransferIsControl
    <3>3. Receives(stack[j], m) BY <2>9, <3>2 DEF Receives
    <3>4. LandsIn(m, stack, Len(stack)) BY <2>8, <3>3 DEF LandsIn
    <3>5. Throw(m) BY <1>2, <2>11 DEF TransferOccurrence
    <3>6. QED BY <3>2, <3>4, <3>5, ThrowKeeps
  <2>12. QED BY <2>10, <2>11
<1>3. QED BY <1>1, <1>2

(* ^ from a Block whose home still runs, or no longer does. *)
LEMMA NonLocalReturnStep ==
  ASSUME ConditionsInv, NonLocalReturn
  PROVE  ConditionsInv'
<1> DEFINE home == TopActivation.home
           m == Transfer("nonlocal", home)
<1>1. InCode BY DEF NonLocalReturn
<1>2. home \in DOMAIN homes /\ stack \in Seq(StackFrames) BY <1>1, InCodeFacts
<1>3. CASE homes[home] = "dead"
  BY <1>3, NoTransferLands, ThrowKeeps DEF NonLocalReturn
<1>4. CASE homes[home] # "dead"
  <2>1. HomesFit(homes, stack) /\ homes[home] \in {"live", "dead"}
    BY <1>2 DEF ConditionsInv, Consistent, Typed
  <2>2. PICK i \in DOMAIN stack : stack[i].type = "method" /\ stack[i].id = home
    BY <1>2, <1>4, <2>1 DEF HomesFit
  <2>3. home \in Nat BY <1>2, HomesAreNumbers
  <2>4. m \in Controls /\ m # Running /\ m.what = "nonlocal" /\ m.target = home
    BY <2>3, TransferIsControl
  <2>5. Receives(stack[i], m) BY <2>2, <2>4 DEF Receives
  <2>6. LandsIn(m, stack, Len(stack)) BY <1>2, <2>5 DEF LandsIn
  <2>7. Throw(m) BY <1>4 DEF NonLocalReturn
  <2>8. QED BY <2>4, <2>6, <2>7, ThrowKeeps
<1>5. QED BY <1>3, <1>4

----------------------------------------
(* The innermost scope is what leave takes off. *)
LEMMA ScopeLeft ==
  ASSUME NEW n \in Nat \ {0}, DOMAIN scopes = 1..n, n = Len(scopes), NEW id, scopes[n].id = id,
         \A m \in DOMAIN scopes : scopes[m].id = id => m = n
  PROVE  LeaveScope(id) = Front(scopes)
<1>1. (CHOOSE i \in DOMAIN scopes : scopes[i].id = id) = n OBVIOUS
<1>2. QED BY <1>1 DEF LeaveScope, Front

(* The newest occurrence is what endOccurrence takes out. *)
LEMMA OccurrenceEnded ==
  ASSUME NEW n \in Nat \ {0}, DOMAIN occurrences = 1..n, n = Len(occurrences), NEW id,
         occurrences \in Seq(OccurrenceRecords), occurrences[n].id = id,
         \A m \in DOMAIN occurrences : occurrences[m].id = id => m = n
  PROVE  EndOccurrence(id) = Front(occurrences)
<1>1. (CHOOSE i \in DOMAIN occurrences : occurrences[i].id = id) = n OBVIOUS
<1>2. EndOccurrence(id) = RemoveAt(occurrences, n) BY <1>1 DEF EndOccurrence
<1>3. SubSeq(occurrences, n + 1, n) = <<>> OBVIOUS
<1>4. SubSeq(occurrences, 1, n - 1) \in Seq(OccurrenceRecords) OBVIOUS
<1>5. SubSeq(occurrences, 1, n - 1) \o <<>> = SubSeq(occurrences, 1, n - 1)
  BY <1>4
<1>6. QED BY <1>2, <1>3, <1>5 DEF RemoveAt, Front

(* What is known where control passes down. *)
LEMMA PassingFacts ==
  ASSUME ConditionsInv, NEW type, Passing(type)
  PROVE  /\ Consistent(stack, scopes, occurrences, homes, protections, minted)
         /\ stack # <<>> /\ Last(stack) = TopActivation /\ Last(stack).type = type
         /\ Pushes(Front(stack), Last(stack), stack) /\ Front(stack) = Below
         /\ Front(stack) \in Seq(StackFrames) /\ Last(stack) \in StackFrames
         /\ Len(stack) \in Nat \ {0} /\ Len(Front(stack)) = Len(stack) - 1
         /\ Len(stack) <= MaxDepth /\ Len(Front(stack)) <= MaxDepth
         /\ mode \in Controls /\ mode # Running /\ LandsIn(mode, stack, Len(stack))
<1>1. /\ Consistent(stack, scopes, occurrences, homes, protections, minted)
      /\ stack # <<>> /\ Last(stack) = TopActivation /\ Last(stack).type = type
      /\ Front(stack) = Below /\ Len(stack) <= MaxDepth
      /\ mode \in Controls /\ mode # Running /\ LandsIn(mode, stack, Len(stack))
  BY DEF ConditionsInv, Passing, TopActivation, Below, Depth
<1>2. /\ Pushes(Front(stack), Last(stack), stack)
      /\ Front(stack) \in Seq(StackFrames) /\ Last(stack) \in StackFrames
      /\ Len(stack) \in Nat \ {0} /\ Len(Front(stack)) = Len(stack) - 1
  BY <1>1, TakenOff
<1>3. Len(Front(stack)) <= MaxDepth BY <1>1, <1>2, ConditionsAssumption
<1>4. QED BY <1>1, <1>2, <1>3

(* A value or a transfer goes on past the top, or is stopped there. *)
LEMMA PassedOn ==
  ASSUME ConditionsInv, NEW type, Passing(type), NEW m \in Controls, m # Running,
         LandsIn(m, Front(stack), Len(Front(stack)))
  PROVE  Landed(Answer(Front(stack), m), Front(stack))
BY PassingFacts, AnswerLands

(* A method is left. *)
LEMMA LeaveMethodStep ==
  ASSUME ConditionsInv, LeaveMethod
  PROVE  ConditionsInv'
<1> DEFINE f == Last(stack)
           low == Front(stack)
           m == IF mode = Transfer("nonlocal", f.id) THEN Answering ELSE mode
<1>1. Passing("method") BY DEF LeaveMethod
<1>2. /\ Consistent(stack, scopes, occurrences, homes, protections, minted)
      /\ stack # <<>> /\ f = TopActivation /\ f.type = "method" /\ low = Below
      /\ Pushes(low, f, stack)
      /\ mode \in Controls /\ mode # Running /\ LandsIn(mode, stack, Len(stack))
  BY <1>1, PassingFacts
<1>3. /\ stack' = low /\ mode' = Answer(low, m) /\ homes' = [homes EXCEPT ![f.id] = "dead"]
      /\ UNCHANGED <<scopes, occurrences, protections, minted>>
  BY <1>2 DEF LeaveMethod
<1>4. Consistent(low, scopes, occurrences, [homes EXCEPT ![f.id] = "dead"], protections, minted)
  BY <1>2, MethodPopped
<1> HIDE DEF low, f
<1>5. m \in Controls /\ m # Running /\ LandsIn(m, low, Len(low))
  <2>1. CASE mode = Transfer("nonlocal", f.id)
    BY <2>1, NoTransferLands
  <2>2. CASE mode # Transfer("nonlocal", f.id)
    BY <1>2, <2>2, LandsFurther
  <2>3. QED BY <2>1, <2>2
<1>6. Landed(mode', stack') BY <1>1, <1>3, <1>5, PassedOn DEF low
<1>7. Consistent(stack', scopes', occurrences', homes', protections', minted')
  BY <1>3, <1>4
<1>8. QED BY <1>6, <1>7, InvariantParts

(* A Block is left. *)
LEMMA LeaveBlockStep ==
  ASSUME ConditionsInv, LeaveBlock
  PROVE  ConditionsInv'
<1> DEFINE f == Last(stack)
           low == Front(stack)
<1>1. Passing("block") BY DEF LeaveBlock
<1>2. /\ Consistent(stack, scopes, occurrences, homes, protections, minted)
      /\ stack # <<>> /\ f.type = "block" /\ low = Below
      /\ Pushes(low, f, stack)
      /\ mode \in Controls /\ mode # Running /\ LandsIn(mode, stack, Len(stack))
  BY <1>1, PassingFacts
<1>3. /\ stack' = low /\ mode' = Answer(low, mode)
      /\ UNCHANGED <<scopes, occurrences, homes, protections, minted>>
  BY <1>2 DEF LeaveBlock
<1>4. Consistent(low, scopes, occurrences, homes, protections, minted)
  BY <1>2, PlainPopped
<1> HIDE DEF low, f
<1>5. LandsIn(mode, low, Len(low)) BY <1>2, LandsFurther
<1>6. Landed(mode', stack') BY <1>1, <1>2, <1>3, <1>5, PassedOn DEF low
<1>7. Consistent(stack', scopes', occurrences', homes', protections', minted')
  BY <1>3, <1>4
<1>8. QED BY <1>6, <1>7, InvariantParts

(* on:do: is left. *)
LEMMA LeaveOnStep ==
  ASSUME ConditionsInv, LeaveOn
  PROVE  ConditionsInv'
<1> DEFINE f == Last(stack)
           low == Front(stack)
           m == IF mode = Transfer("return", f.id) THEN Answering ELSE mode
<1>1. Passing("on") BY DEF LeaveOn
<1>2. /\ Consistent(stack, scopes, occurrences, homes, protections, minted)
      /\ stack # <<>> /\ f = TopActivation /\ f.type = "on" /\ low = Below
      /\ Pushes(low, f, stack)
      /\ mode \in Controls /\ mode # Running /\ LandsIn(mode, stack, Len(stack))
  BY <1>1, PassingFacts
<1>3. /\ stack' = low /\ mode' = Answer(low, m) /\ scopes' = LeaveScope(f.id)
      /\ UNCHANGED <<occurrences, homes, protections, minted>>
  BY <1>2 DEF LeaveOn
<1>4. /\ Consistent(low, Front(scopes), occurrences, homes, protections, minted)
      /\ LeaveScope(f.id) = Front(scopes)
  <2>1. HoldsScope(f) BY <1>2 DEF HoldsScope
  <2>2. protections \in [DOMAIN protections -> ProtectionRecords]
    BY <1>2 DEF Consistent, Typed
  <2>3. ProtectionsFit(protections, low) BY <1>2, ProtectionsStay DEF Consistent
  <2>4. /\ Consistent(low, Front(scopes), occurrences, homes, protections, minted)
        /\ Len(scopes) \in Nat \ {0} /\ DOMAIN scopes = 1..Len(scopes)
        /\ scopes[Len(scopes)].id = f.id
        /\ \A k \in DOMAIN scopes : scopes[k].id = f.id => k = Len(scopes)
    BY <1>2, <2>1, <2>2, <2>3, HolderPopped
  <2>5. QED BY <2>4, ScopeLeft
<1> HIDE DEF low, f
<1>5. m \in Controls /\ m # Running /\ LandsIn(m, low, Len(low))
  <2>1. CASE mode = Transfer("return", f.id)
    BY <2>1, NoTransferLands
  <2>2. CASE mode # Transfer("return", f.id)
    BY <1>2, <2>2, LandsFurther
  <2>3. QED BY <2>1, <2>2
<1>6. Landed(mode', stack') BY <1>1, <1>3, <1>5, PassedOn DEF low
<1>7. Consistent(stack', scopes', occurrences', homes', protections', minted')
  BY <1>3, <1>4
<1>8. QED BY <1>6, <1>7, InvariantParts

(* A protection is left after its cleanup. *)
LEMMA EndCleanupStep ==
  ASSUME ConditionsInv, EndCleanup
  PROVE  ConditionsInv'
<1> DEFINE f == Last(stack)
           low == Front(stack)
           m == IF mode = Answering THEN f.primary ELSE mode
<1>1. Passing("protect") BY DEF EndCleanup
<1>2. /\ Consistent(stack, scopes, occurrences, homes, protections, minted)
      /\ stack # <<>> /\ f = TopActivation /\ f.type = "protect" /\ low = Below
      /\ Pushes(low, f, stack) /\ f \in StackFrames
      /\ mode \in Controls /\ mode # Running /\ LandsIn(mode, stack, Len(stack))
  BY <1>1, PassingFacts
<1>3. /\ stack' = low /\ mode' = Answer(low, m) /\ f.phase = "cleanup"
      /\ UNCHANGED <<scopes, occurrences, homes, protections, minted>>
  BY <1>2 DEF EndCleanup
<1>4. Consistent(low, scopes, occurrences, homes, protections, minted)
  BY <1>2, <1>3, PlainPopped
<1>5. LandsIn(f.primary, low, Len(low)) /\ f.primary \in Controls /\ f.primary # Running
  BY <1>2, TakenOff, FrameFields
<1> HIDE DEF low, f
<1>6. m \in Controls /\ m # Running /\ LandsIn(m, low, Len(low))
  BY <1>2, <1>5, LandsFurther
<1>7. Landed(mode', stack') BY <1>1, <1>3, <1>6, PassedOn DEF low
<1>8. Consistent(stack', scopes', occurrences', homes', protections', minted')
  BY <1>3, <1>4
<1>9. QED BY <1>7, <1>8, InvariantParts

(* The protected Block is left: the scope goes with it. *)
LEMMA ProtectionLeft ==
  ASSUME ConditionsInv, Passing("protect"), TopActivation.phase = "protected",
         NEW np, np \in [DOMAIN np -> ProtectionRecords], DOMAIN np = DOMAIN protections,
         ProtectionsFit(np, Front(stack))
  PROVE  /\ Consistent(Front(stack), Front(scopes), occurrences, homes, np, minted)
         /\ LeaveScope(Last(stack).id) = Front(scopes)
<1>1. /\ Consistent(stack, scopes, occurrences, homes, protections, minted)
      /\ stack # <<>> /\ Last(stack) = TopActivation /\ Last(stack).type = "protect"
  BY PassingFacts
<1>2. HoldsScope(Last(stack)) BY <1>1 DEF HoldsScope
<1>3. /\ Consistent(Front(stack), Front(scopes), occurrences, homes, np, minted)
      /\ Len(scopes) \in Nat \ {0} /\ DOMAIN scopes = 1..Len(scopes)
      /\ scopes[Len(scopes)].id = Last(stack).id
      /\ \A k \in DOMAIN scopes : scopes[k].id = Last(stack).id => k = Len(scopes)
  BY <1>1, <1>2, HolderPopped
<1>4. QED BY <1>3, ScopeLeft

(* What the record of a protection becomes when its cleanup begins. *)
Cleaned(pr, id, curtailed, more) ==
  [pr EXCEPT ![id].curtailed = curtailed, ![id].cleaned = @ + more]

(* That record, and that the others stay. *)
LEMMA RecordCleaned ==
  ASSUME NEW pr, pr \in [DOMAIN pr -> ProtectionRecords], NEW id \in DOMAIN pr,
         NEW curtailed \in BOOLEAN, NEW more \in Nat, NEW np,
         np = Cleaned(pr, id, curtailed, more)
  PROVE  /\ np \in [DOMAIN np -> ProtectionRecords] /\ DOMAIN np = DOMAIN pr
         /\ \A x \in DOMAIN pr \ {id} : np[x] = pr[x]
         /\ np[id].kind = pr[id].kind /\ np[id].began = pr[id].began
         /\ np[id].curtailed = curtailed /\ np[id].cleaned = pr[id].cleaned + more
<1> DEFINE p == [pr[id] EXCEPT !.curtailed = curtailed, !.cleaned = @ + more]
<1>1. /\ p \in ProtectionRecords /\ p.kind = pr[id].kind /\ p.began = pr[id].began
      /\ p.curtailed = curtailed /\ p.cleaned = pr[id].cleaned + more
  <2> DEFINE q == [pr[id] EXCEPT !.curtailed = curtailed]
  <2>1. pr[id] \in ProtectionRecords OBVIOUS
  <2>2. /\ q \in ProtectionRecords /\ q.kind = pr[id].kind /\ q.began = pr[id].began
        /\ q.curtailed = curtailed /\ q.cleaned = pr[id].cleaned
    BY <2>1 DEF ProtectionRecords
  <2>3. p = [q EXCEPT !.cleaned = pr[id].cleaned + more] OBVIOUS
  <2> HIDE DEF p, q
  <2>4. q.cleaned \in Nat BY <2>2 DEF ProtectionRecords
  <2>5. QED BY <2>2, <2>3, <2>4 DEF ProtectionRecords
<1>2. np = [pr EXCEPT ![id] = p]
  <2> DEFINE q == [pr EXCEPT ![id].curtailed = curtailed]
  <2>1. q[id] = [pr[id] EXCEPT !.curtailed = curtailed] OBVIOUS
  <2>2. np = [q EXCEPT ![id] = [q[id] EXCEPT !.cleaned = pr[id].cleaned + more]]
    BY DEF Cleaned
  <2>3. [q[id] EXCEPT !.cleaned = pr[id].cleaned + more] = p
    <3>1. pr[id].cleaned = [pr[id] EXCEPT !.curtailed = curtailed].cleaned
      OBVIOUS
    <3>2. QED BY <2>1, <3>1
  <2> HIDE DEF p
  <2>4. np = [q EXCEPT ![id] = p] BY <2>2, <2>3
  <2>5. QED BY <2>4
<1> HIDE DEF p
<1>3. DOMAIN np = DOMAIN pr /\ np[id] = p /\ \A x \in DOMAIN pr \ {id} : np[x] = pr[x]
  BY <1>2
<1>4. np \in [DOMAIN np -> ProtectionRecords] BY <1>1, <1>2
<1>5. QED BY <1>1, <1>3, <1>4

(* An ifCurtailed: answers, or the cleanup Block begins. *)
LEMMA EndProtectedStep ==
  ASSUME ConditionsInv, EndProtected
  PROVE  ConditionsInv'
<1> DEFINE f == Last(stack)
           low == Front(stack)
           g == [f EXCEPT !.phase = "cleanup", !.primary = mode]
<1>1. Passing("protect") /\ TopActivation.phase = "protected"
  BY DEF EndProtected
<1>2. /\ Consistent(stack, scopes, occurrences, homes, protections, minted)
      /\ stack # <<>> /\ f = TopActivation /\ f.type = "protect" /\ low = Below
      /\ Pushes(low, f, stack) /\ f \in StackFrames /\ low \in Seq(StackFrames)
      /\ Len(stack) \in Nat \ {0} /\ Len(low) = Len(stack) - 1 /\ Len(stack) <= MaxDepth
      /\ mode \in Controls /\ mode # Running /\ LandsIn(mode, stack, Len(stack))
  BY <1>1, PassingFacts
<1>3. /\ f.id \in Nat /\ f.home \in DOMAIN homes /\ f.id \in 1..minted /\ Above(low, f)
      /\ f.auth \in Authorities /\ f.kind \in {"ensure", "ifCurtailed"} /\ f.home \in Nat
  BY <1>2, TakenOff, FrameFields DEF HasId
<1>4. LandsIn(mode, low, Len(low)) BY <1>2, LandsFurther
<1>5. ProtectionsFit(protections, stack) /\ protections \in [DOMAIN protections -> ProtectionRecords]
  BY <1>2 DEF Consistent, Typed
<1>6. f.phase = "protected" BY <1>1, <1>2
<1>7. scopes' = LeaveScope(f.id) /\ UNCHANGED <<occurrences, homes, minted>>
  BY <1>2 DEF EndProtected
<1>8. CASE mode = Answering /\ f.kind = "ifCurtailed"
  <2>1. stack' = low /\ mode' = Answer(low, mode) /\ UNCHANGED protections
    BY <1>2, <1>8 DEF EndProtected
  <2>2. ProtectionsFit(protections, low)
    <3> HIDE DEF f, low
    <3>1. QED BY <1>2, <1>3, <1>5, <1>6, <1>8, ProtectionsAnswered
  <2>3. /\ Consistent(low, Front(scopes), occurrences, homes, protections, minted)
        /\ LeaveScope(f.id) = Front(scopes)
    BY <1>1, <1>5, <2>2, ProtectionLeft
  <2>4. Landed(mode', stack') BY <1>1, <1>2, <1>4, <2>1, PassedOn
  <2>5. Consistent(stack', scopes', occurrences', homes', protections', minted')
    BY <1>7, <2>1, <2>3
  <2>6. QED BY <2>4, <2>5, InvariantParts
<1>9. CASE ~(mode = Answering /\ f.kind = "ifCurtailed")
  <2> DEFINE more == IF Len(stack) < MaxDepth THEN 1 ELSE 0
             curtailed == mode # Answering
             np == [protections EXCEPT ![f.id].curtailed = curtailed, ![f.id].cleaned = @ + more]
  <2>1. /\ Enter(Append(low, g), Block(f.home, f.auth)) /\ protections' = np
    BY <1>2, <1>9 DEF EndProtected, Depth
  <2>2. f.id \in DOMAIN protections
    BY <1>2, <1>5, <1>6 DEF ProtectionsFit, Pushes
  <2>3. curtailed \in BOOLEAN /\ more \in Nat OBVIOUS
  <2>4. curtailed \/ f.kind = "ensure" BY <1>3, <1>9
  <2> HIDE DEF curtailed, more, f, low
  <2>20. np = Cleaned(protections, f.id, curtailed, more) BY DEF Cleaned
  <2> HIDE DEF np
  <2>5. /\ np \in [DOMAIN np -> ProtectionRecords] /\ DOMAIN np = DOMAIN protections
        /\ \A x \in DOMAIN protections \ {f.id} : np[x] = protections[x]
        /\ np[f.id].kind = protections[f.id].kind /\ np[f.id].began = protections[f.id].began
        /\ np[f.id].curtailed = curtailed /\ np[f.id].cleaned = protections[f.id].cleaned + more
    BY <1>5, <2>2, <2>3, <2>20, RecordCleaned
  <2>6. np[f.id].cleaned = protections[f.id].cleaned + IF Len(stack) < MaxDepth THEN 1 ELSE 0
    BY <2>5 DEF more
  <2>7. ProtectionsFit(np, low) /\ f.id \in DOMAIN np /\ np[f.id].kind = f.kind
    BY <1>2, <1>3, <1>5, <1>6, <2>4, <2>5, <2>6, ProtectionsCleaned
  <2>8. /\ Consistent(low, Front(scopes), occurrences, homes, np, minted)
        /\ LeaveScope(f.id) = Front(scopes)
    BY <1>1, <2>5, <2>7, ProtectionLeft DEF f, low
  <2>9. f \in ProtectFrames
    BY <1>2 DEF StackFrames, CodeFrames, OnFrames, SignalFrames
  <2>10. /\ g \in ProtectFrames /\ g.id = f.id /\ g.home = f.home /\ g.auth = f.auth
         /\ g.type = "protect" /\ g.kind = f.kind /\ g.phase = "cleanup" /\ g.primary = mode
    BY <1>2, <2>9 DEF ProtectFrames
  <2> HIDE DEF g
  <2>11. Continues(low, g) BY <1>2, <2>10, ReplacedTop DEF Consistent
  <2>12. Above(low, g) /\ g \in StackFrames
    BY <1>2, <1>3, <2>10 DEF Above, HasId, StackFrames
  <2>13. Consistent(Append(low, g), Front(scopes), occurrences, homes, np, minted)
    BY <1>3, <1>4, <2>7, <2>8, <2>10, <2>11, <2>12, CleanupPushed
  <2>14. /\ Continues(Append(low, g), Block(f.home, f.auth))
         /\ Len(Append(low, g)) <= MaxDepth
    BY <1>2, <2>10, <2>12, OpenAbove
  <2>15. QED BY <1>3, <1>7, <2>1, <2>8, <2>13, <2>14, BlockEntered
<1>10. QED BY <1>8, <1>9

(* The rest of signal: a handler that falls off its end returns. *)
LEMMA LeaveSignalStep ==
  ASSUME ConditionsInv, LeaveSignal
  PROVE  ConditionsInv'
<1> DEFINE f == Last(stack)
           low == Front(stack)
           m == CASE mode = Answering -> Transfer("return", f.scope)
                  [] mode = Transfer("resume", f.id) -> Answering
                  [] OTHER -> mode
           ns == SetActive(f.scope, TRUE)
<1>1. Passing("signal") BY DEF LeaveSignal
<1>2. /\ Consistent(stack, scopes, occurrences, homes, protections, minted)
      /\ stack # <<>> /\ f = TopActivation /\ f.type = "signal" /\ low = Below
      /\ Pushes(low, f, stack) /\ f \in StackFrames
      /\ mode \in Controls /\ mode # Running /\ LandsIn(mode, stack, Len(stack))
  BY <1>1, PassingFacts
<1>3. /\ stack' = low /\ mode' = Answer(low, m) /\ scopes' = ns
      /\ occurrences' = EndOccurrence(f.id) /\ UNCHANGED <<homes, protections, minted>>
  BY <1>2 DEF LeaveSignal
<1>4. /\ occurrences \in Seq(OccurrenceRecords) /\ scopes \in Seq(ScopeRecords)
      /\ SignalsFit(scopes, stack)
  BY <1>2 DEF Consistent, Typed
<1>5. /\ Consistent(low, ns, Front(occurrences), homes, protections, minted)
      /\ EndOccurrence(f.id) = Front(occurrences)
  <2>1. SetTo(ns, f.scope, TRUE) BY <1>4, ScopesAreSet
  <2>2. /\ Consistent(low, ns, Front(occurrences), homes, protections, minted)
        /\ Len(occurrences) \in Nat \ {0} /\ DOMAIN occurrences = 1..Len(occurrences)
        /\ occurrences[Len(occurrences)].id = f.id
        /\ \A k \in DOMAIN occurrences : occurrences[k].id = f.id => k = Len(occurrences)
    <3>1. EnabledAgain(ns, scopes, f.scope) BY <2>1 DEF SetTo, EnabledAgain
    <3> HIDE DEF ns
    <3>2. QED BY <1>2, <3>1, SignalPopped
  <2>3. QED BY <1>4, <2>2, OccurrenceEnded
<1> HIDE DEF low, f, ns
<1>6. m \in Controls /\ m # Running /\ LandsIn(m, low, Len(low))
  <2>1. CASE mode = Answering
    <3>0. Answering # Transfer("resume", f.id) BY DEF Answering, Transfer
    <3>1. m = Transfer("return", f.scope) /\ f.scope \in Nat
      BY <1>2, <2>1, <3>0, FrameFields
    <3>2. /\ m \in Controls /\ m # Running /\ m.what = "return" /\ m.target = f.scope
      BY <3>1, TransferIsControl
    <3>3. Len(stack) \in DOMAIN stack /\ stack[Len(stack)].type = "signal"
          /\ stack[Len(stack)].scope = f.scope
      BY <1>2 DEF Pushes
    <3>4. \A i \in DOMAIN stack : stack[i].type = "signal" =>
            \E j \in 1..(i - 1) : stack[j].type = "on" /\ stack[j].id = stack[i].scope
      BY <1>4 DEF SignalsFit
    <3>5. PICK j \in 1..(Len(stack) - 1) : stack[j].type = "on" /\ stack[j].id = f.scope
      BY <3>3, <3>4
    <3>6. j \in 1..Len(low) /\ low[j] = stack[j] BY <1>2, <3>5 DEF Pushes
    <3>7. Receives(low[j], m) BY <3>2, <3>5, <3>6 DEF Receives
    <3>8. QED BY <3>2, <3>6, <3>7 DEF LandsIn
  <2>2. CASE mode = Transfer("resume", f.id) /\ mode # Answering
    BY <2>2, NoTransferLands
  <2>3. CASE mode # Transfer("resume", f.id) /\ mode # Answering
    BY <1>2, <2>3, LandsFurther
  <2>4. QED BY <2>1, <2>2, <2>3
<1>7. Landed(mode', stack') BY <1>1, <1>3, <1>6, PassedOn DEF low
<1>8. Consistent(stack', scopes', occurrences', homes', protections', minted')
  BY <1>3, <1>5
<1>9. QED BY <1>7, <1>8, InvariantParts

----------------------------------------
(* One activation, the root method, and nothing else. *)
LEMMA ConditionsBegin ==
  ASSUME ConditionsInit
  PROVE  ConditionsInv
<1>1. PICK a \in Authorities : stack = <<Method(1, a)>>
  BY DEF ConditionsInit
<1>2. /\ scopes = <<>> /\ occurrences = <<>> /\ homes = [frame \in {1} |-> "live"]
      /\ mode = Running /\ protections = <<>> /\ minted = 1
  BY DEF ConditionsInit
<1>3. /\ Len(stack) = 1 /\ DOMAIN stack = 1..1 /\ stack[1] = Method(1, a) /\ Last(stack) = Method(1, a)
      /\ stack \in Seq(StackFrames) /\ stack # <<>>
  <2>1. Method(1, a) \in StackFrames BY DEF StackFrames, CodeFrames, Method
  <2>2. QED BY <1>1, <2>1 DEF Last
<1>4. Method(1, a).type = "method" /\ Method(1, a).id = 1 /\ Method(1, a).home = 1
  BY DEF Method
<1>5. Typed(stack, scopes, occurrences, homes, protections, minted)
  BY <1>2, <1>3 DEF Typed
<1>6. IdsGrow(stack, homes, minted) /\ HomesFit(homes, stack)
  BY <1>2, <1>3, <1>4 DEF IdsGrow, HomesFit
<1>7. DOMAIN scopes = {} /\ DOMAIN occurrences = {} /\ DOMAIN protections = {}
  BY <1>2
<1>8. \A i \in DOMAIN stack : stack[i].type = "method" BY <1>3, <1>4
<1>9. ScopesFit(scopes, stack) /\ OccurrencesFit(occurrences, stack)
  BY <1>7, <1>8 DEF ScopesFit, OccurrencesFit, HoldsScope
<1>10. SignalsFit(scopes, stack) /\ ProtectionsFit(protections, stack) /\ CleanupsLand(stack)
  BY <1>7, <1>8 DEF SignalsFit, ProtectionsFit, CleanupsLand
<1>11. Consistent(stack, scopes, occurrences, homes, protections, minted)
  BY <1>5, <1>6, <1>9, <1>10 DEF Consistent
<1>12. Depth <= MaxDepth /\ CodeRuns
  BY <1>3, <1>4, ConditionsAssumption DEF Depth, CodeRuns, TopActivation, IsCode
<1>13. mode \in Controls /\ LandsIn(mode, stack, Depth)
  BY <1>2 DEF Controls, LandsIn, Running
<1>14. QED BY <1>11, <1>12, <1>13 DEF ConditionsInv

(* Every step keeps it. *)
LEMMA ConditionsStep ==
  ASSUME ConditionsInv, [ConditionsNext]_conditionVars
  PROVE  ConditionsInv'
<1>1. CASE UNCHANGED conditionVars
  BY <1>1 DEF conditionVars, ConditionsInv, Consistent, Typed, IdsGrow, HomesFit, ScopesFit,
              OccurrencesFit, SignalsFit, ProtectionsFit, CleanupsLand, LandsIn, CodeRuns, Depth,
              TopActivation
<1>2. ASSUME NEW a \in Authorities, CallMethod(a) PROVE ConditionsInv'
  BY <1>2, CallMethodStep
<1>3. ASSUME NEW home \in DOMAIN homes, CallBlock(home) PROVE ConditionsInv'
  BY <1>3, CallBlockStep
<1>4. ASSUME NEW class \in Classes, OnDo(class) PROVE ConditionsInv'
  BY <1>4, OnDoStep
<1>5. ASSUME NEW kind \in {"ensure", "ifCurtailed"}, Protect(kind) PROVE ConditionsInv'
  BY <1>5, ProtectStep
<1>6. ASSUME NEW c \in Signals, Signal(c) \/ SignalFails(c) PROVE ConditionsInv'
  BY <1>6, SignalStep, SignalFailsStep
<1>7. ASSUME NEW c \in Signals, NEW kind \in {"return", "resume"}, TransferOccurrence(c, kind)
      PROVE  ConditionsInv'
  BY <1>7, TransferStep
<1>8. CASE NonLocalReturn
  BY <1>8, NonLocalReturnStep
<1>9. ASSUME NEW m \in {Answering, Failing}, Finish(m) PROVE ConditionsInv'
  BY <1>9, FinishStep
<1>10. CASE LeaveMethod \/ LeaveBlock \/ LeaveOn \/ EndProtected \/ EndCleanup \/ LeaveSignal
  BY <1>10, LeaveMethodStep, LeaveBlockStep, LeaveOnStep, EndProtectedStep, EndCleanupStep,
     LeaveSignalStep
<1>11. QED BY <1>1, <1>2, <1>3, <1>4, <1>5, <1>6, <1>7, <1>8, <1>9, <1>10 DEF ConditionsNext

(* So it holds always. *)
LEMMA ConditionsAlways ==
  ConditionsInit /\ [][ConditionsNext]_conditionVars => []ConditionsInv
<1>1. ConditionsInit => ConditionsInv BY ConditionsBegin
<1>2. ConditionsInv /\ [ConditionsNext]_conditionVars => ConditionsInv'
  BY ConditionsStep
<1>3. QED BY <1>1, <1>2, PTL

----------------------------------------
(* What the invariant says: its types. *)
LEMMA ConditionsTyped ==
  ASSUME ConditionsInv
  PROVE  ConditionsTypeOK
<1>1. /\ Consistent(stack, scopes, occurrences, homes, protections, minted) /\ Depth <= MaxDepth
      /\ mode \in Controls /\ LandsIn(mode, stack, Depth)
  BY DEF ConditionsInv
<1>2. /\ stack \in Seq(StackFrames) /\ scopes \in Seq(ScopeRecords) /\ minted \in Nat
      /\ homes \in [DOMAIN homes -> {"live", "dead"}] /\ DOMAIN homes \subseteq 1..minted
      /\ IdsGrow(stack, homes, minted)
  BY <1>1 DEF Consistent, Typed
<1>3. ASSUME NEW i \in DOMAIN stack
      PROVE  /\ stack[i].type \in {"method", "block", "on", "protect", "signal"}
             /\ stack[i].home \in DOMAIN homes /\ stack[i].auth \in Authorities
  <2>1. stack[i] \in StackFrames BY <1>2
  <2>2. QED BY <1>2, <2>1, FrameFields DEF IdsGrow
<1>4. \A i \in DOMAIN scopes : scopes[i].kind \in {"handler", "ensure", "ifCurtailed"}
  <2>1. \A s \in ScopeRecords : s.kind \in {"handler", "ensure", "ifCurtailed"}
    BY DEF ScopeRecords
  <2>2. QED BY <1>2, <2>1
<1>5. mode \in Modes
  <2>1. CASE mode \in {Running, Answering, Failing}
    BY <2>1 DEF Modes
  <2>2. CASE mode \notin {Running, Answering, Failing}
    <3>1. mode \in [what : {"return", "resume", "nonlocal"}, target : Nat]
      BY <1>1, <2>2 DEF Controls
    <3>2. mode = Transfer(mode.what, mode.target) /\ mode.what \in {"return", "resume", "nonlocal"}
      BY <3>1 DEF Transfer
    <3>3. PICK i \in 1..Depth : Receives(stack[i], mode)
      BY <1>1, <3>2 DEF LandsIn
    <3>4. /\ stack[i].id = mode.target
          /\ stack[i].type = CASE mode.what = "return" -> "on"
                               [] mode.what = "resume" -> "signal"
                               [] mode.what = "nonlocal" -> "method"
      BY <3>3 DEF Receives
    <3>5. HasId(stack[i]) BY <3>2, <3>4 DEF HasId
    <3>6. i \in DOMAIN stack BY <1>2, <3>3 DEF Depth
    <3>7. mode.target \in 1..minted BY <1>2, <3>4, <3>5, <3>6 DEF IdsGrow
    <3>8. QED BY <3>2, <3>7 DEF Modes
  <2>3. QED BY <2>1, <2>2
<1>6. QED BY <1>1, <1>2, <1>3, <1>4, <1>5 DEF ConditionsTypeOK

(* Entries in the order of their ids name the activations in their order. *)
LEMMA OrderMirrors ==
  ASSUME NEW list, NEW places \in SUBSET DOMAIN stack, NEW hm, NEW mn \in Nat, NEW len \in Nat,
         DOMAIN stack = 1..len, IdsGrow(stack, hm, mn),
         \A i \in places : HasId(stack[i]),
         \A m, n \in DOMAIN list : m < n => list[m].id < list[n].id,
         \A m \in DOMAIN list : \E i \in places : list[m].id = stack[i].id,
         \A i \in places : \E m \in DOMAIN list : list[m].id = stack[i].id
  PROVE  Mirrors(list, places)
<1>1. {list[m].id : m \in DOMAIN list} = {stack[i].id : i \in places} OBVIOUS
<1>2. ASSUME NEW m \in DOMAIN list, NEW n \in DOMAIN list, m < n
      PROVE  \E i, j \in places : i < j /\ list[m].id = stack[i].id /\ list[n].id = stack[j].id
  <2>1. PICK i \in places : list[m].id = stack[i].id
    OBVIOUS
  <2>2. PICK j \in places : list[n].id = stack[j].id
    OBVIOUS
  <2>3. /\ i \in 1..len /\ j \in 1..len /\ HasId(stack[i]) /\ HasId(stack[j])
        /\ stack[i].id \in 1..mn /\ stack[j].id \in 1..mn
    <3>1. i \in DOMAIN stack /\ j \in DOMAIN stack /\ HasId(stack[i]) /\ HasId(stack[j])
      OBVIOUS
    <3>2. QED BY <3>1 DEF IdsGrow
  <2>4. stack[i].id < stack[j].id BY <1>2, <2>1, <2>2
  <2>5. ~(j < i) /\ i # j
    <3>1. j < i => stack[j].id < stack[i].id BY <2>3 DEF IdsGrow
    <3>2. ~(stack[j].id < stack[i].id) /\ stack[i].id # stack[j].id
      BY ONLY <2>3, <2>4, mn \in Nat
    <3>3. QED BY ONLY <3>1, <3>2
  <2>6. i < j BY <2>3, <2>5
  <2>7. QED BY <2>1, <2>2, <2>6
<1>3. QED BY <1>1, <1>2 DEF Mirrors

(* The runtime mirrors the stack. *)
LEMMA RuntimeMirrors ==
  ASSUME ConditionsInv
  PROVE  RuntimeMirrorsTheStack
<1>1. /\ IdsGrow(stack, homes, minted) /\ HomesFit(homes, stack) /\ ScopesFit(scopes, stack)
      /\ OccurrencesFit(occurrences, stack) /\ minted \in Nat
      /\ Len(stack) \in Nat /\ DOMAIN stack = 1..Len(stack)
  BY DEF ConditionsInv, Consistent, Typed
<1>2. /\ IdsGrow(stack, homes, minted) /\ minted \in Nat
      /\ Len(stack) \in Nat /\ DOMAIN stack = 1..Len(stack)
  BY <1>1
<1>3. Mirrors(scopes, WithScope)
  <2>1. WithScope \subseteq DOMAIN stack /\ \A i \in WithScope : HasId(stack[i])
    BY HoldersHaveIds DEF WithScope
  <2>2. \A m, n \in DOMAIN scopes : m < n => scopes[m].id < scopes[n].id
    BY <1>1 DEF ScopesFit
  <2>3. \A m \in DOMAIN scopes : \E i \in WithScope : scopes[m].id = stack[i].id
    BY <1>1 DEF ScopesFit, IsScopeOf, WithScope
  <2>4. \A i \in WithScope : \E m \in DOMAIN scopes : scopes[m].id = stack[i].id
    BY <1>1 DEF ScopesFit, WithScope
  <2>5. QED BY ONLY <1>2, <2>1, <2>2, <2>3, <2>4, OrderMirrors
<1>4. Mirrors(occurrences, InSignal)
  <2>1. InSignal \subseteq DOMAIN stack /\ \A i \in InSignal : HasId(stack[i])
    BY DEF InSignal, HasId
  <2>2. \A m, n \in DOMAIN occurrences : m < n => occurrences[m].id < occurrences[n].id
    BY <1>1 DEF OccurrencesFit
  <2>3. \A m \in DOMAIN occurrences : \E i \in InSignal : occurrences[m].id = stack[i].id
    BY <1>1 DEF OccurrencesFit, IsOccurrenceOf, InSignal
  <2>4. \A i \in InSignal : \E m \in DOMAIN occurrences : occurrences[m].id = stack[i].id
    BY <1>1 DEF OccurrencesFit, InSignal
  <2>5. QED BY ONLY <1>2, <2>1, <2>2, <2>3, <2>4, OrderMirrors
<1>5. {h \in DOMAIN homes : homes[h] = "live"}
        = {stack[i].id : i \in {j \in DOMAIN stack : stack[j].type = "method"}}
  <2>1. \A i \in DOMAIN stack : stack[i].type = "method" => stack[i].id \in DOMAIN homes
    BY <1>1 DEF IdsGrow
  <2>2. QED BY <1>1, <2>1 DEF HomesFit
<1>6. QED BY <1>3, <1>4, <1>5 DEF RuntimeMirrorsTheStack

(* Transfers land. *)
LEMMA AllTransfersLand ==
  ASSUME ConditionsInv
  PROVE  TransfersLand
BY DEF ConditionsInv, Consistent, CleanupsLand, TransfersLand, Lands, LandsIn

(* A cleanup runs once. *)
LEMMA EveryCleanupOnce ==
  ASSUME ConditionsInv
  PROVE  CleanupsRunOnce
<1>1. ProtectionsFit(protections, stack) BY DEF ConditionsInv, Consistent
<1>2. \A id : InProtected(id) <=> \E i \in DOMAIN stack : Protects(stack[i], id)
  BY DEF InProtected, Protects
<1>3. QED BY <1>1, <1>2 DEF ProtectionsFit, CleanupsRunOnce

(* Handlers run outside themselves, under their own authority. *)
LEMMA HandlersAreApart ==
  ASSUME ConditionsInv
  PROVE  NoHandlerReenters /\ HandlersKeepTheirAuthority
<1>1. SignalsFit(scopes, stack) BY DEF ConditionsInv, Consistent
<1>2. QED BY <1>1 DEF SignalsFit, NoHandlerReenters, HandlersKeepTheirAuthority, Depth

(* In every execution the condition runtime's stacks mirror the call       *)
(* stack, every transfer lands, a cleanup Block runs exactly once, and a   *)
(* handler runs outside itself under the authority of its on:do:.          *)
THEOREM ConditionsInvariance ==
  ConditionsSpec => [](/\ ConditionsTypeOK /\ RuntimeMirrorsTheStack /\ TransfersLand
                       /\ CleanupsRunOnce /\ NoHandlerReenters /\ HandlersKeepTheirAuthority)
<1>1. ConditionsInv => /\ ConditionsTypeOK /\ RuntimeMirrorsTheStack /\ TransfersLand
                       /\ CleanupsRunOnce /\ NoHandlerReenters /\ HandlersKeepTheirAuthority
  BY ConditionsTyped, RuntimeMirrors, AllTransfersLand, EveryCleanupOnce, HandlersAreApart
<1>2. QED BY <1>1, ConditionsAlways, PTL DEF ConditionsSpec

========================================
