---------------------------- MODULE MockBackend ----------------------------
(***************************************************************************)
(* The in-memory backend, src/backend/mock-backend.js.                     *)
(*                                                                         *)
(* Callers issue puts, appends and transactions.  Every one of them goes   *)
(* through exclusive(): it is chained on writeTail and runs when the one   *)
(* before it has settled, whether that one succeeded or failed.  A direct  *)
(* put or append then runs in one step on the live state.  A transaction   *)
(* copies the live state into a draft, hands its work a view of the draft, *)
(* and when the work returns makes the draft the live state; the work runs *)
(* over many steps, between which callers of get, scan and streamHead read *)
(* the live state.  The live state and the drafts are objects on a heap:   *)
(* committing assigns a pointer, so a view that outlives its transaction   *)
(* would reach the live state, and only the active flag keeps it out.      *)
(***************************************************************************)
EXTENDS StoreState

CONSTANTS
  Callers,    \* concurrent users of the backend
  NoDraft,    \* the handle of a caller that never held a transaction
  MaxCalls,   \* bound: calls the callers issue in all
  MaxSteps    \* bound: view operations in all the transactions together

ASSUME BoundsAssumption == MaxCalls \in Nat /\ MaxSteps \in Nat

VARIABLES
  heap,       \* the state objects: entry 1 is the backend's first, then the drafts
  live,       \* the object the backend's collections and streams fields hold
  writeTail,  \* the callers chained on the write queue, the running one first
  call,       \* what each caller waits for
  handle,     \* the transaction view each caller holds: its draft, and whether it is active
  stopping,   \* whether stop() was called, and the settlements it still waits for
  calls, steps

vars == <<heap, live, writeTail, call, handle, stopping, calls, steps>>

Idle == [kind |-> "idle"]

Requests ==
  [kind : {"put"}, at : Keys, text : Texts, expected : Nat \cup {AnyVersion}]
    \cup [kind : {"append"}, at : Streams, text : Texts]
    \cup [kind : {"transaction", "working"}]

TypeOK ==
  /\ heap \in Seq(State)
  /\ live \in 1..Len(heap)
  /\ writeTail \in Seq(Callers)
  /\ call \in [Callers -> Requests \cup {Idle}]
  /\ handle \in [Callers -> [draft : (1..Len(heap)) \cup {NoDraft}, active : BOOLEAN]]
  /\ stopping \in [called : BOOLEAN, waits : Nat]
  /\ calls \in Nat
  /\ steps \in Nat

Init ==
  /\ heap = <<EmptyState>>
  /\ live = 1
  /\ writeTail = << >>
  /\ call = [c \in Callers |-> Idle]
  /\ handle = [c \in Callers |-> [draft |-> NoDraft, active |-> FALSE]]
  /\ stopping = [called |-> FALSE, waits |-> 0]
  /\ calls = 0
  /\ steps = 0

----------------------------------------
(* exclusive(): chain the call on the write queue. *)
Exclusive(c, request) ==
  /\ call[c] = Idle
  /\ calls < MaxCalls
  /\ calls' = calls + 1
  /\ call' = [call EXCEPT ![c] = request]
  /\ writeTail' = Append(writeTail, c)
  /\ UNCHANGED <<heap, live, handle, stopping, steps>>

RequestPut(c, k, text, expected) ==
  Exclusive(c, [kind |-> "put", at |-> k, text |-> text, expected |-> expected])

RequestAppend(c, s, text) ==
  Exclusive(c, [kind |-> "append", at |-> s, text |-> text])

RequestTransaction(c) == Exclusive(c, [kind |-> "transaction"])

(* Broken variant: a queued operation does not wait for the one before it. *)
AnyQueuedCallRuns(c) == \E i \in 1..Len(writeTail) : writeTail[i] = c

(* The caller whose operation the queue runs now. *)
Running(c) == writeTail # << >> /\ Head(writeTail) = c

(* Broken variant: a stop counts settlements it does not wait for. *)
SettleCountsTwice(c) ==
  /\ writeTail' = Tail(writeTail)
  /\ call' = [call EXCEPT ![c] = Idle]
  /\ stopping' = [stopping EXCEPT !.waits = stopping.waits - 1]

(* The running call settles, fulfilled or rejected: the next one may run. *)
Settle(c) ==
  /\ writeTail' = Tail(writeTail)
  /\ call' = [call EXCEPT ![c] = Idle]
  /\ stopping' = IF stopping.waits > 0
                 THEN [stopping EXCEPT !.waits = stopping.waits - 1]
                 ELSE stopping

(* putInto on the live state; a version conflict rejects the call. *)
ServePut(c) ==
  /\ Running(c)
  /\ call[c].kind = "put"
  /\ heap' = IF Accepts(heap[live], call[c].at, call[c].expected)
             THEN [heap EXCEPT ![live] = PutInto(heap[live], call[c].at, call[c].text)]
             ELSE heap
  /\ Settle(c)
  /\ UNCHANGED <<live, handle, calls, steps>>

ServeAppend(c) ==
  /\ Running(c)
  /\ call[c].kind = "append"
  /\ heap' = [heap EXCEPT ![live] = AppendTo(heap[live], call[c].at, call[c].text)]
  /\ Settle(c)
  /\ UNCHANGED <<live, handle, calls, steps>>

(* Broken variant: the view is given the live collections, not a copy.     *)
BeginOnLiveState(c) ==
  /\ Running(c)
  /\ call[c].kind = "transaction"
  /\ handle' = [handle EXCEPT ![c] = [draft |-> live, active |-> TRUE]]
  /\ call' = [call EXCEPT ![c] = [kind |-> "working"]]
  /\ UNCHANGED <<heap, live, writeTail, stopping, calls, steps>>

(* The draft is a copy of the live state at the moment the work starts. *)
BeginTransaction(c) ==
  /\ Running(c)
  /\ call[c].kind = "transaction"
  /\ heap' = Append(heap, heap[live])
  /\ handle' = [handle EXCEPT ![c] = [draft |-> Len(heap) + 1, active |-> TRUE]]
  /\ call' = [call EXCEPT ![c] = [kind |-> "working"]]
  /\ UNCHANGED <<live, writeTail, stopping, calls, steps>>

----------------------------------------
(* Broken variant: a view is never retired. *)
AlwaysActive(c) == TRUE

(* active(): a view that outlived its transaction refuses every operation. *)
Active(c) == handle[c].active

(* The draft of the view c holds. *)
Draft(c) == heap[handle[c].draft]

(* A caller uses the view it holds, which it may have kept after the       *)
(* transaction.  A refused or conflicting operation throws and changes     *)
(* nothing: what the work does about it is to go on or to abort.           *)
ViewStep(c, result) ==
  /\ handle[c].draft # NoDraft
  /\ Active(c)
  /\ steps < MaxSteps
  /\ steps' = steps + 1
  /\ heap' = [heap EXCEPT ![handle[c].draft] = result]
  /\ UNCHANGED <<live, writeTail, call, handle, stopping, calls>>

ViewPut(c, k, text, expected) ==
  /\ handle[c].draft # NoDraft
  /\ Accepts(Draft(c), k, expected)
  /\ ViewStep(c, PutInto(Draft(c), k, text))

ViewAppend(c, s, text) ==
  ViewStep(c, AppendTo(Draft(c), s, text))

(* The work returned: the backend's fields now hold the draft. *)
CommitTransaction(c) ==
  /\ Running(c)
  /\ call[c].kind = "working"
  /\ live' = handle[c].draft
  /\ handle' = [handle EXCEPT ![c].active = FALSE]
  /\ Settle(c)
  /\ UNCHANGED <<heap, calls, steps>>

(* The work threw: the draft is dropped. *)
AbortTransaction(c) ==
  /\ Running(c)
  /\ call[c].kind = "working"
  /\ handle' = [handle EXCEPT ![c].active = FALSE]
  /\ Settle(c)
  /\ UNCHANGED <<heap, live, calls, steps>>

----------------------------------------
(* stop() awaits the tail of the queue as it is when stop() is called.     *)
Stop ==
  /\ ~stopping.called
  /\ stopping' = [called |-> TRUE, waits |-> Len(writeTail)]
  /\ UNCHANGED <<heap, live, writeTail, call, handle, calls, steps>>

(* start() again after the stop; neither refuses calls in between. *)
Start ==
  /\ stopping = [called |-> TRUE, waits |-> 0]
  /\ stopping' = [called |-> FALSE, waits |-> 0]
  /\ UNCHANGED <<heap, live, writeTail, call, handle, calls, steps>>

----------------------------------------
Expectations == {AnyVersion} \cup {heap[i].records[k].version : i \in 1..Len(heap), k \in Keys}

Serve(c) ==
  \/ ServePut(c)
  \/ ServeAppend(c)
  \/ BeginTransaction(c)
  \/ CommitTransaction(c)
  \/ AbortTransaction(c)

Issue(c) ==
  \/ \E k \in Keys, text \in Texts, e \in Expectations : RequestPut(c, k, text, e)
  \/ \E s \in Streams, text \in Texts : RequestAppend(c, s, text)
  \/ RequestTransaction(c)

Use(c) ==
  \/ \E k \in Keys, text \in Texts, e \in Expectations : ViewPut(c, k, text, e)
  \/ \E s \in Streams, text \in Texts : ViewAppend(c, s, text)

Next ==
  \/ \E c \in Callers : Serve(c) \/ Issue(c) \/ Use(c)
  \/ Stop
  \/ Start

(* A draft's owner is the one transaction the queue runs, and the draft is *)
(* ahead of the live state, never the live state itself: so an open view   *)
(* is isolated from every reader until its commit (transaction).           *)
OpenDraftIsIsolated ==
  \A c \in Callers : handle[c].active =>
    /\ Running(c)
    /\ handle[c].draft # live
    /\ Extends(heap[live], Draft(c))

(* What a reader of the live state saw is never taken back: whichever step *)
(* it is, versions only rise, a payload only changes with its version and  *)
(* streams only grow at their end (putInto, appendTo, transaction).        *)
LiveOnlyExtends == [][Extends(heap[live], heap'[live'])]_vars

(* The event loop runs what the queue holds, and every work settles. *)
Fairness == \A c \in Callers : WF_vars(Serve(c))

Spec == Init /\ [][Next]_vars /\ Fairness
========================================
