---------------------------- MODULE StorageProofs ----------------------------
(***************************************************************************)
(* Proofs about the in-memory backend and about the ensure operations.     *)
(*                                                                         *)
(* For any set of callers, records, streams and payloads, and for any      *)
(* bounds: the types of MockBackend hold, an open transaction is isolated, *)
(* and the live state is only ever extended.                               *)
(*                                                                         *)
(* For any calls, ids, contents and restarts: the types of EnsureRecords   *)
(* hold, no list of objects gives up, and, where no graph is asked for     *)
(* twice at the same time, the calls do what EnsureContract promises.      *)
(***************************************************************************)
EXTENDS MockBackend, EnsureRecords, SequenceTheorems, FiniteSetTheorems, TLAPS

(* A draft exists exactly while the work that was given it runs. *)
DraftsOfWorks ==
  \A c \in Callers :
    /\ handle[c].active => handle[c].draft \in 1..Len(heap)
    /\ handle[c].active <=> call[c].kind = "working"

(* The isolation of a draft is inductive only with what ties the active    *)
(* flag to the queue: no other call settles while a work is running.       *)
MockInv == TypeOK /\ DraftsOfWorks /\ OpenDraftIsIsolated

----------------------------------------
(* A state extends itself. *)
LEMMA ExtendsReflexive ==
  ASSUME NEW u \in State PROVE Extends(u, u)
BY DEF Extends, State

(* Extending twice is extending. *)
LEMMA ExtendsTransitive ==
  ASSUME NEW u \in State, NEW v \in State, NEW w \in State,
         Extends(u, v), Extends(v, w)
  PROVE  Extends(u, w)
<1>1. ASSUME NEW k \in Keys
      PROVE  \/ w.records[k] = u.records[k]
             \/ w.records[k].version > u.records[k].version
  <2>1. /\ u.records[k].version \in Nat
        /\ v.records[k].version \in Nat
        /\ w.records[k].version \in Nat
    BY DEF State, Entry
  <2>2. QED BY <2>1 DEF Extends
<1>2. ASSUME NEW s \in Streams
      PROVE  /\ Len(u.streams[s]) <= Len(w.streams[s])
             /\ \A i \in 1..Len(u.streams[s]) : w.streams[s][i] = u.streams[s][i]
  <2>1. /\ Len(u.streams[s]) \in Nat
        /\ Len(v.streams[s]) \in Nat
        /\ Len(w.streams[s]) \in Nat
    BY DEF State
  <2>2. QED BY <2>1 DEF Extends
<1>3. QED BY <1>1, <1>2 DEF Extends

(* A put is a state again and extends the one it was applied to. *)
LEMMA PutExtends ==
  ASSUME NEW u \in State, NEW k \in Keys, NEW text \in Texts
  PROVE  PutInto(u, k, text) \in State /\ Extends(u, PutInto(u, k, text))
<1> DEFINE entry == [version |-> u.records[k].version + 1, text |-> text]
           table == [u.records EXCEPT ![k] = entry]
<1>1. u.records \in [Keys -> Entry] /\ u.streams \in [Streams -> Seq(Texts)]
  BY DEF State
<1>2. u.records[k].version \in Nat BY <1>1 DEF Entry
<1>3. entry \in Entry BY <1>2 DEF Entry
<1>4. table \in [Keys -> Entry] BY <1>1, <1>3
<1>5. PutInto(u, k, text) = [records |-> table, streams |-> u.streams]
  <2>1. u = [records |-> u.records, streams |-> u.streams] BY DEF State
  <2>2. PutInto(u, k, text) = [u EXCEPT !.records = table] BY Zenon DEF PutInto
  <2>3. QED BY <2>1, <2>2
<1>6. PutInto(u, k, text) \in State BY <1>1, <1>4, <1>5 DEF State
<1>7. Extends(u, PutInto(u, k, text)) BY <1>1, <1>2, <1>5 DEF Extends
<1>8. QED BY <1>6, <1>7

(* So is an append. *)
LEMMA AppendExtends ==
  ASSUME NEW u \in State, NEW s \in Streams, NEW text \in Texts
  PROVE  AppendTo(u, s, text) \in State /\ Extends(u, AppendTo(u, s, text))
<1> DEFINE longer == [u.streams EXCEPT ![s] = Append(u.streams[s], text)]
<1>1. u.records \in [Keys -> Entry] /\ u.streams \in [Streams -> Seq(Texts)]
  BY DEF State
<1>2. longer \in [Streams -> Seq(Texts)] BY <1>1
<1>3. AppendTo(u, s, text) = [records |-> u.records, streams |-> longer]
  <2>1. u = [records |-> u.records, streams |-> u.streams] BY DEF State
  <2>2. AppendTo(u, s, text) = [u EXCEPT !.streams = longer]
    BY Zenon DEF AppendTo
  <2>3. QED BY <2>1, <2>2
<1>4. AppendTo(u, s, text) \in State BY <1>1, <1>2, <1>3 DEF State
<1>5. ASSUME NEW r \in Streams
      PROVE  /\ Len(u.streams[r]) <= Len(longer[r])
             /\ \A i \in 1..Len(u.streams[r]) : longer[r][i] = u.streams[r][i]
  <2>1. u.streams[r] \in Seq(Texts) BY <1>1
  <2>2. CASE r = s
    <3>1. longer[r] = Append(u.streams[r], text) BY <1>1, <2>2
    <3>2. QED BY <2>1, <3>1
  <2>3. CASE r # s
    <3>1. longer[r] = u.streams[r] BY <1>1, <2>3
    <3>2. QED BY <2>1, <3>1
  <2>4. QED BY <2>2, <2>3
<1>6. Extends(u, AppendTo(u, s, text)) BY <1>1, <1>3, <1>5 DEF Extends
<1>7. QED BY <1>4, <1>6

----------------------------------------
(* The empty store is a state. *)
LEMMA EmptyStateType == EmptyState \in State
BY DEF EmptyState, State, Entry

(* The initial state satisfies the inductive invariant. *)
LEMMA MockInitInvariant == Init => MockInv
BY EmptyStateType, SMT
DEF Init, MockInv, TypeOK, Requests, Idle, DraftsOfWorks, OpenDraftIsIsolated

(* Only the call at the head of the queue can hold an active view. *)
LEMMA OnlyTheRunningWork ==
  ASSUME MockInv, NEW c \in Callers, Running(c), NEW d \in Callers, handle[d].active
  PROVE  d = c
BY DEF MockInv, OpenDraftIsIsolated, Running

(* Chaining a call leaves the running one at the head. *)
LEMMA ExclusiveInvariant ==
  ASSUME MockInv, NEW c \in Callers, NEW request \in Requests,
         request.kind # "working", Exclusive(c, request)
  PROVE  MockInv'
<1>1. TypeOK' BY DEF MockInv, TypeOK, Exclusive
<1>2. /\ call' = [call EXCEPT ![c] = request]
      /\ call \in [Callers -> Requests \cup {Idle}]
      /\ call[c].kind = "idle"
      /\ handle' = handle /\ heap' = heap /\ live' = live
  BY DEF MockInv, TypeOK, Exclusive, Idle
<1>3. DraftsOfWorks' BY <1>2 DEF MockInv, DraftsOfWorks
<1>4. ASSUME NEW d \in Callers, handle'[d].active
      PROVE  /\ Running(d)'
             /\ handle'[d].draft # live'
             /\ Extends(heap[live], Draft(d))'
  <2>1. /\ Running(d)
        /\ handle[d].draft # live
        /\ Extends(heap[live], Draft(d))
    BY <1>2, <1>4 DEF MockInv, OpenDraftIsIsolated
  <2>2. writeTail' = Append(writeTail, c) /\ writeTail \in Seq(Callers)
    BY DEF MockInv, TypeOK, Exclusive
  <2>3. Running(d)' BY <2>1, <2>2 DEF Running
  <2>4. Extends(heap[live], Draft(d))' BY <1>2, <2>1 DEF Draft
  <2>5. QED BY <1>2, <2>1, <2>3, <2>4
<1>5. OpenDraftIsIsolated' BY <1>4 DEF OpenDraftIsIsolated
<1>6. QED BY <1>1, <1>3, <1>5 DEF MockInv

(* Settling types: the queue loses its head, the caller is idle again. *)
LEMMA SettleTypes ==
  ASSUME TypeOK, NEW c \in Callers, Running(c), Settle(c)
  PROVE  /\ writeTail' \in Seq(Callers)
         /\ call' \in [Callers -> Requests \cup {Idle}]
         /\ stopping' \in [called : BOOLEAN, waits : Nat]
<1>1. writeTail' \in Seq(Callers) BY DEF TypeOK, Running, Settle
<1>2. call' \in [Callers -> Requests \cup {Idle}] BY DEF TypeOK, Settle
<1>3. stopping' \in [called : BOOLEAN, waits : Nat] BY DEF TypeOK, Settle
<1>4. QED BY <1>1, <1>2, <1>3

(* A call that settles with no view left active leaves no open draft.  The *)
(* hypotheses name what the settling actions have in common.               *)
LEMMA SettleInvariant ==
  ASSUME MockInv, NEW c \in Callers, Running(c), Settle(c),
         call[c].kind = "working" \/ handle' = handle,
         handle' \in {handle, [handle EXCEPT ![c].active = FALSE]},
         call[c].kind = "working" => handle' = [handle EXCEPT ![c].active = FALSE],
         heap' \in Seq(State), Len(heap') = Len(heap),
         live' \in 1..Len(heap'),
         UNCHANGED <<calls, steps>>
  PROVE  MockInv'
<1>1. TypeOK /\ DraftsOfWorks BY DEF MockInv
<1>2. handle \in [Callers -> [draft : (1..Len(heap)) \cup {NoDraft}, active : BOOLEAN]]
  BY <1>1 DEF TypeOK
<1>3. handle' \in [Callers -> [draft : (1..Len(heap')) \cup {NoDraft}, active : BOOLEAN]]
  <2>1. CASE handle' = handle
    BY <1>2, <2>1
  <2>2. CASE handle' = [handle EXCEPT ![c].active = FALSE]
    BY <1>2, <2>2
  <2>3. QED BY <2>1, <2>2
<1>4. TypeOK' BY <1>1, <1>3, SettleTypes DEF TypeOK
<1>5. ASSUME NEW d \in Callers PROVE ~handle'[d].active
  <2>1. CASE d = c
    BY <1>1, <1>2, <2>1 DEF DraftsOfWorks
  <2>2. CASE d # c
    <3>1. ~handle[d].active BY <2>2, OnlyTheRunningWork
    <3>2. QED BY <1>2, <2>2, <3>1
  <2>3. QED BY <2>1, <2>2
<1>6. ASSUME NEW d \in Callers PROVE call'[d].kind # "working"
  <2>1. call' = [call EXCEPT ![c] = Idle] /\ call \in [Callers -> Requests \cup {Idle}]
    BY <1>1 DEF TypeOK, Settle
  <2>2. CASE d = c
    BY <2>1, <2>2 DEF Idle
  <2>3. CASE d # c
    <3>1. ~handle[d].active BY <2>3, OnlyTheRunningWork
    <3>2. QED BY <1>1, <2>1, <2>3, <3>1 DEF DraftsOfWorks
  <2>4. QED BY <2>2, <2>3
<1>7. DraftsOfWorks' /\ OpenDraftIsIsolated'
  BY <1>5, <1>6 DEF DraftsOfWorks, OpenDraftIsIsolated
<1>8. QED BY <1>4, <1>7 DEF MockInv

(* The direct writes: the live object is replaced by an extension of it. *)
LEMMA ServeWrites ==
  ASSUME MockInv, NEW c \in Callers, ServePut(c) \/ ServeAppend(c)
  PROVE  MockInv' /\ Extends(heap[live], heap'[live'])
<1>1. /\ heap \in Seq(State) /\ live \in 1..Len(heap)
      /\ call \in [Callers -> Requests \cup {Idle}]
      /\ heap[live] \in State
  BY DEF MockInv, TypeOK
<1>2. /\ Running(c) /\ Settle(c)
      /\ UNCHANGED <<live, handle, calls, steps>>
      /\ call[c].kind # "working"
  BY DEF ServePut, ServeAppend
<1>3. PICK state \in State :
        /\ Extends(heap[live], state)
        /\ heap' = [heap EXCEPT ![live] = state]
  <2>1. CASE ServePut(c)
    <3>1. call[c].at \in Keys /\ call[c].text \in Texts
      BY <1>1, <2>1 DEF ServePut, Requests, Idle
    <3>2. CASE Accepts(heap[live], call[c].at, call[c].expected)
      BY <1>1, <2>1, <3>1, <3>2, PutExtends DEF ServePut
    <3>3. CASE ~Accepts(heap[live], call[c].at, call[c].expected)
      <4>1. heap' = [heap EXCEPT ![live] = heap[live]]
        BY <1>1, <2>1, <3>3 DEF ServePut
      <4>2. QED BY <1>1, <4>1, ExtendsReflexive
    <3>4. QED BY <3>2, <3>3
  <2>2. CASE ServeAppend(c)
    <3>1. call[c].at \in Streams /\ call[c].text \in Texts
      BY <1>1, <2>2 DEF ServeAppend, Requests, Idle
    <3>2. QED BY <1>1, <2>2, <3>1, AppendExtends DEF ServeAppend
  <2>3. QED BY <2>1, <2>2
<1>4. heap' \in Seq(State) /\ Len(heap') = Len(heap) /\ heap'[live'] = state
  BY <1>1, <1>2, <1>3
<1>5. live' \in 1..Len(heap') BY <1>1, <1>2, <1>4
<1>6. MockInv' BY <1>2, <1>4, <1>5, SettleInvariant
<1>7. QED BY <1>3, <1>4, <1>6

(* The end of a transaction: either the draft, which extends the live      *)
(* state, takes its place, or nothing does.                                *)
LEMMA TransactionEnds ==
  ASSUME MockInv, NEW c \in Callers, CommitTransaction(c) \/ AbortTransaction(c)
  PROVE  MockInv' /\ Extends(heap[live], heap'[live'])
<1>1. /\ heap \in Seq(State) /\ live \in 1..Len(heap) /\ heap[live] \in State
      /\ heap' = heap
      /\ Running(c) /\ Settle(c) /\ call[c].kind = "working"
      /\ handle' = [handle EXCEPT ![c].active = FALSE]
      /\ UNCHANGED <<calls, steps>>
  BY DEF MockInv, TypeOK, CommitTransaction, AbortTransaction
<1>2. handle[c].active /\ handle[c].draft \in 1..Len(heap)
  BY <1>1 DEF MockInv, DraftsOfWorks
<1>3. live' \in 1..Len(heap') /\ Extends(heap[live], heap'[live'])
  <2>1. CASE CommitTransaction(c)
    BY <1>1, <1>2, <2>1 DEF CommitTransaction, MockInv, OpenDraftIsIsolated, Draft
  <2>2. CASE AbortTransaction(c)
    BY <1>1, <2>2, ExtendsReflexive DEF AbortTransaction
  <2>3. QED BY <2>1, <2>2
<1>4. MockInv' BY <1>1, <1>3, SettleInvariant
<1>5. QED BY <1>3, <1>4

(* A draft starts as a copy of the live state, in an object of its own. *)
LEMMA TransactionBegins ==
  ASSUME MockInv, NEW c \in Callers, BeginTransaction(c)
  PROVE  MockInv' /\ Extends(heap[live], heap'[live'])
<1>1. /\ TypeOK /\ DraftsOfWorks
      /\ heap \in Seq(State) /\ live \in 1..Len(heap) /\ heap[live] \in State
      /\ handle \in [Callers -> [draft : (1..Len(heap)) \cup {NoDraft}, active : BOOLEAN]]
      /\ call \in [Callers -> Requests \cup {Idle}]
  BY DEF MockInv, TypeOK
<1>2. /\ heap' = Append(heap, heap[live])
      /\ handle' = [handle EXCEPT ![c] = [draft |-> Len(heap) + 1, active |-> TRUE]]
      /\ call' = [call EXCEPT ![c] = [kind |-> "working"]]
      /\ Running(c)
      /\ UNCHANGED <<live, writeTail, stopping, calls, steps>>
  BY DEF BeginTransaction
<1>3. /\ heap' \in Seq(State) /\ Len(heap') = Len(heap) + 1
      /\ heap'[live'] = heap[live] /\ heap'[Len(heap) + 1] = heap[live]
      /\ live' \in 1..Len(heap') /\ live' # Len(heap) + 1
  BY <1>1, <1>2
<1>4. handle' \in [Callers -> [draft : (1..Len(heap')) \cup {NoDraft}, active : BOOLEAN]]
  BY <1>1, <1>2, <1>3
<1>5. call' \in [Callers -> Requests \cup {Idle}] BY <1>1, <1>2 DEF Requests
<1>6. TypeOK' BY <1>1, <1>2, <1>3, <1>4, <1>5 DEF TypeOK
<1>7. ASSUME NEW d \in Callers, d # c PROVE ~handle[d].active /\ ~handle'[d].active
  <2>1. ~handle[d].active BY <1>2, <1>7, OnlyTheRunningWork
  <2>2. QED BY <1>1, <1>2, <1>7, <2>1
<1>8. /\ handle'[c] = [draft |-> Len(heap) + 1, active |-> TRUE]
      /\ call'[c].kind = "working"
  BY <1>1, <1>2
<1>9. DraftsOfWorks'
  <2>1. ASSUME NEW d \in Callers, d # c PROVE call'[d].kind # "working"
    BY <1>1, <1>2, <1>7, <2>1 DEF DraftsOfWorks
  <2>2. QED BY <1>3, <1>7, <1>8, <2>1 DEF DraftsOfWorks
<1>10. Extends(heap[live], heap'[live']) BY <1>1, <1>3, ExtendsReflexive
<1>11. OpenDraftIsIsolated'
  <2>1. Running(c)' BY <1>2 DEF Running
  <2>2. handle'[c].draft # live' /\ Extends(heap[live], Draft(c))'
    BY <1>1, <1>3, <1>8, ExtendsReflexive DEF Draft
  <2>3. QED BY <1>7, <2>1, <2>2 DEF OpenDraftIsIsolated
<1>12. QED BY <1>6, <1>9, <1>10, <1>11 DEF MockInv

(* The view writes to its draft only, and only ever extends it. *)
LEMMA ViewWrites ==
  ASSUME MockInv, NEW c \in Callers, NEW state \in State, ViewStep(c, state),
         Extends(Draft(c), state)
  PROVE  MockInv' /\ Extends(heap[live], heap'[live'])
<1>1. /\ TypeOK /\ DraftsOfWorks
      /\ heap \in Seq(State) /\ live \in 1..Len(heap) /\ heap[live] \in State
      /\ handle \in [Callers -> [draft : (1..Len(heap)) \cup {NoDraft}, active : BOOLEAN]]
  BY DEF MockInv, TypeOK
<1>2. /\ handle[c].active
      /\ handle[c].draft \in 1..Len(heap)
      /\ handle[c].draft # live
      /\ Extends(heap[live], Draft(c))
  BY DEF ViewStep, Active, MockInv, DraftsOfWorks, OpenDraftIsIsolated
<1>3. /\ heap' = [heap EXCEPT ![handle[c].draft] = state]
      /\ steps' = steps + 1
      /\ UNCHANGED <<live, writeTail, call, handle, stopping, calls>>
  BY DEF ViewStep
<1>4. /\ heap' \in Seq(State) /\ Len(heap') = Len(heap)
      /\ heap'[live'] = heap[live] /\ heap'[handle[c].draft] = state
  BY <1>1, <1>2, <1>3
<1>5. TypeOK' BY <1>1, <1>3, <1>4 DEF TypeOK
<1>6. DraftsOfWorks' BY <1>1, <1>3, <1>4 DEF DraftsOfWorks
<1>7. ASSUME NEW d \in Callers, handle'[d].active
      PROVE  /\ Running(d)'
             /\ handle'[d].draft # live'
             /\ Extends(heap[live], Draft(d))'
  <2>1. d = c /\ Running(c)
    BY <1>2, <1>3, <1>7, OnlyTheRunningWork DEF MockInv, OpenDraftIsIsolated
  <2>2. Draft(c) \in State BY <1>1, <1>2 DEF Draft
  <2>3. Extends(heap[live], state) BY <1>1, <1>2, <2>2, ExtendsTransitive
  <2>4. Extends(heap'[live'], heap'[handle'[c].draft]) BY <1>3, <1>4, <2>3
  <2>5. QED BY <1>2, <1>3, <2>1, <2>4 DEF Running, Draft
<1>8. OpenDraftIsIsolated' BY <1>7 DEF OpenDraftIsIsolated
<1>9. Extends(heap[live], heap'[live']) BY <1>1, <1>4, ExtendsReflexive
<1>10. QED BY <1>5, <1>6, <1>8, <1>9 DEF MockInv

----------------------------------------
(* Every step preserves the inductive invariant and extends the live state. *)
LEMMA MockStepInvariant ==
  ASSUME MockInv, [Next]_vars
  PROVE  MockInv' /\ Extends(heap[live], heap'[live'])
<1>1. heap \in Seq(State) /\ live \in 1..Len(heap) /\ heap[live] \in State
  BY DEF MockInv, TypeOK
<1>2. ASSUME NEW k \in Keys, NEW i \in 1..Len(heap)
      PROVE  heap[i].records[k].version \in Nat
  <2>1. heap[i] \in State BY <1>1
  <2>2. QED BY <2>1 DEF State, Entry
<1>3. \A e \in Expectations : e \in Nat \cup {AnyVersion}
  BY <1>2 DEF Expectations
<1>4. ASSUME NEW c \in Callers, Issue(c)
      PROVE  MockInv' /\ Extends(heap[live], heap'[live'])
  <2>1. PICK request \in Requests : request.kind # "working" /\ Exclusive(c, request)
    <3>1. ASSUME NEW k \in Keys, NEW text \in Texts, NEW e \in Expectations,
                 RequestPut(c, k, text, e)
          PROVE  \E request \in Requests :
                   request.kind # "working" /\ Exclusive(c, request)
      BY <1>3, <3>1 DEF RequestPut, Requests
    <3>2. ASSUME NEW s \in Streams, NEW text \in Texts, RequestAppend(c, s, text)
          PROVE  \E request \in Requests :
                   request.kind # "working" /\ Exclusive(c, request)
      BY <3>2 DEF RequestAppend, Requests
    <3>3. ASSUME RequestTransaction(c)
          PROVE  \E request \in Requests :
                   request.kind # "working" /\ Exclusive(c, request)
      BY <3>3 DEF RequestTransaction, Requests
    <3>4. QED BY <1>4, <3>1, <3>2, <3>3 DEF Issue
  <2>2. MockInv' BY <2>1, ExclusiveInvariant
  <2>3. heap'[live'] = heap[live] BY <2>1 DEF Exclusive
  <2>4. QED BY <1>1, <2>2, <2>3, ExtendsReflexive
<1>5. ASSUME NEW c \in Callers, Serve(c)
      PROVE  MockInv' /\ Extends(heap[live], heap'[live'])
  BY <1>5, ServeWrites, TransactionBegins, TransactionEnds DEF Serve
<1>6. ASSUME NEW c \in Callers, Use(c)
      PROVE  MockInv' /\ Extends(heap[live], heap'[live'])
  <2>1. Draft(c) \in State
    <3>1. handle[c].active
      BY <1>6 DEF Use, ViewPut, ViewAppend, ViewStep, Active
    <3>2. handle[c].draft \in 1..Len(heap) BY <3>1 DEF MockInv, DraftsOfWorks
    <3>3. QED BY <1>1, <3>2 DEF Draft
  <2>2. CASE \E k \in Keys, text \in Texts, e \in Expectations : ViewPut(c, k, text, e)
    <3>1. PICK k \in Keys, text \in Texts : ViewStep(c, PutInto(Draft(c), k, text))
      BY <2>2 DEF ViewPut
    <3>2. QED BY <2>1, <3>1, PutExtends, ViewWrites
  <2>3. CASE \E s \in Streams, text \in Texts : ViewAppend(c, s, text)
    <3>1. PICK s \in Streams, text \in Texts : ViewStep(c, AppendTo(Draft(c), s, text))
      BY <2>3 DEF ViewAppend
    <3>2. QED BY <2>1, <3>1, AppendExtends, ViewWrites
  <2>4. QED BY <1>6, <2>2, <2>3 DEF Use
<1>7. ASSUME Stop \/ Start \/ UNCHANGED vars
      PROVE  MockInv' /\ Extends(heap[live], heap'[live'])
  <2>1. UNCHANGED <<heap, live, writeTail, call, handle, calls, steps>>
    BY <1>7 DEF Stop, Start, vars
  <2>2. stopping' \in [called : BOOLEAN, waits : Nat]
    <3>1. stopping \in [called : BOOLEAN, waits : Nat] /\ Len(writeTail) \in Nat
      BY DEF MockInv, TypeOK
    <3>2. \/ stopping' = [called |-> TRUE, waits |-> Len(writeTail)]
          \/ stopping' = [called |-> FALSE, waits |-> 0]
          \/ stopping' = stopping
      BY <1>7 DEF Stop, Start, vars
    <3>3. ASSUME NEW b \in BOOLEAN, NEW n \in Nat
          PROVE  [called |-> b, waits |-> n] \in [called : BOOLEAN, waits : Nat]
      OBVIOUS
    <3>4. QED BY <3>1, <3>2, <3>3
  <2>3. TypeOK' BY <2>1, <2>2 DEF MockInv, TypeOK
  <2>4. DraftsOfWorks' /\ OpenDraftIsIsolated'
    BY <2>1 DEF MockInv, DraftsOfWorks, OpenDraftIsIsolated, Running, Draft
  <2>5. QED BY <1>1, <2>1, <2>3, <2>4, ExtendsReflexive DEF MockInv
<1>8. QED BY <1>4, <1>5, <1>6, <1>7 DEF Next

(* The inductive invariant holds in every state of every behaviour. *)
THEOREM MockInvariance == Spec => []MockInv
<1>1. MockInv /\ [Next]_vars => MockInv' BY MockStepInvariant
<1>2. QED BY MockInitInvariant, <1>1, PTL DEF Spec

(* Type correctness, for any number of callers, records and streams. *)
THEOREM MockTypeCorrect == Spec => []TypeOK
<1>1. MockInv => TypeOK BY DEF MockInv
<1>2. QED BY MockInvariance, <1>1, PTL

(* At most one transaction works at a time, on an object that no reader   *)
(* sees and that is ahead of what they see (exclusive, transaction).      *)
THEOREM TransactionsAreIsolated == Spec => []OpenDraftIsIsolated
<1>1. MockInv => OpenDraftIsIsolated BY DEF MockInv
<1>2. QED BY MockInvariance, <1>1, PTL

(* Readers of the live state never see a version fall, a payload change   *)
(* under an unchanged version, or an event of a stream taken back.        *)
THEOREM LiveStateIsMonotonic == Spec => LiveOnlyExtends
<1>1. MockInv /\ [Next]_vars => [Extends(heap[live], heap'[live'])]_vars
  BY MockStepInvariant
<1>2. QED BY MockInvariance, <1>1, PTL DEF Spec, LiveOnlyExtends

----------------------------------------
(* Ensure operations. *)

Indices(c) == 1..Len(Desired[c])

At(c, i) == recs[Desired[c][i].id]

Wanted(c, i) == Desired[c][i].content

----------------------------------------
(* The inductive invariant, call by call. *)

(* Records are never taken away, so what a pass of reads found is there. *)
SeenIsThere(c) ==
  \A i \in 1..Len(seen[c]) : seen[c][i] # NoRecord => At(c, i) = seen[c][i]

(* A call about to insert has read everything, found nothing else there,   *)
(* and, for a graph, nothing at all.                                       *)
InsertIsReady(c) ==
  phase[c] = "insert" =>
    /\ ReadingDone(c)
    /\ \A i \in Indices(c) : seen[c][i] \in {NoRecord, Wanted(c, i)}
    /\ Procedure[c] = "graph" => \A i \in Indices(c) : seen[c][i] = NoRecord

(* An insert is lost to a record some other call put there: the call sees  *)
(* it when it reads again, or it is one of another kind.                   *)
LostTo(c, i) ==
  /\ At(c, i) # NoRecord
  /\ i \in 1..Len(seen[c]) /\ seen[c][i] = NoRecord =>
       At(c, i) # Wanted(c, i) /\ Procedure[c] # "objects"
  /\ Procedure[c] = "objects" => i \in missing[c]

LoserLostToOne(c) == phase[c] = "reread" => \E i \in Indices(c) : LostTo(c, i)

(* What ensureObjects did not find missing stays found. *)
FoundStaysFound(c) ==
  Procedure[c] = "objects" /\ phase[c] \in {"insert", "reread"} =>
    \A i \in Indices(c) \ missing[c] :
      At(c, i) # NoRecord /\ (i \in 1..Len(seen[c]) => seen[c][i] # NoRecord)

WrittenIsThere(c) == phase[c] = "written" => \A i \in Indices(c) : At(c, i) = Wanted(c, i)

PendingUntilDone(c) ==
  /\ phase[c] # "done" => outcome[c] = "pending"
  /\ outcome[c] # "error"

CallIsSound(c) ==
  /\ SeenIsThere(c) /\ InsertIsReady(c) /\ LoserLostToOne(c) /\ FoundStaysFound(c)
  /\ WrittenIsThere(c) /\ PendingUntilDone(c)

EnsureInv == EnsureTypeOK /\ \A c \in Contenders : CallIsSound(c)

(* A graph nobody else has a part of is there whole or not at all, and a   *)
(* call that lost its insert to one like it reads it whole.                *)
NoneIsThere(c) == \A i \in Indices(c) : At(c, i) = NoRecord
AllIsThere(c) == \A i \in Indices(c) : At(c, i) = Wanted(c, i)

GraphIsWhole(c) ==
  HasOnlyTwins(c) =>
    /\ NoneIsThere(c) \/ AllIsThere(c)
    /\ phase[c] = "reread" =>
         AllIsThere(c) /\ \A i \in 1..Len(seen[c]) : seen[c][i] # NoRecord

----------------------------------------
(* What the calls desire. *)

(* What a call desires is a list of typed records, never an absence. *)
LEMMA DesiredRecords ==
  ASSUME NEW c \in Contenders
  PROVE  /\ Desired[c] \in Seq([id : Ids, content : Contents])
         /\ Len(Desired[c]) \in Nat /\ Len(Desired[c]) >= 1
         /\ DOMAIN Desired[c] = Indices(c)
         /\ \A i \in Indices(c) :
              /\ Desired[c][i] = [id |-> Desired[c][i].id, content |-> Wanted(c, i)]
              /\ Desired[c][i].id \in Ids
              /\ Wanted(c, i) \in Contents /\ Wanted(c, i) # NoRecord
         /\ \A i, j \in Indices(c) : Desired[c][i].id = Desired[c][j].id => i = j
<1>1. Desired[c] \in Seq([id : Ids, content : Contents]) /\ Desired[c] # << >>
  BY CallsAssumption
<1>2. Len(Desired[c]) \in Nat \ {0} BY <1>1, EmptySeq
<1>3. DOMAIN Desired[c] = Indices(c) BY <1>1, LenProperties DEF Indices
<1>4. \A i \in Indices(c) : Desired[c][i] \in [id : Ids, content : Contents]
  BY <1>1, ElementOfSeq DEF Indices
<1>5. \A i, j \in Indices(c) : Desired[c][i].id = Desired[c][j].id => i = j
  BY <1>3, CallsAssumption
<1>6. Len(Desired[c]) >= 1 BY <1>2
<1> QED BY <1>1, <1>2, <1>3, <1>4, <1>5, <1>6, ContentsAssumption DEF Wanted

(* ensureRecord desires one record. *)
LEMMA RecordDesiresOne ==
  ASSUME NEW c \in Contenders, Procedure[c] = "record" PROVE Indices(c) = {1}
BY CallsAssumption DEF Indices

----------------------------------------
(* Types. *)

(* What a call has seen is a prefix of what it desires. *)
LEMMA SeenRange ==
  ASSUME EnsureTypeOK, NEW c \in Contenders
  PROVE  /\ seen[c] \in Seq(Contents \cup {NoRecord})
         /\ DOMAIN seen[c] = 1..Len(seen[c]) /\ Len(seen[c]) \in Nat
         /\ 1..Len(seen[c]) \subseteq Indices(c)
         /\ \A i \in 1..Len(seen[c]) : seen[c][i] \in Contents \cup {NoRecord}
<1>1. seen[c] \in Seq(Contents \cup {NoRecord}) /\ Len(seen[c]) <= Len(Desired[c])
  BY DEF EnsureTypeOK
<1> QED BY <1>1, DesiredRecords DEF Indices

(* The types hold at first. *)
LEMMA TypeInit == EnsureInit => EnsureTypeOK
<1> SUFFICES ASSUME EnsureInit PROVE EnsureTypeOK
  OBVIOUS
<1>1. \A c \in Contenders : Len(seen[c]) <= Len(Desired[c]) /\ missing[c] \subseteq 1..Len(Desired[c])
  BY DesiredRecords, EmptySeq DEF EnsureInit
<1>2. /\ seen \in [Contenders -> Seq(Contents \cup {NoRecord})]
      /\ missing \in [Contenders -> SUBSET Nat]
  BY EmptySeq DEF EnsureInit
<1> QED BY <1>1, <1>2, MaxRestartsAssumption DEF EnsureInit, EnsureTypeOK

(* The positions of a list of n records are finitely many. *)
LEMMA PrefixesAreFinite ==
  ASSUME NEW n \in Nat
  PROVE  IsFiniteSet(1..n)
<1>1. 1 \in Int /\ n \in Int OBVIOUS
<1> QED BY <1>1, FS_Interval

(* The records a call found absent are places in its list. *)
LEMMA AbsentAreIndices ==
  ASSUME EnsureTypeOK, NEW c \in Contenders
  PROVE  /\ Absent(c) \subseteq 1..Len(seen[c])
         /\ Absent(c) \subseteq Indices(c)
BY SeenRange DEF Absent

(* A call ends, or goes on to insert: the two outcomes of a decision. *)
Decides(c) ==
  \/ \E result \in {"ok", "conflict", "error"} : EndCall(c, result)
  \/ InsertNext(c)

(* Every decision ends the call or goes on to insert. *)
LEMMA DecisionsDecide ==
  ASSUME NEW c \in Contenders, DecideRecord(c) \/ DecideGraph(c) \/ DecideObjects(c)
  PROVE  Decides(c)
BY DEF DecideRecord, DecideGraph, DecideObjects, Decides

(* A decision keeps the types. *)
LEMMA DecidesTyped ==
  ASSUME EnsureTypeOK, NEW c \in Contenders, Decides(c) PROVE EnsureTypeOK'
<1>1. CASE \E result \in {"ok", "conflict", "error"} : EndCall(c, result)
  BY <1>1 DEF EndCall, EnsureTypeOK
<1>2. CASE InsertNext(c)
  <2>1. /\ UNCHANGED <<recs, seen, outcome, restarts>>
        /\ phase' = [phase EXCEPT ![c] = "insert"]
        /\ missing' = [missing EXCEPT ![c] = Absent(c)]
    BY <1>2 DEF InsertNext
  <2>2. Absent(c) \subseteq 1..Len(Desired[c]) BY AbsentAreIndices DEF Indices
  <2>3. /\ missing' \in [Contenders -> SUBSET Nat]
        /\ \A d \in Contenders : missing'[d] \subseteq 1..Len(Desired[d])
    BY <2>1, <2>2 DEF EnsureTypeOK
  <2>4. phase' \in [Contenders -> {"read", "insert", "written", "reread", "done"}]
    BY <2>1 DEF EnsureTypeOK
  <2> QED BY <2>1, <2>3, <2>4 DEF EnsureTypeOK
<1> QED BY <1>1, <1>2 DEF Decides

----------------------------------------
(* An insert that is not lost writes what was absent and nothing else. *)

Wins(c) == \A x \in ToInsert(c) : recs[x.id] = NoRecord

RecordsStay == \A id \in Ids : recs[id] # NoRecord => recs'[id] = recs[id]

WritesAbsent(c) ==
  /\ recs' \in [Ids -> Contents \cup {NoRecord}]
  /\ RecordsStay
  /\ \A i \in Absent(c) : At(c, i) = NoRecord /\ At(c, i)' = Wanted(c, i)
  /\ \A id \in Ids : recs'[id] # recs[id] =>
       \E i \in Absent(c) : id = Desired[c][i].id /\ recs'[id] = Wanted(c, i)

(* An insert that wins writes all that was absent. *)
LEMMA WinnerWrites ==
  ASSUME EnsureTypeOK, NEW c \in Contenders, Insert(c), Wins(c)
  PROVE  WritesAbsent(c) /\ UNCHANGED <<seen, missing, outcome, restarts>>
         /\ phase' = [phase EXCEPT ![c] = "written"]
<1>1. /\ recs' = [id \in Ids |-> IF \E x \in ToInsert(c) : x.id = id
                                 THEN (CHOOSE x \in ToInsert(c) : x.id = id).content
                                 ELSE recs[id]]
      /\ phase' = [phase EXCEPT ![c] = "written"]
      /\ UNCHANGED <<seen, missing, outcome, restarts>>
  BY DEF Insert, Wins
<1>2. ASSUME NEW i \in Absent(c)
      PROVE  At(c, i) = NoRecord /\ At(c, i)' = Wanted(c, i)
  <2>1. i \in Indices(c) BY AbsentAreIndices
  <2>2. Desired[c][i] \in ToInsert(c) /\ Desired[c][i].id \in Ids
    BY <2>1, DesiredRecords DEF ToInsert
  <2> DEFINE y == CHOOSE x \in ToInsert(c) : x.id = Desired[c][i].id
  <2>3. y \in ToInsert(c) /\ y.id = Desired[c][i].id BY <2>2
  <2>4. PICK k \in Absent(c) : y = Desired[c][k]
    BY <2>3 DEF ToInsert
  <2>5. k = i BY <2>1, <2>3, <2>4, AbsentAreIndices, DesiredRecords
  <2>6. recs'[Desired[c][i].id] = y.content BY <1>1, <2>2
  <2>7. At(c, i) = NoRecord BY <2>2 DEF Wins, At
  <2> QED BY <2>4, <2>5, <2>6, <2>7 DEF At, Wanted
<1>3. ASSUME NEW id \in Ids, recs'[id] # recs[id]
      PROVE  \E i \in Absent(c) : id = Desired[c][i].id /\ recs'[id] = Wanted(c, i)
  <2>1. PICK x \in ToInsert(c) : x.id = id
    BY <1>1, <1>3
  <2>2. PICK i \in Absent(c) : x = Desired[c][i]
    BY <2>1 DEF ToInsert
  <2> QED BY <1>2, <2>1, <2>2 DEF At
<1>4. RecordsStay BY <1>2, <1>3 DEF RecordsStay, At
<1>5. recs' \in [Ids -> Contents \cup {NoRecord}]
  <2>1. \A id \in Ids : recs[id] \in Contents \cup {NoRecord}
    BY DEF EnsureTypeOK
  <2>2. ASSUME NEW id \in Ids, recs'[id] # recs[id] PROVE recs'[id] \in Contents
    <3>1. PICK i \in Absent(c) : recs'[id] = Wanted(c, i)
      BY <1>3, <2>2
    <3> QED BY <3>1, AbsentAreIndices, DesiredRecords
  <2>3. \A id \in Ids : recs'[id] \in Contents \cup {NoRecord} BY <2>1, <2>2
  <2> QED BY <1>1, <2>3
<1> QED BY <1>1, <1>2, <1>3, <1>4, <1>5 DEF WritesAbsent

(* An insert that loses reads again from the start. *)
LEMMA LoserRereads ==
  ASSUME NEW c \in Contenders, Insert(c), ~Wins(c)
  PROVE  /\ phase' = [phase EXCEPT ![c] = "reread"]
         /\ seen' = [seen EXCEPT ![c] = << >>]
         /\ UNCHANGED <<recs, missing, outcome, restarts>>
BY DEF Insert, Wins

(* Every step keeps the types. *)
LEMMA TypeNext == EnsureTypeOK /\ [EnsureNext]_ensureVars => EnsureTypeOK'
<1> SUFFICES ASSUME EnsureTypeOK, [EnsureNext]_ensureVars PROVE EnsureTypeOK'
  OBVIOUS
<1>1. CASE UNCHANGED ensureVars
  BY <1>1 DEF ensureVars, EnsureTypeOK
<1>2. ASSUME NEW c \in Contenders, Read(c) PROVE EnsureTypeOK'
  <2>1. /\ Len(seen[c]) # Len(Desired[c])
        /\ UNCHANGED <<recs, phase, missing, outcome, restarts>>
    BY <1>2 DEF Read, ReadingDone
  <2>2. Len(seen[c]) + 1 \in Indices(c)
    BY <2>1, SeenRange, DesiredRecords DEF EnsureTypeOK, Indices
  <2>3. recs[Desired[c][Len(seen[c]) + 1].id] \in Contents \cup {NoRecord}
    BY <2>2, DesiredRecords DEF EnsureTypeOK
  <2>4. PICK new \in Contents \cup {NoRecord} : seen' = [seen EXCEPT ![c] = Append(seen[c], new)]
    BY <1>2, <2>3 DEF Read, ReadAs
  <2>5. /\ Append(seen[c], new) \in Seq(Contents \cup {NoRecord})
        /\ Len(Append(seen[c], new)) <= Len(Desired[c])
    BY <2>2, SeenRange, DesiredRecords, AppendProperties DEF Indices
  <2>6. seen' \in [Contenders -> Seq(Contents \cup {NoRecord})]
    BY <2>4, <2>5 DEF EnsureTypeOK
  <2>7. \A d \in Contenders : Len(seen'[d]) <= Len(Desired[d])
    BY <2>4, <2>5 DEF EnsureTypeOK
  <2> QED BY <2>1, <2>6, <2>7 DEF EnsureTypeOK
<1>3. ASSUME NEW c \in Contenders, Decides(c) PROVE EnsureTypeOK'
  BY <1>3, DecidesTyped
<1>4. ASSUME NEW c \in Contenders, Insert(c), Wins(c) PROVE EnsureTypeOK'
  BY <1>4, WinnerWrites DEF WritesAbsent, EnsureTypeOK
<1>5. ASSUME NEW c \in Contenders, Insert(c), ~Wins(c) PROVE EnsureTypeOK'
  <2>1. /\ phase' = [phase EXCEPT ![c] = "reread"]
        /\ seen' = [seen EXCEPT ![c] = << >>]
        /\ UNCHANGED <<recs, missing, outcome, restarts>>
    BY <1>5, LoserRereads
  <2>2. seen' \in [Contenders -> Seq(Contents \cup {NoRecord})]
    BY <2>1, EmptySeq DEF EnsureTypeOK
  <2>3. \A d \in Contenders : Len(seen'[d]) <= Len(Desired[d])
    BY <2>1, EmptySeq, DesiredRecords DEF EnsureTypeOK
  <2> QED BY <2>1, <2>2, <2>3 DEF EnsureTypeOK
<1>6. ASSUME NEW c \in Contenders, Return(c) PROVE EnsureTypeOK'
  BY <1>6, DecidesTyped DEF Return, Decides
<1>7. ASSUME NEW c \in Contenders, Restart(c) PROVE EnsureTypeOK'
  <2>1. /\ seen' \in [Contenders -> Seq(Contents \cup {NoRecord})]
        /\ missing' \in [Contenders -> SUBSET Nat]
    BY <1>7, EmptySeq DEF Restart, EnsureTypeOK
  <2>2. \A d \in Contenders : Len(seen'[d]) <= Len(Desired[d]) /\ missing'[d] \subseteq 1..Len(Desired[d])
    BY <1>7, EmptySeq, DesiredRecords DEF Restart, EnsureTypeOK
  <2> QED BY <1>7, <2>1, <2>2, MaxRestartsAssumption DEF Restart, EnsureTypeOK
<1>8. CASE EnsureNext
  BY <1>2, <1>3, <1>4, <1>5, <1>6, <1>7, <1>8, DecisionsDecide DEF EnsureNext, Step
<1> QED BY <1>1, <1>8

----------------------------------------
(* Every step leaves every call sound. *)

(* The invariant holds at first. *)
LEMMA InitSound == EnsureInit => EnsureInv
<1> SUFFICES ASSUME EnsureInit PROVE EnsureInv
  OBVIOUS
<1>1. ASSUME NEW c \in Contenders PROVE CallIsSound(c)
  BY EmptySeq DEF EnsureInit, CallIsSound, SeenIsThere, InsertIsReady, LoserLostToOne,
                  FoundStaysFound, WrittenIsThere, PendingUntilDone
<1> QED BY <1>1, TypeInit DEF EnsureInv

(* A call that does nothing while records appear. *)
LEMMA RestingIsSound ==
  ASSUME EnsureTypeOK, RecordsStay, NEW d \in Contenders, CallIsSound(d),
         phase'[d] = phase[d], seen'[d] = seen[d], missing'[d] = missing[d],
         outcome'[d] = outcome[d]
  PROVE  CallIsSound(d)'
<1>1. \A i \in Indices(d) : At(d, i) # NoRecord => At(d, i)' = At(d, i)
  BY DesiredRecords DEF RecordsStay, At
<1>2. SeenIsThere(d)' BY <1>1, SeenRange DEF CallIsSound, SeenIsThere
<1>3. InsertIsReady(d)' BY DEF CallIsSound, InsertIsReady, ReadingDone
<1>4. ASSUME NEW i \in Indices(d), LostTo(d, i) PROVE LostTo(d, i)'
  BY <1>1, <1>4 DEF LostTo
<1>5. LoserLostToOne(d)' BY <1>4 DEF CallIsSound, LoserLostToOne
<1>6. FoundStaysFound(d)' BY <1>1 DEF CallIsSound, FoundStaysFound
<1>7. WrittenIsThere(d)' BY <1>1, DesiredRecords DEF CallIsSound, WrittenIsThere
<1>8. PendingUntilDone(d)' BY DEF CallIsSound, PendingUntilDone
<1> QED BY <1>2, <1>3, <1>5, <1>6, <1>7, <1>8 DEF CallIsSound

(* A read keeps what a call knows true. *)
LEMMA ReadIsSound ==
  ASSUME EnsureTypeOK, NEW c \in Contenders, CallIsSound(c), Read(c)
  PROVE  CallIsSound(c)'
<1> DEFINE n == Len(seen[c]) + 1
<1>1. n \in Indices(c) /\ Len(seen[c]) \in Nat
  BY SeenRange, DesiredRecords DEF Read, ReadingDone, EnsureTypeOK, Indices
<1>2. /\ phase[c] \in {"read", "reread"}
      /\ UNCHANGED <<recs, phase, missing, outcome, restarts>>
  BY DEF Read
<1>3. At(c, n) \in Contents \cup {NoRecord}
  BY <1>1, DesiredRecords DEF EnsureTypeOK, At
<1>4. PICK new \in Contents \cup {NoRecord} :
        /\ seen' = [seen EXCEPT ![c] = Append(seen[c], new)]
        /\ new # NoRecord => At(c, n) = new
        /\ new = NoRecord /\ At(c, n) # NoRecord =>
             At(c, n) # Wanted(c, n) /\ Procedure[c] # "objects"
  BY <1>3 DEF Read, ReadAs, At, Wanted
<1>5. seen'[c] = Append(seen[c], new) BY <1>4 DEF EnsureTypeOK
<1>6. /\ Len(seen'[c]) = n
      /\ seen'[c][n] = new
      /\ \A i \in 1..Len(seen[c]) : seen'[c][i] = seen[c][i]
  BY <1>5, SeenRange, AppendProperties
<1> HIDE DEF n
<1>7. \A i \in 1..n : i \in 1..Len(seen[c]) \/ i = n BY <1>1 DEF n
<1>8. \A i : At(c, i)' = At(c, i) BY <1>2 DEF At
<1>9. SeenIsThere(c)' BY <1>4, <1>6, <1>7, <1>8 DEF CallIsSound, SeenIsThere
<1>10. ASSUME NEW i \in Indices(c), LostTo(c, i) PROVE LostTo(c, i)'
  BY <1>2, <1>4, <1>6, <1>7, <1>8, <1>10 DEF LostTo
<1>11. LoserLostToOne(c)' BY <1>2, <1>10 DEF CallIsSound, LoserLostToOne
<1>12. FoundStaysFound(c)'
  BY <1>2, <1>4, <1>6, <1>7, <1>8 DEF CallIsSound, FoundStaysFound
<1>13. InsertIsReady(c)' /\ WrittenIsThere(c)' /\ PendingUntilDone(c)'
  BY <1>2 DEF CallIsSound, InsertIsReady, WrittenIsThere, PendingUntilDone
<1> QED BY <1>9, <1>11, <1>12, <1>13 DEF CallIsSound

(* So does the end of a call. *)
LEMMA EndIsSound ==
  ASSUME EnsureTypeOK, NEW c \in Contenders, CallIsSound(c),
         NEW result \in {"ok", "conflict"}, EndCall(c, result)
  PROVE  CallIsSound(c)'
<1>1. /\ phase'[c] = "done" /\ outcome'[c] = result
      /\ UNCHANGED <<recs, seen, missing>>
  BY DEF EndCall, EnsureTypeOK
<1> QED BY <1>1 DEF CallIsSound, SeenIsThere, InsertIsReady, LoserLostToOne, FoundStaysFound,
                    WrittenIsThere, PendingUntilDone, At

(* What the three procedures know when they go on to insert. *)
FoundNothingElse(c) ==
  /\ phase[c] \in {"read", "reread"} /\ ReadingDone(c)
  /\ \A i \in Indices(c) : seen[c][i] \in {NoRecord, Wanted(c, i)}
  /\ Procedure[c] = "graph" => \A i \in Indices(c) : seen[c][i] = NoRecord

(* A call that goes on to insert saw its own content or nothing. *)
LEMMA InsertersFoundNothingElse ==
  ASSUME EnsureTypeOK, NEW c \in Contenders, InsertNext(c),
         DecideRecord(c) \/ DecideGraph(c) \/ DecideObjects(c)
  PROVE  FoundNothingElse(c)
<1>1. phase'[c] = "insert" BY DEF InsertNext, EnsureTypeOK
<1>2. ~ \E result \in {"ok", "conflict", "error"} : EndCall(c, result)
  BY <1>1 DEF EndCall, EnsureTypeOK
<1>3. ReadingDone(c) => DOMAIN seen[c] = Indices(c)
  BY SeenRange DEF ReadingDone, Indices
<1>4. CASE DecideRecord(c)
  <2>1. /\ phase[c] = "read" /\ ReadingDone(c) /\ Absent(c) # {} /\ Procedure[c] = "record"
    BY <1>2, <1>4 DEF DecideRecord
  <2>2. Indices(c) = {1} BY <2>1, RecordDesiresOne
  <2>3. seen[c][1] = NoRecord BY <1>3, <2>1, <2>2 DEF Absent
  <2> QED BY <2>1, <2>2, <2>3 DEF FoundNothingElse
<1>5. CASE DecideGraph(c)
  <2>1. phase[c] = "read" /\ ReadingDone(c) /\ Absent(c) = DOMAIN seen[c]
    BY <1>2, <1>5 DEF DecideGraph
  <2>2. \A i \in Indices(c) : seen[c][i] = NoRecord BY <1>3, <2>1 DEF Absent
  <2> QED BY <2>1, <2>2 DEF FoundNothingElse
<1>6. CASE DecideObjects(c)
  <2>1. /\ phase[c] \in {"read", "reread"} /\ ReadingDone(c) /\ Procedure[c] = "objects"
        /\ \A i \in DOMAIN seen[c] : ~Diverges(c, i)
    BY <1>2, <1>6 DEF DecideObjects
  <2>2. \A i \in Indices(c) : seen[c][i] \in {NoRecord, Wanted(c, i)}
    BY <1>3, <2>1 DEF Diverges, Wanted
  <2> QED BY <2>1, <2>2 DEF FoundNothingElse
<1> QED BY <1>4, <1>5, <1>6

(* Going on to insert keeps what a call knows true. *)
LEMMA InsertNextIsSound ==
  ASSUME EnsureTypeOK, NEW c \in Contenders, CallIsSound(c), InsertNext(c), FoundNothingElse(c)
  PROVE  CallIsSound(c)'
<1>1. /\ phase'[c] = "insert" /\ missing'[c] = Absent(c)
      /\ UNCHANGED <<recs, seen, outcome>>
  BY DEF InsertNext, EnsureTypeOK
<1>2. 1..Len(seen[c]) = Indices(c) /\ DOMAIN seen[c] = Indices(c)
  BY SeenRange DEF FoundNothingElse, ReadingDone, Indices
<1>3. \A i \in Indices(c) \ Absent(c) : seen[c][i] # NoRecord /\ At(c, i) # NoRecord
  BY <1>2 DEF Absent, CallIsSound, SeenIsThere
<1>4. FoundStaysFound(c)' BY <1>1, <1>2, <1>3 DEF FoundStaysFound, At
<1>5. InsertIsReady(c)' BY <1>1 DEF FoundNothingElse, InsertIsReady, ReadingDone
<1> QED BY <1>1, <1>4, <1>5 DEF CallIsSound, SeenIsThere, LoserLostToOne, WrittenIsThere,
                                PendingUntilDone, FoundNothingElse, At

(* ensureObjects reads again after a lost insert and always finds more     *)
(* than before, so it is never left without progress.                      *)
LEMMA LosersMakeProgress ==
  ASSUME EnsureTypeOK, NEW c \in Contenders, CallIsSound(c), Procedure[c] = "objects",
         phase[c] = "reread", ReadingDone(c)
  PROVE  /\ Absent(c) \subseteq missing[c]
         /\ Cardinality(Absent(c)) < Cardinality(missing[c])
<1>1. 1..Len(seen[c]) = Indices(c) /\ DOMAIN seen[c] = Indices(c)
  BY SeenRange DEF ReadingDone, Indices
<1>2. Absent(c) \subseteq missing[c]
  BY <1>1 DEF Absent, CallIsSound, FoundStaysFound
<1>3. PICK i \in Indices(c) : i \in missing[c] /\ i \notin Absent(c)
  BY <1>1 DEF Absent, CallIsSound, LoserLostToOne, LostTo
<1>4. IsFiniteSet(missing[c])
  <2>1. missing[c] \subseteq 1..Len(Desired[c]) /\ Len(Desired[c]) \in Nat
    BY DesiredRecords DEF EnsureTypeOK
  <2>2. IsFiniteSet(1..Len(Desired[c])) BY <2>1, FS_Interval
  <2> QED BY <2>1, <2>2, FS_Subset
<1>5. /\ Cardinality(Absent(c)) <= Cardinality(missing[c])
      /\ Cardinality(Absent(c)) # Cardinality(missing[c])
  BY <1>2, <1>3, <1>4, FS_Subset
<1>6. Cardinality(Absent(c)) \in Nat /\ Cardinality(missing[c]) \in Nat
  BY <1>2, <1>4, FS_Subset, FS_CardinalityType
<1> QED BY <1>2, <1>5, <1>6

(* So a decision is to insert, or an end that is no error. *)
LEMMA DecisionsAreSound ==
  ASSUME EnsureTypeOK, NEW c \in Contenders, CallIsSound(c),
         DecideRecord(c) \/ DecideGraph(c) \/ DecideObjects(c)
  PROVE  \/ \E result \in {"ok", "conflict"} : EndCall(c, result)
         \/ InsertNext(c) /\ FoundNothingElse(c)
<1>1. CASE InsertNext(c)
  BY <1>1, InsertersFoundNothingElse
<1>2. CASE DecideRecord(c) \/ DecideGraph(c)
  BY <1>1, <1>2 DEF DecideRecord, DecideGraph
<1>3. CASE DecideObjects(c)
  <2>1. ~(phase[c] = "reread" /\ ReadingDone(c) /\
          (Cardinality(Absent(c)) >= Cardinality(missing[c]) \/ ~(Absent(c) \subseteq missing[c])))
    <3> SUFFICES ASSUME phase[c] = "reread", ReadingDone(c)
                 PROVE  /\ Absent(c) \subseteq missing[c]
                        /\ ~(Cardinality(Absent(c)) >= Cardinality(missing[c]))
      OBVIOUS
    <3>1. Procedure[c] = "objects" BY <1>3 DEF DecideObjects
    <3>2. Cardinality(Absent(c)) \in Nat /\ Cardinality(missing[c]) \in Nat
      <4>1. /\ missing[c] \subseteq 1..Len(Desired[c]) /\ Absent(c) \subseteq 1..Len(Desired[c])
            /\ Len(Desired[c]) \in Nat
        BY AbsentAreIndices, DesiredRecords DEF EnsureTypeOK, Indices
      <4>2. IsFiniteSet(1..Len(Desired[c])) BY <4>1, PrefixesAreFinite
      <4>3. IsFiniteSet(missing[c]) /\ IsFiniteSet(Absent(c))
        BY <4>1, <4>2, FS_Subset
      <4> QED BY <4>3, FS_CardinalityType
    <3> QED BY <3>1, <3>2, LosersMakeProgress
  <2> QED BY <1>1, <1>3, <2>1 DEF DecideObjects
<1> QED BY <1>2, <1>3

(* So does an insert, won or lost, and no record is taken back. *)
LEMMA InsertIsSound ==
  ASSUME EnsureTypeOK, NEW c \in Contenders, CallIsSound(c), Insert(c)
  PROVE  /\ RecordsStay
         /\ CallIsSound(c)'
<1>1. phase[c] = "insert" BY DEF Insert
<1>2. 1..Len(seen[c]) = Indices(c) /\ DOMAIN seen[c] = Indices(c)
  BY <1>1, SeenRange DEF CallIsSound, InsertIsReady, ReadingDone, Indices
<1>3. CASE Wins(c)
  <2>1. /\ WritesAbsent(c) /\ phase' = [phase EXCEPT ![c] = "written"]
        /\ UNCHANGED <<seen, missing, outcome, restarts>>
    BY <1>3, WinnerWrites
  <2>2. phase'[c] = "written" /\ RecordsStay
    BY <2>1 DEF EnsureTypeOK, WritesAbsent
  <2>3. ASSUME NEW i \in Indices(c) PROVE At(c, i)' = Wanted(c, i)
    <3>1. CASE seen[c][i] = NoRecord
      BY <1>2, <2>1, <3>1 DEF WritesAbsent, Absent
    <3>2. CASE seen[c][i] # NoRecord
      <4>1. At(c, i) = Wanted(c, i)
        BY <1>1, <1>2, <3>2 DEF CallIsSound, InsertIsReady, SeenIsThere
      <4> QED BY <2>2, <4>1, DesiredRecords DEF RecordsStay, At
    <3> QED BY <3>1, <3>2
  <2>4. SeenIsThere(c)'
    <3>1. ASSUME NEW i \in 1..Len(seen[c]), seen[c][i] # NoRecord PROVE At(c, i)' = seen[c][i]
      <4>1. At(c, i) = seen[c][i] /\ i \in Indices(c)
        BY <1>2, <3>1 DEF CallIsSound, SeenIsThere
      <4> QED BY <2>2, <3>1, <4>1, DesiredRecords DEF RecordsStay, At
    <3> QED BY <2>1, <3>1 DEF SeenIsThere
  <2>5. WrittenIsThere(c)' /\ InsertIsReady(c)' /\ LoserLostToOne(c)' /\ FoundStaysFound(c)'
    BY <2>2, <2>3 DEF WrittenIsThere, InsertIsReady, LoserLostToOne, FoundStaysFound
  <2>6. PendingUntilDone(c)'
    BY <1>1, <2>1, <2>2 DEF CallIsSound, PendingUntilDone
  <2> QED BY <2>2, <2>4, <2>5, <2>6 DEF CallIsSound
<1>4. CASE ~Wins(c)
  <2>1. /\ phase'[c] = "reread" /\ seen'[c] = << >>
        /\ UNCHANGED <<recs, missing, outcome, restarts>>
    BY <1>4, LoserRereads DEF EnsureTypeOK
  <2>2. PICK i \in Absent(c) : At(c, i) # NoRecord
    BY <1>4 DEF Wins, ToInsert, At
  <2>3. i \in Indices(c) /\ seen[c][i] = NoRecord BY <1>2, <2>2 DEF Absent
  <2>4. Procedure[c] = "objects" => i \in missing[c]
    BY <1>1, <1>2, <2>3 DEF CallIsSound, FoundStaysFound
  <2>5. Len(seen'[c]) = 0 BY <2>1, EmptySeq
  <2>6. LostTo(c, i)' BY <2>1, <2>2, <2>4, <2>5 DEF LostTo, At
  <2>7. LoserLostToOne(c)' BY <2>3, <2>6 DEF LoserLostToOne
  <2>8. FoundStaysFound(c)' /\ SeenIsThere(c)'
    BY <1>1, <2>1, <2>5 DEF CallIsSound, FoundStaysFound, SeenIsThere, At
  <2>9. InsertIsReady(c)' /\ WrittenIsThere(c)' /\ PendingUntilDone(c)'
    BY <1>1, <2>1 DEF CallIsSound, InsertIsReady, WrittenIsThere, PendingUntilDone
  <2> QED BY <2>1, <2>7, <2>8, <2>9 DEF CallIsSound, RecordsStay
<1> QED BY <1>3, <1>4

(* A call that starts over knows nothing. *)
LEMMA RestartIsSound ==
  ASSUME EnsureTypeOK, NEW c \in Contenders, CallIsSound(c), Restart(c)
  PROVE  CallIsSound(c)'
<1>1. /\ phase[c] # "done" /\ phase'[c] = "read" /\ seen'[c] = << >>
      /\ UNCHANGED <<recs, outcome>>
  BY DEF Restart, EnsureTypeOK
<1>2. Len(seen'[c]) = 0 BY <1>1, EmptySeq
<1> QED BY <1>1, <1>2 DEF CallIsSound, SeenIsThere, InsertIsReady, LoserLostToOne, FoundStaysFound,
                          WrittenIsThere, PendingUntilDone

(* A step of one call is none of another's. *)
Alone(c) ==
  \A d \in Contenders \ {c} :
    /\ phase'[d] = phase[d] /\ seen'[d] = seen[d]
    /\ missing'[d] = missing[d] /\ outcome'[d] = outcome[d]

(* A step of a call is its own, adds records only and keeps what it knows. *)
LEMMA StepIsSound ==
  ASSUME EnsureTypeOK, NEW c \in Contenders, CallIsSound(c), Step(c) \/ Restart(c)
  PROVE  /\ Alone(c)
         /\ RecordsStay
         /\ CallIsSound(c)'
<1>1. CASE Read(c)
  <2>1. Alone(c) BY <1>1 DEF Read, Alone, EnsureTypeOK
  <2> QED BY <1>1, <2>1, ReadIsSound DEF Read, RecordsStay
<1>2. CASE DecideRecord(c) \/ DecideGraph(c) \/ DecideObjects(c)
  <2>1. CASE \E result \in {"ok", "conflict"} : EndCall(c, result)
    BY <2>1, EndIsSound DEF EndCall, RecordsStay, Alone, EnsureTypeOK
  <2>2. CASE InsertNext(c) /\ FoundNothingElse(c)
    BY <2>2, InsertNextIsSound DEF InsertNext, RecordsStay, Alone, EnsureTypeOK
  <2> QED BY <1>2, <2>1, <2>2, DecisionsAreSound
<1>3. CASE Insert(c)
  <2>1. Alone(c) BY <1>3 DEF Insert, Alone, EnsureTypeOK
  <2> QED BY <1>3, <2>1, InsertIsSound
<1>4. CASE Return(c)
  BY <1>4, EndIsSound DEF Return, EndCall, RecordsStay, Alone, EnsureTypeOK
<1>5. CASE Restart(c)
  BY <1>5, RestartIsSound DEF Restart, RecordsStay, Alone, EnsureTypeOK
<1> QED BY <1>1, <1>2, <1>3, <1>4, <1>5 DEF Step

(* Every step keeps the invariant. *)
LEMMA InvNext == EnsureInv /\ [EnsureNext]_ensureVars => EnsureInv'
<1> SUFFICES ASSUME EnsureInv, [EnsureNext]_ensureVars PROVE EnsureInv'
  OBVIOUS
<1>1. EnsureTypeOK' BY TypeNext DEF EnsureInv
<1>2. ASSUME NEW c \in Contenders, Step(c) \/ Restart(c), NEW d \in Contenders
      PROVE  CallIsSound(d)'
  <2>1. Alone(c) /\ RecordsStay /\ CallIsSound(c)'
    BY <1>2, StepIsSound DEF EnsureInv
  <2>2. CASE d = c
    BY <2>1, <2>2
  <2>3. CASE d # c
    BY <2>1, <2>3, RestingIsSound DEF Alone, EnsureInv
  <2> QED BY <2>2, <2>3
<1>3. ASSUME UNCHANGED ensureVars, NEW d \in Contenders PROVE CallIsSound(d)'
  BY <1>3, RestingIsSound DEF EnsureInv, ensureVars, RecordsStay
<1> QED BY <1>1, <1>2, <1>3 DEF EnsureInv, EnsureNext

(* The inductive invariant of the ensure owner (ensure-records.js). *)
LEMMA EnsureInvariance == EnsureSpec => []EnsureInv
BY InitSound, InvNext, PTL DEF EnsureSpec

(* The types of EnsureRecords: a pass of reads is never longer than what   *)
(* the call desires (ensure-records.js).                                   *)
THEOREM EnsureTypeCorrect == EnsureSpec => []EnsureTypeOK
<1>1. EnsureInv => EnsureTypeOK BY DEF EnsureInv
<1> QED BY <1>1, EnsureInvariance, PTL

----------------------------------------
(* A graph that is there is there whole. *)

WritesOnly(d) ==
  \A id \in Ids : recs'[id] # recs[id] =>
    \E i \in Indices(d) : id = Desired[d][i].id /\ recs'[id] = Wanted(d, i)

(* A step writes no record but those its call desires. *)
LEMMA StepsWriteTheirOwn ==
  ASSUME EnsureTypeOK, NEW d \in Contenders, Step(d) \/ Restart(d)
  PROVE  WritesOnly(d)
<1>1. CASE Insert(d) /\ Wins(d)
  BY <1>1, WinnerWrites, AbsentAreIndices DEF WritesAbsent, WritesOnly
<1>2. CASE ~(Insert(d) /\ Wins(d))
  <2>1. UNCHANGED recs
    BY <1>2, LoserRereads DEF Step, Restart, Read, DecideRecord, DecideGraph, DecideObjects,
                              Return, EndCall, InsertNext
  <2> QED BY <2>1 DEF WritesOnly
<1> QED BY <1>1, <1>2

(* Calls that share a record share the graph. *)
LEMMA TwinsWantTheSame ==
  ASSUME NEW c \in Contenders, NEW d \in Contenders, HasOnlyTwins(c),
         NEW i \in Indices(c), NEW k \in Indices(d), Desired[c][i].id = Desired[d][k].id
  PROVE  \A m \in Indices(c) : \E l \in Indices(d) :
           Desired[c][m].id = Desired[d][l].id /\ Wanted(c, m) = Wanted(d, l)
<1>1. Desired[c][i] \in Contract!DesiredBy(c) /\ Desired[d][k] \in Contract!DesiredBy(d)
  BY DesiredRecords DEF Contract!DesiredBy
<1>2. Contract!DesiredBy(d) = Contract!DesiredBy(c) BY <1>1 DEF HasOnlyTwins
<1>3. ASSUME NEW m \in Indices(c) PROVE \E l \in Indices(d) : Desired[c][m] = Desired[d][l]
  <2>1. DOMAIN Desired[c] = Indices(c) /\ DOMAIN Desired[d] = Indices(d)
    BY DesiredRecords
  <2>2. Desired[c][m] \in Contract!DesiredBy(c) BY <2>1 DEF Contract!DesiredBy
  <2>3. Desired[c][m] \in Contract!DesiredBy(d) BY <1>2, <2>2
  <2> QED BY <2>1, <2>3 DEF Contract!DesiredBy
<1> QED BY <1>3 DEF Wanted

(* A step writes all of such a graph or nothing of it. *)
LEMMA GraphsAppearWhole ==
  ASSUME EnsureInv, NEW c \in Contenders, GraphIsWhole(c), HasOnlyTwins(c),
         NEW d \in Contenders, Step(d) \/ Restart(d)
  PROVE  NoneIsThere(c)' \/ AllIsThere(c)'
<1>0. EnsureTypeOK /\ CallIsSound(d) BY DEF EnsureInv
<1>1. WritesOnly(d) /\ CallIsSound(d)' /\ RecordsStay
  BY <1>0, StepIsSound, StepsWriteTheirOwn
<1>2. CASE \A i \in Indices(c) : At(c, i)' = At(c, i)
  BY <1>2 DEF GraphIsWhole, NoneIsThere, AllIsThere
<1>3. ASSUME NEW i \in Indices(c), At(c, i)' # At(c, i) PROVE AllIsThere(c)'
  <2>1. Desired[c][i].id \in Ids /\ recs'[Desired[c][i].id] # recs[Desired[c][i].id]
    BY <1>3, DesiredRecords DEF At
  <2>2. PICK k \in Indices(d) : Desired[c][i].id = Desired[d][k].id
    BY <1>1, <2>1 DEF WritesOnly
  <2>3. Insert(d) /\ Wins(d)
    BY <2>1, LoserRereads DEF Step, Restart, Read, DecideRecord, DecideGraph, DecideObjects,
                              Return, EndCall, InsertNext
  <2>4. phase'[d] = "written" BY <1>0, <2>3, WinnerWrites DEF EnsureTypeOK
  <2>5. \A l \in Indices(d) : At(d, l)' = Wanted(d, l)
    BY <1>1, <2>4 DEF CallIsSound, WrittenIsThere
  <2>6. ASSUME NEW m \in Indices(c) PROVE At(c, m)' = Wanted(c, m)
    <3>1. PICK l \in Indices(d) : Desired[c][m].id = Desired[d][l].id /\ Wanted(c, m) = Wanted(d, l)
      BY <2>2, TwinsWantTheSame
    <3> QED BY <2>5, <3>1 DEF At
  <2> QED BY <2>6 DEF AllIsThere, Wanted
<1> QED BY <1>2, <1>3

(* A graph that is there stays there. *)
LEMMA GraphsStay ==
  ASSUME RecordsStay, NEW c \in Contenders, AllIsThere(c)
  PROVE  AllIsThere(c)'
BY DesiredRecords DEF RecordsStay, AllIsThere, At, Wanted

(* What a call reads of a graph that is there is not missing. *)
LEMMA LoserReadsAll ==
  ASSUME EnsureInv, NEW c \in Contenders, GraphIsWhole(c), HasOnlyTwins(c),
         Step(c) \/ Restart(c), phase'[c] = "reread"
  PROVE  AllIsThere(c) /\ \A i \in 1..Len(seen'[c]) : seen'[c][i] # NoRecord
<1>0. EnsureTypeOK /\ CallIsSound(c) BY DEF EnsureInv
<1>1. CASE Read(c)
  <2> DEFINE n == Len(seen[c]) + 1
  <2>1. n \in Indices(c) /\ Len(seen[c]) \in Nat
    BY <1>0, <1>1, SeenRange, DesiredRecords DEF Read, ReadingDone, EnsureTypeOK, Indices
  <2>2. /\ phase[c] = "reread"
        /\ seen' = [seen EXCEPT ![c] = Append(seen[c], ReadAs(c, At(c, n), Wanted(c, n)))]
    BY <1>1 DEF Read, At, Wanted
  <2>3. /\ AllIsThere(c)
        /\ \A i \in 1..Len(seen[c]) : seen[c][i] # NoRecord
    BY <2>2 DEF GraphIsWhole
  <2>4. ReadAs(c, At(c, n), Wanted(c, n)) = Wanted(c, n)
    BY <2>1, <2>3 DEF ReadAs, AllIsThere
  <2>5. seen'[c] = Append(seen[c], Wanted(c, n))
    BY <1>0, <2>2, <2>4 DEF EnsureTypeOK
  <2>6. Wanted(c, n) \in Contents \cup {NoRecord} /\ Wanted(c, n) # NoRecord
    BY <2>1, DesiredRecords
  <2>7. /\ Len(seen'[c]) = n
        /\ seen'[c][n] = Wanted(c, n)
        /\ \A i \in 1..Len(seen[c]) : seen'[c][i] = seen[c][i]
    BY <1>0, <2>5, <2>6, SeenRange, AppendProperties
  <2> HIDE DEF n
  <2>8. \A i \in 1..n : i \in 1..Len(seen[c]) \/ i = n BY <2>1 DEF n
  <2> QED BY <2>3, <2>6, <2>7, <2>8
<1>2. CASE Insert(c)
  <2>1. ~Wins(c) BY <1>0, <1>2, WinnerWrites DEF EnsureTypeOK
  <2>2. seen'[c] = << >> BY <1>0, <1>2, <2>1, LoserRereads DEF EnsureTypeOK
  <2>3. PICK i \in Absent(c) : At(c, i) # NoRecord
    BY <2>1 DEF Wins, ToInsert, At
  <2>4. i \in Indices(c) BY <1>0, <2>3, AbsentAreIndices
  <2>5. AllIsThere(c) BY <2>3, <2>4 DEF GraphIsWhole, NoneIsThere
  <2>6. Len(seen'[c]) = 0 BY <2>2, EmptySeq
  <2> QED BY <2>5, <2>6
<1>3. CASE ~Read(c) /\ ~Insert(c)
  <2>1. phase'[c] \in {"insert", "done", "read"}
    BY <1>0, <1>3 DEF Step, Restart, DecideRecord, DecideGraph, DecideObjects, Return, EndCall,
                      InsertNext, EnsureTypeOK
  <2> QED BY <2>1
<1> QED BY <1>1, <1>2, <1>3

(* So every step leaves such graphs whole. *)
LEMMA GraphStep ==
  ASSUME EnsureInv, NEW c \in Contenders, GraphIsWhole(c),
         NEW d \in Contenders, Step(d) \/ Restart(d)
  PROVE  GraphIsWhole(c)'
<1>1. Alone(d) /\ RecordsStay BY StepIsSound DEF EnsureInv
<1>2. HasOnlyTwins(c)' <=> HasOnlyTwins(c)
  BY DEF HasOnlyTwins, Contract!DesiredBy
<1> SUFFICES ASSUME HasOnlyTwins(c) PROVE GraphIsWhole(c)'
  BY <1>2 DEF GraphIsWhole
<1>3. NoneIsThere(c)' \/ AllIsThere(c)' BY GraphsAppearWhole
<1>4. ASSUME phase'[c] = "reread"
      PROVE  AllIsThere(c)' /\ \A i \in 1..Len(seen'[c]) : seen'[c][i] # NoRecord
  <2>1. CASE d = c
    BY <1>1, <1>4, <2>1, LoserReadsAll, GraphsStay
  <2>2. CASE d # c
    <3>1. phase'[c] = phase[c] /\ seen'[c] = seen[c] BY <1>1, <2>2 DEF Alone
    <3>2. AllIsThere(c) /\ \A i \in 1..Len(seen[c]) : seen[c][i] # NoRecord
      BY <1>4, <3>1 DEF GraphIsWhole
    <3> QED BY <1>1, <3>1, <3>2, GraphsStay
  <2> QED BY <2>1, <2>2
<1> QED BY <1>3, <1>4 DEF GraphIsWhole

GInv == EnsureInv /\ \A c \in Contenders : GraphIsWhole(c)

(* It holds at first. *)
LEMMA GraphInit == EnsureInit => GInv
<1> SUFFICES ASSUME EnsureInit PROVE GInv
  OBVIOUS
<1>1. ASSUME NEW c \in Contenders PROVE GraphIsWhole(c)
  BY DesiredRecords DEF EnsureInit, GraphIsWhole, NoneIsThere, At
<1> QED BY <1>1, InitSound DEF GInv

(* Every step keeps it. *)
LEMMA GraphNext == GInv /\ [EnsureNext]_ensureVars => GInv'
<1> SUFFICES ASSUME GInv, [EnsureNext]_ensureVars PROVE GInv'
  OBVIOUS
<1>1. EnsureInv' BY InvNext DEF GInv
<1>2. ASSUME NEW c \in Contenders, NEW d \in Contenders, Step(d) \/ Restart(d)
      PROVE  GraphIsWhole(c)'
  BY <1>2, GraphStep DEF GInv
<1>3. ASSUME UNCHANGED ensureVars, NEW c \in Contenders PROVE GraphIsWhole(c)'
  BY <1>3 DEF ensureVars, GInv, GraphIsWhole, NoneIsThere, AllIsThere, At, HasOnlyTwins,
              Contract!DesiredBy
<1> QED BY <1>1, <1>2, <1>3 DEF GInv, EnsureNext

(* A graph that lost its insert to one like it adopts what it reads. *)
LEMMA LoserAdopts ==
  ASSUME GInv, NEW c \in Contenders, HasOnlyTwins(c), phase[c] = "reread",
         [EnsureNext]_ensureVars
  PROVE  outcome'[c] # "conflict"
<1>0. EnsureTypeOK /\ CallIsSound(c) /\ GraphIsWhole(c) BY DEF GInv, EnsureInv
<1>1. outcome[c] = "pending" BY <1>0 DEF CallIsSound, PendingUntilDone
<1>2. CASE outcome'[c] = outcome[c]
  BY <1>1, <1>2
<1>3. CASE outcome'[c] # outcome[c]
  <2>1. PICK d \in Contenders : Step(d) \/ Restart(d)
    BY <1>3 DEF EnsureNext, ensureVars
  <2>2. d = c BY <1>3, <2>1, StepIsSound DEF GInv, EnsureInv, Alone
  <2>3. Procedure[c] = "graph"
    <3>1. 1 \in Indices(c) BY DesiredRecords DEF Indices
    <3>2. Desired[c][1] \in Contract!DesiredBy(c)
      BY <3>1, DesiredRecords DEF Contract!DesiredBy
    <3> QED BY <3>2 DEF HasOnlyTwins
  <2>4. DecideGraph(c)
    BY <1>3, <2>1, <2>2, <2>3, LoserRereads, WinnerWrites, <1>0
       DEF Step, Restart, Read, DecideRecord, DecideObjects, Return
  <2>5. DOMAIN seen[c] = Indices(c) /\ 1..Len(seen[c]) = Indices(c)
    BY <1>0, <2>4, SeenRange DEF DecideGraph, ReadingDone, Indices
  <2>6. \A i \in Indices(c) : seen[c][i] # NoRecord /\ seen[c][i] = Wanted(c, i)
    BY <1>0, <2>5 DEF GraphIsWhole, AllIsThere, CallIsSound, SeenIsThere
  <2>7. Absent(c) = {} /\ \A i \in DOMAIN seen[c] : ~Diverges(c, i)
    BY <2>5, <2>6 DEF Absent, Diverges, Wanted
  <2>8. EndCall(c, "ok") BY <2>4, <2>7 DEF DecideGraph
  <2> QED BY <1>0, <2>8 DEF EndCall, EnsureTypeOK
<1> QED BY <1>2, <1>3

----------------------------------------
(* Every step is a step of the contract, or none. *)

(* What the contract remembers of a graph is what its call found missing:  *)
(* a step of one call changes no other's.                                  *)
LEMMA OwnLook ==
  ASSUME NEW c \in Contenders, Alone(c)
  PROVE  Looked' = [Looked EXCEPT ![c] = LookedFor(c)']
<1>1. ASSUME NEW d \in Contenders \ {c} PROVE LookedFor(d)' = LookedFor(d)
  <2>1. Absent(d)' = Absent(d) BY DEF Alone, Absent
  <2> QED BY <2>1 DEF Alone, LookedFor
<1>2. Looked' = [d \in Contenders |-> LookedFor(d)'] BY DEF Looked
<1>3. \A d \in Contenders : d # c => LookedFor(d)' = LookedFor(d) BY <1>1
<1> HIDE DEF LookedFor
<1> QED BY <1>2, <1>3, Zenon DEF Looked

(* A call that does not look for the rest of a graph remembers nothing. *)
LEMMA LookIsForgotten ==
  ASSUME EnsureTypeOK, NEW c \in Contenders, Alone(c),
         phase'[c] \notin {"read", "reread"} \/ seen'[c] = << >>
  PROVE  Looked' = [Looked EXCEPT ![c] = {}]
<1>1. LookedFor(c)' = {}
  <2>1. CASE phase'[c] \notin {"read", "reread"}
    BY <2>1 DEF LookedFor
  <2>2. CASE seen'[c] = << >>
    BY <2>2 DEF LookedFor, Absent
  <2> QED BY <2>1, <2>2
<1> QED BY <1>1, OwnLook

contractVars == <<recs, outcome, Looked>>

(* To read a member of a graph that is not there as desired is to look. *)
LEMMA ReadLooks ==
  ASSUME EnsureTypeOK, NEW c \in Contenders, CallIsSound(c), Read(c)
  PROVE  UNCHANGED contractVars \/ \E x \in Contract!DesiredBy(c) : Contract!Look(c, x)
<1> DEFINE n == Len(seen[c]) + 1
           x == Desired[c][n]
           new == ReadAs(c, At(c, n), Wanted(c, n))
<1>1. n \in Indices(c) /\ Len(seen[c]) \in Nat
  BY SeenRange, DesiredRecords DEF Read, ReadingDone, EnsureTypeOK, Indices
<1>2. /\ phase[c] \in {"read", "reread"} /\ outcome[c] = "pending"
      /\ seen' = [seen EXCEPT ![c] = Append(seen[c], new)]
      /\ UNCHANGED <<recs, phase, missing, outcome, restarts>>
  BY DEF Read, At, Wanted, CallIsSound, PendingUntilDone
<1>3. Looked' = [Looked EXCEPT ![c] = LookedFor(c)']
  BY <1>2, OwnLook DEF Alone, EnsureTypeOK
<1>4. At(c, n) \in Contents \cup {NoRecord} /\ new \in Contents \cup {NoRecord}
  BY <1>1, DesiredRecords DEF EnsureTypeOK, At, ReadAs
<1>5. seen'[c] = Append(seen[c], new) BY <1>2 DEF EnsureTypeOK
<1>6. /\ DOMAIN seen'[c] = 1..n
      /\ DOMAIN seen[c] = 1..Len(seen[c])
      /\ seen'[c][n] = new
      /\ \A i \in 1..Len(seen[c]) : seen'[c][i] = seen[c][i]
  BY <1>4, <1>5, SeenRange, AppendProperties
<1>7. 1..n = 1..Len(seen[c]) \cup {n} BY <1>1
<1>8. Absent(c)' = IF new = NoRecord THEN Absent(c) \cup {n} ELSE Absent(c)
  <2> HIDE DEF n, new
  <2> QED BY <1>6, <1>7 DEF Absent
<1>9. CASE Procedure[c] = "graph" /\ new = NoRecord
  <2>1. LookedFor(c)' = LookedFor(c) \cup {x.id}
    <3> HIDE DEF n, new
    <3> QED BY <1>2, <1>8, <1>9 DEF LookedFor
  <2>2. x \in Contract!DesiredBy(c)
    BY <1>1, DesiredRecords DEF Contract!DesiredBy
  <2>3. recs[x.id] # x.content
    BY <1>1, <1>9, DesiredRecords DEF ReadAs, At, Wanted
  <2>4. Looked[c] = LookedFor(c) BY DEF Looked
  <2>5. Contract!Look(c, x)
    <3> HIDE DEF n, new
    <3> QED BY <1>2, <1>3, <1>9, <2>1, <2>3, <2>4 DEF Contract!Look
  <2> QED BY <2>2, <2>5
<1>10. CASE ~(Procedure[c] = "graph" /\ new = NoRecord)
  <2>1. LookedFor(c)' = LookedFor(c)
    <3> HIDE DEF n, new
    <3> QED BY <1>2, <1>8, <1>10 DEF LookedFor
  <2> QED BY <1>2, <1>3, <2>1 DEF contractVars, Looked
<1> QED BY <1>9, <1>10

(* To go on to insert, to lose the insert and to start over is to forget. *)
LEMMA StartsForget ==
  ASSUME EnsureTypeOK, NEW c \in Contenders, CallIsSound(c),
         InsertNext(c) \/ Restart(c) \/ (Insert(c) /\ ~Wins(c))
  PROVE  Contract!Forget(c)
<1>1. Alone(c) /\ UNCHANGED <<recs, outcome>>
  BY LoserRereads DEF InsertNext, Restart, Alone, EnsureTypeOK
<1>2. phase'[c] \notin {"read", "reread"} \/ seen'[c] = << >>
  BY LoserRereads DEF InsertNext, Restart, EnsureTypeOK
<1> QED BY <1>1, <1>2, LookIsForgotten DEF Contract!Forget

(* So is to end. *)
LEMMA EndForgets ==
  ASSUME EnsureTypeOK, NEW c \in Contenders, NEW result, EndCall(c, result)
  PROVE  Looked' = [Looked EXCEPT ![c] = {}]
<1>1. Alone(c) /\ phase'[c] = "done" BY DEF EndCall, Alone, EnsureTypeOK
<1> QED BY <1>1, LookIsForgotten

(* A call that ends well with everything there completes. *)
LEMMA CompletesWithNothingMissing ==
  ASSUME EnsureTypeOK, NEW c \in Contenders, outcome[c] = "pending",
         \A i \in Indices(c) : At(c, i) = Wanted(c, i), EndCall(c, "ok")
  PROVE  Contract!Complete(c)
<1>1. ASSUME NEW x \in Contract!DesiredBy(c)
      PROVE  recs[x.id] = x.content /\ x.content # NoRecord
  <2>1. PICK i \in Indices(c) : x = Desired[c][i]
    BY DesiredRecords DEF Contract!DesiredBy
  <2> QED BY <2>1, DesiredRecords DEF At, Wanted
<1>2. Contract!Missing(c) = {} /\ ~Contract!Differs(c)
  BY <1>1 DEF Contract!Missing, Contract!Differs
<1>3. recs' = [id \in Ids |-> recs[id]] BY DEF EndCall, EnsureTypeOK
<1>4. Looked' = [Looked EXCEPT ![c] = {}] BY EndForgets
<1> QED BY <1>2, <1>3, <1>4 DEF Contract!Complete, Contract!Partial, EndCall

(* An insert that wins completes the call. *)
LEMMA WinnerCompletes ==
  ASSUME EnsureInv, NEW c \in Contenders, Insert(c), Wins(c)
  PROVE  Contract!Complete(c)
<1>0. EnsureTypeOK /\ CallIsSound(c) BY DEF EnsureInv
<1>1. phase[c] = "insert" BY DEF Insert
<1>2. 1..Len(seen[c]) = Indices(c) /\ DOMAIN seen[c] = Indices(c)
  BY <1>0, <1>1, SeenRange DEF CallIsSound, InsertIsReady, ReadingDone, Indices
<1>3. /\ recs' = [id \in Ids |-> IF \E x \in ToInsert(c) : x.id = id
                                 THEN (CHOOSE x \in ToInsert(c) : x.id = id).content
                                 ELSE recs[id]]
      /\ outcome' = outcome
  BY DEF Insert, Wins
<1>4. \A i \in Indices(c) : i \in Absent(c) <=> At(c, i) = NoRecord
  BY <1>0, <1>2 DEF CallIsSound, SeenIsThere, Absent, Wins, ToInsert, At
<1>5. Contract!Missing(c) = ToInsert(c)
  <2>1. ASSUME NEW x \in Contract!Missing(c) PROVE x \in ToInsert(c)
    <3>1. PICK i \in Indices(c) : x = Desired[c][i] /\ At(c, i) = NoRecord
      BY DesiredRecords DEF Contract!Missing, Contract!DesiredBy, At
    <3> QED BY <1>4, <3>1 DEF ToInsert
  <2>2. ASSUME NEW x \in ToInsert(c) PROVE x \in Contract!Missing(c)
    <3>1. PICK i \in Absent(c) : x = Desired[c][i]
      BY DEF ToInsert
    <3>2. i \in Indices(c) /\ At(c, i) = NoRecord
      BY <1>0, <1>4, <3>1, AbsentAreIndices
    <3> QED BY <3>1, <3>2, DesiredRecords DEF Contract!Missing, Contract!DesiredBy, At
  <2> QED BY <2>1, <2>2
<1>6. ~Contract!Differs(c)
  <2>1. ASSUME NEW x \in Contract!DesiredBy(c) PROVE recs[x.id] \in {NoRecord, x.content}
    <3>1. PICK i \in Indices(c) : x = Desired[c][i]
      BY DesiredRecords DEF Contract!DesiredBy
    <3>2. At(c, i) \in {NoRecord, Wanted(c, i)}
      BY <1>0, <1>1, <1>2, <1>4 DEF CallIsSound, InsertIsReady, SeenIsThere, Absent
    <3> QED BY <3>1, <3>2 DEF At, Wanted
  <2> QED BY <2>1 DEF Contract!Differs
<1>7. ~Contract!Partial(c)
  <2> SUFFICES ASSUME Procedure[c] = "graph", NEW x \in Contract!DesiredBy(c)
               PROVE  x \in Contract!Missing(c)
    BY DEF Contract!Partial, Contract!Missing
  <2>1. PICK i \in Indices(c) : x = Desired[c][i]
    BY DesiredRecords DEF Contract!DesiredBy
  <2>2. At(c, i) = NoRecord
    BY <1>0, <1>1, <1>2, <1>4 DEF CallIsSound, InsertIsReady, Absent
  <2> QED BY <2>1, <2>2 DEF Contract!Missing, At
<1>8. outcome[c] = "pending" BY <1>0, <1>1 DEF CallIsSound, PendingUntilDone
<1>9. Looked' = [Looked EXCEPT ![c] = {}]
  <2>1. Alone(c) /\ phase'[c] = "written"
    BY <1>0, WinnerWrites DEF Alone, EnsureTypeOK
  <2> QED BY <1>0, <2>1, LookIsForgotten
<1> QED BY <1>3, <1>5, <1>6, <1>7, <1>8, <1>9 DEF Contract!Complete

(* A call that reports a conflict has met one, and it is there still. *)
LEMMA DifferenceRefuses ==
  ASSUME NEW c \in Contenders, NEW i \in Indices(c), At(c, i) # NoRecord, At(c, i) # Wanted(c, i)
  PROVE  Contract!Differs(c)
BY DesiredRecords DEF Contract!Differs, Contract!DesiredBy, At, Wanted

(* A foreign record that was seen is still there to refuse over. *)
LEMMA DivergenceRefuses ==
  ASSUME EnsureTypeOK, NEW c \in Contenders, SeenIsThere(c),
         NEW i \in DOMAIN seen[c], Diverges(c, i)
  PROVE  Contract!Differs(c)
<1>1. i \in 1..Len(seen[c]) /\ i \in Indices(c) BY SeenRange
<1> QED BY <1>1, DifferenceRefuses DEF SeenIsThere, Diverges, Wanted

(* A record that lost its insert to a foreign one refuses. *)
LEMMA LoserRefuses ==
  ASSUME EnsureTypeOK, NEW c \in Contenders, CallIsSound(c), DecideRecord(c),
         phase[c] = "reread", Absent(c) # {}
  PROVE  Contract!Differs(c)
<1>1. Indices(c) = {1} /\ Len(seen[c]) = Len(Desired[c])
  BY RecordDesiresOne DEF DecideRecord, ReadingDone
<1>2. LostTo(c, 1) BY <1>1 DEF CallIsSound, LoserLostToOne
<1>3. 1 \in 1..Len(seen[c]) /\ seen[c][1] = NoRecord
  BY <1>1, SeenRange DEF Absent, Indices
<1> QED BY <1>1, <1>2, <1>3, DifferenceRefuses DEF LostTo

(* A graph that was read in part is refused by the contract too: a member  *)
(* that was missed differs, is missing still or has come in between.       *)
LEMMA TornGraphRefuses ==
  ASSUME EnsureTypeOK, NEW c \in Contenders, CallIsSound(c), DecideGraph(c), Absent(c) # {},
         \/ phase[c] = "reread"
         \/ phase[c] = "read" /\ Absent(c) # DOMAIN seen[c]
  PROVE  Contract!Differs(c) \/ Contract!Partial(c) \/ Contract!Overtaken(c)
<1>1. Procedure[c] = "graph" /\ DOMAIN seen[c] = Indices(c) /\ 1..Len(seen[c]) = Indices(c)
  BY SeenRange DEF DecideGraph, ReadingDone, Indices
<1>2. PICK a \in Indices(c) : a \in Absent(c)
  BY <1>1 DEF Absent
<1>3. PICK i \in Indices(c) : At(c, i) # NoRecord
  <2>1. CASE phase[c] = "reread"
    BY <2>1 DEF CallIsSound, LoserLostToOne, LostTo
  <2>2. CASE Absent(c) # DOMAIN seen[c]
    <3>1. PICK k \in Indices(c) : seen[c][k] # NoRecord
      BY <1>1, <2>2 DEF Absent
    <3> QED BY <1>1, <3>1 DEF CallIsSound, SeenIsThere
  <2> QED BY <2>1, <2>2
<1>4. CASE At(c, a) # NoRecord /\ At(c, a) # Wanted(c, a)
  BY <1>4, DifferenceRefuses
<1>5. CASE At(c, a) = NoRecord
  <2>1. Desired[c][a] \in Contract!Missing(c)
    BY <1>5, DesiredRecords DEF Contract!Missing, Contract!DesiredBy, At
  <2>2. Desired[c][i] \in Contract!DesiredBy(c) /\ Desired[c][i] \notin Contract!Missing(c)
    BY <1>3, DesiredRecords DEF Contract!Missing, Contract!DesiredBy, At
  <2> QED BY <1>1, <2>1, <2>2 DEF Contract!Partial
<1>6. CASE At(c, a) = Wanted(c, a)
  <2>1. Desired[c][a] \in Contract!DesiredBy(c)
    BY DesiredRecords DEF Contract!DesiredBy
  <2>2. Desired[c][a].id \in Looked[c] BY <1>1, <1>2 DEF Looked, LookedFor
  <2>3. recs[Desired[c][a].id] = Desired[c][a].content BY <1>6 DEF At, Wanted
  <2> QED BY <2>1, <2>2, <2>3 DEF Contract!Overtaken
<1> QED BY <1>4, <1>5, <1>6

(* A decision that ends the call completes or refuses. *)
LEMMA DecisionsKeepTheContract ==
  ASSUME EnsureInv, NEW c \in Contenders,
         DecideRecord(c) \/ DecideGraph(c) \/ DecideObjects(c), ~InsertNext(c)
  PROVE  Contract!Complete(c) \/ Contract!Refuse(c)
<1>0. EnsureTypeOK /\ CallIsSound(c) BY DEF EnsureInv
<1>1. phase[c] \in {"read", "reread"} /\ outcome[c] = "pending"
  BY <1>0 DEF DecideRecord, DecideGraph, DecideObjects, CallIsSound, PendingUntilDone
<1>2. ASSUME ReadingDone(c), Absent(c) = {}, \A i \in DOMAIN seen[c] : ~Diverges(c, i)
      PROVE  \A i \in Indices(c) : At(c, i) = Wanted(c, i)
  <2>1. DOMAIN seen[c] = Indices(c) /\ 1..Len(seen[c]) = Indices(c)
    BY <1>0, <1>2, SeenRange DEF ReadingDone, Indices
  <2>2. \A i \in Indices(c) : seen[c][i] # NoRecord /\ seen[c][i] = Wanted(c, i)
    BY <1>2, <2>1 DEF Absent, Diverges, Wanted
  <2> QED BY <1>0, <2>1, <2>2 DEF CallIsSound, SeenIsThere
<1>3. ASSUME EndCall(c, "ok"), ReadingDone(c), Absent(c) = {},
             \A i \in DOMAIN seen[c] : ~Diverges(c, i)
      PROVE  Contract!Complete(c)
  BY <1>0, <1>1, <1>2, <1>3, CompletesWithNothingMissing
<1>4. ASSUME EndCall(c, "conflict"),
             Contract!Differs(c) \/ Contract!Partial(c) \/ Contract!Overtaken(c)
      PROVE  Contract!Refuse(c)
  BY <1>0, <1>1, <1>4, EndForgets DEF Contract!Refuse, EndCall
<1>5. ASSUME NEW i \in DOMAIN seen[c], Diverges(c, i) PROVE Contract!Differs(c)
  BY <1>0, <1>5, DivergenceRefuses DEF CallIsSound
<1>6. CASE DecideRecord(c)
  <2>1. Indices(c) = {1} /\ ReadingDone(c)
    BY <1>6, RecordDesiresOne DEF DecideRecord
  <2>2. DOMAIN seen[c] = {1} BY <1>0, <2>1, SeenRange DEF ReadingDone, Indices
  <2>3. CASE phase[c] = "reread" /\ Absent(c) # {} /\ EndCall(c, "conflict")
    BY <1>0, <1>4, <1>6, <2>3, LoserRefuses
  <2>4. CASE Absent(c) = {} /\ EndCall(c, IF Diverges(c, 1) THEN "conflict" ELSE "ok")
    BY <1>3, <1>4, <1>5, <2>1, <2>2, <2>4
  <2> QED BY <1>6, <2>3, <2>4 DEF DecideRecord
<1>7. CASE DecideGraph(c)
  <2> DEFINE fine == Absent(c) = {} /\ \A i \in DOMAIN seen[c] : ~Diverges(c, i)
  <2>1. /\ ReadingDone(c)
        /\ \/ phase[c] = "reread"
           \/ phase[c] = "read" /\ Absent(c) # DOMAIN seen[c]
        /\ fine => EndCall(c, "ok")
        /\ ~fine => EndCall(c, "conflict")
    <3>1. ReadingDone(c) BY <1>7 DEF DecideGraph
    <3>2. /\ \/ phase[c] = "reread"
             \/ phase[c] = "read" /\ Absent(c) # DOMAIN seen[c]
          /\ EndCall(c, IF fine THEN "ok" ELSE "conflict")
      BY <1>7, Zenon DEF DecideGraph
    <3> QED BY <3>1, <3>2
  <2>2. CASE fine
    BY <1>3, <2>1, <2>2
  <2>3. CASE Absent(c) # {}
    <3>1. Contract!Differs(c) \/ Contract!Partial(c) \/ Contract!Overtaken(c)
      BY <1>0, <1>7, <2>1, <2>3, TornGraphRefuses
    <3> QED BY <1>4, <2>1, <2>3, <3>1
  <2>4. CASE \E i \in DOMAIN seen[c] : Diverges(c, i)
    BY <1>4, <1>5, <2>1, <2>4
  <2> QED BY <2>2, <2>3, <2>4
<1>8. CASE DecideObjects(c)
  <2>1. CASE \E i \in DOMAIN seen[c] : Diverges(c, i)
    <3>1. EndCall(c, "conflict") BY <1>8, <2>1 DEF DecideObjects
    <3> QED BY <1>4, <1>5, <2>1, <3>1
  <2>2. CASE \A i \in DOMAIN seen[c] : ~Diverges(c, i)
    <3>1. \E result \in {"ok", "conflict"} : EndCall(c, result)
      BY <1>0, <1>8, DecisionsAreSound
    <3>2. ReadingDone(c) BY <1>8, <2>2 DEF DecideObjects
    <3>3. EndCall(c, "error") \/ (Absent(c) = {} /\ EndCall(c, "ok"))
      BY <1>8, <2>2 DEF DecideObjects
    <3>4. ~EndCall(c, "error") BY <1>0, <3>1 DEF EndCall, EnsureTypeOK
    <3> QED BY <1>3, <2>2, <3>2, <3>3, <3>4
  <2> QED BY <2>1, <2>2
<1> QED BY <1>6, <1>7, <1>8

(* Every step is one of the contract, or none. *)
LEMMA StepKeepsTheContract ==
  ASSUME EnsureInv, [EnsureNext]_ensureVars
  PROVE  [Contract!Next]_contractVars
<1>1. ASSUME NEW c \in Contenders,
             \/ \E x \in Contract!DesiredBy(c) : Contract!Look(c, x)
             \/ Contract!Forget(c) \/ Contract!Complete(c) \/ Contract!Refuse(c)
      PROVE  [Contract!Next]_contractVars
  BY <1>1 DEF Contract!Next, contractVars
<1>2. CASE UNCHANGED ensureVars
  BY <1>2 DEF ensureVars, contractVars, Looked, LookedFor, Absent
<1>3. ASSUME NEW c \in Contenders, Step(c) \/ Restart(c)
      PROVE  [Contract!Next]_contractVars
  <2>0. EnsureTypeOK /\ CallIsSound(c) BY DEF EnsureInv
  <2>1. CASE Read(c)
    BY <1>1, <2>0, <2>1, ReadLooks
  <2>2. CASE (DecideRecord(c) \/ DecideGraph(c) \/ DecideObjects(c)) /\ ~InsertNext(c)
    BY <1>1, <2>2, DecisionsKeepTheContract
  <2>3. CASE Insert(c) /\ Wins(c)
    BY <1>1, <2>3, WinnerCompletes
  <2>4. CASE InsertNext(c) \/ Restart(c) \/ (Insert(c) /\ ~Wins(c))
    BY <1>1, <2>0, <2>4, StartsForget
  <2>5. CASE Return(c)
    BY <1>1, <2>0, <2>5, CompletesWithNothingMissing
       DEF Return, CallIsSound, WrittenIsThere, PendingUntilDone
  <2> QED BY <1>3, <2>1, <2>2, <2>3, <2>4, <2>5 DEF Step
<1> QED BY <1>2, <1>3 DEF EnsureNext

(* However many calls contend, lose inserts and are cut off, their results *)
(* and the records are those of calls that ran one after the other; a      *)
(* graph is refused only over what differs, over a part of it that is      *)
(* there without the rest, or when it was overtaken while it was read; and *)
(* one that lost its insert to an identical one adopts it.                 *)
THEOREM CallsRunAlone == EnsureSpec => CallsActAlone
<1>1. EnsureInit => Contract!Init
  BY DEF EnsureInit, Contract!Init, Looked, LookedFor, Absent
<1>2. GInv /\ [EnsureNext]_ensureVars => [Contract!Next]_contractVars
  BY StepKeepsTheContract DEF GInv
<1>3. GInv /\ [EnsureNext]_ensureVars =>
        [\A c \in Contenders :
           phase[c] = "reread" /\ HasOnlyTwins(c) => outcome'[c] # "conflict"]_ensureVars
  BY LoserAdopts
<1> QED BY <1>1, <1>2, <1>3, GraphInit, GraphNext, PTL
        DEF EnsureSpec, CallsActAlone, LosersConverge, Contract!Spec, contractVars

(* ensureObjects never ends by giving up: the records it finds missing     *)
(* after a lost insert are fewer than before (ensure-records.js).          *)
THEOREM NoListGivesUp == EnsureSpec => [](\A c \in Contenders : outcome[c] # "error")
<1>1. EnsureInv => \A c \in Contenders : outcome[c] # "error"
  BY DEF EnsureInv, CallIsSound, PendingUntilDone
<1> QED BY <1>1, EnsureInvariance, PTL

========================================
