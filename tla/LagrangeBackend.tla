-------------------------- MODULE LagrangeBackend --------------------------
(***************************************************************************)
(* The durable backend, src/backend/lagrange-backend.js, an adapter        *)
(* over an SQL database session it does not own the code of.               *)
(*                                                                         *)
(* Every put is a SELECT of the row and then an INSERT or an UPDATE that   *)
(* names the version it read; every append is a SELECT of the stream-heads *)
(* row, an INSERT or conditional UPDATE of it, and an INSERT of the event  *)
(* row.  Each statement is awaited, so the statements of concurrent        *)
(* transactions interleave.  The database (external) is taken at the       *)
(* weakest isolation under which the adapter's conditions still have to do *)
(* the work: a statement sees the rows committed so far and its own        *)
(* transaction's writes, a written row is locked until its transaction     *)
(* ends, and a commit publishes all the writes of a transaction at once.   *)
(* An operation that throws makes the work throw, as in every caller under *)
(* src, so the transaction rolls back.                                     *)
(***************************************************************************)
EXTENDS StoreState, FiniteSets

CONSTANTS
  Sessions,     \* concurrent users of the backend
  Unwritten,   \* a row an open transaction has not written
  MaxOps,      \* bound: operations in one transaction
  MaxCommits   \* bound: transactions that commit

ASSUME LagrangeBounds == MaxOps \in Nat /\ MaxCommits \in Nat
ASSUME UnwrittenAssumption == Unwritten \notin Nat

VARIABLES
  rows,       \* the committed tables: record rows, stream-heads rows, event rows
  written,    \* what each open transaction has written and not yet committed
  at,         \* where each caller is in its transaction
  ops,        \* the operations each open transaction completed
  lifecycle,  \* the state field of the adapter
  starting,   \* where a start() in progress is
  commits

lagrangeVars == <<rows, written, at, ops, lifecycle, starting, commits>>

EventRow == [stream : Streams, revision : Nat \ {0}, text : Texts]

Tables == [records : [Keys -> Entry], heads : [Streams -> Nat], events : SUBSET EventRow]

(* The rows a transaction wrote. *)
WriteSet ==
  [records : [Keys -> Entry \cup {Unwritten}],
   heads : [Streams -> Nat \cup {Unwritten}],
   events : SUBSET EventRow]

NoWrites ==
  [records |-> [k \in Keys |-> Unwritten],
   heads |-> [s \in Streams |-> Unwritten],
   events |-> {}]

Closed == [stage |-> "idle"]
Open == [stage |-> "open"]

Positions ==
  {Closed, Open}
    \cup [stage : {"put"}, key : Keys, text : Texts, version : Nat]
    \cup [stage : {"append", "event"}, stream : Streams, text : Texts, head : Nat]

LagrangeTypeOK ==
  /\ rows \in Tables
  /\ written \in [Sessions -> WriteSet]
  /\ at \in [Sessions -> Positions]
  /\ ops \in [Sessions -> 0..MaxOps]
  /\ lifecycle \in {"created", "starting", "started", "failed", "stopped"}
  /\ starting \in {"no", "runtime", "schema"}
  /\ commits \in 0..MaxCommits

LagrangeInit ==
  /\ rows = [records |-> EmptyState.records,
             heads |-> [s \in Streams |-> 0],
             events |-> {}]
  /\ written = [c \in Sessions |-> NoWrites]
  /\ at = [c \in Sessions |-> Closed]
  /\ ops = [c \in Sessions |-> 0]
  /\ lifecycle = "created"
  /\ starting = "no"
  /\ commits = 0

(* The table f as it looks under the writes g. *)
Overlaid(f, g) == [x \in DOMAIN f |-> IF g[x] = Unwritten THEN f[x] ELSE g[x]]

----------------------------------------
(* The database session (external). *)

RecordSeen(c, k) == Overlaid(rows.records, written[c].records)[k]
HeadSeen(c, s) == Overlaid(rows.heads, written[c].heads)[s]

(* A row another open transaction wrote is locked: the statement waits. *)
RecordFree(c, k) == \A d \in Sessions \ {c} : written[d].records[k] = Unwritten
HeadFree(c, s) == \A d \in Sessions \ {c} : written[d].heads[s] = Unwritten

(* Broken variants: the write is not conditional on what was read. *)
RecordOverwritten(c, k, version) == TRUE
HeadOverwritten(c, s, head) == TRUE

(* INSERT fails on an existing primary key; the conditional UPDATE changes *)
(* no row when the version moved.  Either way the row must be as read.     *)
RecordUnmoved(c, k, version) == RecordSeen(c, k).version = version
HeadUnmoved(c, s, head) == HeadSeen(c, s) = head

EndTransaction(c) ==
  /\ at' = [at EXCEPT ![c] = Closed]
  /\ written' = [written EXCEPT ![c] = NoWrites]
  /\ ops' = [ops EXCEPT ![c] = 0]

----------------------------------------
(* transaction(work), put() and append(): each opens one SQL transaction. *)
Begin(c) ==
  /\ lifecycle = "started"
  /\ at[c] = Closed
  /\ at' = [at EXCEPT ![c] = Open]
  /\ UNCHANGED <<rows, written, ops, lifecycle, starting, commits>>

(* putRecord: read the row, check the expected version. *)
SelectRecord(c, k, text, expected) ==
  /\ at[c] = Open
  /\ ops[c] < MaxOps
  /\ expected = AnyVersion \/ expected = RecordSeen(c, k).version
  /\ at' = [at EXCEPT ![c] = [stage |-> "put", key |-> k, text |-> text,
                              version |-> RecordSeen(c, k).version]]
  /\ UNCHANGED <<rows, written, ops, lifecycle, starting, commits>>

(* INSERT, or UPDATE ... WHERE version = the version read. *)
WriteRecord(c) ==
  /\ at[c].stage = "put"
  /\ RecordFree(c, at[c].key)
  /\ RecordUnmoved(c, at[c].key, at[c].version)
  /\ written' = [written EXCEPT ![c].records[at[c].key] =
       [version |-> at[c].version + 1, text |-> at[c].text]]
  /\ at' = [at EXCEPT ![c] = Open]
  /\ ops' = [ops EXCEPT ![c] = ops[c] + 1]
  /\ UNCHANGED <<rows, lifecycle, starting, commits>>

(* appendEvent: read the stream-heads row. *)
SelectHead(c, s, text) ==
  /\ at[c] = Open
  /\ ops[c] < MaxOps
  /\ at' = [at EXCEPT ![c] = [stage |-> "append", stream |-> s, text |-> text,
                              head |-> HeadSeen(c, s)]]
  /\ UNCHANGED <<rows, written, ops, lifecycle, starting, commits>>

(* Advance the head row, on the condition that it has not moved. *)
WriteHead(c) ==
  /\ at[c].stage = "append"
  /\ HeadFree(c, at[c].stream)
  /\ HeadUnmoved(c, at[c].stream, at[c].head)
  /\ written' = [written EXCEPT ![c].heads[at[c].stream] = at[c].head + 1]
  /\ at' = [at EXCEPT ![c] = [at[c] EXCEPT !.stage = "event"]]
  /\ UNCHANGED <<rows, ops, lifecycle, starting, commits>>

(* Broken variant: the event takes the head it read, not the next revision. *)
InsertEventAtHead(c) ==
  /\ at[c].stage = "event"
  /\ written' = [written EXCEPT ![c].events = written[c].events \cup
       {[stream |-> at[c].stream, revision |-> at[c].head, text |-> at[c].text]}]
  /\ at' = [at EXCEPT ![c] = Open]
  /\ ops' = [ops EXCEPT ![c] = ops[c] + 1]
  /\ UNCHANGED <<rows, lifecycle, starting, commits>>

(* Insert the event row under the allocated revision. *)
InsertEvent(c) ==
  /\ at[c].stage = "event"
  /\ written' = [written EXCEPT ![c].events = written[c].events \cup
       {[stream |-> at[c].stream, revision |-> at[c].head + 1, text |-> at[c].text]}]
  /\ at' = [at EXCEPT ![c] = Open]
  /\ ops' = [ops EXCEPT ![c] = ops[c] + 1]
  /\ UNCHANGED <<rows, lifecycle, starting, commits>>

Commit(c) ==
  /\ at[c] = Open
  /\ commits < MaxCommits
  /\ commits' = commits + 1
  /\ rows' = [records |-> Overlaid(rows.records, written[c].records),
              heads |-> Overlaid(rows.heads, written[c].heads),
              events |-> rows.events \cup written[c].events]
  /\ EndTransaction(c)
  /\ UNCHANGED <<lifecycle, starting>>

(* A version or revision conflict, a failed statement, a deadlock the      *)
(* database breaks, a lost session, or work that throws of its own accord. *)
Rollback(c) ==
  /\ at[c] # Closed
  /\ EndTransaction(c)
  /\ UNCHANGED <<rows, lifecycle, starting, commits>>

----------------------------------------
(* start(): bring the runtime up, then create the tables. *)
StartAdapter ==
  /\ lifecycle = "created"
  /\ lifecycle' = "starting"
  /\ starting' = "runtime"
  /\ UNCHANGED <<rows, written, at, ops, commits>>

RuntimeStarted ==
  /\ starting = "runtime"
  /\ starting' = "schema"
  /\ UNCHANGED <<rows, written, at, ops, lifecycle, commits>>

(* The state is assigned whatever it has become since start() set it. *)
SchemaReady ==
  /\ starting = "schema"
  /\ starting' = "no"
  /\ lifecycle' = "started"
  /\ UNCHANGED <<rows, written, at, ops, commits>>

StartFails ==
  /\ starting # "no"
  /\ starting' = "no"
  /\ lifecycle' = "failed"
  /\ UNCHANGED <<rows, written, at, ops, commits>>

(* stop(): whatever the session had open is lost with the runtime. *)
StopAdapter ==
  /\ lifecycle # "stopped"
  /\ lifecycle' = "stopped"
  /\ at' = [c \in Sessions |-> Closed]
  /\ written' = [c \in Sessions |-> NoWrites]
  /\ ops' = [c \in Sessions |-> 0]
  /\ UNCHANGED <<rows, starting, commits>>

(* The process dies, or is replaced after a stop, and a new adapter opens *)
(* the same database: only committed rows are left.                       *)
RestartAdapter ==
  /\ lifecycle # "created"
  /\ lifecycle' = "created"
  /\ starting' = "no"
  /\ at' = [c \in Sessions |-> Closed]
  /\ written' = [c \in Sessions |-> NoWrites]
  /\ ops' = [c \in Sessions |-> 0]
  /\ UNCHANGED <<rows, commits>>

----------------------------------------
Statement(c) ==
  \/ \E k \in Keys, text \in Texts, e \in {AnyVersion} \cup 0..(MaxOps * MaxCommits) :
       SelectRecord(c, k, text, e)
  \/ WriteRecord(c)
  \/ \E s \in Streams, text \in Texts : SelectHead(c, s, text)
  \/ WriteHead(c)
  \/ InsertEvent(c)

Lifecycle == StartAdapter \/ RuntimeStarted \/ SchemaReady \/ StartFails \/ StopAdapter \/ RestartAdapter

LagrangeNext ==
  \/ \E c \in Sessions : Begin(c) \/ Statement(c) \/ Commit(c) \/ Rollback(c)
  \/ Lifecycle

LagrangeSpec == LagrangeInit /\ [][LagrangeNext]_lagrangeVars

----------------------------------------
(* What readStream returns of a stream: its event rows in revision order. *)
EventsOf(s) == {e \in rows.events : e.stream = s}

(* A stream's events are numbered 1 to its head, one row for each number,  *)
(* so no event is lost and none is stored twice however appends interleave *)
(* and wherever a crash falls (appendEvent, readStreamHead, eventId).      *)
StreamsHaveNoGaps ==
  \A s \in Streams :
    /\ Cardinality(EventsOf(s)) = rows.heads[s]
    /\ {e.revision : e \in EventsOf(s)} = 1..rows.heads[s]
========================================
