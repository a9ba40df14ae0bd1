---------------------------- MODULE StoreState -----------------------------
(***************************************************************************)
(* The data a storage backend keeps and the operations on it, shared by    *)
(* both adapters: versioned records and append-only streams.  A payload is *)
(* the JSON text of a value without its _version or revision field; a      *)
(* collection and a key together are one member of Keys.                   *)
(***************************************************************************)
EXTENDS Naturals, Sequences

CONSTANTS
  Keys,      \* the records, each a collection and a key
  Streams,   \* the event streams
  Texts,     \* the JSON payloads of records and events
  NoText,    \* stands where there is no record
  AnyVersion        \* expectedVersion left undefined

ASSUME NoTextAssumption == NoText \notin Texts
ASSUME AnyVersionAssumption == AnyVersion \notin Nat

Entry == [version : Nat, text : Texts \cup {NoText}]

State == [records : [Keys -> Entry], streams : [Streams -> Seq(Texts)]]

EmptyState ==
  [records |-> [k \in Keys |-> [version |-> 0, text |-> NoText]],
   streams |-> [s \in Streams |-> << >>]]

(* The version check of a put: an undefined expectation accepts anything,  *)
(* an absent record counts as version 0.                                   *)
Accepts(state, k, expected) ==
  expected = AnyVersion \/ expected = state.records[k].version

(* What an accepted put leaves: the payload under the next version. *)
PutInto(state, k, text) ==
  [state EXCEPT !.records[k] =
     [version |-> state.records[k].version + 1, text |-> text]]

(* The revision of an event is its position in its stream. *)
AppendTo(state, s, text) ==
  [state EXCEPT !.streams[s] = Append(state.streams[s], text)]

(* Nothing is ever taken back: a version only rises, a payload changes only *)
(* with its version, and a stream only grows at its end.                    *)
Extends(older, newer) ==
  /\ \A k \in Keys :
       \/ newer.records[k] = older.records[k]
       \/ newer.records[k].version > older.records[k].version
  /\ \A s \in Streams :
       /\ Len(older.streams[s]) <= Len(newer.streams[s])
       /\ \A i \in 1..Len(older.streams[s]) :
            newer.streams[s][i] = older.streams[s][i]
========================================
