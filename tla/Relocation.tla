----------------------------- MODULE Relocation -----------------------------
(***************************************************************************)
(* One record that moves between nodes: the placement policy that moves it *)
(* (src/graph/placement.js), the locators that find it                     *)
(* (src/graph/locator.js) and the reads and writes that go where a         *)
(* locator says (remote-resolution.js, writeRecordWithResidency).          *)
(*                                                                         *)
(* Every get and every transaction on a node's backend is one awaited step *)
(* and nothing spans two backends: movers, lookups, reads and writes       *)
(* interleave between any two of them, and a mover may crash.  A write     *)
(* stores a number of its own, so values tell the writes apart.            *)
(***************************************************************************)
EXTENDS Naturals, Sequences, FiniteSets

CONSTANTS
  NodeOrder,   \* the nodes, in the order they were registered
  ImageNodes,  \* the nodes whose backend has the image record
  Movers,      \* concurrent calls of relocateRecord
  Users,       \* who reads and writes the record, from the runtime of any node
  NoNode, AnyCopy,
  MoversCrash, \* whether a move may be cut off
  MaxMoves, MaxWrites, MaxLookups,   \* bounds, and on
  MaxCalls     \* the moves and the lookups together

Nodes == {NodeOrder[i] : i \in DOMAIN NodeOrder}

ASSUME NodeOrderAssumption ==
  /\ NodeOrder \in Seq(Nodes)
  /\ \A i, j \in DOMAIN NodeOrder : NodeOrder[i] = NodeOrder[j] => i = j
ASSUME ImageNodesAssumption == ImageNodes # {} /\ ImageNodes \subseteq Nodes
ASSUME RelocationValues == MoversCrash \in BOOLEAN
ASSUME RelocationBounds == MaxMoves \in Nat /\ MaxWrites \in Nat \ {0} /\ MaxLookups \in Nat
ASSUME RelocationNames == NoNode \notin Nodes /\ AnyCopy \notin Nat

VARIABLES
  copies,     \* each node's copy: its version, its kind, the value or the next node
  cache,    \* each node's locator: the node it holds as the record's residency
  mover, user,
  writes, moves, lookups

relocationVars == <<copies, cache, mover, user, writes, moves, lookups>>

Copies ==
  [version : Nat, kind : {"none", "live", "relocated"}, to : Nodes \cup {NoNode}, value : Nat]

MoverIdle == [phase |-> "idle", from |-> NoNode, to |-> NoNode, source |-> 0, value |-> 0,
              expected |-> 0, next |-> 0]

UserIdle(observed) == [phase |-> "idle", site |-> NoNode, at |-> NoNode, count |-> 0,
                       calm |-> TRUE, observed |-> observed]

Unread == [version |-> 0, value |-> 0]

RelocationTypeOK ==
  /\ copies \in [Nodes -> Copies]
  /\ cache \in [Nodes -> Nodes \cup {NoNode}]
  /\ mover \in [Movers ->
       [phase : {"idle", "target", "copy", "tombstone", "retarget", "rewrite"},
        from : Nodes \cup {NoNode}, to : Nodes \cup {NoNode},
        source : Nat, value : Nat, expected : Nat, next : 0..(Len(NodeOrder) + 1)]]
  /\ user \in [Users ->
       [phase : {"idle", "local", "hop", "scan", "found", "located"},
        site : Nodes \cup {NoNode}, at : Nodes \cup {NoNode}, count : 0..Len(NodeOrder), calm : BOOLEAN,
        observed : [version : Nat, value : Nat]]]
  /\ writes \in 1..MaxWrites /\ moves \in 0..MaxMoves
  /\ lookups \in 0..MaxLookups

LiveAt(n) == copies[n].kind = "live"

(* The record was created on a node that has the image. *)
RelocationInit ==
  /\ \E home \in ImageNodes :
       copies = [n \in Nodes |->
                 IF n = home THEN [version |-> 1, kind |-> "live", to |-> NoNode, value |-> 1]
                 ELSE [version |-> 0, kind |-> "none", to |-> NoNode, value |-> 0]]
  /\ cache = [n \in Nodes |-> NoNode]
  /\ mover = [m \in Movers |-> MoverIdle]
  /\ user = [u \in Users |-> UserIdle(Unread)]
  /\ writes = 1 /\ moves = 0 /\ lookups = 0

(* One put on a node's backend.  Lookups under way are no longer calm: what *)
(* they have read so far may not be so any more.                            *)
Store(n, kind, to, value) ==
  copies' = [copies EXCEPT ![n] =
             [version |-> copies[n].version + 1, kind |-> kind, to |-> to, value |-> value]]

Disturbed == [u \in Users |-> [user[u] EXCEPT !.calm = FALSE]]

----------------------------------------
(* relocateRecord: the source must hold the record. *)
ReadSource(m, from, to) ==
  /\ mover[m].phase = "idle"
  /\ from # to
  /\ moves < MaxMoves /\ moves + lookups < MaxCalls
  /\ LiveAt(from)
  /\ moves' = moves + 1
  /\ mover' = [mover EXCEPT ![m] = [MoverIdle EXCEPT
                 !.phase = "target", !.from = from, !.to = to,
                 !.source = copies[from].version, !.value = copies[from].value]]
  /\ UNCHANGED <<copies, cache, user, writes, lookups>>

MoverThrows(m) == mover' = [mover EXCEPT ![m] = MoverIdle]

(* The target must not hold it. *)
ReadTarget(m) ==
  /\ mover[m].phase = "target"
  /\ IF LiveAt(mover[m].to)
     THEN MoverThrows(m)
     ELSE mover' = [mover EXCEPT ![m].phase = "copy",
                                 ![m].expected = copies[mover[m].to].version]
  /\ UNCHANGED <<copies, cache, user, writes, moves, lookups>>

(* The copy is put on the target before the source lets go of the record.  *)
CopyToTarget(m) ==
  /\ mover[m].phase = "copy"
  /\ IF copies[mover[m].to].version = mover[m].expected
     THEN /\ Store(mover[m].to, "live", NoNode, mover[m].value)
          /\ mover' = [mover EXCEPT ![m].phase = "tombstone", ![m].expected = 0]
          /\ user' = Disturbed
     ELSE MoverThrows(m) /\ UNCHANGED <<copies, user>>
  /\ UNCHANGED <<cache, writes, moves, lookups>>

(* The move is made; the tombstones of the nodes from the i-th on are next. *)
Retargeting(move, i) ==
  [MoverIdle EXCEPT !.phase = "retarget", !.from = move.from, !.to = move.to, !.next = i]

(* Broken variant: the tombstone does not expect the version that was read. *)
TombstoneAnyVersion(m) ==
  /\ mover[m].phase = "tombstone"
  /\ Store(mover[m].from, "relocated", mover[m].to, 0)
  /\ mover' = [mover EXCEPT ![m] = Retargeting(mover[m], 1)]
  /\ user' = Disturbed
  /\ UNCHANGED <<cache, writes, moves, lookups>>

(* The source's copy becomes a tombstone if it is still the one that was   *)
(* read; if not, the call throws and leaves the target's copy.             *)
TombstoneSource(m) ==
  /\ mover[m].phase = "tombstone"
  /\ IF copies[mover[m].from].version = mover[m].source
     THEN /\ Store(mover[m].from, "relocated", mover[m].to, 0)
          /\ mover' = [mover EXCEPT ![m] = Retargeting(mover[m], 1)]
          /\ user' = Disturbed
     ELSE MoverThrows(m) /\ UNCHANGED <<copies, user>>
  /\ UNCHANGED <<cache, writes, moves, lookups>>

(* Every other node's tombstone is read, and rewritten when it points      *)
(* elsewhere.                                                              *)
RetargetRead(m) ==
  /\ mover[m].phase = "retarget"
  /\ mover[m].next <= Len(NodeOrder)
  /\ LET n == NodeOrder[mover[m].next]
         rewrite == /\ n \notin {mover[m].from, mover[m].to}
                    /\ copies[n].kind = "relocated"
                    /\ copies[n].to # mover[m].to
     IN mover' = [mover EXCEPT ![m] =
          IF rewrite THEN [mover[m] EXCEPT !.phase = "rewrite", !.expected = copies[n].version]
                     ELSE Retargeting(mover[m], mover[m].next + 1)]
  /\ UNCHANGED <<copies, cache, user, writes, moves, lookups>>

RetargetWrite(m) ==
  /\ mover[m].phase = "rewrite"
  /\ LET n == NodeOrder[mover[m].next]
     IN IF copies[n].version = mover[m].expected
        THEN /\ Store(n, "relocated", mover[m].to, 0)
             /\ mover' = [mover EXCEPT ![m] = Retargeting(mover[m], mover[m].next + 1)]
             /\ user' = Disturbed
        ELSE MoverThrows(m) /\ UNCHANGED <<copies, user>>
  /\ UNCHANGED <<cache, writes, moves, lookups>>

(* At the end every locator forgets the record. *)
Invalidate(m) ==
  /\ mover[m].phase = "retarget"
  /\ mover[m].next > Len(NodeOrder)
  /\ cache' = [n \in Nodes |-> NoNode]
  /\ mover' = [mover EXCEPT ![m] = MoverIdle]
  /\ UNCHANGED <<copies, user, writes, moves, lookups>>

(* The process that moves the record dies; nothing takes the move up.      *)
Crash(m) ==
  /\ MoversCrash
  /\ mover[m].phase # "idle"
  /\ MoverThrows(m)
  /\ UNCHANGED <<copies, cache, user, writes, moves, lookups>>

----------------------------------------
Index(n) == CHOOSE i \in DOMAIN NodeOrder : NodeOrder[i] = n

Peers(n) ==
  SubSeq(NodeOrder, 1, Index(n) - 1) \o SubSeq(NodeOrder, Index(n) + 1, Len(NodeOrder))

(* locateImage: where the image is, as seen from a node: there, or else on *)
(* the first node that has it.                                             *)
FirstImageNode ==
  CHOOSE n \in ImageNodes : \A other \in ImageNodes : Index(n) <= Index(other)

ImageNode(n) == IF n \in ImageNodes THEN n ELSE FirstImageNode

Site(u) == user[u].site

Locating(u, step) == user' = [user EXCEPT ![u] = step]

Locates(u, n) == [user[u] EXCEPT !.phase = "located", !.site = NoNode, !.at = n, !.count = 0]
Finds(u, n) == [user[u] EXCEPT !.phase = "found", !.at = n, !.count = 0]
Hops(u, n) == [user[u] EXCEPT !.phase = "hop", !.at = n, !.count = user[u].count + 1]

(* Broken variant: when the tombstones lead nowhere the image is the answer. *)
ScansNothing(u, i) == Locates(u, ImageNode(Site(u)))

(* The next peer to be scanned; past the last one, the image. *)
Scans(u, i) ==
  IF i <= Len(Peers(Site(u))) THEN [user[u] EXCEPT !.phase = "scan", !.count = i]
  ELSE Locates(u, ImageNode(Site(u)))

LookupStep == UNCHANGED <<copies, cache, mover, writes, moves, lookups>>

(* locate: the cached residency is the answer. *)
Locate(u, site) ==
  /\ user[u].phase = "idle"
  /\ lookups < MaxLookups /\ moves + lookups < MaxCalls
  /\ lookups' = lookups + 1
  /\ LET start == [UserIdle(user[u].observed) EXCEPT !.site = site]
         n == cache[site]
     IN Locating(u, IF n # NoNode THEN [start EXCEPT !.phase = "located", !.site = NoNode, !.at = n, !.calm = FALSE]
                    ELSE [start EXCEPT !.phase = "local"])
  /\ UNCHANGED <<copies, cache, mover, writes, moves>>

(* Where a tombstone points, while the hop limit lasts and it is a peer;   *)
(* else every peer is asked.                                               *)
Follow(u, tombstone) ==
  IF tombstone.to # Site(u) /\ user[u].count <= Len(Peers(Site(u)))
  THEN Hops(u, tombstone.to) ELSE Scans(u, 1)

LocateLocal(u) ==
  /\ user[u].phase = "local"
  /\ LET n == Site(u)
     IN Locating(u,
          IF LiveAt(n) THEN IF n \in ImageNodes THEN Locates(u, ImageNode(n)) ELSE Finds(u, n)
          ELSE IF copies[n].kind = "relocated" THEN Follow(u, copies[n]) ELSE Scans(u, 1))
  /\ LookupStep

LocateHop(u) ==
  /\ user[u].phase = "hop"
  /\ LET n == user[u].at
     IN Locating(u,
          IF LiveAt(n) THEN Finds(u, n)
          ELSE IF copies[n].kind = "relocated" THEN Follow(u, copies[n]) ELSE Scans(u, 1))
  /\ LookupStep

LocateScan(u) ==
  /\ user[u].phase = "scan"
  /\ LET peers == Peers(Site(u))
         n == peers[user[u].count]
     IN Locating(u,
          IF LiveAt(n) THEN IF n \in ImageNodes THEN Locates(u, ImageNode(Site(u))) ELSE Finds(u, n)
          ELSE Scans(u, user[u].count + 1))
  /\ LookupStep

(* The answer arrives at the locator, which keeps it. *)
Remember(u) ==
  /\ user[u].phase = "found"
  /\ cache' = [cache EXCEPT ![Site(u)] = user[u].at]
  /\ Locating(u, Locates(u, user[u].at))
  /\ UNCHANGED <<copies, mover, writes, moves, lookups>>

(* resolveAt: a tombstone reads as nothing. *)
Read(u) ==
  /\ user[u].phase = "located"
  /\ LET n == user[u].at
     IN Locating(u, UserIdle(IF LiveAt(n) THEN [version |-> copies[n].version, value |-> copies[n].value]
                             ELSE Unread))
  /\ LookupStep

(* writeRecordAt, with the version the user last read or with none. *)
Write(u, expected) ==
  /\ user[u].phase = "located"
  /\ writes < MaxWrites
  /\ LET n == user[u].at
     IN IF expected \in {AnyCopy, copies[n].version}
        THEN /\ Store(n, "live", NoNode, writes + 1)
             /\ writes' = writes + 1
             /\ user' = [Disturbed EXCEPT ![u] = UserIdle(user[u].observed)]
        ELSE /\ Locating(u, UserIdle(user[u].observed))
             /\ UNCHANGED <<copies, writes>>
  /\ UNCHANGED <<cache, mover, moves, lookups>>

----------------------------------------
Move(m) ==
  \/ \E from, to \in Nodes : ReadSource(m, from, to)
  \/ ReadTarget(m)
  \/ CopyToTarget(m)
  \/ TombstoneSource(m)
  \/ RetargetRead(m)
  \/ RetargetWrite(m)
  \/ Invalidate(m)
  \/ Crash(m)

Use(u) ==
  \/ \E site \in Nodes : Locate(u, site)
  \/ LocateLocal(u)
  \/ LocateHop(u)
  \/ LocateScan(u)
  \/ Remember(u)
  \/ Read(u)
  \/ \E expected \in {AnyCopy, user[u].observed.version} : Write(u, expected)

RelocationNext == (\E m \in Movers : Move(m)) \/ (\E u \in Users : Use(u))

RelocationSpec == RelocationInit /\ [][RelocationNext]_relocationVars

----------------------------------------
(* However movers race, conflict and crash among themselves and with       *)
(* writers, what the last acknowledged write stored is live on some node:  *)
(* no tombstone is put over an update that was not copied                  *)
(* (relocateRecord copies first and tombstones at the version it read).    *)
LastUpdateSurvives == \E n \in Nodes : LiveAt(n) /\ copies[n].value = writes

(* A lookup that no move and no write disturbed, and that is not answered  *)
(* from the cache, ends at a live copy, from every node and over every     *)
(* chain of stale, cyclic or dead-end tombstones that moves and crashes    *)
(* leave (locate: hop limit, then the scan of the peers, then the image).  *)
CalmLookupFindsTheRecord ==
  \A u \in Users : user[u].phase = "located" /\ user[u].calm => LiveAt(user[u].at)

(* "refusing any relocation that would create duplicate live object        *)
(* records across nodes" (docs/decisions/0092): once no move is under way  *)
(* one node holds the record.                                              *)
AtMostOneLive ==
  (\A m \in Movers : mover[m].phase = "idle")
    => Cardinality({n \in Nodes : LiveAt(n)}) <= 1
========================================
