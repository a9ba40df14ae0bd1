----------------------------- MODULE ImagesProofs -----------------------------
(***************************************************************************)
(* For any nodes, movers and users: the types of Relocation hold, what the *)
(* last acknowledged write stored is live on some node, and a lookup that  *)
(* nothing disturbs finds it.  For any clients, ids, records, batches and  *)
(* bounds: the types of ImageStore hold, the history is the image, and     *)
(* what a commit writes refers to what was there and keeps the layout code *)
(* relies on.  For any sessions, records, streams and payloads: the types  *)
(* of LagrangeBackend hold, and the committed events of every stream are   *)
(* numbered without a gap or a double.  And all of it for the three as     *)
(* MCImages runs them.                                                     *)
(***************************************************************************)
EXTENDS MCImages, SequenceTheorems, FiniteSetTheorems, WellFoundedInduction, TLAPS

----------------------------------------
(* Relocation and lookup.  The types of a move and of a lookup. *)
MoveType ==
  [phase : {"idle", "target", "copy", "tombstone", "retarget", "rewrite"},
   from : Nodes \cup {NoNode}, to : Nodes \cup {NoNode},
   source : Nat, value : Nat, expected : Nat, next : 0..(Len(NodeOrder) + 1)]

UseType ==
  [phase : {"idle", "local", "hop", "scan", "found", "located"},
   site : Nodes \cup {NoNode}, at : Nodes \cup {NoNode}, count : 0..Len(NodeOrder), calm : BOOLEAN,
   observed : [version : Nat, value : Nat]]

(* A tombstone points to a node. *)
TombstonesPoint == \A n \in Nodes : copies[n].kind = "relocated" => copies[n].to \in Nodes

(* What a move has read of its source and of what it is about to write is  *)
(* what stands there still, or older.                                      *)
MoveSound(here, k) ==
  /\ k.phase # "idle" => k.from \in Nodes /\ k.to \in Nodes /\ k.from # k.to
  /\ k.phase \in {"target", "copy", "tombstone"} =>
       /\ k.source <= here[k.from].version
       /\ k.source = here[k.from].version => here[k.from].kind = "live" /\ here[k.from].value = k.value
  /\ k.phase = "copy" =>
       /\ k.expected <= here[k.to].version
       /\ k.expected = here[k.to].version => here[k.to].kind # "live"
  /\ k.phase = "retarget" => k.next # 0
  /\ k.phase = "rewrite" =>
       /\ k.next \in 1..Len(NodeOrder)
       /\ k.expected <= here[NodeOrder[k.next]].version
       /\ k.expected = here[NodeOrder[k.next]].version => here[NodeOrder[k.next]].kind # "live"

(* A lookup goes on from a node, to a node. *)
UseSound(k) ==
  /\ k.phase \in {"local", "hop", "scan", "found"} => k.site \in Nodes
  /\ k.phase \in {"hop", "found", "located"} => k.at \in Nodes
  /\ k.phase = "scan" => k.count \in 1..Len(Peers(k.site))

StepsSound ==
  /\ \A m \in Movers : MoveSound(copies, mover[m])
  /\ \A u \in Users : UseSound(user[u])

HasTheUpdate(n) == LiveAt(n) /\ copies[n].value = writes

(* A move that would succeed in putting its tombstone over the copy of n. *)
Leaves(here, k, n) == k.phase = "tombstone" /\ k.from = n /\ k.source = here[n].version

(* That some copy has the update is not inductive: several moves may be    *)
(* about to tombstone all there are.  One of them no move is about to take.*)
UpdateIsSafe ==
  \E n \in Nodes : HasTheUpdate(n) /\ \A m \in Movers : ~Leaves(copies, mover[m], n)

RelocationInv == RelocationTypeOK /\ TombstonesPoint /\ StepsSound /\ UpdateIsSafe

----------------------------------------
(* A node stands in the order at its index. *)
LEMMA IndexPoints ==
  ASSUME NEW n \in Nodes
  PROVE  Index(n) \in 1..Len(NodeOrder) /\ NodeOrder[Index(n)] = n
<1>1. PICK i \in DOMAIN NodeOrder : NodeOrder[i] = n
  BY DEF Nodes
<1>2. DOMAIN NodeOrder = 1..Len(NodeOrder) BY NodeOrderAssumption
<1> QED BY <1>1, <1>2 DEF Index

(* The peers of a node are nodes: all but itself. *)
LEMMA PeersAreNodes ==
  ASSUME NEW n \in Nodes
  PROVE  /\ Peers(n) \in Seq(Nodes)
         /\ Len(Peers(n)) = Len(NodeOrder) - 1
<1>1. Index(n) \in 1..Len(NodeOrder) BY IndexPoints
<1>2. Len(NodeOrder) \in Nat /\ \A i \in 1..Len(NodeOrder) : NodeOrder[i] \in Nodes
  BY NodeOrderAssumption, LenProperties, ElementOfSeq
<1> DEFINE before == SubSeq(NodeOrder, 1, Index(n) - 1)
           after == SubSeq(NodeOrder, Index(n) + 1, Len(NodeOrder))
<1>3. before \in Seq(Nodes) /\ Len(before) = Index(n) - 1
  <2>1. \A i \in 1..(Index(n) - 1) : NodeOrder[i] \in Nodes BY <1>1, <1>2
  <2>2. Index(n) - 1 \in Int /\ 1 \in Int /\ Index(n) \in Nat BY <1>1
  <2>3. before \in Seq(Nodes) /\ Len(before) = IF 1 <= Index(n) - 1 THEN Index(n) - 1 - 1 + 1 ELSE 0
    BY <2>1, <2>2, SubSeqProperties
  <2> QED BY <1>1, <2>3
<1>4. after \in Seq(Nodes) /\ Len(after) = Len(NodeOrder) - Index(n)
  <2>1. \A i \in (Index(n) + 1)..Len(NodeOrder) : NodeOrder[i] \in Nodes
    BY <1>1, <1>2
  <2>2. Index(n) + 1 \in Int /\ Len(NodeOrder) \in Int BY <1>1, <1>2
  <2>3. /\ after \in Seq(Nodes)
        /\ Len(after) = IF Index(n) + 1 <= Len(NodeOrder) THEN Len(NodeOrder) - (Index(n) + 1) + 1 ELSE 0
    BY <2>1, <2>2, SubSeqProperties
  <2> QED BY <1>1, <1>2, <2>3
<1> HIDE DEF before, after
<1>5. before \o after \in Seq(Nodes) /\ Len(before \o after) = Len(before) + Len(after)
  BY <1>3, <1>4, ConcatProperties
<1> QED BY <1>1, <1>2, <1>3, <1>4, <1>5 DEF Peers, before, after

(* There is a first image node. *)
LEMMA FirstImageNodeIsOne == FirstImageNode \in ImageNodes
<1> DEFINE indices == {Index(n) : n \in ImageNodes}
<1>1. indices \subseteq Nat /\ indices # {} BY IndexPoints, ImageNodesAssumption
<1>2. \E i \in indices : \A j \in indices : ~(<<j, i>> \in OpToRel(<, Nat))
  <2> HIDE DEF indices
  <2> QED BY <1>1, NatLessThanWellFounded, WFMin
<1>3. \E i \in indices : \A j \in indices : ~(j < i) BY <1>1, <1>2 DEF OpToRel
<1>4. \E n \in ImageNodes : \A peer \in ImageNodes : Index(n) <= Index(peer)
  <2>1. PICK i \in indices : \A j \in indices : ~(j < i)
    BY <1>3
  <2>2. PICK n \in ImageNodes : i = Index(n)
    BY <2>1
  <2>3. \A peer \in ImageNodes : Index(peer) \in Nat /\ ~(Index(peer) < Index(n))
    BY <1>1, <2>1, <2>2
  <2>4. \A peer \in ImageNodes : Index(n) <= Index(peer) BY <1>1, <2>2, <2>3
  <2> QED BY <2>4
<1> QED BY <1>4 DEF FirstImageNode

(* The image is on a node, wherever one looks from. *)
LEMMA ImageNodeIsANode == \A n \in Nodes : ImageNode(n) \in Nodes
BY FirstImageNodeIsOne, ImageNodesAssumption DEF ImageNode

----------------------------------------
(* A step of a move that reads, throws, or ends, and puts nothing on a node.*)
LEMMA MoverStep ==
  ASSUME RelocationInv, NEW m \in Movers, NEW k \in MoveType,
         MoveSound(copies, k), k.phase # "tombstone",
         mover' = [mover EXCEPT ![m] = k],
         UNCHANGED <<copies, user, writes, lookups>>,
         moves' \in 0..MaxMoves, cache' \in [Nodes -> Nodes \cup {NoNode}]
  PROVE  RelocationInv'
<1>1. mover \in [Movers -> MoveType]
  BY DEF RelocationInv, RelocationTypeOK, MoveType
<1>2. mover' \in [Movers -> MoveType] BY <1>1
<1>3. RelocationTypeOK' BY <1>2 DEF RelocationInv, RelocationTypeOK, MoveType
<1>4. TombstonesPoint' BY DEF RelocationInv, TombstonesPoint
<1>5. \A x \in Movers : mover'[x] = IF x = m THEN k ELSE mover[x] BY <1>1
<1>6. StepsSound' BY <1>5 DEF RelocationInv, StepsSound
<1>7. UpdateIsSafe'
  <2>1. PICK n \in Nodes : HasTheUpdate(n) /\ \A x \in Movers : ~Leaves(copies, mover[x], n)
    BY DEF RelocationInv, UpdateIsSafe
  <2>2. HasTheUpdate(n)' BY <2>1 DEF HasTheUpdate, LiveAt
  <2>3. \A x \in Movers : ~Leaves(copies', mover'[x], n)
    BY <1>5, <2>1 DEF Leaves
  <2> QED BY <2>2, <2>3 DEF UpdateIsSafe
<1> QED BY <1>3, <1>4, <1>6, <1>7 DEF RelocationInv

(* A step of a lookup or of a read, which puts nothing on a node. *)
LEMMA UserStep ==
  ASSUME RelocationInv, NEW u \in Users, NEW k \in UseType, UseSound(k),
         user' = [user EXCEPT ![u] = k],
         UNCHANGED <<copies, mover, writes, moves>>,
         lookups' \in 0..MaxLookups, cache' \in [Nodes -> Nodes \cup {NoNode}]
  PROVE  RelocationInv'
<1>1. user \in [Users -> UseType]
  BY DEF RelocationInv, RelocationTypeOK, UseType
<1>2. user' \in [Users -> UseType] BY <1>1
<1>3. RelocationTypeOK' BY <1>2 DEF RelocationInv, RelocationTypeOK, UseType
<1>4. TombstonesPoint' BY DEF RelocationInv, TombstonesPoint
<1>5. \A x \in Users : user'[x] = IF x = u THEN k ELSE user[x] BY <1>1
<1>6. StepsSound' BY <1>5 DEF RelocationInv, StepsSound
<1>7. UpdateIsSafe' BY DEF RelocationInv, UpdateIsSafe, HasTheUpdate, LiveAt
<1> QED BY <1>3, <1>4, <1>6, <1>7 DEF RelocationInv

(* What a put changes, and that it leaves no move with more than it read. *)
LEMMA StoreKeeps ==
  ASSUME RelocationTypeOK, TombstonesPoint,
         NEW n \in Nodes, NEW kind \in {"live", "relocated"},
         NEW to \in Nodes \cup {NoNode}, NEW value \in Nat,
         kind = "relocated" => to \in Nodes,
         Store(n, kind, to, value)
  PROVE  /\ copies' \in [Nodes -> Copies]
         /\ copies'[n] = [version |-> copies[n].version + 1, kind |-> kind, to |-> to, value |-> value]
         /\ \A x \in Nodes \ {n} : copies'[x] = copies[x]
         /\ TombstonesPoint'
         /\ \A k \in MoveType : MoveSound(copies, k) => MoveSound(copies', k)
<1>1. copies \in [Nodes -> Copies] BY DEF RelocationTypeOK
<1>2. copies[n].version \in Nat BY <1>1 DEF Copies
<1> DEFINE new == [version |-> copies[n].version + 1, kind |-> kind, to |-> to, value |-> value]
<1>3. new \in Copies BY <1>2 DEF Copies
<1>4. copies' = [copies EXCEPT ![n] = new] BY DEF Store
<1>5. new.version = copies[n].version + 1 /\ new.kind = kind /\ new.to = to
  OBVIOUS
<1> HIDE DEF new
<1>6. /\ copies' \in [Nodes -> Copies]
      /\ copies'[n] = new
      /\ \A x \in Nodes \ {n} : copies'[x] = copies[x]
  BY <1>1, <1>3, <1>4
<1>7. TombstonesPoint' BY <1>5, <1>6 DEF TombstonesPoint
<1>8. ASSUME NEW k \in MoveType, MoveSound(copies, k)
      PROVE  MoveSound(copies', k)
  <2>1. /\ k.source \in Nat /\ k.expected \in Nat
        /\ \A i \in 1..Len(NodeOrder) : NodeOrder[i] \in Nodes
    BY NodeOrderAssumption, LenProperties, ElementOfSeq DEF MoveType
  <2>2. \A x \in Nodes : copies[x].version \in Nat BY <1>1 DEF Copies
  <2>3. \A x \in Nodes : \/ copies'[x] = copies[x]
                         \/ copies'[x].version = copies[x].version + 1
    BY <1>5, <1>6
  <2>4. k.phase # "idle" => k.from \in Nodes /\ k.to \in Nodes /\ k.from # k.to
    BY <1>8 DEF MoveSound
  <2>5. ASSUME k.phase \in {"target", "copy", "tombstone"}
        PROVE  /\ k.source <= copies'[k.from].version
               /\ k.source = copies'[k.from].version =>
                    copies'[k.from].kind = "live" /\ copies'[k.from].value = k.value
    <3>1. /\ k.from \in Nodes
          /\ k.source <= copies[k.from].version
          /\ k.source = copies[k.from].version =>
               copies[k.from].kind = "live" /\ copies[k.from].value = k.value
      BY <1>8, <2>4, <2>5 DEF MoveSound
    <3> QED BY <3>1, <2>1, <2>2, <2>3
  <2>6. ASSUME k.phase = "copy"
        PROVE  /\ k.expected <= copies'[k.to].version
               /\ k.expected = copies'[k.to].version => copies'[k.to].kind # "live"
    <3>1. /\ k.to \in Nodes
          /\ k.expected <= copies[k.to].version
          /\ k.expected = copies[k.to].version => copies[k.to].kind # "live"
      BY <1>8, <2>4, <2>6 DEF MoveSound
    <3> QED BY <3>1, <2>1, <2>2, <2>3
  <2>7. ASSUME k.phase = "rewrite",
               NEW x, x = NodeOrder[k.next]
        PROVE  /\ k.next \in 1..Len(NodeOrder)
               /\ k.expected <= copies'[x].version
               /\ k.expected = copies'[x].version => copies'[x].kind # "live"
    <3>1. /\ k.next \in 1..Len(NodeOrder)
          /\ k.expected <= copies[x].version
          /\ k.expected = copies[x].version => copies[x].kind # "live"
      BY <1>8, <2>7 DEF MoveSound
    <3>2. x \in Nodes BY <3>1, <2>1, <2>7
    <3> QED BY <3>1, <3>2, <2>1, <2>2, <2>3
  <2>8. k.phase = "retarget" => k.next # 0 BY <1>8 DEF MoveSound
  <2> QED BY <2>4, <2>5, <2>6, <2>7, <2>8 DEF MoveSound
<1> QED BY <1>6, <1>7, <1>8 DEF new

(* Whose lookup it was that is no longer calm, it goes on as it did. *)
LEMMA DisturbedIsSound ==
  ASSUME RelocationInv
  PROVE  Disturbed \in [Users -> UseType] /\ \A u \in Users : UseSound(Disturbed[u])
<1>1. user \in [Users -> UseType]
  BY DEF RelocationInv, RelocationTypeOK, UseType
<1>2. ASSUME NEW u \in Users
      PROVE  [user[u] EXCEPT !.calm = FALSE] \in UseType /\ UseSound([user[u] EXCEPT !.calm = FALSE])
  <2>1. user[u] \in UseType /\ UseSound(user[u])
    BY <1>1 DEF RelocationInv, StepsSound
  <2> QED BY <2>1 DEF UseType, UseSound
<1> QED BY <1>2 DEF Disturbed

(* A put by a move or by a user keeps all but the last part of the         *)
(* invariant, which each of them argues for itself.                        *)
LEMMA StoreStep ==
  ASSUME RelocationInv,
         NEW n \in Nodes, NEW kind \in {"live", "relocated"},
         NEW to \in Nodes \cup {NoNode}, NEW value \in Nat,
         kind = "relocated" => to \in Nodes,
         Store(n, kind, to, value),
         mover' \in [Movers -> MoveType],
         \A m \in Movers : mover'[m] = mover[m] \/ MoveSound(copies', mover'[m]),
         user' \in [Users -> UseType],
         \A u \in Users : UseSound(user'[u]),
         writes' \in 1..MaxWrites, UNCHANGED <<cache, moves, lookups>>
  PROVE  RelocationTypeOK' /\ TombstonesPoint' /\ StepsSound'
<1>1. /\ copies' \in [Nodes -> Copies]
      /\ TombstonesPoint'
      /\ \A k \in MoveType : MoveSound(copies, k) => MoveSound(copies', k)
  BY StoreKeeps DEF RelocationInv
<1>2. RelocationTypeOK'
  BY <1>1 DEF RelocationInv, RelocationTypeOK, MoveType, UseType
<1>3. StepsSound' BY <1>1 DEF RelocationInv, StepsSound
<1> QED BY <1>1, <1>2, <1>3

----------------------------------------
(* What the proofs of the actions read off the invariant. *)
LEMMA MoveFacts ==
  ASSUME RelocationInv, NEW m \in Movers
  PROVE  /\ mover \in [Movers -> MoveType] /\ mover[m] \in MoveType
         /\ MoveSound(copies, mover[m])
         /\ copies \in [Nodes -> Copies]
         /\ cache \in [Nodes -> Nodes \cup {NoNode}]
         /\ moves \in 0..MaxMoves
         /\ Len(NodeOrder) \in Nat
         /\ \A i \in 1..Len(NodeOrder) : NodeOrder[i] \in Nodes
BY NodeOrderAssumption, LenProperties, ElementOfSeq DEF RelocationInv, RelocationTypeOK, StepsSound, MoveType

(* An idle mover holds nothing that could be stale. *)
LEMMA IdleMoverIsSound == MoverIdle \in MoveType /\ \A here : MoveSound(here, MoverIdle)
<1>1. Len(NodeOrder) \in Nat BY NodeOrderAssumption, LenProperties
<1> QED BY <1>1 DEF MoverIdle, MoveType, MoveSound

(* What an idle mover holds. *)
LEMMA IdleFields ==
  /\ MoverIdle \in MoveType
  /\ MoverIdle.phase = "idle" /\ MoverIdle.from = NoNode /\ MoverIdle.to = NoNode
  /\ MoverIdle.source = 0 /\ MoverIdle.value = 0 /\ MoverIdle.expected = 0 /\ MoverIdle.next = 0
BY IdleMoverIsSound DEF MoverIdle

(* A mover that looks for another target has read nothing of it. *)
LEMMA RetargetingIsSound ==
  ASSUME NEW k \in MoveType, k.from \in Nodes, k.to \in Nodes, k.from # k.to,
         NEW i \in 1..(Len(NodeOrder) + 1), NEW here
  PROVE  Retargeting(k, i) \in MoveType /\ MoveSound(here, Retargeting(k, i))
<1>1. Len(NodeOrder) \in Nat BY NodeOrderAssumption, LenProperties
<1>2. PICK from \in Nodes, to \in Nodes : from = k.from /\ to = k.to
  OBVIOUS
<1>3. PICK new : new = [MoverIdle EXCEPT !.phase = "retarget", !.from = from, !.to = to, !.next = i]
  OBVIOUS
<1>4. /\ new \in MoveType
      /\ new.phase = "retarget" /\ new.from = from /\ new.to = to /\ new.next = i
  <2>1. MoverIdle \in MoveType /\ i \in 0..(Len(NodeOrder) + 1)
    BY <1>1, IdleFields
  <2>2. new \in MoveType BY <1>3, <2>1 DEF MoveType
  <2> QED BY <1>3, <2>1, <2>2 DEF MoveType
<1>5. MoveSound(here, new) BY <1>1, <1>2, <1>4 DEF MoveSound
<1>6. new = Retargeting(k, i) BY <1>2, <1>3 DEF Retargeting
<1> QED BY <1>4, <1>5, <1>6

(* A move reads its source. *)
LEMMA ReadSourceKeeps ==
  ASSUME RelocationInv, NEW m \in Movers, NEW from \in Nodes, NEW to \in Nodes, ReadSource(m, from, to)
  PROVE  RelocationInv'
<1>1. PICK version, value : version = copies[from].version /\ value = copies[from].value
  OBVIOUS
<1>2. PICK k : k = [MoverIdle EXCEPT !.phase = "target", !.from = from, !.to = to,
                                     !.source = version, !.value = value]
  OBVIOUS
<1>3. copies[from].version \in Nat /\ copies[from].value \in Nat /\ Len(NodeOrder) \in Nat
  BY MoveFacts DEF Copies
<1>4. /\ k \in MoveType
      /\ k.phase = "target" /\ k.from = from /\ k.to = to
      /\ k.source = version /\ k.value = value
  BY <1>1, <1>2, <1>3, IdleFields DEF MoveType
<1>5. from # to /\ LiveAt(from) BY Zenon DEF ReadSource
<1>6. MoveSound(copies, k) BY <1>1, <1>3, <1>4, <1>5 DEF MoveSound, LiveAt
<1>7. mover' = [mover EXCEPT ![m] = k] BY <1>1, <1>2 DEF ReadSource
<1>8. UNCHANGED <<copies, user, writes, lookups>> /\ cache' = cache
  BY DEF ReadSource
<1>9. moves' \in 0..MaxMoves BY MoveFacts, RelocationBounds DEF ReadSource
<1> QED BY <1>4, <1>6, <1>7, <1>8, <1>9, MoveFacts, MoverStep

(* A move that throws is over. *)
LEMMA ThrowKeeps ==
  ASSUME RelocationInv, NEW m \in Movers, MoverThrows(m),
         UNCHANGED <<copies, cache, user, writes, moves, lookups>>
  PROVE  RelocationInv'
<1>1. PICK k : k = MoverIdle
  OBVIOUS
<1>2. mover' = [mover EXCEPT ![m] = k] BY <1>1 DEF MoverThrows
<1>3. k.phase # "tombstone" BY <1>1 DEF MoverIdle
<1> QED BY <1>1, <1>2, <1>3, IdleMoverIsSound, MoveFacts, MoverStep

(* A move reads its target. *)
LEMMA ReadTargetKeeps ==
  ASSUME RelocationInv, NEW m \in Movers, ReadTarget(m)
  PROVE  RelocationInv'
<1>1. CASE LiveAt(mover[m].to)
  BY <1>1, ThrowKeeps DEF ReadTarget
<1>2. CASE ~LiveAt(mover[m].to)
  <2>1. PICK j : j = mover[m]
    OBVIOUS
  <2>2. PICK k : k = [j EXCEPT !.phase = "copy", !.expected = copies[j.to].version]
    OBVIOUS
  <2>3. /\ j \in MoveType /\ j.phase = "target" /\ MoveSound(copies, j)
        /\ copies \in [Nodes -> Copies] /\ Len(NodeOrder) \in Nat
    BY <2>1, MoveFacts DEF ReadTarget
  <2>4. /\ k = [phase |-> "copy", from |-> j.from, to |-> j.to, source |-> j.source,
                value |-> j.value, expected |-> copies[j.to].version, next |-> j.next]
    BY <2>2, <2>3 DEF MoveType
  <2>5. j.from \in Nodes /\ j.to \in Nodes /\ copies[j.to].version \in Nat
    BY <2>3 DEF MoveSound, Copies
  <2>6. k \in MoveType BY <2>3, <2>4, <2>5 DEF MoveType
  <2>7. MoveSound(copies, k)
    BY <1>2, <2>1, <2>3, <2>4, <2>5 DEF MoveSound, LiveAt
  <2>8. mover' = [mover EXCEPT ![m] = k]
    BY <1>2, <2>1, <2>2, MoveFacts DEF ReadTarget
  <2>9. UNCHANGED <<copies, user, writes, lookups>> /\ cache' = cache /\ moves' = moves
    BY DEF ReadTarget
  <2>10. k.phase # "tombstone" BY <2>4
  <2> QED BY <2>6, <2>7, <2>8, <2>9, <2>10, MoveFacts, MoverStep
<1> QED BY <1>1, <1>2

(* A mover reads the next node in the order. *)
LEMMA RetargetReadKeeps ==
  ASSUME RelocationInv, NEW m \in Movers, RetargetRead(m)
  PROVE  RelocationInv'
<1>1. PICK j : j = mover[m]
  OBVIOUS
<1>2. /\ j \in MoveType /\ j.phase = "retarget" /\ MoveSound(copies, j) /\ j.next <= Len(NodeOrder)
      /\ copies \in [Nodes -> Copies] /\ Len(NodeOrder) \in Nat
      /\ \A i \in 1..Len(NodeOrder) : NodeOrder[i] \in Nodes
  BY <1>1, MoveFacts DEF RetargetRead
<1>3. /\ j.from \in Nodes /\ j.to \in Nodes /\ j.from # j.to
      /\ j.next \in 1..Len(NodeOrder) /\ j.next + 1 \in 1..(Len(NodeOrder) + 1)
  BY <1>2 DEF MoveType, MoveSound
<1>4. UNCHANGED <<copies, user, writes, lookups>> /\ cache' = cache /\ moves' = moves
  BY DEF RetargetRead
<1> DEFINE rewritten == [j EXCEPT !.phase = "rewrite", !.expected = copies[NodeOrder[j.next]].version]
<1>5. \/ mover' = [mover EXCEPT ![m] = Retargeting(j, j.next + 1)]
      \/ copies[NodeOrder[j.next]].kind = "relocated" /\ mover' = [mover EXCEPT ![m] = rewritten]
  BY <1>1 DEF RetargetRead
<1>6. CASE mover' = [mover EXCEPT ![m] = Retargeting(j, j.next + 1)]
  <2>1. PICK k : k = Retargeting(j, j.next + 1)
    OBVIOUS
  <2>2. k \in MoveType /\ MoveSound(copies, k)
    BY <1>2, <1>3, <2>1, RetargetingIsSound
  <2>3. k.phase # "tombstone" BY <2>1 DEF Retargeting, MoverIdle
  <2>4. mover' = [mover EXCEPT ![m] = k] BY <1>6, <2>1
  <2> QED BY <1>4, <2>2, <2>3, <2>4, MoveFacts, MoverStep
<1>7. CASE copies[NodeOrder[j.next]].kind = "relocated" /\ mover' = [mover EXCEPT ![m] = rewritten]
  <2>1. PICK k : k = rewritten
    OBVIOUS
  <2>2. k = [phase |-> "rewrite", from |-> j.from, to |-> j.to, source |-> j.source, value |-> j.value,
             expected |-> copies[NodeOrder[j.next]].version, next |-> j.next]
    BY <1>2, <2>1 DEF MoveType
  <2>3. copies[NodeOrder[j.next]].version \in Nat BY <1>2, <1>3 DEF Copies
  <2>4. k \in MoveType BY <1>2, <2>2, <2>3 DEF MoveType
  <2>5. MoveSound(copies, k) BY <1>3, <1>7, <2>2, <2>3 DEF MoveSound
  <2>6. k.phase # "tombstone" BY <2>2
  <2>7. mover' = [mover EXCEPT ![m] = k] BY <1>7, <2>1
  <2> QED BY <1>4, <2>4, <2>5, <2>6, <2>7, MoveFacts, MoverStep
<1> QED BY <1>5, <1>6, <1>7

(* A cache forgets a place. *)
LEMMA InvalidateKeeps ==
  ASSUME RelocationInv, NEW m \in Movers, Invalidate(m)
  PROVE  RelocationInv'
<1>1. PICK k : k = MoverIdle
  OBVIOUS
<1>2. mover' = [mover EXCEPT ![m] = k] /\ cache' \in [Nodes -> Nodes \cup {NoNode}]
  BY <1>1 DEF Invalidate
<1>3. UNCHANGED <<copies, user, writes, lookups>> /\ moves' = moves
  BY DEF Invalidate
<1>4. k.phase # "tombstone" BY <1>1 DEF MoverIdle
<1> QED BY <1>1, <1>2, <1>3, <1>4, IdleMoverIsSound, MoveFacts, MoverStep

(* A safe copy that no put touches stays one, unless a move is about to    *)
(* take it.                                                                *)
LEMMA StaysSafe ==
  ASSUME NEW n \in Nodes, HasTheUpdate(n), copies'[n] = copies[n], writes' = writes,
         \A x \in Movers : ~Leaves(copies', mover'[x], n)
  PROVE  UpdateIsSafe'
BY DEF UpdateIsSafe, HasTheUpdate, LiveAt

(* The copy a move has just made is one nobody can be about to take: what  *)
(* any other move has read there is older.                                 *)
LEMMA FreshIsSafe ==
  ASSUME RelocationInv, NEW n \in Nodes,
         copies'[n].version = copies[n].version + 1,
         copies'[n].kind = "live", copies'[n].value = writes',
         \A x \in Movers : mover'[x] = mover[x] \/ mover'[x].from # n
  PROVE  UpdateIsSafe'
<1>1. HasTheUpdate(n)' BY DEF HasTheUpdate, LiveAt
<1>2. ASSUME NEW x \in Movers, mover'[x] = mover[x]
      PROVE  ~Leaves(copies', mover'[x], n)
  <2>1. PICK k : k = mover[x]
    OBVIOUS
  <2>2. k \in MoveType /\ MoveSound(copies, k) /\ copies \in [Nodes -> Copies]
    BY <2>1, MoveFacts
  <2>3. k.source \in Nat /\ copies[n].version \in Nat
    BY <2>2 DEF MoveType, Copies
  <2>4. k.phase = "tombstone" /\ k.from = n => k.source <= copies[n].version
    BY <2>2 DEF MoveSound
  <2>5. ~Leaves(copies', k, n) BY <2>3, <2>4 DEF Leaves
  <2> QED BY <1>2, <2>1, <2>5
<1>3. \A x \in Movers : ~Leaves(copies', mover'[x], n) BY <1>2 DEF Leaves
<1> QED BY <1>1, <1>3 DEF UpdateIsSafe

(* The copy on the target becomes the safe one when the move is about to   *)
(* take the safe one of the source.                                        *)
LEMMA CopyToTargetKeeps ==
  ASSUME RelocationInv, NEW m \in Movers, CopyToTarget(m)
  PROVE  RelocationInv'
<1>1. PICK j : j = mover[m]
  OBVIOUS
<1>2. /\ j \in MoveType /\ j.phase = "copy" /\ MoveSound(copies, j)
      /\ mover \in [Movers -> MoveType]
      /\ copies \in [Nodes -> Copies] /\ Len(NodeOrder) \in Nat
  BY <1>1, MoveFacts DEF CopyToTarget
<1>3. CASE copies[j.to].version # j.expected
  BY <1>1, <1>3, ThrowKeeps DEF CopyToTarget
<1>4. CASE copies[j.to].version = j.expected
  <2>1. PICK k : k = [j EXCEPT !.phase = "tombstone", !.expected = 0]
    OBVIOUS
  <2>2. k = [phase |-> "tombstone", from |-> j.from, to |-> j.to, source |-> j.source,
             value |-> j.value, expected |-> 0, next |-> j.next]
    BY <1>2, <2>1 DEF MoveType
  <2>3. /\ j.from \in Nodes /\ j.to \in Nodes /\ j.from # j.to /\ j.value \in Nat
        /\ j.source <= copies[j.from].version
        /\ j.source = copies[j.from].version => LiveAt(j.from) /\ copies[j.from].value = j.value
        /\ ~LiveAt(j.to)
    BY <1>2, <1>4 DEF MoveSound, MoveType, LiveAt
  <2>4. k \in MoveType BY <1>2, <2>2 DEF MoveType
  <2>5. /\ Store(j.to, "live", NoNode, j.value)
        /\ mover' = [mover EXCEPT ![m] = k]
        /\ user' = Disturbed
    BY <1>1, <1>2, <1>4, <2>1 DEF CopyToTarget
  <2>6. UNCHANGED <<cache, writes, moves, lookups>> BY DEF CopyToTarget
  <2>7. /\ copies'[j.to] = [version |-> copies[j.to].version + 1, kind |-> "live",
                            to |-> NoNode, value |-> j.value]
        /\ \A x \in Nodes \ {j.to} : copies'[x] = copies[x]
    BY <2>3, <2>5, StoreKeeps DEF RelocationInv
  <2>8. MoveSound(copies', k) BY <2>2, <2>3, <2>7 DEF MoveSound, LiveAt
  <2>9. /\ mover' \in [Movers -> MoveType]
        /\ mover'[m] = k
        /\ \A x \in Movers \ {m} : mover'[x] = mover[x]
    BY <1>2, <2>4, <2>5
  <2>10. user' \in [Users -> UseType] /\ \A u \in Users : UseSound(user'[u])
    BY <2>5, DisturbedIsSound
  <2>11. writes' \in 1..MaxWrites /\ writes' = writes
    BY <2>6 DEF RelocationInv, RelocationTypeOK
  <2>12. RelocationTypeOK' /\ TombstonesPoint' /\ StepsSound'
    BY <2>3, <2>5, <2>6, <2>8, <2>9, <2>10, <2>11, StoreStep
  <2>13. UpdateIsSafe'
    <3>1. PICK n \in Nodes : HasTheUpdate(n) /\ \A x \in Movers : ~Leaves(copies, mover[x], n)
      BY DEF RelocationInv, UpdateIsSafe
    <3>2. n # j.to /\ copies'[n] = copies[n]
      BY <2>3, <2>7, <3>1 DEF HasTheUpdate
    <3>3. CASE Leaves(copies, k, n)
      <4>1. copies'[j.to].value = writes'
        BY <2>2, <2>3, <2>7, <2>11, <3>1, <3>3 DEF Leaves, HasTheUpdate
      <4>2. k.from # j.to BY <2>2, <2>3
      <4> QED BY <2>3, <2>7, <2>9, <4>1, <4>2, FreshIsSafe
    <3>4. CASE ~Leaves(copies, k, n)
      <4>1. \A x \in Movers : ~Leaves(copies, mover'[x], n) BY <2>9, <3>1, <3>4
      <4>2. \A x \in Movers : ~Leaves(copies', mover'[x], n)
        BY <3>2, <4>1 DEF Leaves
      <4> QED BY <2>11, <3>1, <3>2, <4>2, StaysSafe
    <3> QED BY <3>3, <3>4
  <2> QED BY <2>12, <2>13 DEF RelocationInv
<1> QED BY <1>3, <1>4

(* A move puts its tombstone over a copy only when it was about to, so not *)
(* over the safe one.                                                      *)
LEMMA TombstoneSourceKeeps ==
  ASSUME RelocationInv, NEW m \in Movers, TombstoneSource(m)
  PROVE  RelocationInv'
<1>1. PICK j : j = mover[m]
  OBVIOUS
<1>2. /\ j \in MoveType /\ j.phase = "tombstone" /\ MoveSound(copies, j)
      /\ mover \in [Movers -> MoveType]
      /\ copies \in [Nodes -> Copies] /\ Len(NodeOrder) \in Nat
  BY <1>1, MoveFacts DEF TombstoneSource
<1>3. CASE copies[j.from].version # j.source
  BY <1>1, <1>3, ThrowKeeps DEF TombstoneSource
<1>4. CASE copies[j.from].version = j.source
  <2>1. PICK k : k = Retargeting(j, 1)
    OBVIOUS
  <2>2. j.from \in Nodes /\ j.to \in Nodes /\ j.from # j.to
    BY <1>2 DEF MoveSound
  <2>3. k \in MoveType /\ MoveSound(copies', k)
    BY <1>2, <2>1, <2>2, RetargetingIsSound
  <2>4. k.phase = "retarget" BY <2>1, IdleFields DEF Retargeting, MoveType
  <2>5. /\ Store(j.from, "relocated", j.to, 0)
        /\ mover' = [mover EXCEPT ![m] = k]
        /\ user' = Disturbed
    BY <1>1, <1>2, <1>4, <2>1 DEF TombstoneSource
  <2>6. UNCHANGED <<cache, writes, moves, lookups>> BY DEF TombstoneSource
  <2>7. \A x \in Nodes \ {j.from} : copies'[x] = copies[x]
    BY <2>2, <2>5, StoreKeeps DEF RelocationInv
  <2>8. /\ mover' \in [Movers -> MoveType]
        /\ mover'[m] = k
        /\ \A x \in Movers \ {m} : mover'[x] = mover[x]
    BY <1>2, <2>3, <2>5
  <2>9. user' \in [Users -> UseType] /\ \A u \in Users : UseSound(user'[u])
    BY <2>5, DisturbedIsSound
  <2>10. writes' \in 1..MaxWrites /\ writes' = writes
    BY <2>6 DEF RelocationInv, RelocationTypeOK
  <2>11. RelocationTypeOK' /\ TombstonesPoint' /\ StepsSound'
    BY <2>2, <2>3, <2>5, <2>6, <2>8, <2>9, <2>10, StoreStep
  <2>12. UpdateIsSafe'
    <3>1. PICK n \in Nodes : HasTheUpdate(n) /\ \A x \in Movers : ~Leaves(copies, mover[x], n)
      BY DEF RelocationInv, UpdateIsSafe
    <3>2. n # j.from BY <1>1, <1>2, <1>4, <3>1 DEF Leaves
    <3>3. \A x \in Movers : ~Leaves(copies', mover'[x], n)
      BY <2>4, <2>7, <2>8, <3>1, <3>2 DEF Leaves
    <3> QED BY <2>7, <2>10, <3>1, <3>2, <3>3, StaysSafe
  <2> QED BY <2>11, <2>12 DEF RelocationInv
<1> QED BY <1>3, <1>4

(* A tombstone is rewritten only over a tombstone. *)
LEMMA RetargetWriteKeeps ==
  ASSUME RelocationInv, NEW m \in Movers, RetargetWrite(m)
  PROVE  RelocationInv'
<1>1. PICK j, here : j = mover[m] /\ here = NodeOrder[j.next]
  OBVIOUS
<1>2. /\ j \in MoveType /\ j.phase = "rewrite" /\ MoveSound(copies, j)
      /\ mover \in [Movers -> MoveType]
      /\ copies \in [Nodes -> Copies] /\ Len(NodeOrder) \in Nat
      /\ \A i \in 1..Len(NodeOrder) : NodeOrder[i] \in Nodes
  BY <1>1, MoveFacts DEF RetargetWrite
<1>3. CASE copies[here].version # j.expected
  BY <1>1, <1>3, ThrowKeeps DEF RetargetWrite
<1>4. CASE copies[here].version = j.expected
  <2>1. PICK k : k = Retargeting(j, j.next + 1)
    OBVIOUS
  <2>2. /\ j.from \in Nodes /\ j.to \in Nodes /\ j.from # j.to
        /\ j.next \in 1..Len(NodeOrder) /\ j.next + 1 \in 1..(Len(NodeOrder) + 1)
        /\ ~LiveAt(here)
    BY <1>1, <1>2, <1>4 DEF MoveSound, LiveAt
  <2>3. k \in MoveType /\ MoveSound(copies', k)
    BY <1>2, <2>1, <2>2, RetargetingIsSound
  <2>4. k.phase = "retarget" /\ here \in Nodes
    BY <1>1, <1>2, <2>1, <2>2, IdleFields DEF Retargeting, MoveType
  <2>5. /\ Store(here, "relocated", j.to, 0)
        /\ mover' = [mover EXCEPT ![m] = k]
        /\ user' = Disturbed
    BY <1>1, <1>2, <1>4, <2>1 DEF RetargetWrite
  <2>6. UNCHANGED <<cache, writes, moves, lookups>> BY DEF RetargetWrite
  <2>7. \A x \in Nodes \ {here} : copies'[x] = copies[x]
    BY <2>2, <2>4, <2>5, StoreKeeps DEF RelocationInv
  <2>8. /\ mover' \in [Movers -> MoveType]
        /\ mover'[m] = k
        /\ \A x \in Movers \ {m} : mover'[x] = mover[x]
    BY <1>2, <2>3, <2>5
  <2>9. user' \in [Users -> UseType] /\ \A u \in Users : UseSound(user'[u])
    BY <2>5, DisturbedIsSound
  <2>10. writes' \in 1..MaxWrites /\ writes' = writes
    BY <2>6 DEF RelocationInv, RelocationTypeOK
  <2>11. RelocationTypeOK' /\ TombstonesPoint' /\ StepsSound'
    BY <2>2, <2>3, <2>4, <2>5, <2>6, <2>8, <2>9, <2>10, StoreStep
  <2>12. UpdateIsSafe'
    <3>1. PICK n \in Nodes : HasTheUpdate(n) /\ \A x \in Movers : ~Leaves(copies, mover[x], n)
      BY DEF RelocationInv, UpdateIsSafe
    <3>2. n # here BY <2>2, <3>1 DEF HasTheUpdate
    <3>3. \A x \in Movers : ~Leaves(copies', mover'[x], n)
      BY <2>4, <2>7, <2>8, <3>1, <3>2 DEF Leaves
    <3> QED BY <2>7, <2>10, <3>1, <3>2, <3>3, StaysSafe
  <2> QED BY <2>11, <2>12 DEF RelocationInv
<1> QED BY <1>3, <1>4

(* Whatever a move does next. *)
LEMMA MoveKeeps ==
  ASSUME RelocationInv, NEW m \in Movers, Move(m)
  PROVE  RelocationInv'
<1>1. CASE Crash(m)
  BY <1>1, ThrowKeeps DEF Crash
<1>2. ASSUME NEW from \in Nodes, NEW to \in Nodes, ReadSource(m, from, to)
      PROVE  RelocationInv'
  BY <1>2, ReadSourceKeeps
<1> QED BY <1>1, <1>2, ReadTargetKeeps, CopyToTargetKeeps, TombstoneSourceKeeps, RetargetReadKeeps,
     RetargetWriteKeeps, InvalidateKeeps DEF Move

----------------------------------------
(* What a user of a record holds has its type. *)
LEMMA UserFacts ==
  ASSUME RelocationInv, NEW u \in Users
  PROVE  /\ user \in [Users -> UseType] /\ user[u] \in UseType
         /\ UseSound(user[u])
         /\ copies \in [Nodes -> Copies]
         /\ cache \in [Nodes -> Nodes \cup {NoNode}]
         /\ lookups \in 0..MaxLookups
         /\ Len(NodeOrder) \in Nat
BY NodeOrderAssumption, LenProperties DEF RelocationInv, RelocationTypeOK, StepsSound, UseType

(* Where a lookup may go next is sound. *)
LEMMA AnswersAreSound ==
  ASSUME RelocationInv, NEW u \in Users, NEW n \in Nodes
  PROVE  /\ Locates(u, n) \in UseType /\ UseSound(Locates(u, n))
         /\ Site(u) \in Nodes => Finds(u, n) \in UseType /\ UseSound(Finds(u, n))
<1>1. PICK use \in UseType : use = user[u]
  BY UserFacts
<1>2. PICK i \in 0..Len(NodeOrder), none \in Nodes \cup {NoNode} : i = 0 /\ none = NoNode
  BY UserFacts
<1>3. PICK k : k = [use EXCEPT !.phase = "located", !.site = none, !.at = n, !.count = i]
  OBVIOUS
<1>4. k \in UseType BY <1>3 DEF UseType
<1>5. k.phase = "located" /\ k.at = n BY <1>3, <1>4 DEF UseType
<1>6. k = Locates(u, n) BY <1>1, <1>2, <1>3 DEF Locates
<1>7. PICK j : j = [use EXCEPT !.phase = "found", !.at = n, !.count = i]
  OBVIOUS
<1>8. j \in UseType BY <1>7 DEF UseType
<1>9. j.phase = "found" /\ j.at = n /\ j.site = use.site
  BY <1>7, <1>8 DEF UseType
<1>10. j = Finds(u, n) BY <1>1, <1>2, <1>7 DEF Finds
<1> QED BY <1>1, <1>4, <1>5, <1>6, <1>8, <1>9, <1>10 DEF UseSound, Site

(* A scan goes to a peer there is. *)
LEMMA ScansIsSound ==
  ASSUME RelocationInv, NEW u \in Users, Site(u) \in Nodes, NEW i \in Nat \ {0}
  PROVE  Scans(u, i) \in UseType /\ UseSound(Scans(u, i))
<1>1. /\ user[u] \in UseType /\ Len(NodeOrder) \in Nat
      /\ Len(Peers(Site(u))) = Len(NodeOrder) - 1
  BY UserFacts, PeersAreNodes
<1>2. CASE i <= Len(Peers(Site(u)))
  <2>1. PICK k : k = [user[u] EXCEPT !.phase = "scan", !.count = i]
    OBVIOUS
  <2>2. i \in 0..Len(NodeOrder) /\ i \in 1..Len(Peers(Site(u))) BY <1>1, <1>2
  <2>3. k \in UseType /\ k.phase = "scan" /\ k.count = i /\ k.site = Site(u)
    BY <1>1, <2>1, <2>2 DEF UseType, Site
  <2>4. UseSound(k) BY <2>2, <2>3 DEF UseSound
  <2> QED BY <1>2, <2>1, <2>3, <2>4 DEF Scans
<1>3. CASE ~(i <= Len(Peers(Site(u))))
  <2>1. Scans(u, i) = Locates(u, ImageNode(Site(u))) BY <1>3 DEF Scans
  <2>2. ImageNode(Site(u)) \in Nodes BY ImageNodeIsANode
  <2> QED BY <2>1, <2>2, AnswersAreSound
<1> QED BY <1>2, <1>3

(* Following a tombstone stays among the nodes. *)
LEMMA FollowIsSound ==
  ASSUME RelocationInv, NEW u \in Users, Site(u) \in Nodes, NEW t, t.to \in Nodes
  PROVE  Follow(u, t) \in UseType /\ UseSound(Follow(u, t))
<1>1. /\ user[u] \in UseType /\ Len(NodeOrder) \in Nat
      /\ Len(Peers(Site(u))) = Len(NodeOrder) - 1
  BY UserFacts, PeersAreNodes
<1>2. CASE t.to # Site(u) /\ user[u].count <= Len(Peers(Site(u)))
  <2>1. PICK to, i : to \in Nodes /\ to = t.to /\ i = user[u].count + 1
    OBVIOUS
  <2>2. PICK k : k = [user[u] EXCEPT !.phase = "hop", !.at = to, !.count = i]
    OBVIOUS
  <2>3. i \in 0..Len(NodeOrder) BY <1>1, <1>2, <2>1 DEF UseType
  <2>4. k \in UseType /\ k.phase = "hop" /\ k.at = to /\ k.site = Site(u)
    BY <1>1, <2>1, <2>2, <2>3 DEF UseType, Site
  <2>5. UseSound(k) BY <2>1, <2>4 DEF UseSound
  <2>6. k = Follow(u, t) BY <1>2, <2>1, <2>2 DEF Follow, Hops
  <2> QED BY <2>4, <2>5, <2>6
<1>3. CASE ~(t.to # Site(u) /\ user[u].count <= Len(Peers(Site(u))))
  <2>1. Follow(u, t) = Scans(u, 1) BY <1>3 DEF Follow
  <2> QED BY <2>1, ScansIsSound
<1> QED BY <1>2, <1>3

(* A step of a lookup that does not touch the cache. *)
LEMMA LookupKeeps ==
  ASSUME RelocationInv, NEW u \in Users, NEW k \in UseType, UseSound(k), Locating(u, k), LookupStep
  PROVE  RelocationInv'
<1>1. user' = [user EXCEPT ![u] = k] BY DEF Locating
<1>2. UNCHANGED <<copies, mover, writes, moves>> /\ lookups' = lookups /\ cache' = cache
  BY DEF LookupStep
<1> QED BY <1>1, <1>2, UserFacts, UserStep

(* An idle user is typed. *)
LEMMA IdleUserIsSound ==
  ASSUME NEW seen \in [version : Nat, value : Nat], NEW site \in Nodes \cup {NoNode}
  PROVE  /\ UserIdle(seen) \in UseType /\ UseSound(UserIdle(seen))
         /\ [UserIdle(seen) EXCEPT !.site = site] \in UseType
<1>1. PICK k : k = UserIdle(seen)
  OBVIOUS
<1>2. k = [phase |-> "idle", site |-> NoNode, at |-> NoNode, count |-> 0, calm |-> TRUE, observed |-> seen]
  BY <1>1 DEF UserIdle
<1>3. Len(NodeOrder) \in Nat BY NodeOrderAssumption, LenProperties
<1>4. k \in UseType BY <1>2, <1>3 DEF UseType
<1>5. UseSound(k) BY <1>2 DEF UseSound
<1>6. [k EXCEPT !.site = site] \in UseType BY <1>4 DEF UseType
<1> QED BY <1>1, <1>4, <1>5, <1>6

(* A lookup begins. *)
LEMMA LocateKeeps ==
  ASSUME RelocationInv, NEW u \in Users, NEW site \in Nodes, Locate(u, site)
  PROVE  RelocationInv'
<1>1. PICK seen \in [version : Nat, value : Nat] : seen = user[u].observed
  BY UserFacts DEF UseType
<1>2. PICK start : start = [UserIdle(seen) EXCEPT !.site = site]
  OBVIOUS
<1>3. PICK n \in Nodes \cup {NoNode} : n = cache[site]
  BY UserFacts
<1>4. start \in UseType /\ start.site = site /\ Len(NodeOrder) \in Nat
  <2>1. UserIdle(seen) \in UseType /\ start \in UseType BY <1>2, IdleUserIsSound
  <2>2. start.site = site BY <1>2, <2>1 DEF UseType
  <2> QED BY <2>1, <2>2, UserFacts
<1>5. /\ UNCHANGED <<copies, mover, writes, moves>>
      /\ lookups' = lookups + 1 /\ lookups < MaxLookups /\ cache' = cache
  BY DEF Locate
<1>6. lookups' \in 0..MaxLookups BY <1>5, UserFacts, RelocationBounds
<1>7. CASE n # NoNode
  <2>1. PICK k : k = [start EXCEPT !.phase = "located", !.site = NoNode, !.at = n, !.calm = FALSE]
    OBVIOUS
  <2>2. k \in UseType /\ k.phase = "located" /\ k.at = n
    BY <1>4, <2>1 DEF UseType
  <2>3. UseSound(k) BY <1>7, <2>2 DEF UseSound
  <2>4. user' = [user EXCEPT ![u] = k]
    BY <1>1, <1>2, <1>3, <1>7, <2>1 DEF Locate, Locating
  <2> QED BY <1>5, <1>6, <2>2, <2>3, <2>4, UserFacts, UserStep
<1>8. CASE n = NoNode
  <2>1. PICK k : k = [start EXCEPT !.phase = "local"]
    OBVIOUS
  <2>2. k \in UseType /\ k.phase = "local" /\ k.site = site
    BY <1>4, <2>1 DEF UseType
  <2>3. UseSound(k) BY <2>2 DEF UseSound
  <2>4. user' = [user EXCEPT ![u] = k]
    BY <1>1, <1>2, <1>3, <1>8, <2>1 DEF Locate, Locating
  <2> QED BY <1>5, <1>6, <2>2, <2>3, <2>4, UserFacts, UserStep
<1> QED BY <1>7, <1>8

(* A tombstone that is read points to a node. *)
LEMMA TombstonePoints ==
  ASSUME RelocationInv, NEW n \in Nodes, copies[n].kind = "relocated"
  PROVE  copies[n].to \in Nodes
BY DEF RelocationInv, TombstonesPoint

(* A lookup asks its own node. *)
LEMMA LocateLocalKeeps ==
  ASSUME RelocationInv, NEW u \in Users, LocateLocal(u)
  PROVE  RelocationInv'
<1>1. PICK n : n = Site(u)
  OBVIOUS
<1>2. n \in Nodes /\ Site(u) \in Nodes
  BY <1>1, UserFacts DEF LocateLocal, UseSound, Site
<1>3. LookupStep BY DEF LocateLocal
<1>4. \/ Locating(u, Locates(u, ImageNode(n)))
      \/ Locating(u, Finds(u, n))
      \/ copies[n].kind = "relocated" /\ Locating(u, Follow(u, copies[n]))
      \/ Locating(u, Scans(u, 1))
  BY <1>1 DEF LocateLocal
<1>5. Locates(u, ImageNode(n)) \in UseType /\ UseSound(Locates(u, ImageNode(n)))
  BY <1>2, ImageNodeIsANode, AnswersAreSound
<1>6. Finds(u, n) \in UseType /\ UseSound(Finds(u, n)) BY <1>2, AnswersAreSound
<1>7. Scans(u, 1) \in UseType /\ UseSound(Scans(u, 1)) BY <1>2, ScansIsSound
<1>8. copies[n].kind = "relocated" => Follow(u, copies[n]) \in UseType /\ UseSound(Follow(u, copies[n]))
  BY <1>2, TombstonePoints, FollowIsSound
<1> QED BY <1>3, <1>4, <1>5, <1>6, <1>7, <1>8, LookupKeeps

(* A lookup follows a tombstone. *)
LEMMA LocateHopKeeps ==
  ASSUME RelocationInv, NEW u \in Users, LocateHop(u)
  PROVE  RelocationInv'
<1>1. PICK n : n = user[u].at
  OBVIOUS
<1>2. n \in Nodes /\ Site(u) \in Nodes
  BY <1>1, UserFacts DEF LocateHop, UseSound, Site
<1>3. LookupStep BY DEF LocateHop
<1>4. \/ Locating(u, Finds(u, n))
      \/ copies[n].kind = "relocated" /\ Locating(u, Follow(u, copies[n]))
      \/ Locating(u, Scans(u, 1))
  BY <1>1 DEF LocateHop
<1>5. Finds(u, n) \in UseType /\ UseSound(Finds(u, n)) BY <1>2, AnswersAreSound
<1>6. Scans(u, 1) \in UseType /\ UseSound(Scans(u, 1)) BY <1>2, ScansIsSound
<1>7. copies[n].kind = "relocated" => Follow(u, copies[n]) \in UseType /\ UseSound(Follow(u, copies[n]))
  BY <1>2, TombstonePoints, FollowIsSound
<1> QED BY <1>3, <1>4, <1>5, <1>6, <1>7, LookupKeeps

(* A lookup asks a peer. *)
LEMMA LocateScanKeeps ==
  ASSUME RelocationInv, NEW u \in Users, LocateScan(u)
  PROVE  RelocationInv'
<1>1. PICK i, n : i = user[u].count /\ n = Peers(Site(u))[i]
  OBVIOUS
<1>2. Site(u) \in Nodes /\ i \in 1..Len(Peers(Site(u)))
  BY <1>1, UserFacts DEF LocateScan, UseSound, Site
<1>3. Peers(Site(u)) \in Seq(Nodes) /\ Len(Peers(Site(u))) \in Nat
  BY <1>2, PeersAreNodes, LenProperties
<1>4. n \in Nodes /\ i + 1 \in Nat \ {0}
  <2>1. Peers(Site(u))[i] \in Nodes BY <1>2, <1>3, ElementOfSeq
  <2> QED BY <1>1, <1>2, <1>3, <2>1
<1>5. LookupStep BY DEF LocateScan
<1>6. \/ Locating(u, Locates(u, ImageNode(Site(u))))
      \/ Locating(u, Finds(u, n))
      \/ Locating(u, Scans(u, i + 1))
  BY <1>1 DEF LocateScan
<1>7. Locates(u, ImageNode(Site(u))) \in UseType /\ UseSound(Locates(u, ImageNode(Site(u))))
  BY <1>2, ImageNodeIsANode, AnswersAreSound
<1>8. Finds(u, n) \in UseType /\ UseSound(Finds(u, n))
  BY <1>2, <1>4, AnswersAreSound
<1>9. Scans(u, i + 1) \in UseType /\ UseSound(Scans(u, i + 1))
  BY <1>2, <1>4, ScansIsSound
<1> QED BY <1>5, <1>6, <1>7, <1>8, <1>9, LookupKeeps

(* A place that was found is remembered. *)
LEMMA RememberKeeps ==
  ASSUME RelocationInv, NEW u \in Users, Remember(u)
  PROVE  RelocationInv'
<1>1. PICK here : here = user[u].at
  OBVIOUS
<1>2. here \in Nodes /\ Site(u) \in Nodes
  BY <1>1, UserFacts DEF Remember, UseSound, Site
<1>3. PICK k : k = Locates(u, here)
  OBVIOUS
<1>4. k \in UseType /\ UseSound(k) BY <1>2, <1>3, AnswersAreSound
<1>5. user' = [user EXCEPT ![u] = k] BY <1>1, <1>3 DEF Remember, Locating
<1>6. cache' = [cache EXCEPT ![Site(u)] = here] BY <1>1 DEF Remember
<1>7. cache' \in [Nodes -> Nodes \cup {NoNode}] BY <1>2, <1>6, UserFacts
<1>8. UNCHANGED <<copies, mover, writes, moves>> /\ lookups' = lookups
  BY DEF Remember
<1> QED BY <1>4, <1>5, <1>7, <1>8, UserFacts, UserStep

(* The record is read where it was located. *)
LEMMA ReadKeeps ==
  ASSUME RelocationInv, NEW u \in Users, Read(u)
  PROVE  RelocationInv'
<1>1. PICK n : n = user[u].at
  OBVIOUS
<1>2. n \in Nodes /\ copies \in [Nodes -> Copies]
  BY <1>1, UserFacts DEF Read, UseSound
<1>3. PICK seen : seen = IF LiveAt(n) THEN [version |-> copies[n].version, value |-> copies[n].value]
                         ELSE Unread
  OBVIOUS
<1>4. copies[n].version \in Nat /\ copies[n].value \in Nat BY <1>2 DEF Copies
<1>5. seen \in [version : Nat, value : Nat] BY <1>3, <1>4 DEF Unread
<1>6. UserIdle(seen) \in UseType /\ UseSound(UserIdle(seen))
  BY <1>5, IdleUserIsSound
<1>7. Locating(u, UserIdle(seen)) /\ LookupStep BY <1>1, <1>3 DEF Read
<1> QED BY <1>6, <1>7, LookupKeeps

(* A write that succeeds is the last one, and safe where it is. *)
LEMMA WriteKeeps ==
  ASSUME RelocationInv, NEW u \in Users, NEW expected, Write(u, expected)
  PROVE  RelocationInv'
<1>1. PICK n, seen : n = user[u].at /\ seen = user[u].observed
  OBVIOUS
<1>2. /\ n \in Nodes /\ seen \in [version : Nat, value : Nat]
      /\ copies \in [Nodes -> Copies] /\ user \in [Users -> UseType]
  BY <1>1, UserFacts DEF Write, UseSound, UseType
<1>3. PICK k : k = UserIdle(seen)
  OBVIOUS
<1>4. k \in UseType /\ UseSound(k) BY <1>2, <1>3, IdleUserIsSound
<1>5. UNCHANGED <<cache, mover, moves, lookups>> /\ writes < MaxWrites
  BY DEF Write
<1>6. CASE expected \notin {AnyCopy, copies[n].version}
  <2>1. Locating(u, k) /\ UNCHANGED <<copies, writes>>
    BY <1>1, <1>3, <1>6 DEF Write
  <2>2. LookupStep BY <1>5, <2>1 DEF LookupStep
  <2> QED BY <1>4, <2>1, <2>2, LookupKeeps
<1>7. CASE expected \in {AnyCopy, copies[n].version}
  <2>1. /\ Store(n, "live", NoNode, writes + 1)
        /\ writes' = writes + 1
        /\ user' = [Disturbed EXCEPT ![u] = k]
    BY <1>1, <1>3, <1>7 DEF Write
  <2>2. writes \in Nat /\ writes + 1 \in Nat /\ writes' \in 1..MaxWrites
    BY <1>5, <2>1, RelocationBounds DEF RelocationInv, RelocationTypeOK
  <2>3. user' \in [Users -> UseType] /\ \A x \in Users : UseSound(user'[x])
    BY <1>4, <2>1, DisturbedIsSound
  <2>4. mover' \in [Movers -> MoveType] /\ \A x \in Movers : mover'[x] = mover[x]
    BY <1>5 DEF RelocationInv, RelocationTypeOK, MoveType
  <2>5. RelocationTypeOK' /\ TombstonesPoint' /\ StepsSound'
    <3>1. UNCHANGED <<cache, moves, lookups>> BY <1>5
    <3> QED BY <1>2, <2>1, <2>2, <2>3, <2>4, <3>1, StoreStep
  <2>6. copies'[n] = [version |-> copies[n].version + 1, kind |-> "live", to |-> NoNode, value |-> writes + 1]
    BY <1>2, <2>1, <2>2, StoreKeeps DEF RelocationInv
  <2>7. UpdateIsSafe' BY <1>2, <2>1, <2>4, <2>6, FreshIsSafe
  <2> QED BY <2>5, <2>7 DEF RelocationInv
<1> QED BY <1>6, <1>7

(* Whatever a user does next. *)
LEMMA UseKeeps ==
  ASSUME RelocationInv, NEW u \in Users, Use(u)
  PROVE  RelocationInv'
<1>1. ASSUME NEW site \in Nodes, Locate(u, site)
      PROVE  RelocationInv'
  BY <1>1, LocateKeeps
<1>2. ASSUME NEW expected, Write(u, expected)
      PROVE  RelocationInv'
  BY <1>2, WriteKeeps
<1> QED
  BY <1>1, <1>2, LocateLocalKeeps, LocateHopKeeps, LocateScanKeeps, RememberKeeps, ReadKeeps DEF Use

----------------------------------------
(* The system begins soundly. *)
LEMMA RelocationInitIsSound == RelocationInit => RelocationInv
<1> SUFFICES ASSUME RelocationInit
             PROVE  RelocationInv
  OBVIOUS
<1>1. PICK home \in ImageNodes :
        copies = [n \in Nodes |->
                  IF n = home THEN [version |-> 1, kind |-> "live", to |-> NoNode, value |-> 1]
                  ELSE [version |-> 0, kind |-> "none", to |-> NoNode, value |-> 0]]
  BY DEF RelocationInit
<1>2. home \in Nodes BY ImageNodesAssumption
<1>3. copies \in [Nodes -> Copies] BY <1>1 DEF Copies
<1>4. UserIdle(Unread) \in UseType /\ UseSound(UserIdle(Unread))
  <2>1. Unread \in [version : Nat, value : Nat] BY DEF Unread
  <2> QED BY <2>1, IdleUserIsSound
<1>5. /\ cache = [n \in Nodes |-> NoNode]
      /\ mover = [m \in Movers |-> MoverIdle]
      /\ user = [u \in Users |-> UserIdle(Unread)]
      /\ writes = 1 /\ moves = 0 /\ lookups = 0
  BY DEF RelocationInit
<1>6. mover \in [Movers -> MoveType] /\ \A m \in Movers : MoveSound(copies, mover[m])
  BY <1>5, IdleMoverIsSound
<1>7. user \in [Users -> UseType] /\ \A u \in Users : UseSound(user[u])
  BY <1>4, <1>5
<1>8. /\ cache \in [Nodes -> Nodes \cup {NoNode}]
      /\ writes \in 1..MaxWrites /\ moves \in 0..MaxMoves /\ lookups \in 0..MaxLookups
  BY <1>5, RelocationBounds
<1>9. RelocationTypeOK
  BY <1>3, <1>6, <1>7, <1>8 DEF RelocationTypeOK, MoveType, UseType
<1>10. TombstonesPoint BY <1>1 DEF TombstonesPoint
<1>11. UpdateIsSafe
  <2>1. HasTheUpdate(home) BY <1>1, <1>2, <1>5 DEF HasTheUpdate, LiveAt
  <2>2. \A m \in Movers : ~Leaves(copies, mover[m], home)
    BY <1>5, IdleFields DEF Leaves
  <2> QED BY <1>2, <2>1, <2>2 DEF UpdateIsSafe
<1> QED BY <1>6, <1>7, <1>9, <1>10, <1>11 DEF RelocationInv, StepsSound

(* A step nobody takes leaves everything as it is. *)
LEMMA StutterKeeps == RelocationInv /\ UNCHANGED relocationVars => RelocationInv'
BY DEF RelocationInv, RelocationTypeOK, TombstonesPoint, StepsSound, UpdateIsSafe, HasTheUpdate, LiveAt,
       relocationVars

(* The invariant holds in every state a system of movers and users comes   *)
(* to (placement.js, locator.js, remote-resolution.js).                    *)
THEOREM RelocationInvariance == RelocationSpec => []RelocationInv
<1>1. RelocationInv /\ [RelocationNext]_relocationVars => RelocationInv'
  BY MoveKeeps, UseKeeps, StutterKeeps DEF RelocationNext
<1> QED BY <1>1, RelocationInitIsSound, PTL DEF RelocationSpec

(* Every variable keeps to its type, and with it every put goes to a node  *)
(* and every lookup from one: no tombstone leads out of the system.        *)
THEOREM RelocationTypeCorrect == RelocationSpec => []RelocationTypeOK
<1>1. RelocationInv => RelocationTypeOK BY DEF RelocationInv
<1> QED BY <1>1, RelocationInvariance, PTL

(* However many moves race, conflict and crash among themselves and with   *)
(* writers, over any nodes, what the last acknowledged write stored is     *)
(* live somewhere (relocateRecord copies before it puts its tombstone, and *)
(* puts it over the version it read).                                      *)
THEOREM UpdatesSurvive == RelocationSpec => []LastUpdateSurvives
<1>1. RelocationInv => LastUpdateSurvives
  BY DEF RelocationInv, UpdateIsSafe, HasTheUpdate, LastUpdateSurvives
<1> QED BY <1>1, RelocationInvariance, PTL
----------------------------------------
(* Lookups that nothing disturbs. *)

(* What a lookup has established that no put has disturbed since it began: *)
(* its site has no live copy, nor have the peers it has scanned.           *)
CalmSound(here, k) ==
  k.calm =>
    /\ k.phase \in {"found", "located"} => here[k.at].kind = "live"
    /\ k.phase \in {"hop", "scan"} => here[k.site].kind # "live"
    /\ k.phase = "scan" => \A i \in 1..Len(Peers(k.site)) :
                             i < k.count => here[Peers(k.site)[i]].kind # "live"

CalmIsSound == \A u \in Users : CalmSound(copies, user[u])

(* "An image resides where its backend session does": on one node. *)
OneImageNode == \A n, peer \in ImageNodes : n = peer

(* A node that is not the site is one of its peers. *)
LEMMA PeersAreAllOthers ==
  ASSUME NEW site \in Nodes, NEW n \in Nodes \ {site}
  PROVE  \E j \in 1..Len(Peers(site)) : Peers(site)[j] = n
<1>1. PICK i, j : i = Index(site) /\ j = Index(n)
  OBVIOUS
<1>2. /\ i \in 1..Len(NodeOrder) /\ j \in 1..Len(NodeOrder)
      /\ NodeOrder[i] = site /\ NodeOrder[j] = n /\ i # j
  BY <1>1, IndexPoints
<1>3. Len(NodeOrder) \in Nat /\ \A k \in 1..Len(NodeOrder) : NodeOrder[k] \in Nodes
  BY NodeOrderAssumption, LenProperties, ElementOfSeq
<1>4. PICK before, after : /\ before = SubSeq(NodeOrder, 1, i - 1)
                           /\ after = SubSeq(NodeOrder, i + 1, Len(NodeOrder))
  OBVIOUS
<1>5. /\ before \in Seq(Nodes) /\ Len(before) = i - 1
      /\ \A k \in 1..(i - 1) : before[k] = NodeOrder[k]
  <2>1. \A k \in 1..(i - 1) : NodeOrder[k] \in Nodes BY <1>2, <1>3
  <2>2. i - 1 \in Int /\ 1 \in Int BY <1>2
  <2>3. /\ before \in Seq(Nodes)
        /\ Len(before) = IF 1 <= i - 1 THEN i - 1 - 1 + 1 ELSE 0
        /\ \A k \in 1..(i - 1 - 1 + 1) : before[k] = NodeOrder[1 + k - 1]
    BY <1>4, <2>1, <2>2, SubSeqProperties
  <2> QED BY <1>2, <1>3, <2>3
<1>6. /\ after \in Seq(Nodes) /\ Len(after) = Len(NodeOrder) - i
      /\ \A k \in 1..(Len(NodeOrder) - i) : after[k] = NodeOrder[i + k]
  <2>1. \A k \in (i + 1)..Len(NodeOrder) : NodeOrder[k] \in Nodes BY <1>2, <1>3
  <2>2. i + 1 \in Int /\ Len(NodeOrder) \in Int BY <1>2, <1>3
  <2>3. /\ after \in Seq(Nodes)
        /\ Len(after) = IF i + 1 <= Len(NodeOrder) THEN Len(NodeOrder) - (i + 1) + 1 ELSE 0
        /\ \A k \in 1..(Len(NodeOrder) - (i + 1) + 1) : after[k] = NodeOrder[i + 1 + k - 1]
    BY <1>4, <2>1, <2>2, SubSeqProperties
  <2> QED BY <1>2, <1>3, <2>3
<1>7. Peers(site) = before \o after BY <1>1, <1>4 DEF Peers
<1>8. /\ Len(before \o after) = Len(before) + Len(after)
      /\ \A k \in 1..(Len(before) + Len(after)) :
           (before \o after)[k] = IF k <= Len(before) THEN before[k] ELSE after[k - Len(before)]
  BY <1>5, <1>6, ConcatProperties
<1>9. CASE j < i
  <2>1. j \in 1..(Len(before) + Len(after)) /\ j <= Len(before) /\ j \in 1..(i - 1)
    BY <1>2, <1>3, <1>5, <1>6, <1>9
  <2> QED BY <1>2, <1>5, <1>7, <1>8, <2>1
<1>10. CASE j > i
  <2>1. PICK k : k = j - i
    OBVIOUS
  <2>2. /\ k \in 1..(Len(NodeOrder) - i) /\ i + k = j
        /\ j - 1 \in 1..(Len(before) + Len(after)) /\ ~(j - 1 <= Len(before))
        /\ (j - 1) - Len(before) = k
    BY <1>2, <1>3, <1>5, <1>6, <1>10, <2>1
  <2>3. (before \o after)[j - 1] = n BY <1>2, <1>6, <1>8, <2>2
  <2> QED BY <1>7, <1>8, <2>2, <2>3
<1> QED BY <1>2, <1>9, <1>10

(* The fields of a lookup's next state. *)
LEMMA AnswerFields ==
  ASSUME RelocationInv, NEW u \in Users, NEW n \in Nodes
  PROVE  /\ Locates(u, n).phase = "located" /\ Locates(u, n).at = n
         /\ Locates(u, n).calm = user[u].calm
         /\ Finds(u, n).phase = "found" /\ Finds(u, n).at = n /\ Finds(u, n).calm = user[u].calm
<1>1. PICK use \in UseType : use = user[u]
  BY UserFacts
<1>2. PICK none : none = NoNode
  OBVIOUS
<1>3. PICK k : k = [use EXCEPT !.phase = "located", !.site = none, !.at = n, !.count = 0]
  OBVIOUS
<1>4. k.phase = "located" /\ k.at = n /\ k.calm = use.calm BY <1>3 DEF UseType
<1>5. PICK j : j = [use EXCEPT !.phase = "found", !.at = n, !.count = 0]
  OBVIOUS
<1>6. j.phase = "found" /\ j.at = n /\ j.calm = use.calm BY <1>5 DEF UseType
<1> QED BY <1>1, <1>2, <1>3, <1>4, <1>5, <1>6 DEF Locates, Finds

(* A lookup at the live copy is calm. *)
LEMMA LiveIsCalm ==
  ASSUME RelocationInv, NEW u \in Users, NEW n \in Nodes, user[u].calm => LiveAt(n)
  PROVE  CalmSound(copies, Locates(u, n)) /\ CalmSound(copies, Finds(u, n))
<1>1. PICK k, j : k = Locates(u, n) /\ j = Finds(u, n)
  OBVIOUS
<1>2. /\ k.phase = "located" /\ k.at = n /\ k.calm = user[u].calm
      /\ j.phase = "found" /\ j.at = n /\ j.calm = user[u].calm
  BY <1>1, AnswerFields
<1> QED BY <1>1, <1>2 DEF CalmSound, LiveAt

(* A scan goes on past peers that hold nothing; past the last one it does  *)
(* not come undisturbed, for some node has the last update.                *)
LEMMA ScansIsCalm ==
  ASSUME RelocationInv, NEW u \in Users, Site(u) \in Nodes, NEW i \in Nat \ {0},
         user[u].calm =>
           /\ ~LiveAt(Site(u))
           /\ \A j \in 1..Len(Peers(Site(u))) : j < i => ~LiveAt(Peers(Site(u))[j])
  PROVE  CalmSound(copies, Scans(u, i))
<1>1. user[u] \in UseType /\ Len(Peers(Site(u))) \in Nat
  BY UserFacts, PeersAreNodes, LenProperties
<1>2. CASE i <= Len(Peers(Site(u)))
  <2>1. PICK k : k = [user[u] EXCEPT !.phase = "scan", !.count = i]
    OBVIOUS
  <2>2. k.phase = "scan" /\ k.count = i /\ k.site = Site(u) /\ k.calm = user[u].calm
    BY <1>1, <2>1 DEF UseType, Site
  <2>3. CalmSound(copies, k) BY <2>2 DEF CalmSound, LiveAt
  <2> QED BY <1>2, <2>1, <2>3 DEF Scans
<1>3. CASE ~(i <= Len(Peers(Site(u))))
  <2>1. Scans(u, i) = Locates(u, ImageNode(Site(u))) BY <1>3 DEF Scans
  <2>2. ~user[u].calm
    <3> SUFFICES ASSUME user[u].calm
                 PROVE  FALSE
      OBVIOUS
    <3>1. PICK n \in Nodes : LiveAt(n)
      BY DEF RelocationInv, UpdateIsSafe, HasTheUpdate
    <3>2. PICK j \in 1..Len(Peers(Site(u))) : Peers(Site(u))[j] = n
      BY <3>1, PeersAreAllOthers
    <3>3. j < i BY <1>1, <1>3
    <3> QED BY <3>1, <3>2, <3>3
  <2>3. ImageNode(Site(u)) \in Nodes BY ImageNodeIsANode
  <2> QED BY <2>1, <2>2, <2>3, LiveIsCalm
<1> QED BY <1>2, <1>3

(* Following a tombstone keeps a lookup calm. *)
LEMMA FollowIsCalm ==
  ASSUME RelocationInv, NEW u \in Users, Site(u) \in Nodes, user[u].calm => ~LiveAt(Site(u)), NEW t
  PROVE  CalmSound(copies, Follow(u, t))
<1>1. CASE t.to # Site(u) /\ user[u].count <= Len(Peers(Site(u)))
  <2>1. PICK to, count : to = t.to /\ count = user[u].count + 1
    OBVIOUS
  <2>2. PICK k : k = [user[u] EXCEPT !.phase = "hop", !.at = to, !.count = count]
    OBVIOUS
  <2>3. k.phase = "hop" /\ k.site = Site(u) /\ k.calm = user[u].calm
    BY <2>2, UserFacts DEF UseType, Site
  <2>4. CalmSound(copies, k) BY <2>3 DEF CalmSound, LiveAt
  <2> QED BY <1>1, <2>1, <2>2, <2>4 DEF Follow, Hops
<1>2. CASE ~(t.to # Site(u) /\ user[u].count <= Len(Peers(Site(u))))
  <2>1. Follow(u, t) = Scans(u, 1) BY <1>2 DEF Follow
  <2>2. CalmSound(copies, Scans(u, 1)) BY ScansIsCalm
  <2> QED BY <2>1, <2>2
<1> QED BY <1>1, <1>2
(* A lookup's step that reads the copies as they are. *)
LEMMA CalmUserStep ==
  ASSUME RelocationInv, CalmIsSound, NEW u \in Users, NEW k, CalmSound(copies, k),
         user' = [user EXCEPT ![u] = k], UNCHANGED copies
  PROVE  CalmIsSound'
<1>1. \A x \in Users : user'[x] = IF x = u THEN k ELSE user[x] BY UserFacts
<1> QED BY <1>1 DEF CalmIsSound

(* A put disturbs every lookup. *)
LEMMA NobodyIsCalm ==
  ASSUME RelocationInv, NEW k, NEW u \in Users, CalmSound(copies', k),
         user' = Disturbed \/ user' = [Disturbed EXCEPT ![u] = k]
  PROVE  CalmIsSound'
<1>1. \A x \in Users : Disturbed[x].calm = FALSE
  <2> TAKE x \in Users
  <2>1. PICK use \in UseType : use = user[x]
    BY UserFacts
  <2>2. [use EXCEPT !.calm = FALSE].calm = FALSE BY DEF UseType
  <2> QED BY <2>1, <2>2 DEF Disturbed
<1>2. DOMAIN Disturbed = Users BY DEF Disturbed
<1>3. \A x \in Users : user'[x] = Disturbed[x] \/ user'[x] = k BY <1>2
<1>4. \A x \in Users : user'[x].calm = FALSE \/ user'[x] = k BY <1>1, <1>3
<1> QED BY <1>4 DEF CalmIsSound, CalmSound

(* An idle user is calm. *)
LEMMA IdleIsCalm == \A here, seen : CalmSound(here, UserIdle(seen))
<1> TAKE here, seen
<1>1. UserIdle(seen).phase = "idle" BY DEF UserIdle
<1> QED BY <1>1 DEF CalmSound

(* A move disturbs the lookups it could mislead. *)
LEMMA MoveIsCalm ==
  ASSUME RelocationInv, CalmIsSound, NEW m \in Movers, Move(m)
  PROVE  CalmIsSound'
<1>1. (UNCHANGED <<copies, user>>) \/ user' = Disturbed
  BY DEF Move, ReadSource, ReadTarget, CopyToTarget, TombstoneSource, RetargetRead, RetargetWrite,
     Invalidate, Crash
<1>2. CASE UNCHANGED <<copies, user>>
  BY <1>2 DEF CalmIsSound
<1>3. CASE user' = Disturbed
  <2> SUFFICES ASSUME NEW u \in Users
               PROVE  CalmSound(copies', user'[u])
    BY DEF CalmIsSound
  <2>1. CalmIsSound' BY <1>3, IdleIsCalm, NobodyIsCalm
  <2> QED BY <2>1 DEF CalmIsSound
<1> QED BY <1>1, <1>2, <1>3

(* A lookup begins calm. *)
LEMMA LocateIsCalm ==
  ASSUME RelocationInv, CalmIsSound, NEW u \in Users, NEW site \in Nodes, Locate(u, site)
  PROVE  CalmIsSound'
<1>1. PICK seen \in [version : Nat, value : Nat] : seen = user[u].observed
  BY UserFacts DEF UseType
<1>2. PICK start \in UseType : start = [UserIdle(seen) EXCEPT !.site = site]
  BY IdleUserIsSound
<1>3. PICK n, none : n = cache[site] /\ none = NoNode
  OBVIOUS
<1>4. PICK k, j : /\ k = [start EXCEPT !.phase = "located", !.site = none, !.at = n, !.calm = FALSE]
                  /\ j = [start EXCEPT !.phase = "local"]
  OBVIOUS
<1>5. k.calm = FALSE /\ j.phase = "local" BY <1>4 DEF UseType
<1>6. CalmSound(copies, k) /\ CalmSound(copies, j) BY <1>5 DEF CalmSound
<1>7. user' = [user EXCEPT ![u] = k] \/ user' = [user EXCEPT ![u] = j]
  BY <1>1, <1>2, <1>3, <1>4 DEF Locate, Locating
<1>8. UNCHANGED copies BY DEF Locate
<1> QED BY <1>6, <1>7, <1>8, CalmUserStep

(* Asking its own node keeps a lookup calm. *)
LEMMA LocateLocalIsCalm ==
  ASSUME RelocationInv, CalmIsSound, NEW u \in Users, LocateLocal(u)
  PROVE  CalmIsSound'
<1>1. PICK n : n = Site(u)
  OBVIOUS
<1>2. n \in Nodes /\ Site(u) \in Nodes
  BY <1>1, UserFacts DEF LocateLocal, UseSound, Site
<1>3. UNCHANGED copies BY DEF LocateLocal, LookupStep
<1>4. CASE LiveAt(n)
  <2>1. Locating(u, IF n \in ImageNodes THEN Locates(u, ImageNode(n)) ELSE Finds(u, n))
    BY <1>1, <1>4 DEF LocateLocal
  <2>2. Locating(u, Locates(u, n)) \/ Locating(u, Finds(u, n))
    BY <2>1 DEF ImageNode
  <2> QED BY <1>2, <1>3, <1>4, <2>2, LiveIsCalm, CalmUserStep DEF Locating
<1>5. CASE ~LiveAt(n)
  <2>1. Locating(u, IF copies[n].kind = "relocated" THEN Follow(u, copies[n]) ELSE Scans(u, 1))
    BY <1>1, <1>5 DEF LocateLocal
  <2>2. CalmSound(copies, Follow(u, copies[n]))
    BY <1>1, <1>2, <1>5, FollowIsCalm
  <2>3. CalmSound(copies, Scans(u, 1)) BY <1>1, <1>2, <1>5, ScansIsCalm
  <2> QED BY <1>3, <2>1, <2>2, <2>3, CalmUserStep DEF Locating
<1> QED BY <1>4, <1>5

(* A hop keeps a lookup calm. *)
LEMMA LocateHopIsCalm ==
  ASSUME RelocationInv, CalmIsSound, NEW u \in Users, LocateHop(u)
  PROVE  CalmIsSound'
<1>1. PICK n : n = user[u].at
  OBVIOUS
<1>2. n \in Nodes /\ Site(u) \in Nodes
  BY <1>1, UserFacts DEF LocateHop, UseSound, Site
<1>3. UNCHANGED copies BY DEF LocateHop, LookupStep
<1>4. user[u].calm => ~LiveAt(Site(u))
  BY DEF LocateHop, CalmIsSound, CalmSound, LiveAt, Site
<1>5. CASE LiveAt(n)
  <2>1. Locating(u, Finds(u, n)) BY <1>1, <1>5 DEF LocateHop
  <2> QED BY <1>2, <1>3, <1>5, <2>1, LiveIsCalm, CalmUserStep DEF Locating
<1>6. CASE ~LiveAt(n)
  <2>1. Locating(u, IF copies[n].kind = "relocated" THEN Follow(u, copies[n]) ELSE Scans(u, 1))
    BY <1>1, <1>6 DEF LocateHop
  <2>2. CalmSound(copies, Follow(u, copies[n])) BY <1>2, <1>4, FollowIsCalm
  <2>3. CalmSound(copies, Scans(u, 1)) BY <1>2, <1>4, ScansIsCalm
  <2> QED BY <1>3, <2>1, <2>2, <2>3, CalmUserStep DEF Locating
<1> QED BY <1>5, <1>6

(* A scan keeps a lookup calm. *)
LEMMA LocateScanIsCalm ==
  ASSUME RelocationInv, OneImageNode, CalmIsSound, NEW u \in Users, LocateScan(u)
  PROVE  CalmIsSound'
<1>1. PICK i, n : i = user[u].count /\ n = Peers(Site(u))[i]
  OBVIOUS
<1>2. Site(u) \in Nodes /\ i \in 1..Len(Peers(Site(u)))
  BY <1>1, UserFacts DEF LocateScan, UseSound, Site
<1>3. Peers(Site(u)) \in Seq(Nodes) /\ Len(Peers(Site(u))) \in Nat
  BY <1>2, PeersAreNodes, LenProperties
<1>4. n \in Nodes /\ i + 1 \in Nat \ {0}
  <2>1. Peers(Site(u))[i] \in Nodes BY <1>2, <1>3, ElementOfSeq
  <2> QED BY <1>1, <1>2, <1>3, <2>1
<1>5. UNCHANGED copies BY DEF LocateScan, LookupStep
<1>6. user[u].calm =>
        /\ ~LiveAt(Site(u))
        /\ \A j \in 1..Len(Peers(Site(u))) : j < i => ~LiveAt(Peers(Site(u))[j])
  BY <1>1 DEF LocateScan, CalmIsSound, CalmSound, LiveAt, Site
<1>7. CASE LiveAt(n)
  <2>1. CASE n \in ImageNodes
    <3>1. Locating(u, Locates(u, ImageNode(Site(u))))
      BY <1>1, <1>7, <2>1 DEF LocateScan
    <3>2. user[u].calm => ImageNode(Site(u)) = n
      BY <1>6, <1>7, <2>1, FirstImageNodeIsOne DEF OneImageNode, ImageNode
    <3>3. ImageNode(Site(u)) \in Nodes BY <1>2, ImageNodeIsANode
    <3>4. CalmSound(copies, Locates(u, ImageNode(Site(u))))
      BY <1>7, <3>2, <3>3, LiveIsCalm
    <3> QED BY <1>5, <3>1, <3>4, CalmUserStep DEF Locating
  <2>2. CASE n \notin ImageNodes
    <3>1. Locating(u, Finds(u, n)) BY <1>1, <1>7, <2>2 DEF LocateScan
    <3> QED BY <1>4, <1>5, <1>7, <3>1, LiveIsCalm, CalmUserStep DEF Locating
  <2> QED BY <2>1, <2>2
<1>8. CASE ~LiveAt(n)
  <2>1. Locating(u, Scans(u, i + 1)) BY <1>1, <1>8 DEF LocateScan
  <2>2. \A j \in 1..Len(Peers(Site(u))) : j < i + 1 => j < i \/ j = i
    BY <1>2, <1>3
  <2>3. CalmSound(copies, Scans(u, i + 1))
    BY <1>1, <1>2, <1>4, <1>6, <1>8, <2>2, ScansIsCalm
  <2> QED BY <1>5, <2>1, <2>3, CalmUserStep DEF Locating
<1> QED BY <1>7, <1>8

(* An answered lookup is over. *)
LEMMA AnswerIsCalm ==
  ASSUME RelocationInv, CalmIsSound, NEW u \in Users,
         \/ Remember(u)
         \/ Read(u)
         \/ \E expected : Write(u, expected)
  PROVE  CalmIsSound'
<1>1. ASSUME Remember(u)
      PROVE  CalmIsSound'
  <2>1. PICK n \in Nodes : n = user[u].at
    BY <1>1, UserFacts DEF Remember, UseSound
  <2>2. user[u].calm => LiveAt(n)
    BY <1>1, <2>1 DEF Remember, CalmIsSound, CalmSound, LiveAt
  <2>3. Locating(u, Locates(u, n)) /\ UNCHANGED copies
    BY <1>1, <2>1 DEF Remember
  <2> QED BY <2>2, <2>3, LiveIsCalm, CalmUserStep DEF Locating
<1>2. ASSUME Read(u)
      PROVE  CalmIsSound'
  <2>1. PICK seen : Locating(u, UserIdle(seen)) /\ UNCHANGED copies
    BY <1>2 DEF Read, LookupStep
  <2> QED BY <2>1, IdleIsCalm, CalmUserStep DEF Locating
<1>3. ASSUME NEW expected, Write(u, expected)
      PROVE  CalmIsSound'
  <2>1. PICK k : k = UserIdle(user[u].observed)
    OBVIOUS
  <2>2. CalmSound(copies, k) /\ CalmSound(copies', k) BY <2>1, IdleIsCalm
  <2>3. (Locating(u, k) /\ UNCHANGED copies) \/ user' = [Disturbed EXCEPT ![u] = k]
    BY <1>3, <2>1 DEF Write
  <2> QED BY <2>2, <2>3, CalmUserStep, NobodyIsCalm DEF Locating
<1> QED BY <1>1, <1>2, <1>3

(* A lookup that no move and no write disturbed ends at a live copy, from  *)
(* any node, over whatever tombstones moves and crashes have left, for any *)
(* nodes of which one has the image (ObjectLocator.locate: hop limit, scan *)
(* of the peers, then the image).                                          *)
THEOREM CalmLookupsEndAtTheRecord ==
  ASSUME OneImageNode
  PROVE  RelocationSpec => []CalmLookupFindsTheRecord
<1>1. RelocationInit => CalmIsSound
  BY IdleIsCalm DEF RelocationInit, CalmIsSound
<1>2. RelocationInv /\ CalmIsSound /\ [RelocationNext]_relocationVars => CalmIsSound'
  <2> SUFFICES ASSUME RelocationInv, CalmIsSound, [RelocationNext]_relocationVars
               PROVE  CalmIsSound'
    OBVIOUS
  <2>1. CASE UNCHANGED relocationVars
    BY <2>1 DEF relocationVars, CalmIsSound
  <2>2. ASSUME NEW u \in Users, Use(u)
        PROVE  CalmIsSound'
    BY <2>2, LocateIsCalm, LocateLocalIsCalm, LocateHopIsCalm, LocateScanIsCalm, AnswerIsCalm DEF Use
  <2> QED BY <2>1, <2>2, MoveIsCalm DEF RelocationNext
<1>3. CalmIsSound => CalmLookupFindsTheRecord
  BY DEF CalmIsSound, CalmSound, CalmLookupFindsTheRecord, LiveAt
<1> QED BY <1>1, <1>2, <1>3, RelocationInvariance, PTL DEF RelocationSpec

----------------------------------------
(* The image service.  The types of an image and of its events. *)
Images == [version : Nat, root : Ids \cup {NoId}]

Events ==
  [type : {"put", "swept"}, subject : Ids, record : Records]
    \cup [type : {"image.created", "image.root-set"}, subject : {NoId}, record : Images]

TypesHold ==
  /\ recs \in [Ids -> Records]
  /\ \A id \in Ids : recs[id].id = id
  /\ image \in Images
  /\ history \in Seq(Events)
  /\ DOMAIN op = Clients

(* The event that tells of the record of an id: no later one is about it. *)
Tells(events, i, id) ==
  /\ i \in 1..Len(events) /\ events[i].subject = id
  /\ \A j \in (i + 1)..Len(events) : events[j].subject # id

HistoryTells ==
  \A id \in Ids :
    \/ recs[id] = Absent(id) /\ \A i \in 1..Len(history) : history[i].subject # id
    \/ \E i \in 1..Len(history) : Tells(history, i, id) /\ history[i].record = recs[id]

UnwrittenIsAbsent == \A id \in Ids : recs[id].version = 0 => ~Live(recs[id])

WrittenOnce == {"shape", "code-artifact", "block"}

WasThere(events, check) ==
  \E i \in 1..Len(events) : events[i].subject = check.id /\ Satisfies(events[i].record, check)

InBatch(batch, check) == \E x \in Range(batch) : x.id = check.id /\ Satisfies(x, check)

(* A version expected of a record is its version, or an older one. *)
NotAhead(records, expected, id) == expected \in Nat /\ expected <= records[id].version

(* What an operation that is about to commit a batch has established: which*)
(* versions it may expect, what its refs named when they were checked, and *)
(* that an environment it would replace has the layout it keeps.           *)
BatchIsSound(records, events, o) ==
  /\ o = [phase |-> "check", batch |-> o.batch, expected |-> o.expected, todo |-> o.todo]
  /\ o.batch \in Seq(Candidates)
  /\ o.todo \subseteq Places(o.batch)
  /\ \A x \in Range(o.batch) : x.kind \in WrittenOnce => o.expected = 0
  /\ \A x \in Range(o.batch) : x.kind = "lexical-environment" =>
       /\ NotAhead(records, o.expected, x.id)
       /\ o.expected = records[x.id].version => LayoutCompatible(records[x.id], x)
  /\ \A place \in Places(o.batch) \ o.todo :
       WasThere(events, CheckAt(o.batch, place)) \/ InBatch(o.batch, CheckAt(o.batch, place))

OpIsSound(records, events, o) ==
  /\ o.phase \in {"idle", "create", "read-current", "check", "root", "set-root",
                  "collect", "condemn", "sweep"}
  /\ o.phase = "check" => BatchIsSound(records, events, o)
  /\ o.phase = "read-current" =>
       /\ o.record \in Candidates /\ o.record.kind = "lexical-environment"
       /\ o.expected = Unconditional \/ NotAhead(records, o.expected, o.record.id)
  /\ o.phase \in {"root", "set-root"} =>
       /\ o = [phase |-> o.phase, id |-> o.id, expected |-> o.expected]
       /\ o.id \in Ids /\ o.expected \in Nat
  /\ o.phase \in {"condemn", "sweep"} => o.ids \subseteq Ids

OpsAreSound == \A c \in Clients : OpIsSound(recs, history, op[c])

ImageInv == TypesHold /\ HistoryTells /\ UnwrittenIsAbsent /\ InsertedOnce /\ OpsAreSound

----------------------------------------
(* The sequence of a finite set has each of its elements once. *)
LEMMA SetToSeqOnce ==
  ASSUME NEW S, IsFiniteSet(S)
  PROVE  /\ SetToSeq(S) \in Seq(S)
         /\ \A i, j \in 1..Len(SetToSeq(S)) : SetToSeq(S)[i] = SetToSeq(S)[j] => i = j
         /\ \A x \in S : \E i \in 1..Len(SetToSeq(S)) : SetToSeq(S)[i] = x
<1>1. PICK n \in Nat : n = Cardinality(S) /\ ExistsBijection(1..n, S)
  BY FS_CardinalityType
<1>2. \E f \in [1..n -> S] : IsInjective(f)
  BY <1>1 DEF ExistsBijection, Bijection, Injection
<1>3. PICK f : f = SetToSeq(S)
  OBVIOUS
<1>4. f \in [1..n -> S] /\ IsInjective(f) BY <1>1, <1>2, <1>3 DEF SetToSeq
<1>5. f \in Injection(1..n, S) BY <1>4 DEF Injection
<1>6. Cardinality(1..n) = n BY FS_Interval
<1>7. f \in Surjection(1..n, S) BY <1>1, <1>5, <1>6, FS_Injection
<1>8. f \in Seq(S) /\ Len(f) = n BY <1>4
<1> QED BY <1>3, <1>4, <1>7, <1>8 DEF IsInjective, Surjection

(* A later history: the old one, then the new events. *)
Continues(later, old, new) ==
  /\ later \in Seq(Events)
  /\ Len(old) \in Nat /\ Len(new) \in Nat
  /\ Len(later) = Len(old) + Len(new)
  /\ \A i \in 1..Len(old) : later[i] = old[i]
  /\ \A i \in 1..Len(new) : later[Len(old) + i] = new[i]
  /\ \A i \in 1..Len(later) : i \in 1..Len(old) \/ \E k \in 1..Len(new) : i = Len(old) + k

(* The events appended after a history follow it. *)
LEMMA Appended ==
  ASSUME NEW old \in Seq(Events), NEW new \in Seq(Events)
  PROVE  Continues(old \o new, old, new)
<1>1. /\ old \o new \in Seq(Events)
      /\ Len(old) \in Nat /\ Len(new) \in Nat
      /\ Len(old \o new) = Len(old) + Len(new)
      /\ \A i \in 1..(Len(old) + Len(new)) :
           (old \o new)[i] = IF i <= Len(old) THEN old[i] ELSE new[i - Len(old)]
  BY ConcatProperties, LenProperties
<1>2. \A i \in 1..Len(new) : (old \o new)[Len(old) + i] = new[i]
  <2> TAKE i \in 1..Len(new)
  <2>1. Len(old) + i \in 1..(Len(old) + Len(new)) /\ ~(Len(old) + i <= Len(old))
    BY <1>1
  <2>2. (Len(old) + i) - Len(old) = i BY <1>1
  <2> QED BY <1>1, <2>1, <2>2
<1>3. \A i \in 1..(Len(old) + Len(new)) :
        i \in 1..Len(old) \/ \E k \in 1..Len(new) : i = Len(old) + k
  <2> TAKE i \in 1..(Len(old) + Len(new))
  <2>1. CASE i <= Len(old)
    BY <1>1, <2>1
  <2>2. CASE ~(i <= Len(old))
    <3>1. i - Len(old) \in 1..Len(new) /\ i = Len(old) + (i - Len(old))
      BY <1>1, <2>2
    <3> QED BY <3>1
  <2> QED BY <2>1, <2>2
<1>4. \A i \in 1..Len(old) : (old \o new)[i] = old[i] BY <1>1
<1> QED BY <1>1, <1>2, <1>3, <1>4 DEF Continues

(* Candidates and the events have the fields the definitions look at. *)
LEMMA CandidateFields ==
  ASSUME NEW x \in Candidates
  PROVE  x.id \in Ids /\ x.kind \in Kinds /\ x.layout \in Layouts /\ x.refs \in Seq(Refs)
BY CandidatesAssumption

(* An operation goes on; nothing is written. *)
LEMMA GotoKeeps ==
  ASSUME ImageInv, NEW c \in Clients, NEW o, OpIsSound(recs, history, o), Goto(c, o)
  PROVE  ImageInv'
<1>1. op' = [op EXCEPT ![c] = o] /\ UNCHANGED <<recs, image, history>>
  BY DEF Goto
<1>2. DOMAIN op' = Clients /\ \A x \in Clients : op'[x] = IF x = c THEN o ELSE op[x]
  BY <1>1 DEF ImageInv, TypesHold
<1>3. TypesHold' /\ HistoryTells' /\ UnwrittenIsAbsent' /\ InsertedOnce'
  BY <1>1, <1>2 DEF ImageInv, TypesHold, HistoryTells, UnwrittenIsAbsent, InsertedOnce
<1>4. OpsAreSound' BY <1>1, <1>2 DEF ImageInv, OpsAreSound
<1> QED BY <1>3, <1>4 DEF ImageInv

(* An idle client has checked nothing. *)
LEMMA IdleClientIsSound == \A records, events : OpIsSound(records, events, Idle)
BY DEF OpIsSound, Idle

(* A refused operation leaves the image as it is. *)
LEMMA RejectKeeps ==
  ASSUME ImageInv, NEW c \in Clients, Reject(c)
  PROVE  ImageInv'
BY GotoKeeps, IdleClientIsSound DEF Reject

(* What an operation has established stands when another one commits: a    *)
(* record that changed has a version nobody expects yet, and the history   *)
(* only grows.                                                             *)
LEMMA SoundnessStands ==
  ASSUME NEW records, NEW later, NEW events \in Seq(Events), NEW new \in Seq(Events),
         records \in [Ids -> Records], later \in [Ids -> Records],
         \A id \in Ids : later[id] = records[id] \/ later[id].version > records[id].version,
         NEW o, OpIsSound(records, events, o)
  PROVE  OpIsSound(later, events \o new, o)
<1>1. \A id \in Ids : records[id].version \in Nat /\ later[id].version \in Nat
  BY DEF Records
<1>2. \A expected, id : id \in Ids /\ NotAhead(records, expected, id)
        => /\ NotAhead(later, expected, id)
           /\ expected = later[id].version => later[id] = records[id]
  BY <1>1 DEF NotAhead
<1>3. \A check : WasThere(events, check) => WasThere(events \o new, check)
  <2> TAKE check
  <2> HAVE WasThere(events, check)
  <2>1. PICK i \in 1..Len(events) : events[i].subject = check.id /\ Satisfies(events[i].record, check)
    BY DEF WasThere
  <2>2. i \in 1..Len(events \o new) /\ (events \o new)[i] = events[i]
    <3>1. Continues(events \o new, events, new) BY Appended
    <3> QED BY <2>1, <3>1 DEF Continues
  <2> QED BY <2>1, <2>2 DEF WasThere
<1>4. ASSUME o.phase = "check"
      PROVE  BatchIsSound(later, events \o new, o)
  <2>1. BatchIsSound(records, events, o) BY <1>4 DEF OpIsSound
  <2>2. \A x \in Range(o.batch) : x \in Candidates /\ x.id \in Ids
    <3>1. o.batch \in Seq(Candidates) BY <2>1 DEF BatchIsSound
    <3>2. \A i \in DOMAIN o.batch : o.batch[i] \in Candidates BY <3>1
    <3> QED BY <3>2, CandidateFields DEF Range
  <2>3. \A x \in Range(o.batch) : x.kind = "lexical-environment" =>
          /\ NotAhead(later, o.expected, x.id)
          /\ o.expected = later[x.id].version => LayoutCompatible(later[x.id], x)
    <3> TAKE x \in Range(o.batch)
    <3> HAVE x.kind = "lexical-environment"
    <3>1. /\ NotAhead(records, o.expected, x.id) /\ x.id \in Ids
          /\ o.expected = records[x.id].version => LayoutCompatible(records[x.id], x)
      BY <2>1, <2>2 DEF BatchIsSound
    <3> QED BY <1>2, <3>1
  <2> QED BY <1>3, <2>1, <2>3 DEF BatchIsSound
<1>5. ASSUME o.phase = "read-current"
      PROVE  o.expected = Unconditional \/ NotAhead(later, o.expected, o.record.id)
  BY <1>2, <1>5, CandidateFields DEF OpIsSound
<1> QED BY <1>4, <1>5 DEF OpIsSound

----------------------------------------
(* A commit: what the records become is what its events tell. *)
LEMMA CommitKeeps ==
  ASSUME ImageInv, NEW c \in Clients, NEW new \in Seq(Events),
         recs' \in [Ids -> Records], \A id \in Ids : recs'[id].id = id,
         image' \in Images,
         history' = history \o new,
         op' = [op EXCEPT ![c] = Idle],
         \A i \in 1..Len(new) :
           new[i].type = "put" /\ new[i].record.kind \in WrittenOnce => new[i].record.version = 1,
         \A id \in Ids :
           \/ recs'[id] = recs[id] /\ \A i \in 1..Len(new) : new[i].subject # id
           \/ /\ recs'[id].version > recs[id].version
              /\ \E i \in 1..Len(new) : Tells(new, i, id) /\ new[i].record = recs'[id]
  PROVE  ImageInv'
<1>1. /\ history \in Seq(Events) /\ recs \in [Ids -> Records] /\ DOMAIN op = Clients
  BY DEF ImageInv, TypesHold
<1>0. Continues(history', history, new) BY <1>1, Appended
<1>2. /\ history' \in Seq(Events)
      /\ Len(history) \in Nat /\ Len(new) \in Nat
      /\ Len(history') = Len(history) + Len(new)
      /\ \A i \in 1..Len(history) : history'[i] = history[i]
      /\ \A i \in 1..Len(new) : history'[Len(history) + i] = new[i]
      /\ \A i \in 1..Len(history') : i \in 1..Len(history) \/ \E k \in 1..Len(new) : i = Len(history) + k
  BY <1>0 DEF Continues
<1>3. TypesHold' BY <1>1, <1>2 DEF TypesHold
<1>4. HistoryTells'
  <2> SUFFICES ASSUME NEW id \in Ids
               PROVE  \/ recs'[id] = Absent(id) /\ \A i \in 1..Len(history') : history'[i].subject # id
                      \/ \E i \in 1..Len(history') : Tells(history', i, id) /\ history'[i].record = recs'[id]
    BY DEF HistoryTells, Absent
  <2>1. CASE recs'[id] = recs[id] /\ \A i \in 1..Len(new) : new[i].subject # id
    <3>1. CASE recs[id] = Absent(id) /\ \A i \in 1..Len(history) : history[i].subject # id
      BY <1>2, <2>1, <3>1
    <3>2. CASE \E i \in 1..Len(history) : Tells(history, i, id) /\ history[i].record = recs[id]
      <4>1. PICK i \in 1..Len(history) : Tells(history, i, id) /\ history[i].record = recs[id]
        BY <3>2
      <4>2. i \in 1..Len(history') /\ history'[i].subject = id /\ history'[i].record = recs'[id]
        BY <1>2, <2>1, <4>1 DEF Tells
      <4>3. ASSUME NEW j \in (i + 1)..Len(history')
            PROVE  history'[j].subject # id
        <5>1. j \in 1..Len(history') BY <1>2, <4>1
        <5>2. CASE j \in 1..Len(history)
          <6>1. j \in (i + 1)..Len(history) BY <1>2, <4>1, <5>2
          <6> QED BY <1>2, <4>1, <5>2, <6>1 DEF Tells
        <5>3. CASE \E k \in 1..Len(new) : j = Len(history) + k
          BY <1>2, <2>1, <5>3
        <5> QED BY <1>2, <5>1, <5>2, <5>3
      <4>4. Tells(history', i, id) BY <4>2, <4>3 DEF Tells
      <4> QED BY <4>2, <4>4
    <3> QED BY <3>1, <3>2 DEF ImageInv, HistoryTells
  <2>2. CASE \E i \in 1..Len(new) : Tells(new, i, id) /\ new[i].record = recs'[id]
    <3>1. PICK i \in 1..Len(new) : Tells(new, i, id) /\ new[i].record = recs'[id]
      BY <2>2
    <3>2. PICK place : place = Len(history) + i
      OBVIOUS
    <3>3. place \in 1..Len(history') /\ history'[place].subject = id /\ history'[place].record = recs'[id]
      BY <1>2, <3>1, <3>2 DEF Tells
    <3>4. ASSUME NEW j \in (place + 1)..Len(history')
          PROVE  history'[j].subject # id
      <4>1. j \in 1..Len(history') /\ ~(j \in 1..Len(history)) BY <1>2, <3>2
      <4>2. PICK k \in 1..Len(new) : j = Len(history) + k
        BY <1>2, <4>1
      <4>3. k \in (i + 1)..Len(new) BY <1>2, <3>2, <4>2
      <4> QED BY <1>2, <3>1, <4>2, <4>3 DEF Tells
    <3>5. Tells(history', place, id) BY <3>3, <3>4 DEF Tells
    <3> QED BY <3>3, <3>5
  <2> QED BY <2>1, <2>2
<1>5. InsertedOnce'
  <2> SUFFICES ASSUME NEW i \in 1..Len(history'), history'[i].type = "put",
                      history'[i].record.kind \in WrittenOnce
               PROVE  history'[i].record.version = 1
    BY DEF InsertedOnce, WrittenOnce
  <2>1. CASE i \in 1..Len(history)
    <3>1. history'[i] = history[i] BY <1>2, <2>1
    <3> QED BY <2>1, <3>1 DEF ImageInv, InsertedOnce, WrittenOnce
  <2>2. CASE \E k \in 1..Len(new) : i = Len(history) + k
    BY <1>2, <2>2
  <2> QED BY <1>2, <2>1, <2>2
<1>6. OpsAreSound'
  <2> SUFFICES ASSUME NEW x \in Clients
               PROVE  OpIsSound(recs', history', op'[x])
    BY DEF OpsAreSound
  <2>1. op'[x] = IF x = c THEN Idle ELSE op[x] BY <1>1
  <2>2. PICK o : o = op[x]
    OBVIOUS
  <2>3. OpIsSound(recs, history, o) BY <2>2 DEF ImageInv, OpsAreSound
  <2>4. PICK later : later = recs'
    OBVIOUS
  <2>5. later \in [Ids -> Records] /\ \A id \in Ids : later[id] = recs[id] \/ later[id].version > recs[id].version
    BY <2>4
  <2>6. OpIsSound(later, history \o new, o) BY <1>1, <2>3, <2>5, SoundnessStands
  <2> QED BY <2>1, <2>2, <2>4, <2>6, IdleClientIsSound
<1>7. UnwrittenIsAbsent'
  <2>1. \A id \in Ids : recs[id].version \in Nat /\ recs'[id].version \in Nat
    BY <1>1 DEF Records
  <2> QED BY <2>1 DEF ImageInv, UnwrittenIsAbsent
<1> QED BY <1>3, <1>4, <1>5, <1>6, <1>7 DEF ImageInv

(* A commit that conflicts, or finds a record gone, writes nothing. *)
LEMMA ConflictKeeps ==
  ASSUME ImageInv, NEW c \in Clients, op' = [op EXCEPT ![c] = Idle],
         UNCHANGED <<recs, history, image>>
  PROVE  ImageInv'
BY GotoKeeps, IdleClientIsSound DEF Goto

(* A write of the image record keeps the invariant. *)
LEMMA WriteImageKeeps ==
  ASSUME ImageInv, NEW c \in Clients, NEW type \in {"image.created", "image.root-set"},
         NEW expected \in Nat, NEW root \in Ids \cup {NoId},
         WriteImage(c, type, expected, root)
  PROVE  ImageInv'
<1>1. op' = [op EXCEPT ![c] = Idle] /\ UNCHANGED recs BY DEF WriteImage
<1>2. CASE image.version # expected
  BY <1>1, <1>2, ConflictKeeps DEF WriteImage
<1>3. CASE image.version = expected
  <2>1. PICK i : i = [version |-> expected + 1, root |-> root]
    OBVIOUS
  <2>2. i \in Images BY <2>1 DEF Images
  <2>3. PICK e : e = ImageEvent(type, i)
    OBVIOUS
  <2>4. e \in Events /\ e.subject = NoId /\ e.type # "put"
    BY <2>2, <2>3 DEF Events, ImageEvent
  <2>5. image' = i /\ history' = Append(history, e)
    BY <1>3, <2>1, <2>3 DEF WriteImage
  <2>6. <<e>> \in Seq(Events) BY <2>4
  <2>17. PICK new : new \in Seq(Events) /\ new = <<e>>
    BY <2>6
  <2>7. history' = history \o new
    BY <2>4, <2>5, <2>17, AppendIsConcat DEF ImageInv, TypesHold
  <2>8. Len(new) = 1 /\ new[1] = e BY <2>17
  <2>9. \A j \in 1..Len(new) : new[j].type # "put" /\ \A id \in Ids : new[j].subject # id
    BY <2>4, <2>8, NoIdAssumption
  <2>10. recs' \in [Ids -> Records] /\ \A id \in Ids : recs'[id].id = id /\ recs'[id] = recs[id]
    BY <1>1 DEF ImageInv, TypesHold
  <2>11. \A id \in Ids : recs'[id] = recs[id] /\ \A j \in 1..Len(new) : new[j].subject # id
    BY <2>9, <2>10
  <2>12. \A j \in 1..Len(new) : new[j].type = "put" /\ new[j].record.kind \in WrittenOnce
            => new[j].record.version = 1
    BY <2>9
  <2>13. image' \in Images BY <2>2, <2>5
  <2>14. op' = [op EXCEPT ![c] = Idle] BY <1>1
  <2>15. recs' \in [Ids -> Records] /\ \A id \in Ids : recs'[id].id = id
    BY <2>10
  <2>16. new \in Seq(Events) BY <2>17
  <2> QED BY <2>7, <2>11, <2>12, <2>13, <2>14, <2>15, <2>16, CommitKeeps
<1> QED BY <1>2, <1>3

(* What the member of a batch is stored as. *)
LEMMA StoredIsARecord ==
  ASSUME ImageInv, NEW x \in Candidates
  PROVE  /\ Stored(x) \in Records
         /\ Stored(x).id = x.id /\ Stored(x).kind = x.kind /\ Stored(x).layout = x.layout
         /\ Stored(x).refs = x.refs
         /\ Stored(x).version = recs[x.id].version + 1 /\ recs[x.id].version \in Nat
<1>1. x.id \in Ids /\ x.kind \in Kinds /\ x.layout \in Layouts /\ x.refs \in Seq(Refs)
  BY CandidateFields
<1>2. recs[x.id].version \in Nat BY <1>1 DEF ImageInv, TypesHold, Records
<1> QED BY <1>1, <1>2 DEF Stored, Records

PutEvents(batch) == [i \in 1..Len(batch) |-> RecordEvent("put", Stored(batch[i]))]

Written(batch, new) ==
  /\ new \in Seq(Events) /\ Len(new) = Len(batch) /\ Len(batch) \in Nat
  /\ history' = history \o new
  /\ \A i \in 1..Len(batch) :
       /\ batch[i] \in Candidates
       /\ new[i].type = "put" /\ new[i].subject = batch[i].id /\ new[i].record = Stored(batch[i])
       /\ recs'[batch[i].id] = Stored(batch[i])
  /\ \A id \in Ids : (\A i \in 1..Len(batch) : batch[i].id # id) => recs'[id] = recs[id]
  /\ recs' \in [Ids -> Records] /\ \A id \in Ids : recs'[id].id = id

(* What a batch that is fresh writes: each member at its id, and an event. *)
LEMMA BatchWrites ==
  ASSUME ImageInv, NEW batch \in Seq(Candidates), NEW expected,
         Fresh(batch, expected), WriteBatch(batch),
         NEW new, new = PutEvents(batch)
  PROVE  Written(batch, new)
<1>1. Len(batch) \in Nat /\ DOMAIN batch = 1..Len(batch) /\ \A i \in 1..Len(batch) : batch[i] \in Candidates
  BY LenProperties, ElementOfSeq
<1>2. \A x \in Range(batch) : x \in Candidates BY <1>1 DEF Range
<1>3. ASSUME NEW i \in 1..Len(batch)
      PROVE  /\ RecordEvent("put", Stored(batch[i])) \in Events
             /\ RecordEvent("put", Stored(batch[i])).type = "put"
             /\ RecordEvent("put", Stored(batch[i])).subject = batch[i].id
             /\ RecordEvent("put", Stored(batch[i])).record = Stored(batch[i])
  <2>1. PICK rec : rec = Stored(batch[i])
    OBVIOUS
  <2>2. rec \in Records /\ rec.id = batch[i].id /\ rec.id \in Ids
    BY <1>1, <2>1, StoredIsARecord, CandidateFields
  <2> QED BY <2>1, <2>2 DEF RecordEvent, Events
<1>4. new \in [1..Len(batch) -> Events] BY <1>3 DEF PutEvents
<1>5. new \in Seq(Events) /\ Len(new) = Len(batch) BY <1>1, <1>4
<1>6. \A i \in 1..Len(batch) :
        new[i].type = "put" /\ new[i].subject = batch[i].id /\ new[i].record = Stored(batch[i])
  BY <1>3 DEF PutEvents
<1>7. history' = history \o new BY DEF WriteBatch, PutEvents
<1>8. \A i, j \in 1..Len(batch) : batch[i].id = batch[j].id => i = j
  BY <1>1 DEF Fresh
<1>9. recs' = [id \in Ids |-> IF \E x \in Range(batch) : x.id = id
                              THEN Stored(CHOOSE x \in Range(batch) : x.id = id)
                              ELSE recs[id]]
  BY DEF WriteBatch
<1>10. ASSUME NEW i \in 1..Len(batch)
       PROVE  recs'[batch[i].id] = Stored(batch[i])
  <2>1. PICK id \in Ids : id = batch[i].id
    BY <1>1, CandidateFields
  <2>2. batch[i] \in Range(batch) BY <1>1 DEF Range
  <2>3. \A x \in Range(batch) : x.id = id => x = batch[i]
    BY <1>1, <1>8, <2>1 DEF Range
  <2>4. (CHOOSE x \in Range(batch) : x.id = id) = batch[i] BY <2>1, <2>2, <2>3
  <2>5. \E x \in Range(batch) : x.id = id BY <2>1, <2>2
  <2> QED BY <1>9, <2>1, <2>4, <2>5
<1>11. ASSUME NEW id \in Ids, \A i \in 1..Len(batch) : batch[i].id # id
       PROVE  recs'[id] = recs[id]
  <2>1. ~\E x \in Range(batch) : x.id = id BY <1>1, <1>11 DEF Range
  <2> QED BY <1>9, <2>1
<1>12. \A id \in Ids : recs'[id] \in Records /\ recs'[id].id = id
  <2> TAKE id \in Ids
  <2>1. CASE \A i \in 1..Len(batch) : batch[i].id # id
    BY <1>11, <2>1 DEF ImageInv, TypesHold
  <2>2. CASE \E i \in 1..Len(batch) : batch[i].id = id
    BY <1>1, <1>10, <2>2, StoredIsARecord
  <2> QED BY <2>1, <2>2
<1>13. recs' \in [Ids -> Records] BY <1>9, <1>12
<1> QED BY <1>1, <1>5, <1>6, <1>7, <1>10, <1>11, <1>12, <1>13 DEF Written

(* A batch is committed. *)
LEMMA CommitBatchKeeps ==
  ASSUME ImageInv, NEW c \in Clients, CommitBatch(c)
  PROVE  ImageInv'
<1>1. PICK o : o = op[c]
  OBVIOUS
<1>2. /\ o.phase = "check" /\ OpIsSound(recs, history, o)
      /\ op' = [op EXCEPT ![c] = Idle] /\ UNCHANGED image
  BY <1>1 DEF CommitBatch, ImageInv, OpsAreSound
<1>3. BatchIsSound(recs, history, o) BY <1>2 DEF OpIsSound
<1>4. CASE ~Fresh(o.batch, o.expected)
  BY <1>1, <1>2, <1>4, ConflictKeeps DEF CommitBatch
<1>5. CASE Fresh(o.batch, o.expected)
  <2>1. PICK batch, expected :
          batch \in Seq(Candidates) /\ batch = o.batch /\ expected = o.expected
    BY <1>3 DEF BatchIsSound
  <2>2. Fresh(batch, expected) /\ WriteBatch(batch)
    BY <1>1, <1>5, <2>1 DEF CommitBatch
  <2>3. PICK new : new = PutEvents(batch)
    OBVIOUS
  <2>4. Written(batch, new) BY <2>1, <2>2, <2>3, BatchWrites
  <2>40. /\ new \in Seq(Events) /\ Len(new) = Len(batch) /\ Len(batch) \in Nat
         /\ history' = history \o new
         /\ \A i \in 1..Len(batch) :
              /\ batch[i] \in Candidates
              /\ new[i].type = "put" /\ new[i].subject = batch[i].id /\ new[i].record = Stored(batch[i])
              /\ recs'[batch[i].id] = Stored(batch[i])
         /\ \A id \in Ids : (\A i \in 1..Len(batch) : batch[i].id # id) => recs'[id] = recs[id]
         /\ recs' \in [Ids -> Records] /\ \A id \in Ids : recs'[id].id = id
    BY <2>4 DEF Written
  <2>5. \A i, j \in 1..Len(batch) : batch[i].id = batch[j].id => i = j
    BY <2>1, <2>2 DEF Fresh
  <2>6. ASSUME NEW i \in 1..Len(new), new[i].record.kind \in WrittenOnce
        PROVE  new[i].record.version = 1
    <3>1. PICK x \in Candidates : x = batch[i]
      BY <2>40
    <3>2. x \in Range(batch) BY <2>1, <2>40, <3>1 DEF Range
    <3>3. new[i].record = Stored(x) BY <2>40, <3>1
    <3>4. Stored(x).kind = x.kind /\ Stored(x).version = recs[x.id].version + 1
      BY StoredIsARecord
    <3>5. expected = 0 BY <1>3, <2>1, <2>6, <3>2, <3>3, <3>4 DEF BatchIsSound
    <3>6. recs[x.id].version = 0
      BY <2>2, <3>2, <3>5, UnconditionalAssumption DEF Fresh
    <3> QED BY <3>3, <3>4, <3>6
  <2>7. ASSUME NEW id \in Ids
        PROVE  \/ recs'[id] = recs[id] /\ \A i \in 1..Len(new) : new[i].subject # id
               \/ /\ recs'[id].version > recs[id].version
                  /\ \E i \in 1..Len(new) : Tells(new, i, id) /\ new[i].record = recs'[id]
    <3>1. CASE \A i \in 1..Len(batch) : batch[i].id # id
      <4>1. recs'[id] = recs[id] BY <2>40, <3>1
      <4>2. \A i \in 1..Len(new) : new[i].subject # id BY <2>40, <3>1
      <4> QED BY <4>1, <4>2
    <3>2. CASE \E i \in 1..Len(batch) : batch[i].id = id
      <4>1. PICK i \in 1..Len(batch) : batch[i].id = id
        BY <3>2
      <4>2. recs'[id].version > recs[id].version
        <5>1. recs'[id].version = recs[id].version + 1 /\ recs[id].version \in Nat
          BY <2>40, <4>1, StoredIsARecord
        <5> QED BY <5>1
      <4>3. Tells(new, i, id)
        <5>1. i \in 1..Len(new) /\ new[i].subject = id BY <2>40, <4>1
        <5>2. ASSUME NEW j \in (i + 1)..Len(new)
              PROVE  new[j].subject # id
          <6>1. j \in 1..Len(batch) /\ j # i BY <2>40, <4>1
          <6> QED BY <2>40, <2>5, <4>1, <6>1
        <5> QED BY <5>1, <5>2 DEF Tells
      <4>4. i \in 1..Len(new) /\ new[i].record = recs'[id] BY <2>40, <4>1
      <4> QED BY <4>2, <4>3, <4>4
    <3> QED BY <3>1, <3>2
  <2>8. image' \in Images BY <1>2 DEF ImageInv, TypesHold
  <2> QED BY <1>2, <2>40, <2>6, <2>7, <2>8, CommitKeeps
<1> QED BY <1>4, <1>5

(* A sweep is committed. *)
LEMMA CommitSweepKeeps ==
  ASSUME ImageInv, NEW c \in Clients, CommitSweep(c)
  PROVE  ImageInv'
<1>1. PICK ids : ids = op[c].ids
  OBVIOUS
<1>2. /\ ids \subseteq Ids
      /\ op' = [op EXCEPT ![c] = Idle] /\ UNCHANGED image
  BY <1>1 DEF CommitSweep, ImageInv, OpsAreSound, OpIsSound
<1>3. CASE ~Sweepable(ids)
  BY <1>1, <1>2, <1>3, ConflictKeeps DEF CommitSweep
<1>4. CASE Sweepable(ids)
  <2>1. PICK order : order = SetToSeq(ids)
    OBVIOUS
  <2>2. /\ order \in Seq(ids)
        /\ \A i, j \in 1..Len(order) : order[i] = order[j] => i = j
        /\ \A x \in ids : \E i \in 1..Len(order) : order[i] = x
    BY <1>2, <2>1, IdsAssumption, FS_Subset, SetToSeqOnce
  <2>3. Len(order) \in Nat /\ \A i \in 1..Len(order) : order[i] \in ids
    BY <2>2, LenProperties, ElementOfSeq
  <2>4. PICK new : new = [i \in 1..Len(order) |-> RecordEvent("swept", Tombstone(order[i]))]
    OBVIOUS
  <2>5. /\ recs' = [id \in Ids |-> IF id \in ids THEN Tombstone(id) ELSE recs[id]]
        /\ history' = history \o new
    BY <1>1, <1>4, <2>1, <2>4 DEF CommitSweep
  <2>6. ASSUME NEW id \in ids
        PROVE  /\ Tombstone(id) \in Records /\ Tombstone(id).id = id
               /\ Tombstone(id).version > recs[id].version
    <3>1. PICK rec : rec = recs[id]
      OBVIOUS
    <3>2. rec \in Records /\ rec.id = id BY <1>2, <3>1 DEF ImageInv, TypesHold
    <3>3. << >> \in Seq(Refs) OBVIOUS
    <3>4. PICK none \in Seq(Refs) : none = << >>
      BY <3>3
    <3>5. PICK version : version = rec.version + 1
      OBVIOUS
    <3>6. version \in Nat /\ version > rec.version BY <3>2, <3>5 DEF Records
    <3>7. PICK t : t = [rec EXCEPT !.kind = "swept", !.refs = none, !.layout = NoId, !.version = version]
      OBVIOUS
    <3>8. t \in Records BY <3>2, <3>6, <3>7 DEF Records
    <3>9. t.id = id /\ t.version = version BY <3>2, <3>7, <3>8 DEF Records
    <3>10. t = Tombstone(id) BY <3>1, <3>4, <3>5, <3>7 DEF Tombstone
    <3> QED BY <3>1, <3>6, <3>8, <3>9, <3>10
  <2>7. ASSUME NEW i \in 1..Len(order)
        PROVE  /\ RecordEvent("swept", Tombstone(order[i])) \in Events
               /\ RecordEvent("swept", Tombstone(order[i])).type = "swept"
               /\ RecordEvent("swept", Tombstone(order[i])).subject = order[i]
               /\ RecordEvent("swept", Tombstone(order[i])).record = Tombstone(order[i])
    <3>1. PICK rec : rec = Tombstone(order[i])
      OBVIOUS
    <3>2. rec \in Records /\ rec.id = order[i] /\ rec.id \in Ids
      BY <1>2, <2>3, <2>6, <3>1
    <3> QED BY <3>1, <3>2 DEF RecordEvent, Events
  <2>8. new \in [1..Len(order) -> Events] BY <2>4, <2>7
  <2>9. new \in Seq(Events) /\ Len(new) = Len(order) BY <2>3, <2>8
  <2>10. \A i \in 1..Len(new) :
           new[i].type = "swept" /\ new[i].subject = order[i] /\ new[i].record = Tombstone(order[i])
    BY <2>4, <2>7, <2>9
  <2>11. recs' \in [Ids -> Records] /\ \A id \in Ids : recs'[id].id = id
    BY <2>5, <2>6 DEF ImageInv, TypesHold
  <2>12. ASSUME NEW id \in Ids
         PROVE  \/ recs'[id] = recs[id] /\ \A i \in 1..Len(new) : new[i].subject # id
                \/ /\ recs'[id].version > recs[id].version
                   /\ \E i \in 1..Len(new) : Tells(new, i, id) /\ new[i].record = recs'[id]
    <3>1. CASE id \notin ids
      BY <2>3, <2>5, <2>9, <2>10, <3>1
    <3>2. CASE id \in ids
      <4>1. PICK i \in 1..Len(order) : order[i] = id
        BY <2>2, <3>2
      <4>2. Tells(new, i, id) BY <2>2, <2>3, <2>9, <2>10, <4>1 DEF Tells
      <4>3. recs'[id] = Tombstone(id) BY <2>5, <3>2
      <4> QED BY <2>6, <2>9, <2>10, <3>2, <4>1, <4>2, <4>3
    <3> QED BY <3>1, <3>2
  <2>13. image' \in Images BY <1>2 DEF ImageInv, TypesHold
  <2> QED BY <1>2, <2>5, <2>9, <2>10, <2>11, <2>12, <2>13, CommitKeeps
<1> QED BY <1>3, <1>4
----------------------------------------
(* Where a batch's checked refs are: what each names is an id, of a kind. *)
LEMMA CheckAtType ==
  ASSUME NEW batch \in Seq(Candidates), NEW place \in Places(batch)
  PROVE  /\ CheckAt(batch, place).id \in Ids
         /\ CheckAt(batch, place).role \in DOMAIN RequiredKind
         /\ RequiredKind[CheckAt(batch, place).role] \in Kinds
<1>1. PICK i \in DOMAIN batch :
        place \in {i} \X {j \in DOMAIN batch[i].refs : batch[i].refs[j].role \in DOMAIN RequiredKind}
  BY DEF Places
<1>2. place[1] = i /\ place[2] \in DOMAIN batch[i].refs /\ batch[i].refs[place[2]].role \in DOMAIN RequiredKind
  BY <1>1
<1>3. PICK refs \in Seq(Refs) : refs = batch[i].refs
  BY CandidateFields
<1>4. refs[place[2]] \in Refs BY <1>2, <1>3
<1>5. PICK ref \in Refs : ref = refs[place[2]]
  BY <1>4
<1>6. CheckAt(batch, place) = CheckOf(batch[i], ref)
  BY <1>2, <1>3, <1>5 DEF CheckAt
<1>7. CheckAt(batch, place).id = ref.id /\ CheckAt(batch, place).role = ref.role
  BY <1>6 DEF CheckOf
<1>8. ref.id \in Ids /\ ref.role \in DOMAIN RequiredKind
  BY <1>2, <1>3, <1>5 DEF Refs
<1>9. \A role \in DOMAIN RequiredKind : RequiredKind[role] \in Kinds
  BY DEF RequiredKind, Kinds
<1> QED BY <1>7, <1>8, <1>9

(* An operation begins to check a batch. *)
LEMMA CheckKeeps ==
  ASSUME ImageInv, NEW c \in Clients, NEW batch, NEW expected, NEW places,
         NEW o, o = [phase |-> "check", batch |-> batch, expected |-> expected, todo |-> places],
         BatchIsSound(recs, history, o),
         Check(c, batch, expected, places)
  PROVE  ImageInv'
<1>1. o.phase = "check" OBVIOUS
<1>2. OpIsSound(recs, history, o) BY <1>1 DEF OpIsSound
<1> QED BY <1>2, GotoKeeps DEF Check

(* A put of one record is a batch of one. *)
LEMMA OneRecord ==
  ASSUME NEW x \in Candidates
  PROVE  <<x>> \in Seq(Candidates) /\ Range(<<x>>) = {x}
<1>1. <<x>> \in Seq(Candidates) OBVIOUS
<1>2. DOMAIN <<x>> = {1} /\ <<x>>[1] = x OBVIOUS
<1> QED BY <1>1, <1>2 DEF Range

(* A put begins. *)
LEMMA PutKeeps ==
  ASSUME ImageInv, NEW c \in Clients, NEW x \in Candidates, Put(c, x)
  PROVE  ImageInv'
<1>1. PICK expected :
        /\ expected \in IF x.kind = "object" THEN {Unconditional, recs[x.id].version} ELSE {0}
        /\ Check(c, <<x>>, expected, Places(<<x>>))
  BY DEF Put
<1>2. x.kind # "lexical-environment" /\ (x.kind \in WrittenOnce => expected = 0)
  BY <1>1 DEF Put, WrittenOnce
<1>3. PICK batch \in Seq(Candidates) : batch = <<x>> /\ Range(batch) = {x}
  BY OneRecord
<1>4. PICK o : o = [phase |-> "check", batch |-> batch, expected |-> expected, todo |-> Places(batch)]
  OBVIOUS
<1>5. o.batch = batch /\ o.expected = expected /\ o.todo = Places(batch) BY <1>4
<1>6. BatchIsSound(recs, history, o) BY <1>2, <1>3, <1>4, <1>5 DEF BatchIsSound
<1> QED BY <1>1, <1>3, <1>4, <1>6, CheckKeeps

(* A put of an environment begins. *)
LEMMA PutLexicalEnvironmentKeeps ==
  ASSUME ImageInv, NEW c \in Clients, NEW x \in Candidates, PutLexicalEnvironment(c, x)
  PROVE  ImageInv'
<1>1. PICK expected \in {Unconditional, recs[x.id].version} :
        Goto(c, [phase |-> "read-current", record |-> x, expected |-> expected])
  BY DEF PutLexicalEnvironment
<1>2. x.kind = "lexical-environment" BY DEF PutLexicalEnvironment
<1>3. recs[x.id].version \in Nat BY StoredIsARecord
<1>4. PICK o : o = [phase |-> "read-current", record |-> x, expected |-> expected]
  OBVIOUS
<1>5. OpIsSound(recs, history, o)
  BY <1>1, <1>2, <1>3, <1>4 DEF OpIsSound, NotAhead
<1> QED BY <1>1, <1>4, <1>5, GotoKeeps
(* An operation reads the record it will replace. *)
LEMMA ReadCurrentKeeps ==
  ASSUME ImageInv, NEW c \in Clients, ReadCurrent(c)
  PROVE  ImageInv'
<1>1. PICK old : old = op[c]
  OBVIOUS
<1>2. old.phase = "read-current" /\ OpIsSound(recs, history, old)
  BY <1>1 DEF ReadCurrent, ImageInv, OpsAreSound
<1>3. PICK x \in Candidates : x = old.record
  BY <1>2 DEF OpIsSound
<1>4. /\ x.kind = "lexical-environment"
      /\ old.expected = Unconditional \/ NotAhead(recs, old.expected, x.id)
      /\ x.id \in Ids /\ recs[x.id].version \in Nat
  BY <1>2, <1>3, StoredIsARecord, CandidateFields DEF OpIsSound
<1>5. CASE ~LayoutCompatible(recs[x.id], x)
  BY <1>1, <1>3, <1>5, RejectKeeps DEF ReadCurrent
<1>6. CASE LayoutCompatible(recs[x.id], x)
  <2>1. PICK read : read = IF Live(recs[x.id]) THEN recs[x.id].version ELSE 0
    OBVIOUS
  <2>2. PICK expected : expected = IF old.expected = Unconditional THEN read ELSE old.expected
    OBVIOUS
  <2>3. Check(c, <<x>>, expected, Places(<<x>>))
    BY <1>1, <1>3, <1>6, <2>1, <2>2 DEF ReadCurrent
  <2>4. NotAhead(recs, expected, x.id) BY <1>4, <2>1, <2>2 DEF NotAhead
  <2>5. PICK batch \in Seq(Candidates) : batch = <<x>> /\ Range(batch) = {x}
    BY OneRecord
  <2>6. PICK o : o = [phase |-> "check", batch |-> batch, expected |-> expected, todo |-> Places(batch)]
    OBVIOUS
  <2>7. o.batch = batch /\ o.expected = expected /\ o.todo = Places(batch)
    BY <2>6
  <2>8. BatchIsSound(recs, history, o)
    BY <1>4, <1>6, <2>4, <2>5, <2>6, <2>7 DEF BatchIsSound, WrittenOnce
  <2> QED BY <2>3, <2>5, <2>6, <2>8, CheckKeeps
<1> QED BY <1>5, <1>6

(* A put of several objects begins. *)
LEMMA PutObjectsKeeps ==
  ASSUME ImageInv, NEW c \in Clients, NEW batch \in Batches, PutObjects(c, batch)
  PROVE  ImageInv'
<1>1. /\ batch \in Seq(Candidates)
      /\ \A x \in Range(batch) : x.kind = "object"
      /\ Check(c, batch, 0, Places(batch))
  BY CandidatesAssumption DEF PutObjects
<1>2. PICK o : o = [phase |-> "check", batch |-> batch, expected |-> 0, todo |-> Places(batch)]
  OBVIOUS
<1>3. o.batch = batch /\ o.expected = 0 /\ o.todo = Places(batch) BY <1>2
<1>4. BatchIsSound(recs, history, o) BY <1>1, <1>2, <1>3 DEF BatchIsSound
<1> QED BY <1>1, <1>2, <1>4, CheckKeeps

(* A creation begins. *)
LEMMA CreateRecordsKeeps ==
  ASSUME ImageInv, NEW c \in Clients, NEW batch \in Batches, CreateRecords(c, batch)
  PROVE  ImageInv'
<1>1. batch \in Seq(Candidates) BY CandidatesAssumption
<1>2. PICK places :
        places = {place \in Places(batch) : {x \in Range(batch) : x.id = CheckAt(batch, place).id} = {}}
  OBVIOUS
<1>3. /\ \A place \in Places(batch) : \A x \in {y \in Range(batch) : y.id = CheckAt(batch, place).id} :
           Satisfies(x, CheckAt(batch, place))
      /\ Check(c, batch, 0, places)
  BY <1>2 DEF CreateRecords
<1>4. ASSUME NEW place \in Places(batch) \ places
      PROVE  InBatch(batch, CheckAt(batch, place))
  BY <1>2, <1>3 DEF InBatch
<1>5. \A x \in Range(batch) : NotAhead(recs, 0, x.id) /\ (0 = recs[x.id].version => ~Live(recs[x.id]))
  <2> TAKE x \in Range(batch)
  <2>1. x \in Candidates /\ x.id \in Ids BY <1>1, CandidateFields DEF Range
  <2>2. recs[x.id].version \in Nat BY <2>1, StoredIsARecord
  <2> QED BY <2>1, <2>2 DEF NotAhead, ImageInv, UnwrittenIsAbsent
<1>6. PICK o : o = [phase |-> "check", batch |-> batch, expected |-> 0, todo |-> places]
  OBVIOUS
<1>7. o.batch = batch /\ o.expected = 0 /\ o.todo = places BY <1>6
<1>8. BatchIsSound(recs, history, o)
  BY <1>1, <1>2, <1>4, <1>5, <1>6, <1>7 DEF BatchIsSound, LayoutCompatible
<1> QED BY <1>3, <1>6, <1>8, CheckKeeps

(* A record of the kind a ref requires is told of in the history. *)
LEMMA SatisfiedWasThere ==
  ASSUME ImageInv, NEW check, check.id \in Ids, RequiredKind[check.role] \in Kinds,
         Satisfies(recs[check.id], check)
  PROVE  WasThere(history, check)
<1>1. recs[check.id] # Absent(check.id)
  <2>1. recs[check.id].kind \in Kinds BY DEF Satisfies
  <2>2. Absent(check.id).kind = "none" /\ "none" \notin Kinds
    BY DEF Absent, Kinds
  <2> QED BY <2>1, <2>2
<1>2. PICK i \in 1..Len(history) : Tells(history, i, check.id) /\ history[i].record = recs[check.id]
  BY <1>1 DEF ImageInv, HistoryTells
<1> QED BY <1>2 DEF WasThere, Tells

(* A ref is checked. *)
LEMMA CheckRefKeeps ==
  ASSUME ImageInv, NEW c \in Clients, CheckRef(c)
  PROVE  ImageInv'
<1>1. PICK old : old = op[c]
  OBVIOUS
<1>2. old.phase = "check" /\ OpIsSound(recs, history, old)
  BY <1>1 DEF CheckRef, ImageInv, OpsAreSound
<1>3. BatchIsSound(recs, history, old) BY <1>2 DEF OpIsSound
<1>4. PICK first : first = FirstOf(old.todo)
  OBVIOUS
<1>5. PICK check : check = CheckAt(old.batch, first)
  OBVIOUS
<1>6. CASE ~Satisfies(recs[check.id], check)
  BY <1>1, <1>4, <1>5, <1>6, RejectKeeps DEF CheckRef
<1>7. CASE Satisfies(recs[check.id], check)
  <2>1. PICK todo : todo = old.todo \ {first}
    OBVIOUS
  <2>2. PICK o : o = [old EXCEPT !.todo = todo]
    OBVIOUS
  <2>3. Goto(c, o) BY <1>1, <1>4, <1>5, <1>7, <2>1, <2>2 DEF CheckRef
  <2>4. PICK batch, expected, places :
          old = [phase |-> "check", batch |-> batch, expected |-> expected, todo |-> places]
    BY <1>3 DEF BatchIsSound
  <2>5. old.batch = batch /\ old.expected = expected /\ old.todo = places
    BY <2>4
  <2>6. o = [phase |-> "check", batch |-> batch, expected |-> expected, todo |-> todo]
    BY <2>2, <2>4
  <2>7. o.phase = "check" /\ o.batch = batch /\ o.expected = expected /\ o.todo = todo
    BY <2>6
  <2>8. /\ batch \in Seq(Candidates) /\ places \subseteq Places(batch)
        /\ \A place \in Places(batch) \ places :
             WasThere(history, CheckAt(batch, place)) \/ InBatch(batch, CheckAt(batch, place))
    BY <1>3, <2>5 DEF BatchIsSound
  <2>9. first \in Places(batch) => WasThere(history, CheckAt(batch, first))
    <3> HAVE first \in Places(batch)
    <3>1. check = CheckAt(batch, first) BY <1>5, <2>5
    <3>2. check.id \in Ids /\ RequiredKind[check.role] \in Kinds
      BY <2>8, <3>1, CheckAtType
    <3> QED BY <1>7, <3>1, <3>2, SatisfiedWasThere
  <2>10. \A place \in Places(batch) \ todo :
           WasThere(history, CheckAt(batch, place)) \/ InBatch(batch, CheckAt(batch, place))
    BY <2>1, <2>5, <2>8, <2>9
  <2>11. todo \subseteq Places(batch) BY <2>1, <2>5, <2>8
  <2>12. /\ \A x \in Range(batch) : x.kind \in WrittenOnce => expected = 0
         /\ \A x \in Range(batch) : x.kind = "lexical-environment" =>
              /\ NotAhead(recs, expected, x.id)
              /\ expected = recs[x.id].version => LayoutCompatible(recs[x.id], x)
    BY <1>3, <2>5 DEF BatchIsSound
  <2>13. BatchIsSound(recs, history, o)
    BY <2>6, <2>7, <2>8, <2>10, <2>11, <2>12 DEF BatchIsSound
  <2>14. OpIsSound(recs, history, o) BY <2>7, <2>13 DEF OpIsSound
  <2> QED BY <2>3, <2>14, GotoKeeps
<1> QED BY <1>6, <1>7

(* The root is set. *)
LEMMA RootKeeps ==
  ASSUME ImageInv, NEW c \in Clients,
         \/ \E id \in Ids : SetRoot(c, id)
         \/ CheckRoot(c)
         \/ CommitRoot(c)
  PROVE  ImageInv'
<1>1. ASSUME NEW id \in Ids, SetRoot(c, id)
      PROVE  ImageInv'
  <2>1. image.version \in Nat BY DEF ImageInv, TypesHold, Images
  <2>2. PICK o : o = [phase |-> "root", id |-> id, expected |-> image.version]
    OBVIOUS
  <2>3. o.phase = "root" /\ o.id = id /\ o.expected = image.version BY <2>2
  <2>4. OpIsSound(recs, history, o) BY <2>1, <2>2, <2>3 DEF OpIsSound
  <2>5. Goto(c, o) BY <1>1, <2>2 DEF SetRoot
  <2> QED BY <2>4, <2>5, GotoKeeps
<1>2. ASSUME CheckRoot(c)
      PROVE  ImageInv'
  <2>1. PICK old : old = op[c]
    OBVIOUS
  <2>2. old.phase = "root" /\ OpIsSound(recs, history, old)
    BY <1>2, <2>1 DEF CheckRoot, ImageInv, OpsAreSound
  <2>3. PICK id \in Ids, expected \in Nat : old = [phase |-> "root", id |-> id, expected |-> expected]
    BY <2>2 DEF OpIsSound
  <2>4. PICK o : o = [old EXCEPT !.phase = "set-root"]
    OBVIOUS
  <2>5. o = [phase |-> "set-root", id |-> id, expected |-> expected]
    BY <2>3, <2>4
  <2>6. o.phase = "set-root" /\ o.id = id /\ o.expected = expected BY <2>5
  <2>7. OpIsSound(recs, history, o) BY <2>5, <2>6 DEF OpIsSound
  <2>8. Goto(c, o) \/ Reject(c) BY <1>2, <2>1, <2>4 DEF CheckRoot
  <2> QED BY <2>7, <2>8, GotoKeeps, RejectKeeps
<1>3. ASSUME CommitRoot(c)
      PROVE  ImageInv'
  <2>1. op[c].phase = "set-root" /\ OpIsSound(recs, history, op[c])
    BY <1>3 DEF CommitRoot, ImageInv, OpsAreSound
  <2>2. op[c].id \in Ids /\ op[c].expected \in Nat BY <2>1 DEF OpIsSound
  <2> QED BY <1>3, <2>2, WriteImageKeeps DEF CommitRoot
<1> QED BY <1>1, <1>2, <1>3

(* The image is created. *)
LEMMA CreateImageKeeps ==
  ASSUME ImageInv, NEW c \in Clients, CreateImage(c) \/ CommitImage(c)
  PROVE  ImageInv'
<1>1. ASSUME CreateImage(c)
      PROVE  ImageInv'
  <2>1. PICK o : o = [phase |-> "create"]
    OBVIOUS
  <2>2. OpIsSound(recs, history, o) BY <2>1 DEF OpIsSound
  <2> QED BY <1>1, <2>1, <2>2, GotoKeeps DEF CreateImage
<1>2. ASSUME CommitImage(c)
      PROVE  ImageInv'
  BY <1>2, WriteImageKeeps DEF CommitImage
<1> QED BY <1>1, <1>2
(* A collection is planned. *)
LEMMA CollectorKeeps ==
  ASSUME ImageInv, NEW c \in Clients,
         \/ \E pins : Collect(c, pins)
         \/ \E ids \in Sweeps : SweepRecords(c, ids)
         \/ Condemn(c)
         \/ SweepCondemned(c)
  PROVE  ImageInv'
<1>1. ASSUME NEW pins, Collect(c, pins)
      PROVE  ImageInv'
  <2>1. PICK o : o = [phase |-> "collect", root |-> image.root, pins |-> pins, since |-> Len(history)]
    OBVIOUS
  <2>2. OpIsSound(recs, history, o) BY <2>1 DEF OpIsSound
  <2> QED BY <1>1, <2>1, <2>2, GotoKeeps DEF Collect
<1>2. ASSUME NEW ids \in SUBSET Ids, NEW plan, SweepChecked(c, ids, plan)
      PROVE  ImageInv'
  <2>1. PICK o : o = [phase |-> "sweep", ids |-> ids, plan |-> plan]
    OBVIOUS
  <2>2. OpIsSound(recs, history, o) BY <2>1 DEF OpIsSound
  <2>3. Goto(c, o) \/ Reject(c) BY <1>2, <2>1 DEF SweepChecked
  <2> QED BY <2>2, <2>3, GotoKeeps, RejectKeeps
<1>3. ASSUME NEW ids \in Sweeps, SweepRecords(c, ids)
      PROVE  ImageInv'
  BY <1>2, <1>3, CandidatesAssumption DEF SweepRecords
<1>4. ASSUME Condemn(c)
      PROVE  ImageInv'
  <2>1. PICK doomed : doomed = LiveIds(recs) \ Retained(op[c].root, op[c].pins)
    OBVIOUS
  <2>2. doomed \subseteq Ids BY <2>1 DEF LiveIds, ImageInv, TypesHold
  <2>3. PICK o : o = [phase |-> "condemn", ids |-> doomed, plan |-> op[c]]
    OBVIOUS
  <2>4. OpIsSound(recs, history, o) BY <2>2, <2>3 DEF OpIsSound
  <2>5. Goto(c, o) \/ Reject(c) BY <1>4, <2>1, <2>3 DEF Condemn, Reject
  <2> QED BY <2>4, <2>5, GotoKeeps, RejectKeeps
<1>5. ASSUME SweepCondemned(c)
      PROVE  ImageInv'
  <2>1. op[c].phase = "condemn" /\ OpIsSound(recs, history, op[c])
    BY <1>5 DEF SweepCondemned, ImageInv, OpsAreSound
  <2>2. op[c].ids \in SUBSET Ids BY <2>1 DEF OpIsSound
  <2> QED BY <1>2, <1>5, <2>2 DEF SweepCondemned
<1> QED BY <1>1, <1>3, <1>4, <1>5

----------------------------------------
(* The image begins empty and sound. *)
LEMMA ImageInitIsSound == ImageInit => ImageInv
<1> SUFFICES ASSUME ImageInit
             PROVE  ImageInv
  OBVIOUS
<1>1. \A id \in Ids : /\ Absent(id) \in Records /\ Absent(id).id = id
                       /\ ~Live(Absent(id))
  <2> TAKE id \in Ids
  <2>1. PICK none : none = << >>
    OBVIOUS
  <2>2. none \in Seq(Refs) BY <2>1
  <2>3. PICK rec : rec = [id |-> id, kind |-> "none", layout |-> NoId, refs |-> none, version |-> 0]
    OBVIOUS
  <2>4. rec \in Records /\ rec.id = id /\ rec.kind = "none"
    BY <2>2, <2>3 DEF Records
  <2>5. rec = Absent(id) BY <2>1, <2>3 DEF Absent
  <2> QED BY <2>4, <2>5 DEF Live, Kinds
<1>2. /\ recs = [id \in Ids |-> Absent(id)] /\ history = << >>
      /\ \A c \in Clients : op[c] = Idle
      /\ DOMAIN op = Clients
      /\ image \in Images
  BY DEF ImageInit, Images
<1>3. history \in Seq(Events) /\ Len(history) = 0 /\ 1..Len(history) = {}
  BY <1>2
<1>4. TypesHold BY <1>1, <1>2, <1>3 DEF TypesHold
<1>5. HistoryTells /\ UnwrittenIsAbsent /\ InsertedOnce
  BY <1>1, <1>2, <1>3 DEF HistoryTells, UnwrittenIsAbsent, InsertedOnce
<1>6. OpsAreSound BY <1>2, IdleClientIsSound DEF OpsAreSound
<1> QED BY <1>4, <1>5, <1>6 DEF ImageInv

(* Every step of the image service keeps the invariant. *)
LEMMA StepKeeps == ImageInv /\ [ImageNext]_imageVars => ImageInv'
<1> SUFFICES ASSUME ImageInv, [ImageNext]_imageVars
             PROVE  ImageInv'
  OBVIOUS
<1>1. CASE UNCHANGED imageVars
  BY <1>1 DEF imageVars, ImageInv, TypesHold, HistoryTells, UnwrittenIsAbsent, InsertedOnce, OpsAreSound
<1>2. ASSUME NEW c \in Clients, Start(c)
      PROVE  ImageInv'
  BY <1>2, CreateImageKeeps, PutKeeps, PutLexicalEnvironmentKeeps, PutObjectsKeeps,
     CreateRecordsKeeps, RootKeeps, CollectorKeeps DEF Start
<1>3. ASSUME NEW c \in Clients, Continue(c)
      PROVE  ImageInv'
  BY <1>3, CreateImageKeeps, ReadCurrentKeeps, CheckRefKeeps, CommitBatchKeeps, RootKeeps,
     CollectorKeeps, CommitSweepKeeps DEF Continue
<1> QED BY <1>1, <1>2, <1>3 DEF ImageNext

(* The invariant the properties below follow from holds in every behaviour *)
(* of the image service (graph-image-service.js, reachability.js).         *)
THEOREM ImageInvariance == ImageSpec => []ImageInv
BY ImageInitIsSound, StepKeeps, PTL DEF ImageSpec

(* The image keeps its types: every id holds a record or a tombstone under *)
(* that id, and every operation is in a phase the service has.             *)
THEOREM ImageTypeCorrect == ImageSpec => []ImageTypeOK
<1>1. ImageInv => ImageTypeOK
  <2> SUFFICES ASSUME ImageInv
               PROVE  ImageTypeOK
    OBVIOUS
  <2>1. /\ recs \in [Ids -> Records] /\ \A id \in Ids : recs[id].id = id
        /\ image \in [version : Nat, root : Ids \cup {NoId}]
    BY DEF ImageInv, TypesHold, Images
  <2>2. \A i \in 1..Len(history) :
          history[i].type \in {"put", "swept", "image.created", "image.root-set"}
    <3>1. \A i \in 1..Len(history) : history[i] \in Events
      BY ElementOfSeq DEF ImageInv, TypesHold
    <3>2. \A e \in Events : e.type \in {"put", "swept", "image.created", "image.root-set"}
      BY DEF Events
    <3> QED BY <3>1, <3>2
  <2>3. \A c \in Clients : op[c].phase \in {"idle", "create", "read-current", "check", "root",
                                            "set-root", "collect", "condemn", "sweep"}
    BY DEF ImageInv, OpsAreSound, OpIsSound
  <2> QED BY <2>1, <2>2, <2>3 DEF ImageTypeOK
<1> QED BY <1>1, ImageInvariance, PTL

(* The last of finitely many positions. *)
LEMMA MaxOf ==
  ASSUME NEW S \in SUBSET Nat, NEW m \in S, \A x \in S : x <= m
  PROVE  Max(S) = m
<1>1. \A x \in S : m >= x OBVIOUS
<1>2. \A x \in S : (\A y \in S : x >= y) => x = m OBVIOUS
<1> QED BY <1>1, <1>2 DEF Max

(* Replaying the history gives the records as they are, and a shape, an    *)
(* artifact or a block is put at version 1 only, however the operations    *)
(* interleave (putWithHistory, commitCandidateRecords, sweepRecords).      *)
THEOREM HistoryTellsTheImage == ImageSpec => []HistoryIsTheImage
<1>1. ImageInv => HistoryIsTheImage
  <2> SUFFICES ASSUME ImageInv
               PROVE  Replay(Len(history)) = recs
    BY DEF HistoryIsTheImage, HistoryReplaysToTheRecords, ImageInv
  <2>1. recs = [id \in Ids |-> recs[id]] /\ Len(history) \in Nat
    BY LenProperties DEF ImageInv, TypesHold
  <2>2. ASSUME NEW id \in Ids
        PROVE  Replay(Len(history))[id] = recs[id]
    <3>1. PICK touched : touched = {i \in 1..Len(history) : history[i].subject = id}
      OBVIOUS
    <3>2. Replay(Len(history))[id] = IF touched = {} THEN Absent(id) ELSE history[Max(touched)].record
      BY <3>1 DEF Replay
    <3>3. CASE recs[id] = Absent(id) /\ \A i \in 1..Len(history) : history[i].subject # id
      BY <3>1, <3>2, <3>3
    <3>4. CASE \E i \in 1..Len(history) : Tells(history, i, id) /\ history[i].record = recs[id]
      <4>1. PICK i \in 1..Len(history) : Tells(history, i, id) /\ history[i].record = recs[id]
        BY <3>4
      <4>2. i \in touched /\ touched \in SUBSET Nat BY <3>1, <4>1 DEF Tells
      <4>3. \A j \in touched : j <= i BY <2>1, <3>1, <4>1 DEF Tells
      <4>4. Max(touched) = i BY <4>2, <4>3, MaxOf
      <4> QED BY <3>2, <4>1, <4>2, <4>4
    <3> QED BY <3>3, <3>4 DEF ImageInv, HistoryTells
  <2>3. Replay(Len(history)) = [id \in Ids |-> Replay(Len(history))[id]]
    BY DEF Replay
  <2> QED BY <2>1, <2>2, <2>3
<1> QED BY <1>1, ImageInvariance, PTL
----------------------------------------
(* What the two properties ask of a step, of one record. *)
NewRefsExisted(id) ==
  recs'[id] # recs[id] /\ Live(recs'[id]) =>
    \A check \in ChecksOf(recs'[id]) : WasThere(history', check)

LayoutStays(id) ==
  recs[id].kind = "lexical-environment" /\ recs'[id].kind = "lexical-environment" =>
    recs'[id].layout = recs[id].layout

(* A check of a member of a batch is at a place of the batch. *)
LEMMA CheckHasAPlace ==
  ASSUME NEW batch \in Seq(Candidates), NEW i \in 1..Len(batch), NEW check \in ChecksOf(batch[i])
  PROVE  \E place \in Places(batch) : check = CheckAt(batch, place)
<1>1. PICK ref \in Range(batch[i].refs) :
        check = CheckOf(batch[i], ref) /\ ref.role \in DOMAIN RequiredKind
  BY DEF ChecksOf
<1>2. PICK j \in DOMAIN batch[i].refs : batch[i].refs[j] = ref
  BY <1>1 DEF Range
<1>3. PICK place : place = <<i, j>>
  OBVIOUS
<1>4. place[1] = i /\ place[2] = j BY <1>3
<1>5. place \in Places(batch) BY <1>1, <1>2, <1>3 DEF Places
<1>6. check = CheckAt(batch, place) BY <1>1, <1>2, <1>4 DEF CheckAt
<1> QED BY <1>5, <1>6

(* What a batch commits fits what is there. *)
LEMMA CommitBatchIsFit ==
  ASSUME ImageInv, NEW c \in Clients, CommitBatch(c), NEW subject \in Ids
  PROVE  NewRefsExisted(subject) /\ LayoutStays(subject)
<1>1. PICK o : o = op[c]
  OBVIOUS
<1>2. o.phase = "check" /\ o.todo = {} /\ OpIsSound(recs, history, o)
  BY <1>1 DEF CommitBatch, ImageInv, OpsAreSound
<1>3. BatchIsSound(recs, history, o) BY <1>2 DEF OpIsSound
<1>4. CASE ~Fresh(o.batch, o.expected)
  BY <1>1, <1>4 DEF CommitBatch, NewRefsExisted, LayoutStays
<1>5. CASE Fresh(o.batch, o.expected)
  <2>1. PICK batch, expected :
          batch \in Seq(Candidates) /\ batch = o.batch /\ expected = o.expected
    BY <1>3 DEF BatchIsSound
  <2>2. Fresh(batch, expected) /\ WriteBatch(batch)
    BY <1>1, <1>5, <2>1 DEF CommitBatch
  <2>3. PICK new : new = PutEvents(batch)
    OBVIOUS
  <2>4. Written(batch, new) BY <2>1, <2>2, <2>3, BatchWrites
  <2>40. /\ new \in Seq(Events) /\ Len(new) = Len(batch) /\ Len(batch) \in Nat
         /\ history' = history \o new
         /\ \A i \in 1..Len(batch) :
              /\ batch[i] \in Candidates
              /\ new[i].type = "put" /\ new[i].subject = batch[i].id /\ new[i].record = Stored(batch[i])
              /\ recs'[batch[i].id] = Stored(batch[i])
         /\ \A id \in Ids : (\A i \in 1..Len(batch) : batch[i].id # id) => recs'[id] = recs[id]
         /\ recs' \in [Ids -> Records] /\ \A id \in Ids : recs'[id].id = id
    BY <2>4 DEF Written
  <2>5. DOMAIN batch = 1..Len(batch) BY <2>1, <2>40
  <2>6. CASE \A i \in 1..Len(batch) : batch[i].id # subject
    BY <2>40, <2>6 DEF NewRefsExisted, LayoutStays
  <2>7. CASE \E i \in 1..Len(batch) : batch[i].id = subject
    <3>1. PICK i \in 1..Len(batch) : batch[i].id = subject
      BY <2>7
    <3>2. PICK x \in Candidates : x = batch[i]
      BY <2>40, <3>1
    <3>3. PICK rec : rec = recs'[subject]
      OBVIOUS
    <3>4. x.id = subject /\ x \in Range(batch) /\ rec = Stored(x)
      BY <2>40, <2>5, <3>1, <3>2, <3>3 DEF Range
    <3>5. rec.kind = x.kind /\ rec.layout = x.layout /\ rec.refs = x.refs
      BY <3>4, StoredIsARecord
    <3>6. ASSUME NEW check \in ChecksOf(rec)
          PROVE  WasThere(history', check)
      <4>1. ChecksOf(rec) = ChecksOf(x) BY <3>5 DEF ChecksOf, CheckOf
      <4>2. PICK place \in Places(batch) : check = CheckAt(batch, place)
        <5>1. check \in ChecksOf(batch[i]) BY <3>2, <4>1
        <5>2. \E place \in Places(batch) : check = CheckAt(batch, place)
          BY <2>1, <3>1, <5>1, CheckHasAPlace
        <5> QED BY <5>2
      <4>3. WasThere(history, check) \/ InBatch(batch, check)
        BY <1>2, <1>3, <2>1, <4>2 DEF BatchIsSound
      <4>40. Continues(history', history, new)
        BY <2>40, Appended DEF ImageInv, TypesHold
      <4>4. /\ Len(history) \in Nat /\ Len(new) \in Nat
            /\ Len(history') = Len(history) + Len(new)
            /\ \A k \in 1..Len(history) : history'[k] = history[k]
            /\ \A k \in 1..Len(new) : history'[Len(history) + k] = new[k]
        BY <4>40 DEF Continues
      <4>5. CASE WasThere(history, check)
        <5>1. PICK k \in 1..Len(history) :
                history[k].subject = check.id /\ Satisfies(history[k].record, check)
          BY <4>5 DEF WasThere
        <5>2. k \in 1..Len(history') /\ history'[k] = history[k] BY <4>4
        <5> QED BY <5>1, <5>2 DEF WasThere
      <4>6. CASE InBatch(batch, check)
        <5>1. PICK k \in 1..Len(batch) : batch[k].id = check.id /\ Satisfies(batch[k], check)
          BY <2>5, <4>6 DEF InBatch, Range
        <5>2. PICK at2 : at2 = Len(history) + k
          OBVIOUS
        <5>3. at2 \in 1..Len(history') /\ history'[at2] = new[k]
          BY <2>40, <4>4, <5>2
        <5>4. new[k].subject = check.id BY <2>40, <5>1
        <5>5. new[k].record.kind = batch[k].kind /\ new[k].record.layout = batch[k].layout
          BY <2>40, StoredIsARecord
        <5>6. Satisfies(new[k].record, check) BY <5>1, <5>5 DEF Satisfies
        <5> QED BY <5>3, <5>4, <5>6 DEF WasThere
      <4> QED BY <4>3, <4>5, <4>6
    <3>7. ASSUME recs[subject].kind = "lexical-environment", rec.kind = "lexical-environment"
          PROVE  rec.layout = recs[subject].layout
      <4>1. x.kind = "lexical-environment" BY <3>5, <3>7
      <4>2. /\ NotAhead(recs, expected, subject)
            /\ expected = recs[subject].version => LayoutCompatible(recs[subject], x)
        BY <1>3, <2>1, <3>4, <4>1 DEF BatchIsSound
      <4>3. expected = recs[subject].version
        BY <2>2, <3>4, <4>2, UnconditionalAssumption DEF Fresh, NotAhead
      <4>4. Live(recs[subject]) BY <3>7 DEF Live, Kinds
      <4> QED BY <3>5, <4>2, <4>3, <4>4 DEF LayoutCompatible
    <3> QED BY <3>3, <3>6, <3>7 DEF NewRefsExisted, LayoutStays
  <2> QED BY <2>6, <2>7
<1> QED BY <1>4, <1>5

(* A sweep takes nothing that code relies on. *)
LEMMA CommitSweepIsFit ==
  ASSUME ImageInv, NEW c \in Clients, CommitSweep(c), NEW id \in Ids
  PROVE  NewRefsExisted(id) /\ LayoutStays(id)
<1>1. recs'[id] = recs[id] \/ recs'[id] = Tombstone(id) BY DEF CommitSweep
<1>2. PICK rec : rec = recs[id]
  OBVIOUS
<1>3. rec \in Records BY <1>2 DEF ImageInv, TypesHold
<1>4. PICK t : t = Tombstone(id)
  OBVIOUS
<1>5. t.kind = "swept" BY <1>2, <1>3, <1>4 DEF Tombstone, Records
<1>6. ~Live(t) /\ t.kind # "lexical-environment" BY <1>5 DEF Live, Kinds
<1> QED BY <1>1, <1>4, <1>6 DEF NewRefsExisted, LayoutStays

(* Every commit fits. *)
LEMMA StepIsFit ==
  ASSUME ImageInv, [ImageNext]_imageVars, NEW id \in Ids
  PROVE  NewRefsExisted(id) /\ LayoutStays(id)
<1>1. ASSUME UNCHANGED recs
      PROVE  NewRefsExisted(id) /\ LayoutStays(id)
  BY <1>1 DEF NewRefsExisted, LayoutStays
<1>2. CASE UNCHANGED imageVars
  BY <1>1, <1>2 DEF imageVars
<1>3. ASSUME NEW c \in Clients, Start(c)
      PROVE  UNCHANGED recs
  BY <1>3 DEF Start, CreateImage, Put, PutLexicalEnvironment, PutObjects, CreateRecords, SetRoot,
     SweepRecords, SweepChecked, Collect, Check, Reject, Goto
<1>4. ASSUME NEW c \in Clients, Continue(c)
      PROVE  UNCHANGED recs \/ CommitBatch(c) \/ CommitSweep(c)
  BY <1>4 DEF Continue, CommitImage, ReadCurrent, CheckRef, CheckRoot, CommitRoot, Condemn,
     SweepCondemned, SweepChecked, WriteImage, Check, Reject, Goto
<1> QED BY <1>1, <1>2, <1>3, <1>4, CommitBatchIsFit, CommitSweepIsFit DEF ImageNext

(* A record only ever comes to refer to records that were there, of the    *)
(* kind its refs require, and an environment that is replaced keeps its    *)
(* layout, though the checks read what others may change before the commit *)
(* (validateCandidateRecord, putLexicalEnvironment).                       *)
THEOREM LayoutsStay == ImageSpec => LayoutsStayValid
<1>1. ImageInv /\ [ImageNext]_imageVars =>
        [\A id \in Ids :
           recs'[id] # recs[id] /\ Live(recs'[id]) =>
             \A check \in ChecksOf(recs'[id]) :
               \E i \in 1..Len(history') :
                 history'[i].subject = check.id /\ Satisfies(history'[i].record, check)]_imageVars
  BY StepIsFit DEF NewRefsExisted, WasThere
<1>2. ImageInv /\ [ImageNext]_imageVars =>
        [\A id \in Ids :
           recs[id].kind = "lexical-environment" /\ recs'[id].kind = "lexical-environment" =>
             recs'[id].layout = recs[id].layout]_imageVars
  BY StepIsFit DEF LayoutStays
<1>3. ImageSpec => NewRefsNameWhatExisted
  BY <1>1, ImageInvariance, PTL DEF ImageSpec, NewRefsNameWhatExisted
<1>4. ImageSpec => EnvironmentLayoutIsStable
  BY <1>2, ImageInvariance, PTL DEF ImageSpec, EnvironmentLayoutIsStable
<1> QED BY <1>3, <1>4 DEF LayoutsStayValid

----------------------------------------

(* One event for every revision from low to high, and no others. *)
Numbered(events, low, high) ==
  /\ \A e \in events : e.revision \in low..high
  /\ \A i \in low..high : \E e \in events : e.revision = i
  /\ \A e, f \in events : e.revision = f.revision => e = f

EventsWritten(c, s) == {e \in written[c].events : e.stream = s}

(* The head is advanced and the event that goes with it is still to come. *)
BetweenHeadAndEvent(c, s) == at[c].stage = "event" /\ at[c].stream = s

(* At most one open transaction has advanced the head of a stream. *)
HeadsAreLocked ==
  \A c, d \in Sessions, s \in Streams :
    written[c].heads[s] # Unwritten /\ written[d].heads[s] # Unwritten => c = d

(* What a transaction appends to a stream continues the committed events,  *)
(* up to the head it wrote, or to the one before while its event is due.   *)
RowsContinue(c, s) ==
  IF written[c].heads[s] = Unwritten
  THEN EventsWritten(c, s) = {} /\ ~BetweenHeadAndEvent(c, s)
  ELSE /\ written[c].heads[s] > rows.heads[s]
       /\ BetweenHeadAndEvent(c, s) => written[c].heads[s] = at[c].head + 1
       /\ Numbered(EventsWritten(c, s), rows.heads[s] + 1,
                   IF BetweenHeadAndEvent(c, s) THEN at[c].head ELSE written[c].heads[s])

WritesContinue == \A c \in Sessions, s \in Streams : RowsContinue(c, s)

RowsAreNumbered == \A s \in Streams : Numbered(EventsOf(s), 1, rows.heads[s])

(* A statement that was begun is counted when it ends. *)
Typed ==
  /\ LagrangeTypeOK
  /\ \A c \in Sessions : at[c].stage \in {"put", "append", "event"} => ops[c] < MaxOps

(* The rows alone are not inductive: what a commit adds to them has to     *)
(* continue them, which only the lock on the head row ensures.             *)
LagrangeInv == Typed /\ HeadsAreLocked /\ WritesContinue /\ RowsAreNumbered

----------------------------------------
(* Events numbered up to a point and events numbered from there on. *)
LEMMA NumberedUnion ==
  ASSUME NEW E, NEW F, NEW low \in Nat, NEW mid \in Nat, NEW high \in Nat,
         low <= mid + 1, mid <= high,
         Numbered(E, low, mid), Numbered(F, mid + 1, high)
  PROVE  Numbered(E \cup F, low, high)
<1>1. \A e \in E : e.revision \in low..mid BY DEF Numbered
<1>2. \A f \in F : f.revision \in (mid + 1)..high BY DEF Numbered
<1>3. \A e \in E \cup F : e.revision \in low..high BY <1>1, <1>2
<1>4. \A i \in low..high : \E e \in E \cup F : e.revision = i
  <2>1. ASSUME NEW i \in low..high PROVE i \in low..mid \/ i \in (mid + 1)..high
    OBVIOUS
  <2>2. QED BY <2>1 DEF Numbered
<1>5. \A e, f \in E \cup F : e.revision = f.revision => e = f
  <2>1. \A e \in E, f \in F : e.revision # f.revision BY <1>1, <1>2
  <2>2. QED BY <2>1 DEF Numbered
<1>6. QED BY <1>3, <1>4, <1>5 DEF Numbered

(* Events numbered up to a point and the next one. *)
LEMMA NumberedNext ==
  ASSUME NEW E, NEW e, NEW low \in Nat, NEW high \in Nat, low <= high + 1,
         Numbered(E, low, high), e.revision = high + 1
  PROVE  Numbered(E \cup {e}, low, high + 1)
<1>1. Numbered({e}, high + 1, high + 1) BY DEF Numbered
<1>2. QED BY <1>1, NumberedUnion

(* Numbered from 1, a set has as many elements as its last number. *)
LEMMA NumberedCardinality ==
  ASSUME NEW E, NEW n \in Nat, Numbered(E, 1, n)
  PROVE  /\ Cardinality(E) = n
         /\ {e.revision : e \in E} = 1..n
<1> DEFINE f == [i \in 1..n |-> CHOOSE e \in E : e.revision = i]
<1>1. \A i \in 1..n : f[i] \in E /\ f[i].revision = i BY DEF Numbered
<1>2. f \in [1..n -> E] BY <1>1
<1>3. \A i, j \in 1..n : f[i] = f[j] => i = j BY <1>1
<1>4. \A e \in E : \E i \in 1..n : f[i] = e
  <2>1. ASSUME NEW e \in E PROVE e.revision \in 1..n /\ f[e.revision] = e
    BY <1>1 DEF Numbered
  <2>2. QED BY <2>1
<1>5. f \in Bijection(1..n, E)
  BY <1>2, <1>3, <1>4, Zenon DEF Bijection, Injection, Surjection, IsInjective
<1>6. Cardinality(E) = n BY <1>5, FS_CountingElements DEF ExistsBijection
<1>7. {e.revision : e \in E} = 1..n BY DEF Numbered
<1>8. QED BY <1>6, <1>7

----------------------------------------
(* What a caller carries from one statement to the next has its type. *)
LEMMA PositionTypes ==
  ASSUME LagrangeTypeOK, NEW c \in Sessions
  PROVE  /\ at[c] = Open => at[c].stage = "open"
         /\ at[c].stage = "put" =>
              at[c].key \in Keys /\ at[c].text \in Texts /\ at[c].version \in Nat
         /\ at[c].stage \in {"append", "event"} =>
              /\ at[c].stream \in Streams /\ at[c].text \in Texts /\ at[c].head \in Nat
              /\ at[c] = [stage |-> at[c].stage, stream |-> at[c].stream,
                          text |-> at[c].text, head |-> at[c].head]
BY DEF LagrangeTypeOK, Positions, Closed, Open

(* A table under a write set is a table. *)
LEMMA OverlaidType ==
  ASSUME NEW S, NEW V, NEW f \in [S -> V], NEW g \in [S -> V \cup {Unwritten}]
  PROVE  Overlaid(f, g) \in [S -> V]
BY DEF Overlaid

(* What a session sees is typed. *)
LEMMA SeenTypes ==
  ASSUME LagrangeTypeOK, NEW c \in Sessions
  PROVE  /\ Overlaid(rows.records, written[c].records) \in [Keys -> Entry]
         /\ Overlaid(rows.heads, written[c].heads) \in [Streams -> Nat]
         /\ \A k \in Keys : RecordSeen(c, k).version \in Nat
         /\ \A s \in Streams :
              HeadSeen(c, s) = IF written[c].heads[s] = Unwritten
                               THEN rows.heads[s] ELSE written[c].heads[s]
<1>1. /\ rows.records \in [Keys -> Entry] /\ rows.heads \in [Streams -> Nat]
      /\ written[c].records \in [Keys -> Entry \cup {Unwritten}]
      /\ written[c].heads \in [Streams -> Nat \cup {Unwritten}]
  BY DEF LagrangeTypeOK, Tables, WriteSet
<1>2. Overlaid(rows.records, written[c].records) \in [Keys -> Entry]
  BY <1>1, OverlaidType
<1>3. Overlaid(rows.heads, written[c].heads) \in [Streams -> Nat]
  BY <1>1, OverlaidType
<1>4. \A k \in Keys : RecordSeen(c, k).version \in Nat
  BY <1>2 DEF RecordSeen, Entry
<1>5. \A s \in Streams :
        HeadSeen(c, s) = IF written[c].heads[s] = Unwritten
                         THEN rows.heads[s] ELSE written[c].heads[s]
  BY <1>1 DEF HeadSeen, Overlaid
<1>6. QED BY <1>2, <1>3, <1>4, <1>5

(* No writes are writes. *)
LEMMA NoWritesType == NoWrites \in WriteSet
BY DEF NoWrites, WriteSet

(* A write set with one more event, and one with one more record. *)
LEMMA EventWritten ==
  ASSUME LagrangeTypeOK, NEW c \in Sessions, NEW e \in EventRow,
         written' = [written EXCEPT ![c].events = written[c].events \cup {e}]
  PROVE  /\ written' \in [Sessions -> WriteSet]
         /\ \A d \in Sessions \ {c} : written'[d] = written[d]
         /\ written'[c].heads = written[c].heads
         /\ written'[c].events = written[c].events \cup {e}
<1>1. written \in [Sessions -> WriteSet] BY DEF LagrangeTypeOK
<1>2. written[c] = [records |-> written[c].records, heads |-> written[c].heads,
                    events |-> written[c].events]
  BY <1>1 DEF WriteSet
<1>3. written'[c] = [records |-> written[c].records, heads |-> written[c].heads,
                     events |-> written[c].events \cup {e}]
  BY <1>1, <1>2
<1>4. written'[c] \in WriteSet BY <1>1, <1>3 DEF WriteSet
<1>5. QED BY <1>1, <1>3, <1>4

(* A write of one record, field by field. *)
LEMMA RecordWritten ==
  ASSUME LagrangeTypeOK, NEW c \in Sessions, NEW k \in Keys, NEW e \in Entry,
         written' = [written EXCEPT ![c].records[k] = e]
  PROVE  /\ written' \in [Sessions -> WriteSet]
         /\ \A d \in Sessions \ {c} : written'[d] = written[d]
         /\ written'[c].heads = written[c].heads
         /\ written'[c].events = written[c].events
<1>1. written \in [Sessions -> WriteSet] BY DEF LagrangeTypeOK
<1>2. written[c] = [records |-> written[c].records, heads |-> written[c].heads,
                    events |-> written[c].events]
      /\ written[c].records \in [Keys -> Entry \cup {Unwritten}]
  BY <1>1 DEF WriteSet
<1>3. written'[c] = [records |-> [written[c].records EXCEPT ![k] = e],
                     heads |-> written[c].heads, events |-> written[c].events]
  BY <1>1, <1>2
<1>4. written'[c] \in WriteSet BY <1>1, <1>2, <1>3 DEF WriteSet
<1>5. QED BY <1>1, <1>3, <1>4

----------------------------------------
(* The database begins soundly. *)
LEMMA InitInvariant == LagrangeInit => LagrangeInv
<1> SUFFICES ASSUME LagrangeInit PROVE LagrangeInv
  OBVIOUS
<1>1. LagrangeTypeOK
  BY NoWritesType, LagrangeBounds
  DEF LagrangeInit, LagrangeTypeOK, Tables, EmptyState, Entry, Positions
<1>2. \A c \in Sessions, s \in Streams :
        written[c].heads[s] = Unwritten /\ written[c].events = {} /\ at[c].stage = "idle"
  BY DEF LagrangeInit, NoWrites, Closed
<1>3. HeadsAreLocked /\ WritesContinue
  BY <1>2 DEF HeadsAreLocked, WritesContinue, RowsContinue, EventsWritten, BetweenHeadAndEvent
<1>4. RowsAreNumbered BY DEF LagrangeInit, RowsAreNumbered, EventsOf, Numbered
<1>5. \A c \in Sessions : ~(at[c].stage \in {"put", "append", "event"})
  BY DEF LagrangeInit, Closed
<1>6. QED BY <1>1, <1>3, <1>4, <1>5, Zenon DEF LagrangeInv, Typed

(* The rest of the invariant when the rows stay and no head or event is written. *)
LEMMA OnlyPositionsChange ==
  ASSUME LagrangeInv, Typed', rows' = rows,
         \A c \in Sessions : /\ written'[c].heads = written[c].heads
                             /\ written'[c].events = written[c].events,
         \A c \in Sessions : at'[c] = at[c] \/ (at[c].stage # "event" /\ at'[c].stage # "event")
  PROVE  LagrangeInv'
<1>1. HeadsAreLocked' BY DEF LagrangeInv, HeadsAreLocked
<1>2. ASSUME NEW c \in Sessions, NEW s \in Streams PROVE RowsContinue(c, s)'
  <2>1. RowsContinue(c, s) BY DEF LagrangeInv, WritesContinue
  <2>2. EventsWritten(c, s)' = EventsWritten(c, s) BY DEF EventsWritten
  <2>3. CASE at'[c] = at[c]
    <3>1. BetweenHeadAndEvent(c, s)' = BetweenHeadAndEvent(c, s)
      BY <2>3 DEF BetweenHeadAndEvent
    <3>2. QED BY <2>1, <2>2, <2>3, <3>1 DEF RowsContinue
  <2>4. CASE at[c].stage # "event" /\ at'[c].stage # "event"
    <3>1. ~BetweenHeadAndEvent(c, s) /\ ~BetweenHeadAndEvent(c, s)'
      BY <2>4 DEF BetweenHeadAndEvent
    <3>2. QED BY <2>1, <2>2, <3>1 DEF RowsContinue
  <2>5. QED BY <2>3, <2>4
<1>3. RowsAreNumbered' BY DEF LagrangeInv, RowsAreNumbered, EventsOf
<1>4. QED BY <1>1, <1>2, <1>3 DEF LagrangeInv, WritesContinue

(* The rest of the invariant when some transactions are gone and the rest stay. *)
LEMMA SomeTransactionsEnd ==
  ASSUME LagrangeInv, Typed', rows' = rows,
         \A c \in Sessions : \/ at'[c] = at[c] /\ written'[c] = written[c]
                             \/ at'[c] = Closed /\ written'[c] = NoWrites
  PROVE  LagrangeInv'
<1>1. \A c \in Sessions, s \in Streams :
        written'[c] = NoWrites => written'[c].heads[s] = Unwritten /\ EventsWritten(c, s)' = {}
  BY DEF NoWrites, EventsWritten
<1>2. HeadsAreLocked'
  <2>1. SUFFICES ASSUME NEW c \in Sessions, NEW d \in Sessions, NEW s \in Streams,
                        written'[c].heads[s] # Unwritten, written'[d].heads[s] # Unwritten
                 PROVE  c = d
    BY DEF HeadsAreLocked
  <2>2. written'[c] = written[c] /\ written'[d] = written[d] BY <1>1, <2>1
  <2>3. QED BY <2>1, <2>2 DEF LagrangeInv, HeadsAreLocked
<1>3. ASSUME NEW c \in Sessions, NEW s \in Streams PROVE RowsContinue(c, s)'
  <2>1. CASE at'[c] = at[c] /\ written'[c] = written[c]
    BY <2>1 DEF LagrangeInv, WritesContinue, RowsContinue, EventsWritten, BetweenHeadAndEvent
  <2>2. CASE at'[c] = Closed /\ written'[c] = NoWrites
    BY <1>1, <2>2 DEF RowsContinue, BetweenHeadAndEvent, Closed
  <2>3. QED BY <2>1, <2>2
<1>4. RowsAreNumbered' BY DEF LagrangeInv, RowsAreNumbered, EventsOf
<1>5. QED BY <1>2, <1>3, <1>4 DEF LagrangeInv, WritesContinue

(* The statements before a write only move a caller. *)
LEMMA BeginInvariant ==
  ASSUME LagrangeInv, NEW c \in Sessions, Begin(c) PROVE LagrangeInv'
<1>1. Typed' BY DEF LagrangeInv, Typed, LagrangeTypeOK, Begin, Positions, Open
<1>2. QED BY <1>1, OnlyPositionsChange DEF LagrangeInv, Typed, LagrangeTypeOK, Begin, Closed, Open

(* A session selects a record. *)
LEMMA SelectRecordInvariant ==
  ASSUME LagrangeInv, NEW c \in Sessions, NEW k \in Keys, NEW text \in Texts, NEW expected,
         SelectRecord(c, k, text, expected)
  PROVE  LagrangeInv'
<1> DEFINE found == [stage |-> "put", key |-> k, text |-> text,
                     version |-> RecordSeen(c, k).version]
<1>1. at' = [at EXCEPT ![c] = found] /\ at[c].stage = "open"
  BY DEF SelectRecord, Open
<1>2. found \in Positions BY SeenTypes DEF LagrangeInv, Typed, Positions
<1>3. at' \in [Sessions -> Positions]
  BY <1>1, <1>2 DEF LagrangeInv, Typed, LagrangeTypeOK
<1>4. Typed' BY <1>3 DEF LagrangeInv, Typed, LagrangeTypeOK, SelectRecord
<1>5. \A d \in Sessions : at'[d] = at[d] \/ (at[d].stage # "event" /\ at'[d].stage # "event")
  BY <1>1 DEF LagrangeInv, Typed, LagrangeTypeOK
<1>6. rows' = rows /\ written' = written BY DEF SelectRecord
<1>7. QED BY <1>4, <1>5, <1>6, OnlyPositionsChange

(* A session selects a head. *)
LEMMA SelectHeadInvariant ==
  ASSUME LagrangeInv, NEW c \in Sessions, NEW s \in Streams, NEW text \in Texts,
         SelectHead(c, s, text)
  PROVE  LagrangeInv'
<1> DEFINE found == [stage |-> "append", stream |-> s, text |-> text, head |-> HeadSeen(c, s)]
<1>1. at' = [at EXCEPT ![c] = found] /\ at[c].stage = "open"
  BY DEF SelectHead, Open
<1>2. HeadSeen(c, s) \in Nat BY SeenTypes DEF LagrangeInv, Typed, HeadSeen
<1>3. found \in Positions BY <1>2 DEF Positions
<1>4. at' \in [Sessions -> Positions]
  BY <1>1, <1>3 DEF LagrangeInv, Typed, LagrangeTypeOK
<1>5. Typed' BY <1>4 DEF LagrangeInv, Typed, LagrangeTypeOK, SelectHead
<1>6. \A d \in Sessions : at'[d] = at[d] \/ (at[d].stage # "event" /\ at'[d].stage # "event")
  BY <1>1 DEF LagrangeInv, Typed, LagrangeTypeOK
<1>7. rows' = rows /\ written' = written BY DEF SelectHead
<1>8. QED BY <1>5, <1>6, <1>7, OnlyPositionsChange

(* A session writes a record. *)
LEMMA WriteRecordInvariant ==
  ASSUME LagrangeInv, NEW c \in Sessions, WriteRecord(c) PROVE LagrangeInv'
<1> DEFINE entry == [version |-> at[c].version + 1, text |-> at[c].text]
<1>0. at[c].stage = "put" BY Zenon DEF WriteRecord
<1>a. at[c].key \in Keys /\ at[c].text \in Texts /\ at[c].version \in Nat
  BY <1>0, PositionTypes, Zenon DEF LagrangeInv, Typed
<1>b. entry \in Entry BY <1>a DEF Entry
<1>c. ops[c] < MaxOps BY <1>0 DEF LagrangeInv, Typed
<1>1. at[c].stage = "put" /\ at[c].key \in Keys /\ entry \in Entry /\ ops[c] < MaxOps
  BY <1>0, <1>a, <1>b, <1>c
<1>2. /\ written' = [written EXCEPT ![c].records[at[c].key] = entry]
      /\ at' = [at EXCEPT ![c] = Open] /\ rows' = rows
      /\ ops' = [ops EXCEPT ![c] = ops[c] + 1]
      /\ UNCHANGED <<lifecycle, starting, commits>>
  BY Zenon DEF WriteRecord
<1>3. /\ written' \in [Sessions -> WriteSet]
      /\ \A d \in Sessions : written'[d].heads = written[d].heads
                             /\ written'[d].events = written[d].events
  BY <1>1, <1>2, RecordWritten DEF LagrangeInv, Typed
<1>4. at' \in [Sessions -> Positions]
  BY <1>2 DEF LagrangeInv, Typed, LagrangeTypeOK, Positions
<1>5. Typed'
  BY <1>1, <1>2, <1>3, <1>4, LagrangeBounds DEF LagrangeInv, Typed, LagrangeTypeOK, Open
<1>6. \A d \in Sessions : at'[d] = at[d] \/ (at[d].stage # "event" /\ at'[d].stage # "event")
  BY <1>1, <1>2 DEF LagrangeInv, Typed, LagrangeTypeOK, Open
<1>7. QED BY <1>2, <1>3, <1>5, <1>6, OnlyPositionsChange

(* The rest of the invariant when one caller writes to one stream. *)
LEMMA OneStreamIsWritten ==
  ASSUME LagrangeInv, Typed', rows' = rows, NEW c \in Sessions, NEW s \in Streams,
         \A d \in Sessions \ {c} : at'[d] = at[d] /\ written'[d] = written[d],
         \A t \in Streams \ {s} :
           /\ written'[c].heads[t] = written[c].heads[t]
           /\ EventsWritten(c, t)' = EventsWritten(c, t)
           /\ ~BetweenHeadAndEvent(c, t) /\ ~BetweenHeadAndEvent(c, t)',
         \A d \in Sessions \ {c} : written[d].heads[s] = Unwritten,
         RowsContinue(c, s)'
  PROVE  LagrangeInv'
<1>1. HeadsAreLocked'
  <2>1. SUFFICES ASSUME NEW d \in Sessions, NEW e \in Sessions, NEW t \in Streams,
                        written'[d].heads[t] # Unwritten, written'[e].heads[t] # Unwritten
                 PROVE  d = e
    BY DEF HeadsAreLocked
  <2>2. CASE t = s
    <3>1. d = c BY <2>1, <2>2
    <3>2. e = c BY <2>1, <2>2
    <3>3. QED BY <3>1, <3>2
  <2>3. CASE t # s
    <3>1. written[d].heads[t] # Unwritten BY <2>1, <2>3
    <3>2. written[e].heads[t] # Unwritten BY <2>1, <2>3
    <3>3. QED BY <3>1, <3>2 DEF LagrangeInv, HeadsAreLocked
  <2>4. QED BY <2>2, <2>3
<1>2. ASSUME NEW d \in Sessions \ {c}, NEW t \in Streams PROVE RowsContinue(d, t)'
  <2>1. RowsContinue(d, t) BY DEF LagrangeInv, WritesContinue
  <2>2. at'[d] = at[d] /\ written'[d] = written[d] OBVIOUS
  <2>3. EventsWritten(d, t)' = EventsWritten(d, t)
        /\ BetweenHeadAndEvent(d, t)' = BetweenHeadAndEvent(d, t)
    BY <2>2 DEF EventsWritten, BetweenHeadAndEvent
  <2>4. QED BY <2>1, <2>2, <2>3 DEF RowsContinue
<1>3. ASSUME NEW t \in Streams \ {s} PROVE RowsContinue(c, t)'
  <2>1. RowsContinue(c, t) BY DEF LagrangeInv, WritesContinue
  <2>2. QED BY <2>1 DEF RowsContinue
<1>4. WritesContinue'
  <2>1. ASSUME NEW d \in Sessions, NEW t \in Streams PROVE RowsContinue(d, t)'
    <3>1. CASE d # c
      BY <1>2, <3>1
    <3>2. CASE d = c /\ t # s
      BY <1>3, <3>2
    <3>3. CASE d = c /\ t = s
      BY <3>3
    <3>4. QED BY <3>1, <3>2, <3>3
  <2>2. QED BY <2>1 DEF WritesContinue
<1>5. RowsAreNumbered' BY DEF LagrangeInv, RowsAreNumbered, EventsOf
<1>6. QED BY <1>1, <1>4, <1>5 DEF LagrangeInv

(* A head is written on the condition that it is still what was read. *)
LEMMA WriteHeadInvariant ==
  ASSUME LagrangeInv, NEW c \in Sessions, WriteHead(c) PROVE LagrangeInv'
<1> PICK s \in Streams, text \in Texts, h \in Nat :
      at[c] = [stage |-> "append", stream |-> s, text |-> text, head |-> h]
  <2>1. at[c].stage = "append" BY Zenon DEF WriteHead
  <2>2. QED BY <2>1, PositionTypes DEF LagrangeInv, Typed
<1> PICK n \in Nat : n = h + 1
  OBVIOUS
<1> DEFINE next == [stage |-> "event", stream |-> s, text |-> text, head |-> h]
<1>1. at[c].stage = "append" /\ at[c].stream = s /\ at[c].head = h
      /\ [at[c] EXCEPT !.stage = "event"] = next /\ at[c].head + 1 = n
  OBVIOUS
<1>2. HeadFree(c, s) BY <1>1, Zenon DEF WriteHead
<1>3. HeadUnmoved(c, s, h) BY <1>1, Zenon DEF WriteHead
<1>4. written' = [written EXCEPT ![c].heads[s] = n] BY <1>1, Zenon DEF WriteHead
<1>5. at' = [at EXCEPT ![c] = next] /\ UNCHANGED <<rows, ops, lifecycle, starting, commits>>
  BY <1>1, Zenon DEF WriteHead
<1>6. /\ written' \in [Sessions -> WriteSet]
      /\ \A d \in Sessions \ {c} : written'[d] = written[d]
      /\ written'[c].heads = [written[c].heads EXCEPT ![s] = n]
      /\ written'[c].events = written[c].events
  <2>1. written \in [Sessions -> WriteSet]
    BY DEF LagrangeInv, Typed, LagrangeTypeOK
  <2>2. written[c] = [records |-> written[c].records, heads |-> written[c].heads,
                      events |-> written[c].events]
        /\ written[c].heads \in [Streams -> Nat \cup {Unwritten}]
    BY <2>1 DEF WriteSet
  <2>3. written'[c] = [records |-> written[c].records,
                       heads |-> [written[c].heads EXCEPT ![s] = n],
                       events |-> written[c].events]
    BY <1>4, <2>1, <2>2
  <2>4. written'[c] \in WriteSet BY <2>1, <2>2, <2>3 DEF WriteSet
  <2>5. QED BY <1>4, <2>1, <2>3, <2>4
<1>7. /\ at' \in [Sessions -> Positions] /\ at'[c] = next
      /\ \A d \in Sessions \ {c} : at'[d] = at[d]
  <2>1. next \in Positions BY DEF Positions
  <2>2. QED BY <1>5, <2>1 DEF LagrangeInv, Typed, LagrangeTypeOK
<1>8. Typed'
  <2>1. LagrangeTypeOK'
    BY <1>5, <1>6, <1>7 DEF LagrangeInv, Typed, LagrangeTypeOK
  <2>2. ASSUME NEW d \in Sessions, at'[d].stage \in {"put", "append", "event"}
        PROVE  ops'[d] < MaxOps
    BY <1>1, <1>5, <1>7, <2>2 DEF LagrangeInv, Typed
  <2>3. QED BY <2>1, <2>2 DEF Typed
<1>9. /\ written[c].heads \in [Streams -> Nat \cup {Unwritten}]
      /\ rows.heads[s] \in Nat /\ rows' = rows
  BY <1>5 DEF LagrangeInv, Typed, LagrangeTypeOK, WriteSet, Tables
<1>10. RowsContinue(c, s)'
  <2>1. HeadSeen(c, s) = h BY <1>3 DEF HeadUnmoved
  <2>2. HeadSeen(c, s) = IF written[c].heads[s] = Unwritten THEN rows.heads[s]
                         ELSE written[c].heads[s]
    BY SeenTypes DEF LagrangeInv, Typed
  <2>3. RowsContinue(c, s) /\ ~BetweenHeadAndEvent(c, s)
    BY <1>1 DEF LagrangeInv, WritesContinue, BetweenHeadAndEvent
  <2>4. BetweenHeadAndEvent(c, s)' /\ at'[c].head = h
    BY <1>7 DEF BetweenHeadAndEvent
  <2>5. written'[c].heads[s] = n /\ n # Unwritten
    BY <1>1, <1>6, <1>9, UnwrittenAssumption
  <2>6. EventsWritten(c, s)' = EventsWritten(c, s) BY <1>6 DEF EventsWritten
  <2>7. h >= rows.heads[s] /\ Numbered(EventsWritten(c, s), rows.heads[s] + 1, h)
    <3>1. CASE written[c].heads[s] = Unwritten
      <4>1. h = rows.heads[s] /\ EventsWritten(c, s) = {}
        BY <2>1, <2>2, <2>3, <3>1 DEF RowsContinue
      <4>2. Numbered({}, h + 1, h) BY DEF Numbered
      <4>3. QED BY <1>9, <4>1, <4>2
    <3>2. CASE written[c].heads[s] # Unwritten
      BY <1>9, <2>1, <2>2, <2>3, <3>2 DEF RowsContinue
    <3>3. QED BY <3>1, <3>2
  <2>8. n > rows.heads[s] BY <1>9, <2>7
  <2>9. rows'.heads[s] = rows.heads[s] BY <1>9
  <2>10. QED BY <2>4, <2>5, <2>6, <2>7, <2>8, <2>9 DEF RowsContinue
<1>11. ASSUME NEW t \in Streams \ {s}
       PROVE  /\ written'[c].heads[t] = written[c].heads[t]
              /\ EventsWritten(c, t)' = EventsWritten(c, t)
              /\ ~BetweenHeadAndEvent(c, t) /\ ~BetweenHeadAndEvent(c, t)'
  BY <1>1, <1>6, <1>7, <1>9 DEF EventsWritten, BetweenHeadAndEvent
<1>12. \A d \in Sessions \ {c} : written[d].heads[s] = Unwritten
  BY <1>2, Zenon DEF HeadFree
<1>13. QED BY <1>6, <1>7, <1>8, <1>9, <1>10, <1>11, <1>12, OneStreamIsWritten

(* The event takes the head just written, and no other transaction can have one. *)
LEMMA InsertEventInvariant ==
  ASSUME LagrangeInv, NEW c \in Sessions, InsertEvent(c) PROVE LagrangeInv'
<1> PICK s \in Streams, text \in Texts, h \in Nat :
      at[c] = [stage |-> "event", stream |-> s, text |-> text, head |-> h]
  <2>1. at[c].stage = "event" BY Zenon DEF InsertEvent
  <2>2. QED BY <2>1, PositionTypes DEF LagrangeInv, Typed
<1> DEFINE event == [stream |-> s, revision |-> h + 1, text |-> text]
<1>1. at[c].stage = "event" /\ at[c].stream = s /\ at[c].head = h /\ at[c].text = text
      /\ event \in EventRow
  BY DEF EventRow
<1>2. written' = [written EXCEPT ![c].events = written[c].events \cup {event}]
  BY <1>1, Zenon DEF InsertEvent
<1>3. /\ at' = [at EXCEPT ![c] = Open] /\ ops' = [ops EXCEPT ![c] = ops[c] + 1]
      /\ UNCHANGED <<rows, lifecycle, starting, commits>>
  BY Zenon DEF InsertEvent
<1>4. /\ written' \in [Sessions -> WriteSet]
      /\ \A d \in Sessions \ {c} : written'[d] = written[d]
      /\ written'[c].heads = written[c].heads
      /\ written'[c].events = written[c].events \cup {event}
  BY <1>1, <1>2, EventWritten, Zenon DEF LagrangeInv, Typed
<1>5. /\ at' \in [Sessions -> Positions] /\ at'[c] = Open /\ at'[c].stage = "open"
      /\ \A d \in Sessions \ {c} : at'[d] = at[d]
  BY <1>3 DEF LagrangeInv, Typed, LagrangeTypeOK, Positions, Open
<1>6. ops[c] < MaxOps BY <1>1 DEF LagrangeInv, Typed
<1>7. Typed'
  <2>1. LagrangeTypeOK'
    BY <1>3, <1>4, <1>5, <1>6, LagrangeBounds DEF LagrangeInv, Typed, LagrangeTypeOK
  <2>2. ASSUME NEW d \in Sessions, at'[d].stage \in {"put", "append", "event"}
        PROVE  ops'[d] < MaxOps
    BY <1>3, <1>5, <2>2 DEF LagrangeInv, Typed, LagrangeTypeOK
  <2>3. QED BY <2>1, <2>2 DEF Typed
<1>8. rows.heads[s] \in Nat /\ rows' = rows
  BY <1>3 DEF LagrangeInv, Typed, LagrangeTypeOK, Tables
<1>9. BetweenHeadAndEvent(c, s) /\ RowsContinue(c, s)
  BY <1>1 DEF BetweenHeadAndEvent, LagrangeInv, WritesContinue
<1>10. /\ written[c].heads[s] # Unwritten
       /\ written[c].heads[s] > rows.heads[s] /\ written[c].heads[s] = h + 1
       /\ Numbered(EventsWritten(c, s), rows.heads[s] + 1, h)
  BY <1>1, <1>9 DEF RowsContinue
<1>11. RowsContinue(c, s)'
  <2>1. EventsWritten(c, s)' = EventsWritten(c, s) \cup {event}
    BY <1>4 DEF EventsWritten
  <2>2. rows.heads[s] + 1 \in Nat /\ rows.heads[s] + 1 <= h + 1 BY <1>8, <1>10
  <2>3. Numbered(EventsWritten(c, s) \cup {event}, rows.heads[s] + 1, h + 1)
    BY <1>10, <2>2, NumberedNext
  <2>4. ~BetweenHeadAndEvent(c, s)' BY <1>5 DEF BetweenHeadAndEvent
  <2>5. written'[c].heads[s] = h + 1 /\ rows'.heads[s] = rows.heads[s]
    BY <1>4, <1>8, <1>10
  <2>6. QED BY <1>10, <2>1, <2>3, <2>4, <2>5 DEF RowsContinue
<1>12. ASSUME NEW t \in Streams \ {s}
       PROVE  /\ written'[c].heads[t] = written[c].heads[t]
              /\ EventsWritten(c, t)' = EventsWritten(c, t)
              /\ ~BetweenHeadAndEvent(c, t) /\ ~BetweenHeadAndEvent(c, t)'
  BY <1>1, <1>4, <1>5 DEF EventsWritten, BetweenHeadAndEvent
<1>13. \A d \in Sessions \ {c} : written[d].heads[s] = Unwritten
  BY <1>10 DEF LagrangeInv, HeadsAreLocked
<1>14. QED BY <1>4, <1>5, <1>7, <1>8, <1>11, <1>12, <1>13, OneStreamIsWritten

----------------------------------------
(* What a transaction appended continues the rows, so the rows with it are *)
(* numbered; and every other transaction saw the heads it did not touch.   *)
LEMMA CommitInvariant ==
  ASSUME LagrangeInv, NEW c \in Sessions, Commit(c) PROVE LagrangeInv'
<1>1. /\ at[c] = Open /\ commits < MaxCommits /\ commits' = commits + 1
      /\ rows' = [records |-> Overlaid(rows.records, written[c].records),
                  heads |-> Overlaid(rows.heads, written[c].heads),
                  events |-> rows.events \cup written[c].events]
      /\ at' = [at EXCEPT ![c] = Closed]
      /\ written' = [written EXCEPT ![c] = NoWrites]
      /\ ops' = [ops EXCEPT ![c] = 0]
      /\ UNCHANGED <<lifecycle, starting>>
  BY Zenon DEF Commit, EndTransaction
<1>2. LagrangeTypeOK BY DEF LagrangeInv, Typed
<1>3. /\ written'[c] = NoWrites /\ at'[c] = Closed
      /\ \A d \in Sessions \ {c} : written'[d] = written[d] /\ at'[d] = at[d]
      /\ written' \in [Sessions -> WriteSet] /\ at' \in [Sessions -> Positions]
  BY <1>1, <1>2, NoWritesType DEF LagrangeTypeOK, Positions
<1>4. /\ rows'.heads = Overlaid(rows.heads, written[c].heads)
      /\ rows'.events = rows.events \cup written[c].events
      /\ rows' \in Tables
  <2>1. rows.events \in SUBSET EventRow /\ written[c].events \in SUBSET EventRow
    BY <1>2 DEF LagrangeTypeOK, Tables, WriteSet
  <2>2. rows.events \cup written[c].events \in SUBSET EventRow BY <2>1
  <2>3. QED BY <1>1, <1>2, <2>2, SeenTypes DEF Tables
<1>5. Typed'
  <2>1. ops' \in [Sessions -> 0..MaxOps] /\ commits' \in 0..MaxCommits
    BY <1>1, <1>2, LagrangeBounds DEF LagrangeTypeOK
  <2>2. LagrangeTypeOK' BY <1>1, <1>2, <1>3, <1>4, <2>1 DEF LagrangeTypeOK
  <2>3. ASSUME NEW d \in Sessions, at'[d].stage \in {"put", "append", "event"}
        PROVE  ops'[d] < MaxOps
    <3>1. d # c /\ at'[d] = at[d] BY <1>3, <2>3 DEF Closed
    <3>2. QED BY <1>1, <2>3, <3>1 DEF LagrangeInv, Typed, LagrangeTypeOK
  <2>4. QED BY <2>2, <2>3 DEF Typed
<1>6. \A s \in Streams : written'[c].heads[s] = Unwritten /\ EventsWritten(c, s)' = {}
  BY <1>3 DEF NoWrites, EventsWritten
<1>7. \A s \in Streams :
        /\ rows.heads[s] \in Nat
        /\ rows'.heads[s] = IF written[c].heads[s] = Unwritten THEN rows.heads[s]
                            ELSE written[c].heads[s]
  BY <1>2, <1>4, SeenTypes DEF LagrangeTypeOK, Tables, HeadSeen
<1>8. HeadsAreLocked'
  <2>1. SUFFICES ASSUME NEW d \in Sessions, NEW e \in Sessions, NEW s \in Streams,
                        written'[d].heads[s] # Unwritten, written'[e].heads[s] # Unwritten
                 PROVE  d = e
    BY DEF HeadsAreLocked
  <2>2. written'[d] = written[d] /\ written'[e] = written[e] BY <1>3, <1>6, <2>1
  <2>3. QED BY <2>1, <2>2 DEF LagrangeInv, HeadsAreLocked
<1>9. ASSUME NEW d \in Sessions, NEW s \in Streams PROVE RowsContinue(d, s)'
  <2>1. CASE d = c
    BY <1>3, <1>6, <2>1 DEF RowsContinue, BetweenHeadAndEvent, Closed
  <2>2. CASE d # c
    <3>1. /\ written'[d] = written[d] /\ at'[d] = at[d]
          /\ EventsWritten(d, s)' = EventsWritten(d, s)
          /\ BetweenHeadAndEvent(d, s)' = BetweenHeadAndEvent(d, s)
      BY <1>3, <2>2 DEF EventsWritten, BetweenHeadAndEvent
    <3>2. RowsContinue(d, s) BY DEF LagrangeInv, WritesContinue
    <3>3. CASE written[d].heads[s] = Unwritten
      BY <3>1, <3>2, <3>3 DEF RowsContinue
    <3>4. CASE written[d].heads[s] # Unwritten
      <4>1. written[c].heads[s] = Unwritten
        BY <2>2, <3>4 DEF LagrangeInv, HeadsAreLocked
      <4>2. rows'.heads[s] = rows.heads[s] BY <1>7, <4>1
      <4>3. QED BY <3>1, <3>2, <4>2 DEF RowsContinue
    <3>5. QED BY <3>3, <3>4
  <2>3. QED BY <2>1, <2>2
<1>10. ASSUME NEW s \in Streams PROVE Numbered(EventsOf(s)', 1, rows'.heads[s])
  <2>1. EventsOf(s)' = EventsOf(s) \cup EventsWritten(c, s)
    BY <1>4 DEF EventsOf, EventsWritten
  <2>2. Numbered(EventsOf(s), 1, rows.heads[s])
    BY DEF LagrangeInv, RowsAreNumbered
  <2>3. RowsContinue(c, s) /\ ~BetweenHeadAndEvent(c, s)
    BY <1>1 DEF LagrangeInv, WritesContinue, BetweenHeadAndEvent, Open
  <2>4. CASE written[c].heads[s] = Unwritten
    <3>1. EventsOf(s)' = EventsOf(s) BY <2>1, <2>3, <2>4 DEF RowsContinue
    <3>2. rows'.heads[s] = rows.heads[s] BY <1>7, <2>4
    <3>3. QED BY <2>2, <3>1, <3>2
  <2>5. CASE written[c].heads[s] # Unwritten
    <3>1. /\ written[c].heads[s] \in Nat
          /\ written[c].heads[s] > rows.heads[s]
          /\ Numbered(EventsWritten(c, s), rows.heads[s] + 1, written[c].heads[s])
      BY <1>2, <2>3, <2>5 DEF RowsContinue, LagrangeTypeOK, WriteSet
    <3>2. rows'.heads[s] = written[c].heads[s] BY <1>7, <2>5
    <3>3. 1 <= rows.heads[s] + 1 /\ rows.heads[s] <= written[c].heads[s]
      BY <1>7, <3>1
    <3>4. QED BY <1>7, <2>1, <2>2, <3>1, <3>2, <3>3, NumberedUnion
  <2>6. QED BY <2>4, <2>5
<1>11. RowsAreNumbered' BY <1>10 DEF RowsAreNumbered
<1>12. QED BY <1>5, <1>8, <1>9, <1>11 DEF LagrangeInv, WritesContinue

(* A session rolls back. *)
LEMMA RollbackInvariant ==
  ASSUME LagrangeInv, NEW c \in Sessions, Rollback(c) PROVE LagrangeInv'
<1>1. /\ at' = [at EXCEPT ![c] = Closed] /\ written' = [written EXCEPT ![c] = NoWrites]
      /\ ops' = [ops EXCEPT ![c] = 0] /\ UNCHANGED <<rows, lifecycle, starting, commits>>
  BY DEF Rollback, EndTransaction
<1>2. Typed'
  BY <1>1, NoWritesType, LagrangeBounds DEF LagrangeInv, Typed, LagrangeTypeOK, Positions, Closed
<1>3. \A d \in Sessions : \/ at'[d] = at[d] /\ written'[d] = written[d]
                          \/ at'[d] = Closed /\ written'[d] = NoWrites
  BY <1>1 DEF LagrangeInv, Typed, LagrangeTypeOK
<1>4. QED BY <1>1, <1>2, <1>3, SomeTransactionsEnd

(* stop() and a crash end every transaction; the rest of the life cycle ends none. *)
LEMMA LifecycleInvariant ==
  ASSUME LagrangeInv, Lifecycle PROVE LagrangeInv'
<1>1. CASE StopAdapter \/ RestartAdapter
  <2>1. /\ at' = [c \in Sessions |-> Closed] /\ written' = [c \in Sessions |-> NoWrites]
        /\ ops' = [c \in Sessions |-> 0] /\ UNCHANGED <<rows, commits>>
        /\ lifecycle' \in {"stopped", "created"} /\ starting' \in {"no", starting}
    BY <1>1 DEF StopAdapter, RestartAdapter
  <2>2. Typed'
    BY <2>1, NoWritesType, LagrangeBounds DEF LagrangeInv, Typed, LagrangeTypeOK, Positions, Closed
  <2>3. QED BY <2>1, <2>2, SomeTransactionsEnd
<1>2. CASE StartAdapter \/ RuntimeStarted \/ SchemaReady \/ StartFails
  <2>1. /\ UNCHANGED <<rows, written, at, ops, commits>>
        /\ lifecycle' \in {"starting", "started", "failed", lifecycle}
        /\ starting' \in {"no", "runtime", "schema"}
    BY <1>2 DEF StartAdapter, RuntimeStarted, SchemaReady, StartFails
  <2>2. Typed' BY <2>1 DEF LagrangeInv, Typed, LagrangeTypeOK
  <2>3. QED BY <2>1, <2>2, OnlyPositionsChange
<1>3. QED BY <1>1, <1>2 DEF Lifecycle

(* A step that changes nothing keeps it. *)
LEMMA StutterInvariant == LagrangeInv /\ UNCHANGED lagrangeVars => LagrangeInv'
<1> SUFFICES ASSUME LagrangeInv, UNCHANGED lagrangeVars PROVE LagrangeInv'
  OBVIOUS
<1>1. Typed' BY DEF LagrangeInv, Typed, LagrangeTypeOK, lagrangeVars
<1>2. QED BY <1>1, OnlyPositionsChange DEF lagrangeVars

----------------------------------------
(* The inductive invariant: types, locked heads, and event numbers that    *)
(* run on from the committed rows into what each transaction has written.  *)
THEOREM LagrangeInvariance == LagrangeSpec => []LagrangeInv
<1>1. LagrangeInit => LagrangeInv BY InitInvariant
<1>2. LagrangeInv /\ [LagrangeNext]_lagrangeVars => LagrangeInv'
  <2> SUFFICES ASSUME LagrangeInv, [LagrangeNext]_lagrangeVars PROVE LagrangeInv'
    OBVIOUS
  <2>1. ASSUME NEW c \in Sessions, Statement(c) PROVE LagrangeInv'
    BY <2>1, SelectRecordInvariant, WriteRecordInvariant, SelectHeadInvariant,
       WriteHeadInvariant, InsertEventInvariant DEF Statement
  <2>2. ASSUME NEW c \in Sessions, Begin(c) \/ Commit(c) \/ Rollback(c) PROVE LagrangeInv'
    BY <2>2, BeginInvariant, CommitInvariant, RollbackInvariant
  <2>3. QED BY <2>1, <2>2, LifecycleInvariant, StutterInvariant DEF LagrangeNext
<1>3. QED BY <1>1, <1>2, PTL DEF LagrangeSpec

(* The adapter's state stays within its types. *)
THEOREM LagrangeTypeCorrect == LagrangeSpec => []LagrangeTypeOK
<1>1. LagrangeInv => LagrangeTypeOK BY DEF LagrangeInv, Typed
<1>2. QED BY <1>1, LagrangeInvariance, PTL

(* Whatever appends interleave, roll back or die with the process, the     *)
(* committed events of a stream are numbered 1 to its head, one for each   *)
(* number (appendEvent, readStreamHead).                                   *)
THEOREM StreamsNeverGap == LagrangeSpec => []StreamsHaveNoGaps
<1>1. LagrangeInv => StreamsHaveNoGaps
  <2> SUFFICES ASSUME LagrangeInv, NEW s \in Streams
               PROVE  /\ Cardinality(EventsOf(s)) = rows.heads[s]
                      /\ {e.revision : e \in EventsOf(s)} = 1..rows.heads[s]
    BY DEF StreamsHaveNoGaps
  <2>1. rows.heads[s] \in Nat /\ Numbered(EventsOf(s), 1, rows.heads[s])
    BY DEF LagrangeInv, Typed, LagrangeTypeOK, Tables, RowsAreNumbered
  <2>2. QED BY <2>1, NumberedCardinality
<1>2. QED BY <1>1, LagrangeInvariance, PTL

----------------------------------------
(* What runs beside it does not change a part of the workload: a behaviour *)
(* of the whole is one of each part.                                       *)
LEMMA PartsAreThemselves == ImagesSpec => ImageSpec /\ RelocationSpec /\ LagrangeSpec
<1>1. ImagesInit => ImageInit /\ RelocationInit /\ LagrangeInit
  BY DEF ImagesInit
<1>2. [ImagesNext]_imagesVars => [ImageNext]_imageVars
  BY DEF ImagesNext, ImagePart, imagesVars
<1>3. [ImagesNext]_imagesVars => [RelocationNext]_relocationVars
  BY DEF ImagesNext, ImagePart, imagesVars
<1>4. [ImagesNext]_imagesVars => [LagrangeNext]_lagrangeVars
  BY DEF ImagesNext, ImagePart, imagesVars
<1> QED BY <1>1, <1>2, <1>3, <1>4, PTL DEF ImagesSpec, ImageSpec, RelocationSpec, LagrangeSpec

(* The types of the image service, of the relocation and of the adapter    *)
(* together (graph-image-service.js, placement.js, lagrange-backend.js).   *)
THEOREM ImagesTypeCorrect == ImagesSpec => []ImagesTypeOK
BY PartsAreThemselves, ImageTypeCorrect, RelocationTypeCorrect, LagrangeTypeCorrect, PTL
   DEF ImagesTypeOK

(* What the run checks of all three, for every value of the constants: the *)
(* history of an image is the image, layouts stay valid, the last update   *)
(* of a record that moves survives, the streams have no gaps.              *)
THEOREM ImagesKeepTheirPromises ==
  ImagesSpec => /\ [](HistoryIsTheImage /\ LastUpdateSurvives /\ StreamsHaveNoGaps)
                /\ LayoutsStayValid
BY PartsAreThemselves, HistoryTellsTheImage, UpdatesSurvive, StreamsNeverGap, LayoutsStay, PTL

========================================
