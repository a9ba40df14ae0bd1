------------------------ MODULE MethodDictionaryProofs ------------------------
(***************************************************************************)
(* For any selectors, definitions, founding methods, requests, callers,    *)
(* migrators and senders, and for any bounds: the types of                 *)
(* MethodDictionary hold, a migration never builds on anything but the     *)
(* sealed table, and a lookup finds a table the class had meanwhile.       *)
(***************************************************************************)
EXTENDS MethodDictionary, TLAPS

(* What a call still has to publish is among the selectors it names. *)
TodoIsNamed ==
  \A c \in Callers : /\ call[c].todo \subseteq DOMAIN call[c].want
                     /\ DOMAIN call[c].published \subseteq DOMAIN call[c].want

(* The edge names the hashed dictionary only once that exists and the      *)
(* legacy one is sealed.                                                   *)
EdgeFollowsSeal ==
  behavior.edge = "hashed" => dictionary["legacy"].sealed /\ dictionary["hashed"].version > 0

(* A call reads the hashed dictionary only through the swapped edge, and   *)
(* one that read the legacy dictionary before its seal is outrun by it.    *)
CallsAreOutrun ==
  \A c \in Callers :
    /\ call[c].read.at = "hashed" => behavior.edge = "hashed"
    /\ call[c].pc = "publish" /\ call[c].read.at = "legacy" =>
         /\ call[c].read.version <= dictionary["legacy"].version
         /\ dictionary["legacy"].sealed => call[c].read.version < dictionary["legacy"].version

(* A migration that is about to seal holds the current table or will lose  *)
(* its compare-and-set; one that is past the seal holds the sealed table.  *)
MigrationsHoldTheTable ==
  \A m \in Migrators :
    /\ migration[m].pc = "seal" =>
         /\ migration[m].read.version <= dictionary["legacy"].version
         /\ migration[m].read.version = dictionary["legacy"].version =>
              /\ ~dictionary["legacy"].sealed
              /\ migration[m].read.table = dictionary["legacy"].table
    /\ migration[m].pc \in {"build", "swap"} =>
         /\ dictionary["legacy"].sealed
         /\ migration[m].read.table = dictionary["legacy"].table
    /\ migration[m].pc = "swap" => dictionary["hashed"].version > 0

SendsFollowTheEdge ==
  \A x \in Senders : send[x].pc = "reading" /\ send[x].at = "hashed" => behavior.edge = "hashed"

(* TargetMatchesSealed and AnswerWasBound alone are not inductive: that no *)
(* write reaches the legacy dictionary after its seal, and none the hashed *)
(* one before the swap, follows from what every call and migration holds.  *)
SealInv ==
  /\ EdgeFollowsSeal /\ CallsAreOutrun /\ MigrationsHoldTheTable /\ SendsFollowTheEdge
  /\ TargetMatchesSealed /\ AnswerWasBound

WellTyped == TypeOK /\ TodoIsNamed
IInv == WellTyped /\ SealInv

----------------------------------------
(* What the proofs below use of the types. *)
LEMMA Shapes ==
  ASSUME TypeOK
  PROVE  /\ behavior.edge \in {"legacy", "hashed"}
         /\ DOMAIN dictionary = {"legacy", "hashed"}
         /\ dictionary["legacy"].version \in Nat
         /\ dictionary["hashed"].version \in Nat
         /\ DOMAIN call = Callers
         /\ \A c \in Callers : /\ call[c].read.at \in {"legacy", "hashed"}
                               /\ call[c].read.version \in Nat
         /\ DOMAIN migration = Migrators
         /\ \A m \in Migrators : /\ migration[m].read.version \in Nat
                                 /\ migration[m].read.at \in {"legacy", "hashed"}
         /\ DOMAIN send = Senders
         /\ \A x \in Senders : send[x].at \in {"legacy", "hashed"}
<1>1. /\ call \in [Callers -> CallType]
      /\ \A k \in CallType : k.read.at \in Layouts /\ k.read.version \in Nat
  BY DEF TypeOK, CallType
<1>2. QED BY <1>1 DEF TypeOK, Layouts

(* The seal holds at the start: there is no hashed dictionary yet. *)
LEMMA SealInvInit == Init => SealInv
<1> SUFFICES ASSUME Init PROVE SealInv
  OBVIOUS
<1>1. /\ behavior.edge = "legacy"
      /\ dictionary["hashed"].version = 0
      /\ \A c \in Callers : call[c].pc = "idle" /\ call[c].read.at = "legacy"
      /\ \A m \in Migrators : migration[m].pc = "idle"
      /\ \A x \in Senders : send[x].pc = "idle"
  BY DEF Init, IdleCall, IdleMigration, IdleSend, NoRead
<1>2. QED BY <1>1 DEF SealInv, EdgeFollowsSeal, CallsAreOutrun, MigrationsHoldTheTable,
              SendsFollowTheEdge, TargetMatchesSealed, AnswerWasBound

(* A step of one call that writes no record keeps the seal, if what the    *)
(* call holds afterwards is what the edge and the legacy dictionary allow. *)
LEMMA CallKeepsSeal ==
  ASSUME TypeOK, SealInv, NEW c \in Callers, NEW k, Keep(c, k),
         UNCHANGED <<behavior, dictionary, migration, send>>,
         k.read.at = "hashed" => behavior.edge = "hashed",
         k.pc = "publish" /\ k.read.at = "legacy" =>
           /\ k.read.version <= dictionary["legacy"].version
           /\ dictionary["legacy"].sealed => k.read.version < dictionary["legacy"].version
  PROVE  SealInv'
<1>1. CallsAreOutrun'
  <2>1. \A d \in Callers : call'[d] = IF d = c THEN k ELSE call[d]
    BY Shapes DEF Keep
  <2>2. QED BY <2>1 DEF SealInv, CallsAreOutrun
<1>2. QED BY <1>1 DEF SealInv, EdgeFollowsSeal, MigrationsHoldTheTable,
              SendsFollowTheEdge, TargetMatchesSealed, AnswerWasBound

(* A call that ends holds nothing. *)
LEMMA FinishKeepsSeal ==
  ASSUME TypeOK, SealInv, NEW c \in Callers, NEW how, Finish(c, how),
         UNCHANGED <<behavior, dictionary, migration, send>>
  PROVE  SealInv'
<1> DEFINE ended == [IdleCall EXCEPT !.outcome = how]
<1>1. ended.pc = "idle" /\ ended.read.at = "legacy" BY DEF IdleCall, NoRead
<1>2. Keep(c, ended) BY DEF Finish
<1> HIDE DEF ended
<1>3. QED BY <1>1, <1>2, CallKeepsSeal

(* What the steps of a call that only read or publish material do to it. *)
LEMMA ReadersKeepSeal ==
  ASSUME TypeOK, SealInv, NEW c \in Callers,
         \/ Begin(c) \/ ReadBehavior(c) \/ Plan(c) \/ PublishSource(c)
         \/ PublishFirst(c) \/ LoseCommit(c) \/ Judge(c)
  PROVE  SealInv'
<1>t. call[c] \in CallType /\ call[c].read = [at |-> call[c].read.at, version |-> call[c].read.version,
                                             table |-> call[c].read.table]
  BY DEF TypeOK, CallType
<1>o. /\ call[c].read.at = "hashed" => behavior.edge = "hashed"
      /\ call[c].pc = "publish" /\ call[c].read.at = "legacy" =>
           /\ call[c].read.version <= dictionary["legacy"].version
           /\ dictionary["legacy"].sealed => call[c].read.version < dictionary["legacy"].version
  BY DEF SealInv, CallsAreOutrun
<1>1. CASE Begin(c)
  <2>1. PICK r \in Requests :
          Keep(c, [IdleCall EXCEPT !.pc = "behavior", !.kind = r.kind, !.want = r.want,
                     !.expected = IF r.kind = "guarded"
                                    THEN [s \in DOMAIN r.want |-> Bound[s]] ELSE <<>>,
                     !.rebases = MaxRebases])
    BY <1>1 DEF Begin
  <2> DEFINE k == [IdleCall EXCEPT !.pc = "behavior", !.kind = r.kind, !.want = r.want,
                     !.expected = IF r.kind = "guarded"
                                    THEN [s \in DOMAIN r.want |-> Bound[s]] ELSE <<>>,
                     !.rebases = MaxRebases]
  <2>2. k.pc = "behavior" /\ k.read.at = "legacy" BY DEF IdleCall, NoRead
  <2>3. Keep(c, k) /\ UNCHANGED <<behavior, dictionary, migration, send>>
    BY <2>1, <1>1 DEF Begin
  <2> HIDE DEF k
  <2>4. QED BY <2>2, <2>3, CallKeepsSeal
<1>2. CASE ReadBehavior(c)
  <2> DEFINE k == [call[c] EXCEPT !.pc = IF @ = "behavior" THEN "plan" ELSE "judge",
                                  !.read.at = behavior.edge]
  <2>1. k.pc \in {"plan", "judge"} /\ k.read.at = behavior.edge
    BY <1>t DEF CallType
  <2>2. Keep(c, k) /\ UNCHANGED <<behavior, dictionary, migration, send>>
    BY <1>2 DEF ReadBehavior
  <2> HIDE DEF k
  <2>3. QED BY <2>1, <2>2, CallKeepsSeal
<1>3. CASE Plan(c)
  <2>0. UNCHANGED <<behavior, dictionary, migration, send>> BY <1>3 DEF Plan
  <2>1. CASE \E how : Finish(c, how)
    BY <2>0, <2>1, FinishKeepsSeal
  <2>2. CASE ~ \E how : Finish(c, how)
    <3> DEFINE table == dictionary[call[c].read.at].table
               k == [call[c] EXCEPT !.pc = "publish", !.read = Snapshot(call[c].read.at),
                             !.published = Revisions(call[c], Redefined(call[c], table)),
                             !.todo = {s \in DOMAIN call[c].want : table[s] = Unbound}]
    <3>1. ~dictionary[call[c].read.at].sealed /\ Keep(c, k)
      BY <1>3, <2>2 DEF Plan, RefusesSealed
    <3>2. /\ k.read.at = call[c].read.at
          /\ k.read.version = dictionary[call[c].read.at].version
      BY <1>t DEF CallType, Snapshot
    <3> HIDE DEF k
    <3>3. QED BY <2>0, <3>1, <3>2, <1>o, Shapes, CallKeepsSeal
  <2>3. QED BY <2>1, <2>2
<1>4. CASE PublishSource(c)
  <2>0. UNCHANGED <<behavior, dictionary, migration, send>>
    BY <1>4 DEF PublishSource
  <2>1. CASE \E how : Finish(c, how)
    BY <2>0, <2>1, FinishKeepsSeal
  <2>2. CASE ~ \E how : Finish(c, how)
    <3>1. PICK s : Keep(c, [call[c] EXCEPT !.sourced = @ \cup {s}])
      BY <1>4, <2>2 DEF PublishSource
    <3> DEFINE k == [call[c] EXCEPT !.sourced = @ \cup {s}]
    <3>2. k.read = call[c].read /\ k.pc = call[c].pc BY <1>t DEF CallType
    <3> HIDE DEF k
    <3>3. Keep(c, k) BY <3>1 DEF k
    <3>4. QED BY <2>0, <3>2, <3>3, <1>o, CallKeepsSeal
  <2>3. QED BY <2>1, <2>2
<1>5. CASE PublishFirst(c)
  <2>0. UNCHANGED <<behavior, dictionary, migration, send>>
    BY <1>5 DEF PublishFirst
  <2>1. CASE \E how : Finish(c, how)
    BY <2>0, <2>1, FinishKeepsSeal
  <2>2. CASE ~ \E how : Finish(c, how)
    <3>1. PICK s : Keep(c, [call[c] EXCEPT !.todo = @ \ {s}, !.sourced = @ \ {s},
                      !.published = [t \in DOMAIN @ \cup {s} |-> IF t = s THEN First ELSE @[t]]])
      BY <1>5, <2>2 DEF PublishFirst
    <3> DEFINE k == [call[c] EXCEPT !.todo = @ \ {s}, !.sourced = @ \ {s},
                      !.published = [t \in DOMAIN @ \cup {s} |-> IF t = s THEN First ELSE @[t]]]
    <3>2. k.read = call[c].read /\ k.pc = call[c].pc BY <1>t DEF CallType
    <3>3. Keep(c, k) BY <3>1
    <3> HIDE DEF k
    <3>4. QED BY <2>0, <3>2, <3>3, <1>o, CallKeepsSeal
  <2>3. QED BY <2>1, <2>2
<1>6. CASE LoseCommit(c)
  <2> DEFINE k == [call[c] EXCEPT !.pc = "lost"]
  <2>1. k.read = call[c].read /\ k.pc = "lost" BY <1>t DEF CallType
  <2>2. Keep(c, k) /\ UNCHANGED <<behavior, dictionary, migration, send>>
    BY <1>6 DEF LoseCommit
  <2> HIDE DEF k
  <2>3. QED BY <2>1, <2>2, <1>o, CallKeepsSeal
<1>7. CASE Judge(c)
  <2>0. UNCHANGED <<behavior, dictionary, migration, send>> BY <1>7 DEF Judge
  <2>1. CASE \E how : Finish(c, how)
    BY <2>0, <2>1, FinishKeepsSeal
  <2>2. CASE ~ \E how : Finish(c, how)
    <3>1. ~dictionary[call[c].read.at].sealed /\ Keep(c, Rebase(call[c]))
      BY <1>7, <2>2 DEF Judge, RefusesSealed
    <3>2. /\ Rebase(call[c]).read.at = call[c].read.at
          /\ Rebase(call[c]).read.version = dictionary[call[c].read.at].version
      BY <1>t DEF CallType, Snapshot, Rebase
    <3>3. QED BY <2>0, <3>1, <3>2, <1>o, Shapes, CallKeepsSeal
  <2>3. QED BY <2>1, <2>2
<1>8. QED BY <1>1, <1>2, <1>3, <1>4, <1>5, <1>6, <1>7

(* A commit reaches the legacy dictionary only before its seal and the     *)
(* hashed one only after the swap, and every lookup in flight sees it.     *)
LEMMA CommitKeepsSeal ==
  ASSUME TypeOK, SealInv, NEW c \in Callers, Commit(c)
  PROVE  SealInv'
<1> DEFINE at == call[c].read.at
<1>1. /\ at \in {"legacy", "hashed"}
      /\ dictionary' = [dictionary EXCEPT ![at] =
            [version |-> dictionary[at].version + 1, sealed |-> dictionary[at].sealed,
             table |-> Overlay(call[c])]]
      /\ call[c].read.version = dictionary[at].version
      /\ call[c].pc = "publish"
      /\ UNCHANGED <<behavior, migration>>
  BY Shapes DEF Commit, Accepts
<1>2. /\ at = "hashed" => behavior.edge = "hashed"
      /\ at = "legacy" => ~dictionary["legacy"].sealed /\ behavior.edge = "legacy"
  BY <1>1, Shapes DEF SealInv, CallsAreOutrun, EdgeFollowsSeal
<1>3. at = behavior.edge BY <1>1, <1>2
<1>4. /\ dictionary'[at].version = dictionary[at].version + 1
      /\ dictionary'[at].sealed = dictionary[at].sealed
      /\ \A l \in {"legacy", "hashed"} : l # at => dictionary'[l] = dictionary[l]
  BY <1>1, Shapes
<1> HIDE DEF at
<1>5. EdgeFollowsSeal' BY <1>1, <1>3, <1>4, Shapes DEF SealInv, EdgeFollowsSeal
<1>6. CallsAreOutrun'
  <2>1. \A d \in Callers : call'[d].pc = "publish" => call'[d] = call[d]
    <3>1. call' = [call EXCEPT ![c] = [IdleCall EXCEPT !.outcome = "ok"]]
      BY DEF Commit, Finish, Keep
    <3>2. [IdleCall EXCEPT !.outcome = "ok"].pc = "idle" BY DEF IdleCall
    <3>3. QED BY <3>1, <3>2, Shapes
  <2>2. \A d \in Callers : call'[d].read.at = "hashed" => call'[d] = call[d]
    <3>1. call' = [call EXCEPT ![c] = [IdleCall EXCEPT !.outcome = "ok"]]
      BY DEF Commit, Finish, Keep
    <3>2. [IdleCall EXCEPT !.outcome = "ok"].read.at = "legacy"
      BY DEF IdleCall, NoRead
    <3>3. QED BY <3>1, <3>2, Shapes
  <2>3. QED BY <1>1, <1>2, <1>4, <2>1, <2>2, Shapes DEF SealInv, CallsAreOutrun
<1>7. MigrationsHoldTheTable'
  BY <1>1, <1>2, <1>4, Shapes DEF SealInv, MigrationsHoldTheTable
<1>8. /\ \A x \in Senders : /\ send'[x].pc = send[x].pc
                            /\ send'[x].at = send[x].at
                            /\ send[x].pc = "reading" => send'[x].seen =
                                 send[x].seen \cup {dictionary'[behavior'.edge].table}
  BY DEF Commit, Witness, TypeOK
<1>9. SendsFollowTheEdge' BY <1>1, <1>8 DEF SealInv, SendsFollowTheEdge
<1>10. TargetMatchesSealed'
  BY <1>1, <1>2, <1>3, <1>4 DEF SealInv, TargetMatchesSealed
<1>11. AnswerWasBound'
  BY <1>1, <1>3, <1>4, <1>8, Shapes DEF SealInv, AnswerWasBound
<1>12. QED BY <1>5, <1>6, <1>7, <1>9, <1>10, <1>11 DEF SealInv

(* A migration's reads, a lost race and its crash change no record; what   *)
(* the migration holds afterwards has to agree with the table.             *)
LEMMA MigrationKeepsSeal ==
  ASSUME TypeOK, SealInv, NEW m \in Migrators, NEW held, Move(m, held),
         UNCHANGED <<behavior, dictionary, call, send>>,
         held.pc = "seal" =>
           /\ held.read.version = dictionary["legacy"].version
           /\ ~dictionary["legacy"].sealed
           /\ held.read.table = dictionary["legacy"].table,
         held.pc \in {"build", "swap"} =>
           /\ dictionary["legacy"].sealed
           /\ held.read.table = dictionary["legacy"].table,
         held.pc = "swap" => dictionary["hashed"].version > 0
  PROVE  SealInv'
<1>1. MigrationsHoldTheTable'
  <2>1. \A n \in Migrators : migration'[n] = IF n = m THEN held ELSE migration[n]
    BY Shapes DEF Move
  <2>2. QED BY <2>1, Shapes DEF SealInv, MigrationsHoldTheTable
<1>2. QED BY <1>1 DEF SealInv, EdgeFollowsSeal, CallsAreOutrun,
              SendsFollowTheEdge, TargetMatchesSealed, AnswerWasBound

(* A migration that gives up leaves the seal as it is. *)
LEMMA GiveUpKeepsSeal ==
  ASSUME TypeOK, SealInv, NEW m \in Migrators, GiveUp(m),
         UNCHANGED <<behavior, dictionary, call, send>>
  PROVE  SealInv'
<1>1. IdleMigration.pc = "idle" BY DEF IdleMigration
<1>2. Move(m, IdleMigration) BY DEF GiveUp
<1>3. QED BY <1>1, <1>2, MigrationKeepsSeal

(* A migration's reads leave the seal as it is. *)
LEMMA MigrationReadsKeepSeal ==
  ASSUME TypeOK, SealInv, NEW m \in Migrators,
         StartMigration(m) \/ ReadEdge(m) \/ ReadLegacy(m) \/ CrashMigration(m)
  PROVE  SealInv'
<1>t. /\ migration[m] = [pc |-> migration[m].pc, edgeVersion |-> migration[m].edgeVersion,
                        read |-> migration[m].read]
      /\ migration[m].read = [at |-> migration[m].read.at, version |-> migration[m].read.version,
                             table |-> migration[m].read.table]
  BY DEF TypeOK
<1>1. CASE StartMigration(m)
  <2> DEFINE held == [IdleMigration EXCEPT !.pc = "edge", !.edgeVersion = behavior.version]
  <2>1. held.pc = "edge" BY DEF IdleMigration
  <2>2. Move(m, held) /\ UNCHANGED <<behavior, dictionary, call, send>>
    BY <1>1 DEF StartMigration
  <2> HIDE DEF held
  <2>3. QED BY <2>1, <2>2, MigrationKeepsSeal
<1>2. CASE ReadEdge(m)
  <2> DEFINE held == [migration[m] EXCEPT !.pc = "read", !.read.at = behavior.edge]
  <2>1. held.pc = "read" BY <1>t
  <2>2. Move(m, held) /\ UNCHANGED <<behavior, dictionary, call, send>>
    BY <1>2 DEF ReadEdge
  <2> HIDE DEF held
  <2>3. QED BY <2>1, <2>2, MigrationKeepsSeal
<1>3. CASE ReadLegacy(m)
  <2>0. UNCHANGED <<behavior, dictionary, call, send>> BY <1>3 DEF ReadLegacy
  <2>1. CASE GiveUp(m)
    BY <2>0, <2>1, GiveUpKeepsSeal
  <2>2. CASE ~GiveUp(m)
    <3> DEFINE held == [migration[m] EXCEPT !.read = Snapshot("legacy"),
                          !.pc = IF dictionary["legacy"].sealed THEN "build" ELSE "seal"]
    <3>1. Move(m, held) BY <1>3, <2>2 DEF ReadLegacy
    <3>2. /\ held.pc = IF dictionary["legacy"].sealed THEN "build" ELSE "seal"
          /\ held.read.version = dictionary["legacy"].version
          /\ held.read.table = dictionary["legacy"].table
      BY <1>t DEF Snapshot
    <3> HIDE DEF held
    <3>3. QED BY <2>0, <3>1, <3>2, MigrationKeepsSeal
  <2>3. QED BY <2>1, <2>2
<1>4. CASE CrashMigration(m)
  BY <1>4, GiveUpKeepsSeal DEF CrashMigration
<1>5. QED BY <1>1, <1>2, <1>3, <1>4

(* The seal bumps the version it was conditioned on, so that every write   *)
(* that read before it loses, and leaves the table as it is.               *)
LEMMA SealKeepsSeal ==
  ASSUME TypeOK, SealInv, NEW m \in Migrators, Seal(m)
  PROVE  SealInv'
<1>1. CASE ~SealAccepts(m)
  BY <1>1, GiveUpKeepsSeal DEF Seal
<1>2. CASE SealAccepts(m)
  <2>1. /\ migration[m].pc = "seal"
        /\ migration[m].read.version = dictionary["legacy"].version
        /\ dictionary' = [dictionary EXCEPT !["legacy"] =
              [version |-> dictionary["legacy"].version + 1, sealed |-> TRUE,
               table |-> migration[m].read.table]]
        /\ Move(m, [migration[m] EXCEPT !.pc = "build"])
        /\ UNCHANGED <<behavior, call, send>>
    BY <1>2 DEF Seal, SealAccepts
  <2>2. /\ ~dictionary["legacy"].sealed
        /\ migration[m].read.table = dictionary["legacy"].table
    BY <2>1, Shapes DEF SealInv, MigrationsHoldTheTable
  <2>3. /\ dictionary'["legacy"].version = dictionary["legacy"].version + 1
        /\ dictionary'["legacy"].sealed
        /\ dictionary'["legacy"].table = dictionary["legacy"].table
        /\ dictionary'["hashed"] = dictionary["hashed"]
    BY <2>1, <2>2, Shapes
  <2>4. EdgeFollowsSeal' /\ SendsFollowTheEdge' /\ TargetMatchesSealed'
    BY <2>1, <2>3 DEF SealInv, EdgeFollowsSeal, SendsFollowTheEdge, TargetMatchesSealed
  <2>5. CallsAreOutrun' BY <2>1, <2>3, Shapes DEF SealInv, CallsAreOutrun
  <2>6. MigrationsHoldTheTable'
    <3>1. /\ migration'[m].pc = "build"
          /\ migration'[m].read = migration[m].read
          /\ \A n \in Migrators \ {m} : migration'[n] = migration[n]
      <4>1. migration[m] = [pc |-> migration[m].pc, edgeVersion |-> migration[m].edgeVersion,
                            read |-> migration[m].read]
        BY DEF TypeOK
      <4>2. QED BY <2>1, <4>1, Shapes DEF Move
    <3>2. QED BY <2>2, <2>3, <3>1, Shapes DEF SealInv, MigrationsHoldTheTable
  <2>7. AnswerWasBound' BY <2>1, <2>3, Shapes DEF SealInv, AnswerWasBound
  <2>8. QED BY <2>4, <2>5, <2>6, <2>7 DEF SealInv
<1>3. QED BY <1>1, <1>2

(* A hashed dictionary is only ever built from the sealed table. *)
LEMMA BuildKeepsSeal ==
  ASSUME TypeOK, SealInv, NEW m \in Migrators, Build(m)
  PROVE  SealInv'
<1>t. migration[m] = [pc |-> migration[m].pc, edgeVersion |-> migration[m].edgeVersion,
                      read |-> migration[m].read]
  BY DEF TypeOK
<1>h. /\ migration[m].pc = "build"
      /\ dictionary["legacy"].sealed
      /\ migration[m].read.table = dictionary["legacy"].table
  BY DEF Build, SealInv, MigrationsHoldTheTable
<1> DEFINE held == [migration[m] EXCEPT !.pc = "swap"]
<1>p. held.pc = "swap" /\ held.read = migration[m].read BY <1>t
<1>1. CASE dictionary["hashed"].version = 0
  <2>1. /\ dictionary' = [dictionary EXCEPT !["hashed"] =
              [version |-> 1, sealed |-> FALSE, table |-> migration[m].read.table]]
        /\ Move(m, held)
        /\ UNCHANGED <<behavior, call, send>>
    BY <1>1 DEF Build
  <2> HIDE DEF held
  <2>2. /\ dictionary'["hashed"].version = 1
        /\ dictionary'["hashed"].table = dictionary["legacy"].table
        /\ dictionary'["legacy"] = dictionary["legacy"]
    BY <2>1, <1>h, Shapes
  <2>3. behavior.edge = "legacy" BY <1>1, Shapes DEF SealInv, EdgeFollowsSeal
  <2>4. EdgeFollowsSeal' /\ SendsFollowTheEdge' /\ TargetMatchesSealed' /\ CallsAreOutrun'
    BY <1>h, <2>1, <2>2, <2>3
       DEF SealInv, EdgeFollowsSeal, SendsFollowTheEdge, TargetMatchesSealed, CallsAreOutrun
  <2>5. MigrationsHoldTheTable'
    <3>1. \A n \in Migrators : migration'[n] = IF n = m THEN held ELSE migration[n]
      BY <2>1, Shapes DEF Move
    <3>2. QED BY <1>h, <1>p, <2>2, <3>1, Shapes DEF SealInv, MigrationsHoldTheTable
  <2>6. AnswerWasBound'
    BY <2>1, <2>2, <2>3, Shapes DEF SealInv, AnswerWasBound, SendsFollowTheEdge
  <2>7. QED BY <2>4, <2>5, <2>6 DEF SealInv
<1>2. CASE dictionary["hashed"].version # 0 /\ Move(m, held)
  <2>1. UNCHANGED <<behavior, dictionary, call, send>> BY <1>2 DEF Build
  <2> HIDE DEF held
  <2>2. QED BY <1>2, <1>h, <1>p, <2>1, Shapes, MigrationKeepsSeal
<1>3. CASE dictionary["hashed"].version # 0 /\ ~Move(m, held)
  BY <1>3, GiveUpKeepsSeal DEF Build
<1>4. QED BY <1>1, <1>2, <1>3

(* The swap shows the same table under another record. *)
LEMMA SwapKeepsSeal ==
  ASSUME TypeOK, SealInv, NEW m \in Migrators, Swap(m)
  PROVE  SealInv'
<1>1. /\ behavior'.edge \in {behavior.edge, "hashed"}
      /\ UNCHANGED <<dictionary, call>>
      /\ GiveUp(m)
  BY DEF Swap
<1>2. /\ dictionary["legacy"].sealed
      /\ dictionary["hashed"].version > 0
  BY DEF Swap, SealInv, MigrationsHoldTheTable
<1>3. \A x \in Senders : /\ send'[x].pc = send[x].pc
                         /\ send'[x].at = send[x].at
                         /\ send[x].seen \subseteq send'[x].seen
  BY DEF Swap, Witness, TypeOK
<1>4. EdgeFollowsSeal' /\ SendsFollowTheEdge' /\ TargetMatchesSealed' /\ CallsAreOutrun'
  BY <1>1, <1>2, <1>3, Shapes
     DEF SealInv, EdgeFollowsSeal, SendsFollowTheEdge, TargetMatchesSealed, CallsAreOutrun
<1>5. MigrationsHoldTheTable'
  <2>1. \A n \in Migrators : migration'[n] = IF n = m THEN IdleMigration ELSE migration[n]
    BY <1>1, Shapes DEF Move, GiveUp
  <2>2. IdleMigration.pc = "idle" BY DEF IdleMigration
  <2>3. QED BY <1>1, <2>1, <2>2 DEF SealInv, MigrationsHoldTheTable
<1>6. AnswerWasBound' BY <1>1, <1>3, Shapes DEF SealInv, AnswerWasBound
<1>7. QED BY <1>4, <1>5, <1>6 DEF SealInv

(* A lookup changes nothing but itself. *)
LEMMA LookupKeepsSeal ==
  ASSUME TypeOK, SealInv, NEW x \in Senders, LookBehavior(x) \/ LookMethod(x)
  PROVE  SealInv'
<1>1. UNCHANGED <<behavior, dictionary, call, migration>>
  BY DEF LookBehavior, LookMethod
<1>2. EdgeFollowsSeal' /\ CallsAreOutrun' /\ MigrationsHoldTheTable' /\ TargetMatchesSealed'
  BY <1>1 DEF SealInv, EdgeFollowsSeal, CallsAreOutrun, MigrationsHoldTheTable, TargetMatchesSealed
<1>3. \A y \in Senders : \/ send'[y] = send[y]
                         \/ send'[y].pc # "reading"
                         \/ /\ send'[y].at = behavior.edge
                            /\ dictionary[behavior.edge].table \in send'[y].seen
  BY Shapes DEF LookBehavior, LookMethod, IdleSend, Bound
<1>4. SendsFollowTheEdge' /\ AnswerWasBound'
  BY <1>1, <1>3 DEF SealInv, SendsFollowTheEdge, AnswerWasBound
<1>5. QED BY <1>2, <1>4 DEF SealInv

(* Every step keeps what is known of the seal. *)
LEMMA SealInvNext ==
  ASSUME TypeOK, SealInv, [Next]_vars
  PROVE  SealInv'
<1>1. ASSUME NEW c \in Callers, CallStep(c) PROVE SealInv'
  BY <1>1, ReadersKeepSeal, CommitKeepsSeal DEF CallStep
<1>2. ASSUME NEW m \in Migrators, MigrationStep(m) \/ CrashMigration(m) PROVE SealInv'
  BY <1>2, MigrationReadsKeepSeal, SealKeepsSeal, BuildKeepsSeal, SwapKeepsSeal DEF MigrationStep
<1>3. ASSUME NEW x \in Senders, LookBehavior(x) \/ LookMethod(x) PROVE SealInv'
  BY <1>3, LookupKeepsSeal
<1>4. CASE UNCHANGED vars
  BY <1>4 DEF vars, SealInv, EdgeFollowsSeal, CallsAreOutrun, MigrationsHoldTheTable,
              SendsFollowTheEdge, TargetMatchesSealed, AnswerWasBound
<1>5. QED BY <1>1, <1>2, <1>3, <1>4 DEF Next

----------------------------------------
(* Types. *)

Wanted(T) == UNION {[names -> T] : names \in SUBSET Selectors}

(* What it takes to be a function of some selectors. *)
LEMMA WantedFunction ==
  ASSUME NEW T, NEW names \in SUBSET Selectors, NEW f \in [names -> T]
  PROVE  f \in Wanted(T)
BY DEF Wanted

(* The empty function is a wish over any set. *)
LEMMA NothingWanted == ASSUME NEW T PROVE <<>> \in Wanted(T)
<1>1. <<>> \in [{} -> T] OBVIOUS
<1>2. QED BY <1>1, WantedFunction

(* The fields of a call. *)
LEMMA CallFields ==
  CallType = [pc : {"idle", "behavior", "plan", "publish", "lost", "judge"}, kind : Kinds,
              want : Wanted(Definitions), expected : Wanted(Methods \cup {Unbound}),
              read : [at : Layouts, version : Nat, table : Tables],
              published : Wanted(Methods), todo : SUBSET Selectors, sourced : SUBSET Selectors,
              rebases : Nat, outcome : Outcomes]
BY DEF CallType, Wanted

(* Idle calls, migrations and lookups are typed. *)
LEMMA IdleTypes ==
  /\ NoRead \in [at : Layouts, version : Nat, table : Tables]
  /\ IdleCall \in CallType
  /\ \A how \in Outcomes : [IdleCall EXCEPT !.outcome = how] \in CallType
<1>1. NoTable \in Tables BY DEF NoTable, Tables
<1>2. NoRead \in [at : Layouts, version : Nat, table : Tables]
  BY <1>1 DEF NoRead, Layouts
<1>3. IdleCall \in CallType
  BY <1>2, NothingWanted, CallFields DEF IdleCall, Kinds, Outcomes
<1>4. \A how \in Outcomes : [IdleCall EXCEPT !.outcome = how] \in CallType
  BY <1>2, NothingWanted, CallFields DEF IdleCall, Kinds
<1>5. QED BY <1>2, <1>3, <1>4

(* The types hold at first. *)
LEMMA TypeInit == Init => WellTyped
<1> SUFFICES ASSUME Init PROVE WellTyped
  OBVIOUS
<1>1. behavior \in [edge : Layouts, version : Nat] BY DEF Init, Layouts
<1>2. dictionary \in [Layouts -> [version : Nat, sealed : BOOLEAN, table : Tables]]
  <2>1. NoTable \in Tables BY DEF NoTable, Tables
  <2> DEFINE founded == [s \in Selectors |-> IF Founding[s] = Nothing THEN Unbound ELSE First]
             Records == [version : Nat, sealed : BOOLEAN, table : Tables]
             legacy == [version |-> 1, sealed |-> FALSE, table |-> founded]
             hashed == [version |-> 0, sealed |-> FALSE, table |-> NoTable]
  <2>2. founded \in Tables BY DEF Tables, Methods
  <2>3. legacy \in Records /\ hashed \in Records BY <2>1, <2>2
  <2>4. dictionary = [legacy |-> legacy, hashed |-> hashed] BY DEF Init
  <2> HIDE DEF Records, legacy, hashed
  <2>5. dictionary \in [Layouts -> Records] BY <2>3, <2>4 DEF Layouts
  <2>6. QED BY <2>5 DEF Records
<1>3. firstMethod \in [Selectors -> Definitions \cup {Nothing}]
  BY FoundingAssumption DEF Init
<1>4. firstSource \in [Selectors -> {d.source : d \in Definitions} \cup {NoSource}]
  BY FoundingAssumption DEF Init, Nothing
<1>5. call \in [Callers -> CallType] BY IdleTypes DEF Init
<1>6. migration \in [Migrators -> [pc : {"idle", "edge", "read", "seal", "build", "swap"},
        edgeVersion : Nat, read : [at : Layouts, version : Nat, table : Tables]]]
  BY IdleTypes DEF Init, IdleMigration
<1>7. send \in [Senders -> [pc : {"idle", "reading"}, at : Layouts, seen : SUBSET Tables]]
  BY DEF Init, IdleSend, Layouts
<1>8. TodoIsNamed BY DEF Init, IdleCall, TodoIsNamed
<1>9. QED BY <1>1, <1>2, <1>3, <1>4, <1>5, <1>6, <1>7, <1>8 DEF WellTyped, TypeOK, Init

(* A step of one call keeps the types, if its fields and the material it   *)
(* published have theirs.                                                  *)
LEMMA CallKeepsTypes ==
  ASSUME WellTyped, NEW c \in Callers, NEW k \in CallType, Keep(c, k),
         k.todo \subseteq DOMAIN k.want, DOMAIN k.published \subseteq DOMAIN k.want,
         UNCHANGED <<behavior, dictionary, migration, send, crashes>>,
         calls' \in Nat,
         firstMethod' \in [Selectors -> Definitions \cup {Nothing}],
         firstSource' \in [Selectors -> {d.source : d \in Definitions} \cup {NoSource}]
  PROVE  WellTyped'
<1>1. call \in [Callers -> CallType] BY DEF WellTyped, TypeOK
<1>2. call' \in [Callers -> CallType] /\ TodoIsNamed'
  BY <1>1 DEF Keep, WellTyped, TodoIsNamed
<1>3. QED BY <1>2 DEF WellTyped, TypeOK

(* A call that finishes keeps them. *)
LEMMA FinishKeepsTypes ==
  ASSUME WellTyped, NEW c \in Callers, NEW how \in Outcomes, Finish(c, how),
         UNCHANGED <<behavior, dictionary, migration, send, crashes, calls, firstMethod, firstSource>>
  PROVE  WellTyped'
<1> DEFINE ended == [IdleCall EXCEPT !.outcome = how]
<1>1. /\ ended \in CallType
      /\ ended.todo \subseteq DOMAIN ended.want
      /\ DOMAIN ended.published \subseteq DOMAIN ended.want
  BY IdleTypes DEF IdleCall
<1>2. Keep(c, ended) BY DEF Finish
<1> HIDE DEF ended
<1>3. QED BY <1>1, <1>2, CallKeepsTypes DEF WellTyped, TypeOK

(* A call that begins keeps them. *)
LEMMA BeginKeepsTypes ==
  ASSUME WellTyped, NEW c \in Callers, Begin(c)
  PROVE  WellTyped'
<1>1. PICK r \in Requests :
        Keep(c, [IdleCall EXCEPT !.pc = "behavior", !.kind = r.kind, !.want = r.want,
                   !.expected = IF r.kind = "guarded"
                                  THEN [s \in DOMAIN r.want |-> Bound[s]] ELSE <<>>,
                   !.rebases = MaxRebases])
  BY DEF Begin
<1> DEFINE seen == IF r.kind = "guarded" THEN [s \in DOMAIN r.want |-> Bound[s]] ELSE <<>>
           k == [IdleCall EXCEPT !.pc = "behavior", !.kind = r.kind, !.want = r.want,
                   !.expected = seen, !.rebases = MaxRebases]
<1>2. r.kind \in Kinds /\ r.want \in Wanted(Definitions)
  BY RequestsAssumption DEF Kinds, Wanted
<1>3. seen \in Wanted(Methods \cup {Unbound})
  <2>1. PICK names \in SUBSET Selectors : r.want \in [names -> Definitions]
    BY <1>2 DEF Wanted
  <2>2. Bound \in Tables BY DEF Bound, WellTyped, TypeOK
  <2>3. [s \in DOMAIN r.want |-> Bound[s]] \in [names -> Methods \cup {Unbound}]
    BY <2>1, <2>2 DEF Tables
  <2>4. QED BY <2>3, WantedFunction, NothingWanted
<1>4. Keep(c, k) BY <1>1
<1> HIDE DEF seen
<1>5. k \in CallType
  BY <1>2, <1>3, IdleTypes, NothingWanted, CallFields, BoundsAssumption DEF IdleCall, Outcomes
<1>6. k.todo = {} /\ DOMAIN k.published = {} BY DEF IdleCall
<1> HIDE DEF k
<1>7. QED BY <1>4, <1>5, <1>6, CallKeepsTypes DEF Begin, WellTyped, TypeOK

(* A call's read of the Behavior keeps them. *)
LEMMA ReadBehaviorKeepsTypes ==
  ASSUME WellTyped, NEW c \in Callers, ReadBehavior(c)
  PROVE  WellTyped'
<1> DEFINE k == [call[c] EXCEPT !.pc = IF @ = "behavior" THEN "plan" ELSE "judge",
                                !.read.at = behavior.edge]
<1>1. call[c] \in CallType /\ behavior.edge \in Layouts BY DEF WellTyped, TypeOK
<1>2. k \in CallType /\ k.todo = call[c].todo /\ k.want = call[c].want /\ k.published = call[c].published
  BY <1>1, CallFields
<1>3. Keep(c, k) BY DEF ReadBehavior
<1> HIDE DEF k
<1>4. QED BY <1>2, <1>3, CallKeepsTypes DEF ReadBehavior, WellTyped, TypeOK, TodoIsNamed

(* What a call reads of a dictionary is a table. *)
LEMMA SnapshotType ==
  ASSUME TypeOK, NEW at \in Layouts
  PROVE  /\ dictionary[at].table \in Tables
         /\ Snapshot(at) \in [at : Layouts, version : Nat, table : Tables]
BY DEF Snapshot, TypeOK

(* A call's plan keeps them. *)
LEMMA PlanKeepsTypes ==
  ASSUME WellTyped, NEW c \in Callers, Plan(c)
  PROVE  WellTyped'
<1>1. call[c] \in CallType BY DEF WellTyped, TypeOK
<1>2. CASE \E how \in Outcomes : Finish(c, how)
  BY <1>2, FinishKeepsTypes DEF Plan
<1>3. CASE ~ \E how \in Outcomes : Finish(c, how)
  <2> DEFINE table == dictionary[call[c].read.at].table
             changed == Redefined(call[c], table)
             open == {s \in DOMAIN call[c].want : table[s] = Unbound}
             k == [call[c] EXCEPT !.pc = "publish", !.read = Snapshot(call[c].read.at),
                           !.published = Revisions(call[c], changed), !.todo = open]
  <2>1. Keep(c, k) BY <1>3 DEF Plan, Outcomes
  <2>2. PICK names \in SUBSET Selectors : call[c].want \in [names -> Definitions]
    BY <1>1, CallFields DEF Wanted
  <2>3. changed \subseteq names /\ open \subseteq names BY <2>2 DEF Redefined
  <2> HIDE DEF changed, open
  <2>4. Revisions(call[c], changed) \in [changed -> Methods]
    BY <2>2, <2>3 DEF Revisions, Methods
  <2>5. Revisions(call[c], changed) \in Wanted(Methods)
    BY <2>2, <2>3, <2>4, WantedFunction
  <2>6. Snapshot(call[c].read.at) \in [at : Layouts, version : Nat, table : Tables]
    BY <1>1, SnapshotType, CallFields DEF WellTyped
  <2>7. k \in CallType BY <1>1, <2>2, <2>3, <2>5, <2>6, CallFields
  <2>8. k.todo = open /\ k.want = call[c].want /\ k.published = Revisions(call[c], changed)
    BY <1>1, CallFields
  <2>9. k.todo \subseteq DOMAIN k.want /\ DOMAIN k.published \subseteq DOMAIN k.want
    BY <2>2, <2>3, <2>4, <2>8
  <2> HIDE DEF k
  <2>10. QED BY <2>1, <2>7, <2>9, CallKeepsTypes DEF Plan, WellTyped, TypeOK
<1>4. QED BY <1>2, <1>3

(* Publishing a source keeps them. *)
LEMMA PublishSourceKeepsTypes ==
  ASSUME WellTyped, NEW c \in Callers, PublishSource(c)
  PROVE  WellTyped'
<1>1. call[c] \in CallType BY DEF WellTyped, TypeOK
<1>2. CASE Finish(c, "conflict") /\ UNCHANGED firstSource
  BY <1>2, FinishKeepsTypes DEF PublishSource, Outcomes
<1>3. CASE ~(Finish(c, "conflict") /\ UNCHANGED firstSource)
  <2>1. PICK s \in call[c].todo \ call[c].sourced :
          /\ firstSource' = [firstSource EXCEPT ![s] = call[c].want[s].source]
          /\ Keep(c, [call[c] EXCEPT !.sourced = @ \cup {s}])
    BY <1>3 DEF PublishSource
  <2>2. s \in DOMAIN call[c].want /\ s \in Selectors
    BY <1>1, CallFields DEF WellTyped, TodoIsNamed
  <2>3. call[c].want[s] \in Definitions BY <1>1, <2>2, CallFields DEF Wanted
  <2>4. firstSource' \in [Selectors -> {d.source : d \in Definitions} \cup {NoSource}]
    BY <2>1, <2>2, <2>3 DEF WellTyped, TypeOK
  <2> DEFINE k == [call[c] EXCEPT !.sourced = @ \cup {s}]
  <2>5. k \in CallType /\ k.todo = call[c].todo /\ k.want = call[c].want /\ k.published = call[c].published
    BY <1>1, <2>2, CallFields
  <2>6. Keep(c, k) BY <2>1
  <2> HIDE DEF k
  <2>7. QED BY <2>4, <2>5, <2>6, CallKeepsTypes DEF PublishSource, WellTyped, TypeOK, TodoIsNamed
<1>4. QED BY <1>2, <1>3

(* Publishing first identities keeps them. *)
LEMMA PublishFirstKeepsTypes ==
  ASSUME WellTyped, NEW c \in Callers, PublishFirst(c)
  PROVE  WellTyped'
<1>1. call[c] \in CallType BY DEF WellTyped, TypeOK
<1>2. CASE Finish(c, "conflict") /\ UNCHANGED firstMethod
  BY <1>2, FinishKeepsTypes DEF PublishFirst, Outcomes
<1>3. CASE ~(Finish(c, "conflict") /\ UNCHANGED firstMethod)
  <2>1. PICK s \in call[c].todo :
          /\ firstMethod' = [firstMethod EXCEPT ![s] = call[c].want[s]]
          /\ Keep(c, [call[c] EXCEPT !.todo = @ \ {s}, !.sourced = @ \ {s},
               !.published = [t \in DOMAIN @ \cup {s} |-> IF t = s THEN First ELSE @[t]]])
    BY <1>3 DEF PublishFirst
  <2> DEFINE old == call[c].published
             new == [t \in DOMAIN old \cup {s} |-> IF t = s THEN First ELSE old[t]]
             k == [call[c] EXCEPT !.todo = @ \ {s}, !.sourced = @ \ {s}, !.published = new]
  <2>2. s \in DOMAIN call[c].want /\ s \in Selectors
    BY <1>1, CallFields DEF WellTyped, TodoIsNamed
  <2>3. call[c].want[s] \in Definitions BY <1>1, <2>2, CallFields DEF Wanted
  <2>4. firstMethod' \in [Selectors -> Definitions \cup {Nothing}]
    BY <2>1, <2>2, <2>3 DEF WellTyped, TypeOK
  <2>5. new \in Wanted(Methods) /\ DOMAIN new = DOMAIN old \cup {s}
    <3>1. PICK names \in SUBSET Selectors : old \in [names -> Methods]
      BY <1>1, CallFields DEF Wanted
    <3>2. new \in [names \cup {s} -> Methods] BY <3>1 DEF Methods
    <3>3. QED BY <2>2, <3>2, WantedFunction
  <2>6. Keep(c, k) BY <2>1
  <2> HIDE DEF new
  <2>7. /\ k \in CallType
        /\ k.todo = call[c].todo \ {s} /\ k.want = call[c].want /\ k.published = new
    BY <1>1, <2>2, <2>5, CallFields
  <2> HIDE DEF k
  <2>8. k.todo \subseteq DOMAIN k.want /\ DOMAIN k.published \subseteq DOMAIN k.want
    BY <2>2, <2>5, <2>7 DEF WellTyped, TodoIsNamed
  <2>9. QED BY <2>4, <2>6, <2>7, <2>8, CallKeepsTypes DEF PublishFirst, WellTyped, TypeOK
<1>4. QED BY <1>2, <1>3

(* A lost commit keeps them. *)
LEMMA LoseCommitKeepsTypes ==
  ASSUME WellTyped, NEW c \in Callers, LoseCommit(c)
  PROVE  WellTyped'
<1> DEFINE k == [call[c] EXCEPT !.pc = "lost"]
<1>1. call[c] \in CallType BY DEF WellTyped, TypeOK
<1>2. k \in CallType /\ k.todo = call[c].todo /\ k.want = call[c].want /\ k.published = call[c].published
  BY <1>1, CallFields
<1>3. Keep(c, k) BY DEF LoseCommit
<1> HIDE DEF k
<1>4. QED BY <1>2, <1>3, CallKeepsTypes DEF LoseCommit, WellTyped, TypeOK, TodoIsNamed

(* Judging a lost commit keeps them. *)
LEMMA JudgeKeepsTypes ==
  ASSUME WellTyped, NEW c \in Callers, Judge(c)
  PROVE  WellTyped'
<1>1. call[c] \in CallType BY DEF WellTyped, TypeOK
<1>2. CASE \E how \in Outcomes : Finish(c, how)
  BY <1>2, FinishKeepsTypes DEF Judge
<1>3. CASE ~ \E how \in Outcomes : Finish(c, how)
  <2> DEFINE k == Rebase(call[c])
  <2>1. Keep(c, k) /\ call[c].rebases > 0 BY <1>3 DEF Judge, Outcomes
  <2>2. Snapshot(call[c].read.at) \in [at : Layouts, version : Nat, table : Tables]
    BY <1>1, SnapshotType, CallFields DEF WellTyped
  <2>3. call[c].rebases - 1 \in Nat BY <1>1, <2>1, CallFields
  <2>4. k \in CallType /\ k.todo = call[c].todo /\ k.want = call[c].want /\ k.published = call[c].published
    BY <1>1, <2>2, <2>3, CallFields DEF Rebase
  <2> HIDE DEF k
  <2>5. QED BY <2>1, <2>4, CallKeepsTypes DEF Judge, WellTyped, TypeOK, TodoIsNamed
<1>4. QED BY <1>2, <1>3

(* A lookup only ever collects tables. *)
LEMMA WitnessType ==
  ASSUME TypeOK, Witness, dictionary'[behavior'.edge].table \in Tables
  PROVE  send' \in [Senders -> [pc : {"idle", "reading"}, at : Layouts, seen : SUBSET Tables]]
<1> DEFINE Sends == [pc : {"idle", "reading"}, at : Layouts, seen : SUBSET Tables]
           grown(x) == [send[x] EXCEPT !.seen = @ \cup {dictionary'[behavior'.edge].table}]
<1>1. send \in [Senders -> Sends] BY DEF TypeOK
<1>2. ASSUME NEW x \in Senders PROVE grown(x) \in Sends
  <2>1. send[x] \in Sends BY <1>1
  <2>2. send[x].seen \cup {dictionary'[behavior'.edge].table} \in SUBSET Tables
    BY <2>1
  <2>3. QED BY <2>1, <2>2
<1>3. send' = [x \in Senders |-> IF send[x].pc = "reading" THEN grown(x) ELSE send[x]]
  BY DEF Witness
<1> HIDE DEF Sends, grown
<1>4. send' \in [Senders -> Sends] BY <1>1, <1>2, <1>3
<1>5. QED BY <1>4 DEF Sends

(* A commit keeps them. *)
LEMMA CommitKeepsTypes ==
  ASSUME WellTyped, NEW c \in Callers, Commit(c)
  PROVE  WellTyped'
<1> DEFINE at == call[c].read.at
           Records == [version : Nat, sealed : BOOLEAN, table : Tables]
           stored == [version |-> dictionary[at].version + 1, sealed |-> dictionary[at].sealed,
                      table |-> Overlay(call[c])]
           ended == [IdleCall EXCEPT !.outcome = "ok"]
<1>1. call \in [Callers -> CallType] /\ dictionary \in [Layouts -> Records]
  BY DEF WellTyped, TypeOK
<1>2. call[c].read \in [at : Layouts, version : Nat, table : Tables] /\ call[c].published \in Wanted(Methods)
  BY <1>1, CallFields
<1>3. Overlay(call[c]) \in Tables
  <2>1. PICK names \in SUBSET Selectors : call[c].published \in [names -> Methods]
    BY <1>2 DEF Wanted
  <2>2. call[c].read.table \in [Selectors -> Methods \cup {Unbound}]
    BY <1>2 DEF Tables
  <2>3. QED BY <2>1, <2>2 DEF Overlay, Tables
<1>4. at \in Layouts /\ stored \in Records BY <1>1, <1>2, <1>3
<1>5. dictionary' = [dictionary EXCEPT ![at] = stored] /\ call' = [call EXCEPT ![c] = ended]
  BY DEF Commit, Finish, Keep
<1> HIDE DEF at, stored, Records
<1>6. dictionary' \in [Layouts -> Records] BY <1>1, <1>4, <1>5
<1>7. ended \in CallType /\ ended.todo = {} /\ DOMAIN ended.published = {}
  BY IdleTypes DEF IdleCall, Outcomes
<1> HIDE DEF ended
<1>8. call' \in [Callers -> CallType] /\ TodoIsNamed'
  BY <1>1, <1>5, <1>7 DEF WellTyped, TodoIsNamed
<1>9. send' \in [Senders -> [pc : {"idle", "reading"}, at : Layouts, seen : SUBSET Tables]]
  <2>1. dictionary'[behavior'.edge].table \in Tables
    BY <1>6 DEF Commit, WellTyped, TypeOK, Records
  <2>2. QED BY <2>1, WitnessType DEF Commit, WellTyped
<1>10. QED BY <1>6, <1>8, <1>9 DEF Commit, WellTyped, TypeOK, Records

(* A migration's own state and the records it writes keep their types. *)
LEMMA MigrationKeepsTypes ==
  ASSUME WellTyped, NEW m \in Migrators, MigrationStep(m) \/ CrashMigration(m)
  PROVE  WellTyped'
<1> DEFINE Reads == [at : Layouts, version : Nat, table : Tables]
           Records == [version : Nat, sealed : BOOLEAN, table : Tables]
           Held == [pc : {"idle", "edge", "read", "seal", "build", "swap"}, edgeVersion : Nat, read : Reads]
<1>1. /\ migration \in [Migrators -> Held]
      /\ dictionary \in [Layouts -> Records]
      /\ behavior \in [edge : Layouts, version : Nat]
  BY DEF WellTyped, TypeOK
<1>2. migration[m] \in Held /\ migration[m].read \in Reads /\ migration[m].read.table \in Tables
  BY <1>1
<1>3. IdleMigration \in Held BY IdleTypes DEF IdleMigration
<1>4. migration' \in [Migrators -> Held]
  <2>1. ASSUME NEW held \in Held, Move(m, held) PROVE migration' \in [Migrators -> Held]
    <3> HIDE DEF Held
    <3>1. QED BY <1>1, <2>1 DEF Move
  <2>2. ASSUME GiveUp(m) PROVE migration' \in [Migrators -> Held]
    BY <1>3, <2>1, <2>2 DEF GiveUp
  <2>3. CASE StartMigration(m)
    <3>1. [IdleMigration EXCEPT !.pc = "edge", !.edgeVersion = behavior.version] \in Held
      BY <1>1, <1>3
    <3>2. QED BY <2>1, <2>3, <3>1 DEF StartMigration
  <2>4. CASE ReadEdge(m)
    <3>1. [migration[m] EXCEPT !.pc = "read", !.read.at = behavior.edge] \in Held
      BY <1>1, <1>2
    <3>2. QED BY <2>1, <2>4, <3>1 DEF ReadEdge
  <2>5. CASE ReadLegacy(m)
    <3>1. Snapshot(migration[m].read.at) \in Reads
      BY <1>2, SnapshotType DEF WellTyped
    <3>2. [migration[m] EXCEPT !.read = Snapshot(migration[m].read.at),
             !.pc = IF dictionary[migration[m].read.at].sealed THEN "build" ELSE "seal"] \in Held
      BY <1>2, <3>1
    <3>3. QED BY <2>1, <2>2, <2>5, <3>2 DEF ReadLegacy
  <2>6. CASE Seal(m)
    <3>1. [migration[m] EXCEPT !.pc = "build"] \in Held BY <1>2
    <3>2. QED BY <2>1, <2>2, <2>6, <3>1 DEF Seal
  <2>7. CASE Build(m)
    <3>1. [migration[m] EXCEPT !.pc = "swap"] \in Held BY <1>2
    <3>2. QED BY <2>1, <2>2, <2>7, <3>1 DEF Build
  <2>8. CASE Swap(m)
    BY <2>2, <2>8 DEF Swap
  <2>9. CASE CrashMigration(m)
    BY <2>2, <2>9 DEF CrashMigration
  <2>10. QED BY <2>3, <2>4, <2>5, <2>6, <2>7, <2>8, <2>9 DEF MigrationStep
<1>5. dictionary' \in [Layouts -> Records]
  <2>1. CASE Seal(m)
    <3>1. [version |-> dictionary["legacy"].version + 1, sealed |-> TRUE,
           table |-> migration[m].read.table] \in Records
      BY <1>1, <1>2 DEF Layouts
    <3>2. QED
      <4> HIDE DEF Records
      <4>1. QED BY <1>1, <2>1, <3>1 DEF Seal
  <2>2. CASE Build(m)
    <3>1. [version |-> 1, sealed |-> FALSE, table |-> migration[m].read.table] \in Records
      BY <1>2
    <3>2. QED
      <4> HIDE DEF Records
      <4>1. QED BY <1>1, <2>2, <3>1 DEF Build
  <2>3. CASE UNCHANGED dictionary
    BY <1>1, <2>3
  <2>4. QED BY <2>1, <2>2, <2>3
       DEF MigrationStep, CrashMigration, StartMigration, ReadEdge, ReadLegacy, Swap
<1>6. behavior' \in [edge : Layouts, version : Nat]
  <2>1. CASE Swap(m)
    BY <1>1, <2>1 DEF Swap, Layouts
  <2>2. CASE UNCHANGED behavior
    BY <1>1, <2>2
  <2>3. QED BY <2>1, <2>2
       DEF MigrationStep, CrashMigration, StartMigration, ReadEdge, ReadLegacy, Seal, Build
<1>7. send' \in [Senders -> [pc : {"idle", "reading"}, at : Layouts, seen : SUBSET Tables]]
  <2>1. CASE Swap(m)
    <3>1. dictionary'[behavior'.edge].table \in Tables BY <1>5, <1>6
    <3>2. QED BY <2>1, <3>1, WitnessType DEF Swap, WellTyped
  <2>2. CASE UNCHANGED send
    BY <2>2 DEF WellTyped, TypeOK
  <2>3. QED BY <2>1, <2>2
       DEF MigrationStep, CrashMigration, StartMigration, ReadEdge, ReadLegacy, Seal, Build
<1>8. /\ UNCHANGED <<firstSource, firstMethod, call, calls>>
      /\ crashes' \in Nat
  BY DEF WellTyped, TypeOK, MigrationStep, CrashMigration, StartMigration, ReadEdge, ReadLegacy,
         Seal, Build, Swap
<1>9. QED BY <1>4, <1>5, <1>6, <1>7, <1>8 DEF WellTyped, TypeOK, TodoIsNamed

(* A lookup keeps them. *)
LEMMA LookupKeepsTypes ==
  ASSUME WellTyped, NEW x \in Senders, LookBehavior(x) \/ LookMethod(x)
  PROVE  WellTyped'
<1>1. Bound \in Tables /\ behavior.edge \in Layouts
  BY DEF Bound, WellTyped, TypeOK
<1>2. send' \in [Senders -> [pc : {"idle", "reading"}, at : Layouts, seen : SUBSET Tables]]
  BY <1>1 DEF LookBehavior, LookMethod, IdleSend, WellTyped, TypeOK, Layouts
<1>3. UNCHANGED <<behavior, dictionary, firstSource, firstMethod, call, migration, calls, crashes>>
  BY DEF LookBehavior, LookMethod
<1>4. QED BY <1>2, <1>3 DEF WellTyped, TypeOK, TodoIsNamed

(* Every step keeps the types. *)
LEMMA TypeNext ==
  ASSUME WellTyped, [Next]_vars
  PROVE  WellTyped'
<1>1. ASSUME NEW c \in Callers, CallStep(c) PROVE WellTyped'
  BY <1>1, BeginKeepsTypes, ReadBehaviorKeepsTypes, PlanKeepsTypes, PublishSourceKeepsTypes,
     PublishFirstKeepsTypes, CommitKeepsTypes, LoseCommitKeepsTypes, JudgeKeepsTypes DEF CallStep
<1>2. ASSUME NEW m \in Migrators, MigrationStep(m) \/ CrashMigration(m) PROVE WellTyped'
  BY <1>2, MigrationKeepsTypes
<1>3. ASSUME NEW x \in Senders, LookBehavior(x) \/ LookMethod(x) PROVE WellTyped'
  BY <1>3, LookupKeepsTypes
<1>4. CASE UNCHANGED vars
  BY <1>4 DEF vars, WellTyped, TypeOK, TodoIsNamed
<1>5. QED BY <1>1, <1>2, <1>3, <1>4 DEF Next

----------------------------------------
(* The types and the seal are an inductive invariant of every behavior of  *)
(* calls, migrations and lookups on one class.                             *)
THEOREM Invariance == Spec => []IInv
<1>1. Init => IInv BY TypeInit, SealInvInit DEF IInv
<1>2. IInv /\ [Next]_vars => IInv' BY TypeNext, SealInvNext DEF IInv, WellTyped
<1>3. QED BY <1>1, <1>2, PTL DEF Spec

(* Every variable has its type, for any methods, callers and bounds. *)
THEOREM TypeCorrect == Spec => []TypeOK
<1>1. IInv => TypeOK BY DEF IInv, WellTyped
<1>2. QED BY <1>1, Invariance, PTL

(* However many migrations race and crash, a hashed dictionary that is not *)
(* yet in use holds exactly what the sealed legacy one does                *)
(* (migrateMethodDictionary, steps 2 to 4).                                *)
THEOREM MigrationBuildsTheSealedTable == Spec => []TargetMatchesSealed
<1>1. IInv => TargetMatchesSealed BY DEF IInv, SealInv
<1>2. QED BY <1>1, Invariance, PTL

(* The two reads of a lookup (methodAt) find, together, a table that the   *)
(* class had while the lookup ran.                                         *)
THEOREM LookupsFindATable == Spec => []AnswerWasBound
<1>1. IInv => AnswerWasBound BY DEF IInv, SealInv
<1>2. QED BY <1>1, Invariance, PTL

----------------------------------------
(* The refinement of MethodPositions.  A first identity is one binding to  *)
(* the table and one definition to the contract, so the argument needs     *)
(* what the table alone does not say: that every ref a record or a call    *)
(* holds has its material published, that material never changes, and that *)
(* what a call read is either the class's table still or older than it.    *)

(* A first identity that is named has material; a revision is its own. *)
Published(s, ref) == ref = First => firstMethod[s] # Nothing

(* The ref is bound, has its material, and that is d. *)
DefinedAs(s, ref, d) ==
  ref # Unbound /\ Published(s, ref) /\ Meaning(s, ref).definition = d

(* No record, and no migration's copy of one, names a method without       *)
(* material.                                                               *)
RecordsNamePublished ==
  /\ \A l \in Layouts, s \in Selectors : Published(s, dictionary[l].table[s])
  /\ \A m \in Migrators, s \in Selectors : Published(s, migration[m].read.table[s])

(* A method with source was published after its source, which stays. *)
SourcesStand ==
  \A s \in Selectors :
    firstMethod[s].source # NoSource => firstSource[s] = firstMethod[s].source

(* What a call holds is published: the table it read, the bindings its     *)
(* caller saw, and what it published itself.                               *)
NamesPublished(k) ==
  /\ \A s \in Selectors : Published(s, k.read.table[s])
  /\ \A s \in DOMAIN k.expected : Published(s, k.expected[s])
  /\ \A s \in DOMAIN k.published : DefinedAs(s, k.published[s], k.want[s])
  /\ \A s \in k.sourced : firstSource[s] = k.want[s].source /\ firstSource[s] # NoSource

(* A call in progress is one somebody made. *)
WellFormed(k) ==
  k.pc # "idle" =>
    /\ DOMAIN k.want # {}
    /\ k.kind = "guarded" => /\ DOMAIN k.expected = DOMAIN k.want
                             /\ \A s \in DOMAIN k.expected : k.expected[s] # Unbound
    /\ k.kind # "guarded" => k.expected = <<>>

(* A version names a table: what a call read is what stands, or older. *)
ReadIsVersioned(k) ==
  k.pc = "publish" =>
    /\ k.read.version <= dictionary[k.read.at].version
    /\ k.read.version = dictionary[k.read.at].version => k.read.table = dictionary[k.read.at].table

(* A call that comes to write has found every method it does not publish   *)
(* already bound as it wants, and nothing in its way; one that lost has    *)
(* published all it has to.                                                *)
IsEntitled(k) ==
  /\ k.pc = "publish" =>
       /\ \A s \in DOMAIN k.want \ (k.todo \cup DOMAIN k.published) :
            DefinedAs(s, k.read.table[s], k.want[s])
       /\ k.kind = "define" => \A s \in DOMAIN k.want :
            k.read.table[s] = Unbound \/ DefinedAs(s, k.read.table[s], k.want[s])
       /\ k.kind = "guarded" => \A s \in DOMAIN k.want : k.read.table[s] = k.expected[s]
  /\ k.pc \in {"lost", "judge"} => k.todo = {}
  /\ k.pc \in {"lost", "judge"} /\ k.kind = "guarded" =>
       \A s \in DOMAIN k.want \ DOMAIN k.published : DefinedAs(s, k.expected[s], k.want[s])

(* All of it, for one call. *)
Sound(k) == NamesPublished(k) /\ WellFormed(k) /\ ReadIsVersioned(k) /\ IsEntitled(k)

(* The strengthening of IInv that the refinement needs. *)
RInv == RecordsNamePublished /\ SourcesStand /\ \A c \in Callers : Sound(call[c])

(* What stands at a first identity stays there. *)
FirstsStay ==
  \A s \in Selectors : /\ firstMethod[s] # Nothing => firstMethod'[s] = firstMethod[s]
                       /\ firstSource[s] # NoSource => firstSource'[s] = firstSource[s]

(* What the parts of a call are. *)
LEMMA CallParts ==
  ASSUME NEW k \in CallType
  PROVE  /\ DOMAIN k.want \subseteq Selectors /\ DOMAIN k.expected \subseteq Selectors
         /\ DOMAIN k.published \subseteq Selectors
         /\ \A s \in DOMAIN k.want : k.want[s] \in Definitions
         /\ \A s \in DOMAIN k.expected : k.expected[s] \in Methods \cup {Unbound}
         /\ \A s \in DOMAIN k.published : k.published[s] \in Methods
         /\ k.read.table \in Tables /\ k.read.at \in Layouts /\ k.read.version \in Nat
         /\ k.kind \in Kinds /\ k.todo \subseteq Selectors /\ k.sourced \subseteq Selectors
<1>1. /\ k.want \in Wanted(Definitions) /\ k.expected \in Wanted(Methods \cup {Unbound})
      /\ k.published \in Wanted(Methods)
      /\ k.read.table \in Tables /\ k.read.at \in Layouts /\ k.read.version \in Nat
      /\ k.kind \in Kinds /\ k.todo \subseteq Selectors /\ k.sourced \subseteq Selectors
  BY CallFields
<1>2. ASSUME NEW T, NEW f \in Wanted(T)
      PROVE  DOMAIN f \subseteq Selectors /\ \A s \in DOMAIN f : f[s] \in T
  BY DEF Wanted
<1>3. QED BY <1>1, <1>2

(* A method ref can be told from its meaning, for the material that stands *)
(* now.                                                                    *)
LEMMA MeaningFacts ==
  ASSUME NEW s, NEW ref \in Methods \cup {Unbound}
  PROVE  /\ Meaning(s, ref) = Contract!Unbound <=> ref = Unbound
         /\ \A other \in Methods \cup {Unbound} : Meaning(s, ref) = Meaning(s, other) => ref = other
         /\ ref = First => Meaning(s, ref) = [identity |-> "first", definition |-> firstMethod[s]]
         /\ \A d : ref = Revision(d) => Meaning(s, ref) = [identity |-> "revision", definition |-> d]
BY DEF Meaning, Contract!Unbound, Unbound, First, Revision, Methods

(* What a published ref means never changes: an identity keeps its         *)
(* material.                                                               *)
LEMMA MeaningStays ==
  ASSUME FirstsStay, NEW s \in Selectors, NEW ref, Published(s, ref)
  PROVE  Published(s, ref)' /\ Meaning(s, ref)' = Meaning(s, ref)
BY DEF FirstsStay, Published, Meaning

(* ... so what a ref was found to define, it goes on defining. *)
LEMMA DefinitionStays ==
  ASSUME FirstsStay, NEW s \in Selectors, NEW ref, NEW d, DefinedAs(s, ref, d)
  PROVE  DefinedAs(s, ref, d)'
BY MeaningStays DEF DefinedAs

(* Publishing more, and moving other records, leaves a sound call sound. *)
LEMMA SoundStays ==
  ASSUME FirstsStay, NEW k \in CallType, Sound(k), ReadIsVersioned(k)'
  PROVE  Sound(k)'
<1>1. NamesPublished(k)'
  <2>1. NamesPublished(k) BY DEF Sound
  <2>2. ASSUME NEW s \in Selectors PROVE Published(s, k.read.table[s])'
    BY <2>1, MeaningStays DEF NamesPublished
  <2>3. ASSUME NEW s \in DOMAIN k.expected PROVE Published(s, k.expected[s])'
    BY <2>1, MeaningStays, CallParts DEF NamesPublished
  <2>4. ASSUME NEW s \in DOMAIN k.published PROVE DefinedAs(s, k.published[s], k.want[s])'
    <3>1. DefinedAs(s, k.published[s], k.want[s]) BY <2>1 DEF NamesPublished
    <3>2. s \in Selectors BY CallParts
    <3>3. QED BY <3>1, <3>2, DefinitionStays
  <2>5. ASSUME NEW s \in k.sourced
        PROVE  firstSource'[s] = k.want[s].source /\ firstSource'[s] # NoSource
    BY <2>1, CallParts DEF NamesPublished, FirstsStay
  <2>6. QED BY <2>2, <2>3, <2>4, <2>5 DEF NamesPublished
<1>2. WellFormed(k)' BY DEF Sound, WellFormed
<1>3. IsEntitled(k)'
  <2>1. IsEntitled(k) BY DEF Sound
  <2>2. DOMAIN k.want \subseteq Selectors BY CallParts
  <2>3. \A s \in DOMAIN k.want : \A ref, d : DefinedAs(s, ref, d) => DefinedAs(s, ref, d)'
    BY <2>2, DefinitionStays
  <2>4. QED BY <2>1, <2>3 DEF IsEntitled
<1>4. QED BY <1>1, <1>2, <1>3 DEF Sound

(* A step of one call that writes no record keeps the invariant, if it     *)
(* leaves that call sound.                                                 *)
LEMMA KeepStep ==
  ASSUME TypeOK, RInv, NEW c \in Callers, NEW k \in CallType, Keep(c, k), Sound(k)',
         FirstsStay, SourcesStand', UNCHANGED <<dictionary, migration>>
  PROVE  RInv'
<1>1. ASSUME NEW d \in Callers PROVE Sound(call[d])'
  <2>1. CASE d = c
    <3>1. call'[d] = k BY <2>1 DEF Keep, TypeOK
    <3>2. QED BY <3>1
  <2>2. CASE d # c
    <3>1. call'[d] = call[d] /\ call[d] \in CallType BY <2>2 DEF Keep, TypeOK
    <3> PICK j \in CallType : j = call[d] /\ j = call'[d]
      BY <3>1
    <3>2. Sound(j) BY DEF RInv
    <3>3. ReadIsVersioned(j)' BY <3>2 DEF Sound, ReadIsVersioned
    <3>4. Sound(j)' BY <3>2, <3>3, SoundStays
    <3>5. QED BY <3>4
  <2>3. QED BY <2>1, <2>2
<1>2. RecordsNamePublished' BY MeaningStays DEF RInv, RecordsNamePublished
<1>3. QED BY <1>1, <1>2 DEF RInv

(* The edge names a record that holds a table. *)
LEMMA BoundIsTable ==
  ASSUME TypeOK
  PROVE  behavior.edge \in Layouts /\ Bound \in Tables
BY DEF TypeOK, Bound

(* A table that does not change goes on meaning the same. *)
LEMMA BoundStays ==
  ASSUME TypeOK, RInv, FirstsStay, Bound' = Bound
  PROVE  BoundNow' = BoundNow
<1>1. \A s \in Selectors : Published(s, Bound[s])
  BY BoundIsTable DEF RInv, RecordsNamePublished, Bound
<1>2. ASSUME NEW s \in Selectors PROVE Meaning(s, Bound[s])' = Meaning(s, Bound[s])
  <2> PICK ref : ref = Bound[s] /\ ref = Bound'[s]
    OBVIOUS
  <2>1. Meaning(s, ref)' = Meaning(s, ref) BY <1>1, MeaningStays
  <2>2. QED BY <2>1
<1>3. QED BY <1>2 DEF BoundNow

(* What a call asked for, as its caller understood it, does not change     *)
(* while it runs.                                                          *)
LEMMA AskedStays ==
  ASSUME FirstsStay, NEW k \in CallType, NamesPublished(k)
  PROVE  Asked(k)' = Asked(k)
<1>1. ASSUME NEW s \in DOMAIN k.expected
      PROVE  Meaning(s, k.expected[s])' = Meaning(s, k.expected[s])
  BY MeaningStays, CallParts DEF NamesPublished
<1>2. QED BY <1>1 DEF Asked

(* A step of one call moves that call, in the contract too, and no other. *)
LEMMA OneCallMoves ==
  ASSUME TypeOK, RInv, NEW c \in Callers, NEW k \in CallType, Keep(c, k), FirstsStay
  PROVE  /\ AskedNow' = [AskedNow EXCEPT ![c] = Asked(k)']
         /\ AnswerNow' = [AnswerNow EXCEPT ![c] = k.outcome]
<1>1. \A d \in Callers : call'[d] = IF d = c THEN k ELSE call[d]
  BY DEF Keep, TypeOK
<1>2. ASSUME NEW d \in Callers \ {c} PROVE Asked(call[d])' = Asked(call[d])
  <2> PICK j \in CallType : j = call[d] /\ j = call'[d]
    BY <1>1 DEF TypeOK
  <2>1. NamesPublished(j) BY DEF RInv, Sound
  <2>2. Asked(j)' = Asked(j) BY <2>1, AskedStays
  <2>3. QED BY <2>2
<1>3. Asked(call[c])' = Asked(k)' BY <1>1
<1>4. AskedNow' = [d \in Callers |-> Asked(call[d])'] /\ AskedNow = [d \in Callers |-> Asked(call[d])]
  BY DEF AskedNow
<1>5. AskedNow' = [AskedNow EXCEPT ![c] = Asked(k)'] BY <1>2, <1>3, <1>4
<1>6. AnswerNow' = [AnswerNow EXCEPT ![c] = k.outcome] BY <1>1 DEF AnswerNow
<1>7. QED BY <1>5, <1>6

(* An unbound position names nothing that could be missing. *)
LEMMA UnboundIsPublished == ASSUME NEW s PROVE Published(s, Unbound) /\ Published(s, Unbound)'
BY DEF Published, Unbound, First

(* A call that ends without a write ends in the contract. *)
LEMMA FinishMaps ==
  ASSUME TypeOK, RInv, NEW c \in Callers, NEW how \in Outcomes, Finish(c, how), FirstsStay,
         SourcesStand', UNCHANGED <<dictionary, migration>>
  PROVE  RInv' /\ Contract!Close(c, how)
<1> PICK k \in CallType : k = [IdleCall EXCEPT !.outcome = how]
  BY IdleTypes
<1>1. Keep(c, k) BY DEF Finish
<1>2. /\ k.pc = "idle" /\ k.outcome = how /\ k.read.table = NoTable /\ k.sourced = {}
      /\ k.expected = <<>> /\ k.published = <<>>
  BY DEF IdleCall, NoRead
<1>3. NamesPublished(k)' BY <1>2, UnboundIsPublished DEF NamesPublished, NoTable
<1>4. Sound(k)' BY <1>2, <1>3 DEF Sound, WellFormed, ReadIsVersioned, IsEntitled
<1>5. RInv' BY <1>1, <1>4, KeepStep
<1>6. Asked(k)' = Contract!NoCall BY <1>2 DEF Asked, Contract!NoCall
<1>7. Contract!Close(c, how)
  BY <1>1, <1>2, <1>6, OneCallMoves DEF Contract!Close
<1>8. QED BY <1>5, <1>7

(* A step inside a call, that writes no record, is no step of the contract. *)
LEMMA CallStutters ==
  ASSUME TypeOK, RInv, NEW c \in Callers, NEW k \in CallType, Keep(c, k), Sound(k)',
         call[c].pc # "idle", k.pc # "idle", k.kind = call[c].kind, k.want = call[c].want,
         k.expected = call[c].expected, k.outcome = call[c].outcome, FirstsStay, SourcesStand',
         UNCHANGED <<behavior, dictionary, migration>>
  PROVE  RInv' /\ UNCHANGED Contract!vars
<1>1. RInv' BY KeepStep
<1>2. BoundNow' = BoundNow BY BoundStays DEF Bound
<1> PICK j \in CallType : j = call[c]
  BY DEF TypeOK
<1>3. Asked(k)' = Asked(j)' /\ NamesPublished(j) BY DEF Asked, RInv, Sound
<1>4. Asked(j)' = Asked(j) BY <1>3, AskedStays
<1>5. Asked(k)' = AskedNow[c] /\ k.outcome = AnswerNow[c]
  BY <1>3, <1>4 DEF AskedNow, AnswerNow
<1>6. /\ AskedNow' = [AskedNow EXCEPT ![c] = AskedNow[c]]
      /\ AnswerNow' = [AnswerNow EXCEPT ![c] = AnswerNow[c]]
  BY <1>5, OneCallMoves
<1>7. AskedNow' = AskedNow /\ AnswerNow' = AnswerNow
  BY <1>6 DEF AskedNow, AnswerNow
<1>8. QED BY <1>1, <1>2, <1>7 DEF Contract!vars

(* A dictionary the write path accepts (it is not sealed) is the one the   *)
(* class uses now.                                                         *)
LEMMA UnsealedIsBound ==
  ASSUME TypeOK, SealInv, NEW c \in Callers, ~dictionary[call[c].read.at].sealed
  PROVE  dictionary[call[c].read.at].table = Bound
<1>1. call[c].read.at = behavior.edge
  BY Shapes DEF SealInv, EdgeFollowsSeal, CallsAreOutrun
<1>2. QED BY <1>1 DEF Bound

(* A call in progress is a call in progress of the contract. *)
LEMMA CallSeen ==
  ASSUME TypeOK, NEW c \in Callers, call[c].pc # "idle"
  PROVE  /\ Contract!Calling(c) /\ AskedNow[c].kind = call[c].kind
         /\ AskedNow[c].want = call[c].want /\ Contract!Named(c) = DOMAIN call[c].want
         /\ AskedNow[c].expected =
              [s \in DOMAIN call[c].expected |-> Meaning(s, call[c].expected[s])]
<1>1. AskedNow[c] = [kind |-> call[c].kind, want |-> call[c].want,
        expected |-> [s \in DOMAIN call[c].expected |-> Meaning(s, call[c].expected[s])]]
  BY DEF AskedNow, Asked
<1>2. call[c] \in CallType BY DEF TypeOK
<1>3. call[c].kind # "none" BY <1>2, CallParts DEF Kinds
<1>4. QED BY <1>1, <1>3 DEF Contract!Calling, Contract!NoCall, Contract!Named

(* A published ref means a binding of the contract. *)
LEMMA BindingsAreSeen ==
  ASSUME TypeOK, NEW s \in Selectors, NEW ref \in Methods \cup {Unbound}, Published(s, ref)
  PROVE  Meaning(s, ref) \in Contract!Bindings \cup {Contract!Unbound}
<1>1. CASE ref = Unbound
  BY <1>1, MeaningFacts
<1>2. CASE ref = First
  <2>1. firstMethod[s] \in Definitions BY <1>2 DEF Published, TypeOK
  <2>2. QED BY <1>2, <2>1, MeaningFacts DEF Contract!Bindings
<1>3. CASE \E d \in Definitions : ref = Revision(d)
  BY <1>3, MeaningFacts DEF Contract!Bindings
<1>4. QED BY <1>1, <1>2, <1>3 DEF Methods

(* The table a send would find, read as the bindings of the contract. *)
LEMMA MethodsSeen ==
  ASSUME TypeOK, RInv, NEW s \in Selectors
  PROVE  /\ BoundNow[s] = Contract!Unbound <=> Bound[s] = Unbound
         /\ BoundNow[s] \in Contract!Bindings \cup {Contract!Unbound}
         /\ \A d : Contract!Means(s, d) <=> DefinedAs(s, Bound[s], d)
         /\ \A ref \in Methods \cup {Unbound} : BoundNow[s] = Meaning(s, ref) <=> Bound[s] = ref
<1>1. Bound[s] \in Methods \cup {Unbound} /\ BoundNow[s] = Meaning(s, Bound[s])
  BY BoundIsTable DEF Tables, BoundNow
<1>2. Published(s, Bound[s])
  BY BoundIsTable DEF RInv, RecordsNamePublished, Bound
<1>3. BoundNow[s] = Contract!Unbound <=> Bound[s] = Unbound
  BY <1>1, MeaningFacts
<1>4. \A ref \in Methods \cup {Unbound} : BoundNow[s] = Meaning(s, ref) <=> Bound[s] = ref
  BY <1>1, MeaningFacts
<1>5. \A d : Contract!Means(s, d) <=> DefinedAs(s, Bound[s], d)
  BY <1>1, <1>2, <1>3 DEF Contract!Means, DefinedAs
<1>6. BoundNow[s] \in Contract!Bindings \cup {Contract!Unbound}
  BY <1>1, <1>2, BindingsAreSeen
<1>7. QED BY <1>3, <1>4, <1>5, <1>6

(* The expectations of a guarded call hold in the contract when they hold  *)
(* in the table.                                                           *)
LEMMA UntouchedSeen ==
  ASSUME TypeOK, RInv, NEW c \in Callers, call[c].pc # "idle", call[c].kind = "guarded"
  PROVE  Contract!Untouched(c) <=> \A s \in DOMAIN call[c].want : Bound[s] = call[c].expected[s]
<1>1. call[c] \in CallType /\ DOMAIN call[c].expected = DOMAIN call[c].want
  BY DEF TypeOK, RInv, Sound, WellFormed
<1>2. ASSUME NEW s \in DOMAIN call[c].want
      PROVE  /\ BoundNow[s] = Meaning(s, call[c].expected[s]) <=> Bound[s] = call[c].expected[s]
             /\ AskedNow[c].expected[s] = Meaning(s, call[c].expected[s])
  <2>1. s \in Selectors /\ call[c].expected[s] \in Methods \cup {Unbound}
    BY <1>1, CallParts
  <2>2. BoundNow[s] = Meaning(s, call[c].expected[s]) <=> Bound[s] = call[c].expected[s]
    BY <2>1, MethodsSeen
  <2>3. AskedNow[c].expected =
          [t \in DOMAIN call[c].expected |-> Meaning(t, call[c].expected[t])]
    BY CallSeen
  <2>4. AskedNow[c].expected[s] = Meaning(s, call[c].expected[s]) BY <1>1, <2>3
  <2>5. QED BY <2>2, <2>4
<1>3. QED BY <1>2, CallSeen DEF Contract!Untouched

(* isSameInstalledMethod: whom it recognises is bound, and whom it fails to*)
(* recognise is not, or has no source and stands under a first identity.   *)
LEMMA SameIsMeant ==
  ASSUME TypeOK, RInv, NEW s \in Selectors, NEW d \in Definitions, Bound[s] # Unbound
  PROVE  /\ SameInstalled(s, d, Bound[s]) => DefinedAs(s, Bound[s], d)
         /\ SameInstalled(s, d, Bound[s]) \/ (Contract!Means(s, d) => Contract!Mistakable(s, d))
<1>1. Bound[s] \in Methods /\ BoundNow[s] = Meaning(s, Bound[s])
  BY BoundIsTable DEF Tables, BoundNow
<1>2. Published(s, Bound[s])
  BY BoundIsTable DEF RInv, RecordsNamePublished, Bound
<1>3. CASE Bound[s] = First
  <2>1. BoundNow[s] = [identity |-> "first", definition |-> firstMethod[s]]
    BY <1>1, <1>3, MeaningFacts
  <2>2. First # Revision(d) BY DEF First, Revision
  <2>3. d.source # NoSource /\ firstMethod[s] = d => firstSource[s] = d.source
    BY DEF RInv, SourcesStand
  <2>4. DefinedAs(s, Bound[s], d) <=> firstMethod[s] = d
    BY <1>1, <1>2, <2>1 DEF DefinedAs
  <2>5. firstMethod[s] = d /\ firstSource[s] # d.source => Contract!Mistakable(s, d)
    BY <2>1, <2>3 DEF Contract!Mistakable
  <2>6. QED BY <1>3, <2>2, <2>4, <2>5, MethodsSeen DEF SameInstalled
<1>4. CASE \E e \in Definitions : Bound[s] = Revision(e)
  <2> PICK e \in Definitions : Bound[s] = Revision(e)
    BY <1>4
  <2>1. BoundNow[s] = [identity |-> "revision", definition |-> e]
    BY <1>1, MeaningFacts
  <2>2. DefinedAs(s, Bound[s], d) <=> e = d BY <1>1, <1>2, <2>1 DEF DefinedAs
  <2>3. Revision(e) # First /\ (Revision(e) = Revision(d) => e = d)
    BY DEF First, Revision
  <2>4. QED BY <2>2, <2>3, MethodsSeen DEF SameInstalled
<1>5. QED BY <1>1, <1>3, <1>4 DEF Methods

(* What a step leaves in a call is a call. *)
LEMMA CallTyped ==
  ASSUME WellTyped', TypeOK, NEW c \in Callers, NEW k, Keep(c, k)
  PROVE  k \in CallType
<1>1. call'[c] = k BY DEF Keep, TypeOK
<1>2. QED BY <1>1 DEF WellTyped, TypeOK

(* Each step of a call is one step of the contract, or none. *)
LEMMA BeginMaps ==
  ASSUME TypeOK, RInv, NEW c \in Callers, Begin(c), WellTyped'
  PROVE  RInv' /\ Contract!Next
<1>1. PICK r \in Requests :
        /\ r.kind = "guarded" => \A s \in DOMAIN r.want : Bound[s] # Unbound
        /\ Keep(c, [IdleCall EXCEPT !.pc = "behavior", !.kind = r.kind, !.want = r.want,
                   !.expected = IF r.kind = "guarded"
                                  THEN [s \in DOMAIN r.want |-> Bound[s]] ELSE <<>>,
                   !.rebases = MaxRebases])
  BY DEF Begin
<1> PICK names \in (SUBSET Selectors) \ {{}} : r.want \in [names -> Definitions]
  BY RequestsAssumption
<1>2. r.kind \in {"define", "reconcile", "guarded"} BY RequestsAssumption
<1> PICK seen : seen = IF r.kind = "guarded" THEN [s \in names |-> Bound[s]] ELSE <<>>
  OBVIOUS
<1> PICK k : k = [IdleCall EXCEPT !.pc = "behavior", !.kind = r.kind, !.want = r.want,
                   !.expected = seen, !.rebases = MaxRebases]
  OBVIOUS
<1>3. /\ k.pc = "behavior" /\ k.kind = r.kind /\ k.want = r.want /\ k.expected = seen
      /\ k.read.table = NoTable /\ k.published = <<>> /\ k.sourced = {} /\ k.outcome = "none"
  BY DEF IdleCall, NoRead
<1>4. Keep(c, k) /\ UNCHANGED <<behavior, dictionary, firstSource, firstMethod, migration>>
  BY <1>1 DEF Begin
<1>5. k \in CallType BY <1>4, CallTyped
<1>6. FirstsStay /\ SourcesStand' BY <1>4 DEF FirstsStay, RInv, SourcesStand
<1>7. \A s \in Selectors : Published(s, Bound[s])
  BY BoundIsTable DEF RInv, RecordsNamePublished, Bound
<1>8. NamesPublished(k)
  <2>1. \A s \in DOMAIN seen : Published(s, seen[s]) BY <1>7
  <2>2. \A s \in Selectors : NoTable[s] = Unbound BY DEF NoTable
  <2>3. \A s \in Selectors : Published(s, k.read.table[s])
    BY <1>3, <2>2, UnboundIsPublished
  <2>4. \A s \in DOMAIN k.expected : Published(s, k.expected[s])
    BY <1>3, <2>1, Zenon
  <2>5. DOMAIN k.published = {} BY <1>3
  <2>6. k.sourced = {} BY <1>3
  <2>7. QED BY <2>3, <2>4, <2>5, <2>6 DEF NamesPublished
<1>9. Sound(k)
  <2>1. WellFormed(k) BY <1>1, <1>2, <1>3 DEF WellFormed
  <2>2. QED BY <1>3, <1>8, <2>1 DEF Sound, ReadIsVersioned, IsEntitled
<1>10. Sound(k)'
  <2>1. ReadIsVersioned(k)' BY <1>3 DEF ReadIsVersioned
  <2>2. QED BY <1>5, <1>6, <1>9, <2>1, SoundStays
<1>11. RInv' BY <1>4, <1>5, <1>6, <1>10, KeepStep
<1>12. Contract!Ask(c)
  <2>1. ~Contract!Calling(c)
    BY DEF Begin, AskedNow, Asked, Contract!Calling, Contract!NoCall
  <2>2. BoundNow' = BoundNow BY <1>4, <1>6, BoundStays DEF Bound
  <2>3. /\ AskedNow' = [AskedNow EXCEPT ![c] = Asked(k)']
        /\ AnswerNow' = [AnswerNow EXCEPT ![c] = "none"]
    <3>1. Keep(c, k) BY <1>4
    <3>2. AskedNow' = [AskedNow EXCEPT ![c] = Asked(k)']
          /\ AnswerNow' = [AnswerNow EXCEPT ![c] = k.outcome]
      BY <1>5, <1>6, <3>1, OneCallMoves, Zenon
    <3>3. k.outcome = "none" BY <1>3
    <3>4. QED BY <3>2, <3>3
  <2>4. Asked(k)' = [kind |-> r.kind, want |-> r.want,
                     expected |-> [s \in DOMAIN seen |-> Meaning(s, seen[s])]]
    <3>1. Asked(k)' = Asked(k) BY <1>5, <1>6, <1>8, AskedStays
    <3>2. QED BY <1>3, <3>1 DEF Asked
  <2>5. [s \in DOMAIN seen |-> Meaning(s, seen[s])] =
          IF r.kind = "guarded" THEN [s \in names |-> BoundNow[s]] ELSE <<>>
    <3>1. CASE r.kind = "guarded"
      <4>1. DOMAIN seen = names /\ \A s \in names : Meaning(s, seen[s]) = BoundNow[s]
        BY <3>1 DEF BoundNow
      <4>2. QED BY <3>1, <4>1
    <3>2. CASE r.kind # "guarded"
      <4>1. seen = <<>> /\ DOMAIN seen = {} BY <3>2
      <4>2. QED BY <3>2, <4>1
    <3>3. QED BY <3>1, <3>2
  <2>6. r.kind = "guarded" => \A s \in names : BoundNow[s] # Contract!Unbound
    BY <1>1, MethodsSeen
  <2>7. AskedNow'[c] # Contract!NoCall
    <3>1. AskedNow'[c] = Asked(k)' /\ Asked(k)'.kind = r.kind
      BY <2>3, <2>4 DEF AskedNow
    <3>2. QED BY <1>2, <3>1 DEF Contract!NoCall
  <2>8. AskedNow' = [AskedNow EXCEPT ![c] = [kind |-> r.kind, want |-> r.want,
          expected |-> IF r.kind = "guarded" THEN [s \in names |-> BoundNow[s]] ELSE <<>>]]
    BY <2>3, <2>4, <2>5
  <2>9. \E kind \in {"define", "reconcile", "guarded"} :
        \E chosen \in (SUBSET Selectors) \ {{}} :
        \E want \in [chosen -> Definitions] :
          /\ kind = "guarded" => \A s \in chosen : BoundNow[s] # Contract!Unbound
          /\ AskedNow' = [AskedNow EXCEPT ![c] = [kind |-> kind, want |-> want,
               expected |-> IF kind = "guarded" THEN [s \in chosen |-> BoundNow[s]] ELSE <<>>]]
    BY <1>2, <2>6, <2>8
  <2>10. QED BY <2>1, <2>2, <2>3, <2>7, <2>9 DEF Contract!Ask
<1>13. QED BY <1>11, <1>12 DEF Contract!Next

(* Reading the Behavior is no step of the contract. *)
LEMMA ReadBehaviorMaps ==
  ASSUME TypeOK, RInv, NEW c \in Callers, ReadBehavior(c), WellTyped'
  PROVE  RInv' /\ UNCHANGED Contract!vars
<1> PICK j \in CallType : j = call[c]
  BY DEF TypeOK
<1> PICK k : k = [j EXCEPT !.pc = IF @ = "behavior" THEN "plan" ELSE "judge",
                           !.read.at = behavior.edge]
  OBVIOUS
<1>1. Keep(c, k) /\ UNCHANGED <<behavior, dictionary, firstSource, firstMethod, migration>>
      /\ j.pc \in {"behavior", "lost"}
  BY DEF ReadBehavior
<1>2. /\ k.pc = IF j.pc = "behavior" THEN "plan" ELSE "judge"
      /\ k.kind = j.kind /\ k.want = j.want /\ k.expected = j.expected /\ k.outcome = j.outcome
      /\ k.read.table = j.read.table /\ k.published = j.published /\ k.sourced = j.sourced
      /\ k.todo = j.todo
  BY CallFields
<1>3. k \in CallType BY <1>1, CallTyped
<1>4. FirstsStay /\ SourcesStand' BY <1>1 DEF FirstsStay, RInv, SourcesStand
<1>5. Sound(j) BY DEF RInv
<1>6. Sound(k)
  <2>1. NamesPublished(k) BY <1>2, <1>5 DEF Sound, NamesPublished
  <2>2. WellFormed(k) BY <1>1, <1>2, <1>5 DEF Sound, WellFormed
  <2>3. IsEntitled(k) BY <1>1, <1>2, <1>5 DEF Sound, IsEntitled
  <2>4. QED BY <1>2, <2>1, <2>2, <2>3 DEF Sound, ReadIsVersioned
<1>7. Sound(k)'
  <2>1. ReadIsVersioned(k)' BY <1>2 DEF ReadIsVersioned
  <2>2. QED BY <1>3, <1>4, <1>6, <2>1, SoundStays
<1>8. /\ Keep(c, k) /\ call[c].pc # "idle" /\ k.pc # "idle" /\ k.kind = call[c].kind
      /\ k.want = call[c].want /\ k.expected = call[c].expected /\ k.outcome = call[c].outcome
  BY <1>1, <1>2
<1>9. UNCHANGED <<behavior, dictionary, migration>> BY <1>1
<1>10. QED BY <1>3, <1>4, <1>7, <1>8, <1>9, CallStutters

(* An answer without an effect, decided on the table the class uses, is    *)
(* true of it.                                                             *)
LEMMA DeclineMaps ==
  ASSUME TypeOK, RInv, NEW c \in Callers, NEW how \in Outcomes, Finish(c, how),
         call[c].pc # "idle",
         UNCHANGED <<behavior, dictionary, firstSource, firstMethod, migration>>,
         \/ how \in {"sealed", "conflict"}
         \/ how = "stale" /\ Stale(call[c], Bound)
         \/ how = "redefinition" /\ call[c].kind # "guarded" /\ Redefined(call[c], Bound) # {}
         \/ how = "ok" /\ Replayed(call[c], Bound) = DOMAIN call[c].want
         \/ how = "contention" /\ call[c].kind = "guarded" /\ ~Stale(call[c], Bound)
  PROVE  RInv' /\ Contract!Next
<1>1. FirstsStay /\ SourcesStand' BY DEF FirstsStay, RInv, SourcesStand
<1>2. BoundNow' = BoundNow BY <1>1, BoundStays DEF Bound
<1>3. RInv' /\ Contract!Close(c, how) BY <1>1, FinishMaps
<1>4. /\ Contract!Calling(c) /\ AskedNow[c].kind = call[c].kind
      /\ AskedNow[c].want = call[c].want /\ Contract!Named(c) = DOMAIN call[c].want
  BY CallSeen
<1>5. /\ DOMAIN call[c].want \subseteq Selectors
      /\ \A s \in DOMAIN call[c].want : call[c].want[s] \in Definitions
  BY CallParts DEF TypeOK
<1>6. Contract!Decline(c)
  <2>1. CASE how \in {"sealed", "conflict"}
    BY <1>2, <1>3, <1>4, <2>1 DEF Contract!Decline
  <2>2. CASE how = "stale" /\ Stale(call[c], Bound)
    <3>1. call[c].kind = "guarded" /\ ~Contract!Untouched(c)
      BY <2>2, UntouchedSeen DEF Stale
    <3>2. QED BY <1>2, <1>3, <1>4, <2>2, <3>1 DEF Contract!Decline
  <2>3. CASE how = "redefinition" /\ call[c].kind # "guarded" /\ Redefined(call[c], Bound) # {}
    <3>1. PICK s \in DOMAIN call[c].want :
            Bound[s] # Unbound /\ ~SameInstalled(s, call[c].want[s], Bound[s])
      BY <2>3 DEF Redefined, Replayed
    <3>2. /\ BoundNow[s] # Contract!Unbound
          /\ Contract!Means(s, call[c].want[s]) => Contract!Mistakable(s, call[c].want[s])
      BY <1>5, <3>1, SameIsMeant, MethodsSeen
    <3>3. QED BY <1>2, <1>3, <1>4, <2>3, <3>1, <3>2 DEF Contract!Decline
  <2>4. CASE how = "ok" /\ Replayed(call[c], Bound) = DOMAIN call[c].want
    <3>1. ASSUME NEW s \in DOMAIN call[c].want PROVE Contract!Means(s, call[c].want[s])
      <4>1. Bound[s] # Unbound /\ SameInstalled(s, call[c].want[s], Bound[s])
        BY <2>4 DEF Replayed
      <4>2. QED BY <1>5, <4>1, SameIsMeant, MethodsSeen
    <3>2. QED BY <1>2, <1>3, <1>4, <2>4, <3>1 DEF Contract!Decline
  <2>5. CASE how = "contention" /\ call[c].kind = "guarded" /\ ~Stale(call[c], Bound)
    <3>1. Contract!Untouched(c) BY <2>5, UntouchedSeen DEF Stale
    <3>2. QED BY <1>2, <1>3, <1>4, <2>5, <3>1 DEF Contract!Decline
  <2>6. QED BY <2>1, <2>2, <2>3, <2>4, <2>5
<1>7. QED BY <1>3, <1>6 DEF Contract!Next

(* Planning is a step of the contract or none. *)
LEMMA PlanMaps ==
  ASSUME IInv, RInv, NEW c \in Callers, Plan(c), WellTyped'
  PROVE  RInv' /\ [Contract!Next]_(Contract!vars)
<1>0. TypeOK /\ SealInv BY DEF IInv, WellTyped
<1> PICK j \in CallType : j = call[c]
  BY <1>0 DEF TypeOK
<1> PICK table \in Tables : table = dictionary[j.read.at].table
  BY SnapshotType, CallParts DEF IInv, WellTyped
<1>1. j.pc = "plan" /\ UNCHANGED <<behavior, dictionary, firstSource, firstMethod, migration>>
  BY DEF Plan
<1>2. FirstsStay /\ SourcesStand' BY <1>1 DEF FirstsStay, RInv, SourcesStand
<1>3. ~RefusesSealed(dictionary[j.read.at]) => table = Bound
  BY <1>0, UnsealedIsBound DEF RefusesSealed
<1>4. CASE Finish(c, "sealed")
  BY <1>1, <1>4, <1>0, DeclineMaps DEF Outcomes
<1>5. CASE ~RefusesSealed(dictionary[j.read.at]) /\ Stale(j, table) /\ Finish(c, "stale")
  BY <1>1, <1>3, <1>5, <1>0, DeclineMaps DEF Outcomes
<1>6. CASE /\ ~RefusesSealed(dictionary[j.read.at])
           /\ j.kind = "define" /\ Redefined(j, table) # {} /\ Finish(c, "redefinition")
  BY <1>1, <1>3, <1>6, <1>0, DeclineMaps DEF Outcomes
<1>7. CASE /\ ~RefusesSealed(dictionary[j.read.at])
           /\ Replayed(j, table) = DOMAIN j.want /\ Finish(c, "ok")
  BY <1>1, <1>3, <1>7, <1>0, DeclineMaps DEF Outcomes
<1> DEFINE changed == Redefined(j, table)
           open == {s \in DOMAIN j.want : table[s] = Unbound}
<1>8. CASE /\ ~RefusesSealed(dictionary[j.read.at]) /\ ~Stale(j, table)
           /\ j.kind = "define" => changed = {}
           /\ Keep(c, [j EXCEPT !.pc = "publish", !.read = Snapshot(j.read.at),
                             !.published = Revisions(j, changed), !.todo = open])
  <2> PICK k : k = [j EXCEPT !.pc = "publish", !.read = Snapshot(j.read.at),
                             !.published = Revisions(j, changed), !.todo = open]
    OBVIOUS
  <2> HIDE DEF changed, open
  <2>1. /\ k.pc = "publish" /\ k.read = Snapshot(j.read.at) /\ k.published = Revisions(j, changed)
        /\ k.todo = open /\ k.want = j.want /\ k.kind = j.kind /\ k.expected = j.expected
        /\ k.outcome = j.outcome /\ k.sourced = j.sourced
    BY CallFields
  <2>2. k.read.table = table /\ k.read.version = dictionary[j.read.at].version /\ k.read.at = j.read.at
    <3>1. Snapshot(j.read.at).table = table BY DEF Snapshot
    <3>2. /\ Snapshot(j.read.at).version = dictionary[j.read.at].version
          /\ Snapshot(j.read.at).at = j.read.at
      BY DEF Snapshot
    <3>3. QED BY <2>1, <3>1, <3>2
  <2>3. Keep(c, k) BY <1>8
  <2>4. k \in CallType BY <1>0, <2>3, CallTyped
  <2>5. table = Bound /\ j.read.at \in Layouts BY <1>3, <1>8, CallParts
  <2>6. \A s \in Selectors : Published(s, table[s])
    BY <2>5 DEF RInv, RecordsNamePublished
  <2>7. /\ DOMAIN j.want \subseteq Selectors
        /\ \A s \in DOMAIN j.want : j.want[s] \in Definitions
    BY CallParts
  <2>8. Sound(j) BY DEF RInv
  <2>9. NamesPublished(k)
    <3>1. ASSUME NEW s \in DOMAIN k.published PROVE DefinedAs(s, k.published[s], k.want[s])
      <4>1. s \in changed /\ k.published[s] = Revision(j.want[s]) /\ k.want[s] = j.want[s]
        BY <2>1, <3>1 DEF Revisions
      <4>2. j.want[s] \in Definitions BY <2>7, <4>1 DEF changed, Redefined
      <4>3. /\ Revision(j.want[s]) # First /\ Revision(j.want[s]) # Unbound
            /\ Meaning(s, Revision(j.want[s])).definition = j.want[s]
        BY DEF Revision, First, Unbound, Meaning
      <4>4. QED BY <4>1, <4>3 DEF DefinedAs, Published
    <3>2. \A s \in DOMAIN k.expected : Published(s, k.expected[s])
      BY <2>1, <2>8 DEF Sound, NamesPublished
    <3>3. \A s \in k.sourced : firstSource[s] = k.want[s].source /\ firstSource[s] # NoSource
      BY <2>1, <2>8 DEF Sound, NamesPublished
    <3>4. \A s \in Selectors : Published(s, k.read.table[s]) BY <2>2, <2>6
    <3>5. QED BY <3>1, <3>2, <3>3, <3>4 DEF NamesPublished
  <2>10. IsEntitled(k)
    <3>1. \A s \in DOMAIN j.want : \/ s \in open
                                   \/ s \in changed
                                   \/ DefinedAs(s, table[s], j.want[s])
      <4>1. ASSUME NEW s \in DOMAIN j.want, table[s] # Unbound, s \notin changed
            PROVE  DefinedAs(s, table[s], j.want[s])
        <5>1. SameInstalled(s, j.want[s], table[s])
          BY <4>1 DEF changed, Redefined, Replayed
        <5>2. QED BY <2>5, <2>7, <4>1, <5>1, <1>0, SameIsMeant
      <4>2. QED BY <4>1 DEF open
    <3>2. DOMAIN k.published = changed BY <2>1 DEF Revisions
    <3>3. j.kind = "guarded" => \A s \in DOMAIN j.want : table[s] = j.expected[s]
      BY <1>8 DEF Stale
    <3>4. \A s \in DOMAIN k.want \ (k.todo \cup DOMAIN k.published) :
            DefinedAs(s, k.read.table[s], k.want[s])
      BY <2>1, <2>2, <3>1, <3>2
    <3>5. k.kind = "define" => \A s \in DOMAIN k.want :
            k.read.table[s] = Unbound \/ DefinedAs(s, k.read.table[s], k.want[s])
      BY <1>8, <2>1, <2>2, <3>1 DEF open
    <3>6. k.kind = "guarded" => \A s \in DOMAIN k.want : k.read.table[s] = k.expected[s]
      BY <2>1, <2>2, <3>3
    <3>7. QED BY <2>1, <3>4, <3>5, <3>6 DEF IsEntitled
  <2>11. Sound(k)
    <3>1. WellFormed(k) BY <1>1, <2>1, <2>8 DEF Sound, WellFormed
    <3>2. ReadIsVersioned(k)
      <4>1. k.read.version \in Nat BY <2>4, CallParts
      <4>2. QED BY <2>2, <4>1 DEF ReadIsVersioned
    <3>3. QED BY <2>9, <2>10, <3>1, <3>2 DEF Sound
  <2>12. Sound(k)'
    <3>1. ReadIsVersioned(k)' BY <1>1, <2>11 DEF Sound, ReadIsVersioned
    <3>2. QED BY <1>2, <2>4, <2>11, <3>1, SoundStays
  <2>13. /\ call[c].pc # "idle" /\ k.pc # "idle" /\ k.kind = call[c].kind
         /\ k.want = call[c].want /\ k.expected = call[c].expected /\ k.outcome = call[c].outcome
    BY <1>1, <2>1
  <2>14. UNCHANGED <<behavior, dictionary, migration>> BY <1>1
  <2>15. QED BY <1>2, <2>3, <2>4, <2>12, <2>13, <2>14, <1>0, CallStutters
<1>9. QED BY <1>4, <1>5, <1>6, <1>7, <1>8 DEF Plan

(* Publishing a source is a step of the contract or none. *)
LEMMA PublishSourceMaps ==
  ASSUME TypeOK, RInv, NEW c \in Callers, PublishSource(c), WellTyped'
  PROVE  RInv' /\ [Contract!Next]_(Contract!vars)
<1> PICK j \in CallType : j = call[c]
  BY DEF TypeOK
<1>1. j.pc = "publish" /\ UNCHANGED <<behavior, dictionary, firstMethod, migration>>
  BY DEF PublishSource
<1>2. CASE Finish(c, "conflict") /\ UNCHANGED firstSource
  BY <1>1, <1>2, DeclineMaps DEF Outcomes
<1>3. CASE ~(Finish(c, "conflict") /\ UNCHANGED firstSource)
  <2> PICK s \in j.todo \ j.sourced :
        /\ j.want[s].source # NoSource
        /\ firstSource[s] \in {NoSource, j.want[s].source}
        /\ firstSource' = [firstSource EXCEPT ![s] = j.want[s].source]
        /\ Keep(c, [j EXCEPT !.sourced = @ \cup {s}])
    BY <1>3 DEF PublishSource
  <2> PICK k : k = [j EXCEPT !.sourced = @ \cup {s}]
    OBVIOUS
  <2>1. /\ k.pc = j.pc /\ k.read = j.read /\ k.published = j.published /\ k.todo = j.todo
        /\ k.want = j.want /\ k.kind = j.kind /\ k.expected = j.expected
        /\ k.outcome = j.outcome /\ k.sourced = j.sourced \cup {s}
    BY CallFields
  <2>2. Keep(c, k) OBVIOUS
  <2>3. k \in CallType BY <2>2, CallTyped
  <2>4. s \in Selectors BY CallParts
  <2>5. /\ firstSource'[s] = j.want[s].source
        /\ \A r \in Selectors \ {s} : firstSource'[r] = firstSource[r]
    BY <2>4 DEF TypeOK
  <2>6. FirstsStay BY <1>1, <2>4, <2>5 DEF FirstsStay
  <2>7. SourcesStand'
    <3>1. ASSUME NEW r \in Selectors, firstMethod[r].source # NoSource
          PROVE  firstSource'[r] = firstMethod[r].source
      BY <2>4, <2>5, <3>1 DEF RInv, SourcesStand
    <3>2. QED BY <1>1, <3>1 DEF SourcesStand
  <2>8. Sound(j)'
    <3>1. Sound(j) BY DEF RInv
    <3>2. ReadIsVersioned(j)' BY <1>1, <3>1 DEF Sound, ReadIsVersioned
    <3>3. QED BY <2>6, <3>1, <3>2, SoundStays
  <2>9. NamesPublished(k)'
    <3>1. NamesPublished(j)' BY <2>8 DEF Sound
    <3>2. \A r \in k.sourced : firstSource'[r] = k.want[r].source /\ firstSource'[r] # NoSource
      BY <2>1, <2>5, <3>1 DEF NamesPublished
    <3>3. QED BY <2>1, <3>1, <3>2 DEF NamesPublished
  <2>10. WellFormed(k)' /\ ReadIsVersioned(k)' /\ IsEntitled(k)'
    BY <2>1, <2>8 DEF Sound, WellFormed, ReadIsVersioned, IsEntitled
  <2>11. Sound(k)' BY <2>9, <2>10 DEF Sound
  <2>12. /\ call[c].pc # "idle" /\ k.pc # "idle" /\ k.kind = call[c].kind
         /\ k.want = call[c].want /\ k.expected = call[c].expected /\ k.outcome = call[c].outcome
    BY <1>1, <2>1
  <2>13. UNCHANGED <<behavior, dictionary, migration>> BY <1>1
  <2>14. QED BY <2>2, <2>3, <2>6, <2>7, <2>11, <2>12, <2>13, CallStutters
<1>4. QED BY <1>2, <1>3

(* Publishing first identities is no step of the contract. *)
LEMMA PublishFirstMaps ==
  ASSUME WellTyped, RInv, NEW c \in Callers, PublishFirst(c), WellTyped'
  PROVE  RInv' /\ [Contract!Next]_(Contract!vars)
<1>0. TypeOK BY DEF WellTyped
<1> PICK j \in CallType : j = call[c]
  BY <1>0 DEF TypeOK
<1>1. j.pc = "publish" /\ UNCHANGED <<behavior, dictionary, firstSource, migration>>
  BY DEF PublishFirst
<1>2. CASE Finish(c, "conflict") /\ UNCHANGED firstMethod
  BY <1>0, <1>1, <1>2, DeclineMaps DEF Outcomes
<1>3. CASE ~(Finish(c, "conflict") /\ UNCHANGED firstMethod)
  <2> PICK s \in j.todo :
        /\ j.want[s].source = NoSource \/ s \in j.sourced
        /\ firstMethod[s] \in {Nothing, j.want[s]}
        /\ firstMethod' = [firstMethod EXCEPT ![s] = j.want[s]]
        /\ Keep(c, [j EXCEPT !.todo = @ \ {s}, !.sourced = @ \ {s},
             !.published = [t \in DOMAIN @ \cup {s} |-> IF t = s THEN First ELSE @[t]]])
    BY <1>3 DEF PublishFirst
  <2> PICK new : new = [t \in DOMAIN j.published \cup {s} |->
                          IF t = s THEN First ELSE j.published[t]]
    OBVIOUS
  <2> PICK k : k = [j EXCEPT !.todo = @ \ {s}, !.sourced = @ \ {s}, !.published = new]
    OBVIOUS
  <2>1. /\ k.pc = j.pc /\ k.read = j.read /\ k.published = new /\ k.todo = j.todo \ {s}
        /\ k.want = j.want /\ k.kind = j.kind /\ k.expected = j.expected
        /\ k.outcome = j.outcome /\ k.sourced = j.sourced \ {s}
    BY CallFields
  <2>2. Keep(c, k) OBVIOUS
  <2>3. k \in CallType BY <1>0, <2>2, CallTyped
  <2>4. s \in Selectors /\ s \in DOMAIN j.want /\ j.want[s] \in Definitions
    BY CallParts DEF WellTyped, TodoIsNamed
  <2>5. /\ firstMethod'[s] = j.want[s] /\ j.want[s] # Nothing
        /\ \A r \in Selectors \ {s} : firstMethod'[r] = firstMethod[r]
    BY <1>0, <2>4, DefinitionsAssumption DEF TypeOK
  <2>6. FirstsStay BY <1>1, <2>4, <2>5 DEF FirstsStay
  <2>7. Sound(j) BY DEF RInv
  <2>8. SourcesStand'
    <3>1. s \in j.sourced => firstSource[s] = j.want[s].source
      BY <2>7 DEF Sound, NamesPublished
    <3>2. ASSUME NEW r \in Selectors, firstMethod'[r].source # NoSource
          PROVE  firstSource[r] = firstMethod'[r].source
      BY <2>5, <3>1, <3>2 DEF RInv, SourcesStand
    <3>3. QED BY <1>1, <3>2 DEF SourcesStand
  <2>9. Sound(j)'
    <3>1. ReadIsVersioned(j)' BY <1>1, <2>7 DEF Sound, ReadIsVersioned
    <3>2. QED BY <2>6, <2>7, <3>1, SoundStays
  <2>10. NamesPublished(k)'
    <3>1. NamesPublished(j)' BY <2>9 DEF Sound
    <3>2. DefinedAs(s, First, j.want[s])'
      BY <2>5 DEF DefinedAs, Published, Meaning, First, Unbound
    <3>3. ASSUME NEW r \in DOMAIN k.published PROVE DefinedAs(r, k.published[r], k.want[r])'
      <4>1. CASE r = s
        BY <2>1, <3>2, <4>1
      <4>2. CASE r # s
        <5>1. r \in DOMAIN j.published /\ k.published[r] = j.published[r]
          BY <2>1, <4>2
        <5>2. QED BY <2>1, <3>1, <5>1 DEF NamesPublished
      <4>3. QED BY <4>1, <4>2
    <3>4. QED BY <2>1, <3>1, <3>3 DEF NamesPublished
  <2>11. IsEntitled(k)'
    <3>1. IsEntitled(j)' BY <2>9 DEF Sound
    <3>2. DOMAIN k.want \ (k.todo \cup DOMAIN k.published)
            \subseteq DOMAIN j.want \ (j.todo \cup DOMAIN j.published)
      BY <2>1
    <3>3. QED BY <1>1, <2>1, <3>1, <3>2 DEF IsEntitled
  <2>12. WellFormed(k)' /\ ReadIsVersioned(k)'
    BY <2>1, <2>9 DEF Sound, WellFormed, ReadIsVersioned
  <2>13. Sound(k)' BY <2>10, <2>11, <2>12 DEF Sound
  <2>14. /\ call[c].pc # "idle" /\ k.pc # "idle" /\ k.kind = call[c].kind
         /\ k.want = call[c].want /\ k.expected = call[c].expected /\ k.outcome = call[c].outcome
    BY <1>1, <2>1
  <2>15. UNCHANGED <<behavior, dictionary, migration>> BY <1>1
  <2>16. QED BY <1>0, <2>2, <2>3, <2>6, <2>8, <2>13, <2>14, <2>15, CallStutters
<1>4. QED BY <1>2, <1>3

(* Losing a commit is no step of the contract. *)
LEMMA LoseCommitMaps ==
  ASSUME TypeOK, RInv, NEW c \in Callers, LoseCommit(c), WellTyped'
  PROVE  RInv' /\ UNCHANGED Contract!vars
<1> PICK j \in CallType : j = call[c]
  BY DEF TypeOK
<1> PICK k : k = [j EXCEPT !.pc = "lost"]
  OBVIOUS
<1>1. /\ Keep(c, k) /\ UNCHANGED <<behavior, dictionary, firstSource, firstMethod, migration>>
      /\ j.pc = "publish" /\ j.todo = {}
  BY DEF LoseCommit
<1>2. /\ k.pc = "lost" /\ k.read = j.read /\ k.published = j.published /\ k.todo = j.todo
      /\ k.want = j.want /\ k.kind = j.kind /\ k.expected = j.expected
      /\ k.outcome = j.outcome /\ k.sourced = j.sourced
  BY CallFields
<1>3. k \in CallType BY <1>1, CallTyped
<1>4. FirstsStay /\ SourcesStand' BY <1>1 DEF FirstsStay, RInv, SourcesStand
<1>5. Sound(j) BY DEF RInv
<1>6. Sound(k)
  <2>1. NamesPublished(k) BY <1>2, <1>5 DEF Sound, NamesPublished
  <2>2. WellFormed(k) /\ ReadIsVersioned(k)
    BY <1>1, <1>2, <1>5 DEF Sound, WellFormed, ReadIsVersioned
  <2>3. k.kind = "guarded" =>
          \A s \in DOMAIN k.want \ DOMAIN k.published : DefinedAs(s, k.expected[s], k.want[s])
    BY <1>1, <1>2, <1>5 DEF Sound, IsEntitled
  <2>4. IsEntitled(k) BY <1>1, <1>2, <2>3 DEF IsEntitled
  <2>5. QED BY <2>1, <2>2, <2>4 DEF Sound
<1>7. Sound(k)'
  <2>1. ReadIsVersioned(k)' BY <1>2 DEF ReadIsVersioned
  <2>2. QED BY <1>3, <1>4, <1>6, <2>1, SoundStays
<1>8. /\ call[c].pc # "idle" /\ k.pc # "idle" /\ k.kind = call[c].kind
      /\ k.want = call[c].want /\ k.expected = call[c].expected /\ k.outcome = call[c].outcome
  BY <1>1, <1>2
<1>9. UNCHANGED <<behavior, dictionary, migration>> BY <1>1
<1>10. QED BY <1>1, <1>3, <1>4, <1>7, <1>8, <1>9, CallStutters

(* Judging is a step of the contract or none. *)
LEMMA JudgeMaps ==
  ASSUME IInv, RInv, NEW c \in Callers, Judge(c), WellTyped'
  PROVE  RInv' /\ [Contract!Next]_(Contract!vars)
<1>0. TypeOK /\ SealInv BY DEF IInv, WellTyped
<1> PICK j \in CallType : j = call[c]
  BY <1>0 DEF TypeOK
<1> PICK table \in Tables : table = dictionary[j.read.at].table
  BY SnapshotType, CallParts DEF IInv, WellTyped
<1>1. j.pc = "judge" /\ UNCHANGED <<behavior, dictionary, firstSource, firstMethod, migration>>
  BY DEF Judge
<1>2. FirstsStay /\ SourcesStand' BY <1>1 DEF FirstsStay, RInv, SourcesStand
<1>3. ~RefusesSealed(dictionary[j.read.at]) => table = Bound
  BY <1>0, UnsealedIsBound DEF RefusesSealed
<1>4. CASE Finish(c, "sealed") \/ Finish(c, "conflict")
  BY <1>1, <1>4, <1>0, DeclineMaps DEF Outcomes
<1>5. CASE /\ ~RefusesSealed(dictionary[j.read.at])
           /\ j.kind # "guarded" /\ Redefined(j, table) # {} /\ Finish(c, "redefinition")
  BY <1>1, <1>3, <1>5, <1>0, DeclineMaps DEF Outcomes
<1>6. CASE /\ ~RefusesSealed(dictionary[j.read.at])
           /\ Replayed(j, table) = DOMAIN j.want /\ Finish(c, "ok")
  BY <1>1, <1>3, <1>6, <1>0, DeclineMaps DEF Outcomes
<1>7. CASE /\ ~RefusesSealed(dictionary[j.read.at]) /\ Stale(j, table) /\ Finish(c, "stale")
  BY <1>1, <1>3, <1>7, <1>0, DeclineMaps DEF Outcomes
<1>8. CASE /\ ~RefusesSealed(dictionary[j.read.at]) /\ j.kind = "guarded"
           /\ ~Stale(j, table) /\ Finish(c, "contention")
  BY <1>1, <1>3, <1>8, <1>0, DeclineMaps DEF Outcomes
<1>9. CASE /\ ~RefusesSealed(dictionary[j.read.at]) /\ j.kind = "guarded"
           /\ ~Stale(j, table) /\ Keep(c, Rebase(j))
  <2> PICK k : k = Rebase(j)
    OBVIOUS
  <2>1. /\ k.pc = "publish" /\ k.read = Snapshot(j.read.at) /\ k.published = j.published
        /\ k.todo = j.todo /\ k.want = j.want /\ k.kind = j.kind /\ k.expected = j.expected
        /\ k.outcome = j.outcome /\ k.sourced = j.sourced
    BY CallFields DEF Rebase
  <2>2. k.read.table = table /\ k.read.version = dictionary[j.read.at].version /\ k.read.at = j.read.at
    <3>1. /\ Snapshot(j.read.at).table = table
          /\ Snapshot(j.read.at).version = dictionary[j.read.at].version
          /\ Snapshot(j.read.at).at = j.read.at
      BY DEF Snapshot
    <3>2. QED BY <2>1, <3>1
  <2>3. Keep(c, k) BY <1>9
  <2>4. k \in CallType BY <1>0, <2>3, CallTyped
  <2>5. table = Bound /\ j.read.at \in Layouts BY <1>3, <1>9, CallParts
  <2>6. Sound(j) BY DEF RInv
  <2>7. \A s \in DOMAIN j.want : table[s] = j.expected[s] BY <1>9 DEF Stale
  <2>8. NamesPublished(k)
    <3>1. \A s \in Selectors : Published(s, k.read.table[s])
      BY <2>2, <2>5 DEF RInv, RecordsNamePublished
    <3>2. QED BY <2>1, <2>6, <3>1 DEF Sound, NamesPublished
  <2>9. IsEntitled(k)
    <3>1. k.todo = {} BY <1>1, <2>1, <2>6 DEF Sound, IsEntitled
    <3>2. \A s \in DOMAIN k.want \ DOMAIN k.published : DefinedAs(s, k.read.table[s], k.want[s])
      BY <1>1, <1>9, <2>1, <2>2, <2>6, <2>7 DEF Sound, IsEntitled
    <3>3. \A s \in DOMAIN k.want : k.read.table[s] = k.expected[s]
      BY <2>1, <2>2, <2>7
    <3>4. k.kind # "define" BY <1>9, <2>1
    <3>5. QED BY <2>1, <3>1, <3>2, <3>3, <3>4 DEF IsEntitled
  <2>10. WellFormed(k) BY <1>1, <2>1, <2>6 DEF Sound, WellFormed
  <2>11. ReadIsVersioned(k)
    <3>1. k.read.version \in Nat BY <2>4, CallParts
    <3>2. QED BY <2>2, <3>1 DEF ReadIsVersioned
  <2>12. Sound(k)'
    <3>1. Sound(k) BY <2>8, <2>9, <2>10, <2>11 DEF Sound
    <3>2. ReadIsVersioned(k)' BY <1>1, <2>11 DEF ReadIsVersioned
    <3>3. QED BY <1>2, <2>4, <3>1, <3>2, SoundStays
  <2>13. /\ call[c].pc # "idle" /\ k.pc # "idle" /\ k.kind = call[c].kind
         /\ k.want = call[c].want /\ k.expected = call[c].expected /\ k.outcome = call[c].outcome
    BY <1>1, <2>1
  <2>14. UNCHANGED <<behavior, dictionary, migration>> BY <1>1
  <2>15. QED BY <1>0, <1>2, <2>3, <2>4, <2>12, <2>13, <2>14, CallStutters
<1>10. QED BY <1>4, <1>5, <1>6, <1>7, <1>8, <1>9 DEF Judge

(* The compare-and-set is where a call takes effect: what it read is what  *)
(* the class uses, so the table it writes changes the methods it names and *)
(* nothing else.                                                           *)
LEMMA CommitMaps ==
  ASSUME IInv, RInv, NEW c \in Callers, Commit(c)
  PROVE  RInv' /\ Contract!Next
<1>0. TypeOK /\ SealInv BY DEF IInv, WellTyped
<1> PICK j \in CallType : j = call[c]
  BY <1>0 DEF TypeOK
<1> PICK at \in Layouts : at = j.read.at
  BY CallParts
<1> PICK new : new = Overlay(j)
  OBVIOUS
<1> PICK k : k = [IdleCall EXCEPT !.outcome = "ok"]
  OBVIOUS
<1>1. /\ dictionary' = [dictionary EXCEPT ![at] =
            [version |-> dictionary[at].version + 1, sealed |-> dictionary[at].sealed,
             table |-> new]]
      /\ j.read.version = dictionary[at].version
      /\ j.pc = "publish" /\ j.todo = {} /\ Keep(c, k)
      /\ UNCHANGED <<behavior, firstSource, firstMethod, migration>>
  BY DEF Commit, Accepts, Finish
<1>2. at = behavior.edge
  BY <1>0, <1>1, Shapes DEF SealInv, CallsAreOutrun, EdgeFollowsSeal, Layouts
<1>3. /\ dictionary'[at].version = dictionary[at].version + 1
      /\ dictionary[at].version \in Nat
      /\ dictionary'[at].table = new
      /\ \A l \in Layouts \ {at} : dictionary'[l] = dictionary[l]
  BY <1>0, <1>1 DEF TypeOK
<1>4. Sound(j) BY DEF RInv
<1>5. j.read.table = Bound
  BY <1>1, <1>2, <1>3, <1>4 DEF Sound, ReadIsVersioned, Bound
<1>6. Bound' = new BY <1>1, <1>2, <1>3 DEF Bound
<1>7. /\ DOMAIN j.want \subseteq Selectors /\ DOMAIN j.published \subseteq DOMAIN j.want
      /\ \A s \in DOMAIN j.want : j.want[s] \in Definitions
      /\ \A s \in DOMAIN j.published : j.published[s] \in Methods
      /\ \A s \in Selectors : j.read.table[s] \in Methods \cup {Unbound}
  BY CallParts DEF IInv, WellTyped, TodoIsNamed, Tables
<1>8. \A s \in Selectors :
        new[s] = IF s \in DOMAIN j.published THEN j.published[s] ELSE j.read.table[s]
  BY DEF Overlay
<1>9. \A s \in DOMAIN j.want : DefinedAs(s, new[s], j.want[s])
  BY <1>1, <1>4, <1>7, <1>8 DEF Sound, NamesPublished, IsEntitled
<1>10. \A s \in Selectors : Published(s, new[s]) /\ new[s] \in Methods \cup {Unbound}
  <2>1. ASSUME NEW s \in DOMAIN j.published PROVE Published(s, new[s])
    BY <1>7, <1>9 DEF DefinedAs
  <2>2. ASSUME NEW s \in Selectors \ DOMAIN j.published PROVE Published(s, new[s])
    BY <1>4, <1>8 DEF Sound, NamesPublished
  <2>3. QED BY <1>7, <1>8, <2>1, <2>2
<1>11. FirstsStay /\ SourcesStand' BY <1>1 DEF FirstsStay, RInv, SourcesStand
<1>12. k \in CallType /\ k.pc = "idle" /\ k.outcome = "ok" /\ k.read.table = NoTable
       /\ k.sourced = {} /\ k.expected = <<>> /\ k.published = <<>>
  BY IdleTypes DEF IdleCall, NoRead, Outcomes
<1>13. \A d \in Callers : Sound(call[d])'
  <2>1. NamesPublished(k)'
    BY <1>12, UnboundIsPublished DEF NamesPublished, NoTable
  <2>2. Sound(k)'
    BY <1>12, <2>1 DEF Sound, WellFormed, ReadIsVersioned, IsEntitled
  <2>3. call'[c] = k BY <1>0, <1>1 DEF Keep, TypeOK
  <2>4. ASSUME NEW d \in Callers \ {c} PROVE Sound(call[d])'
    <3> PICK i \in CallType : i = call[d] /\ i = call'[d]
      BY <1>0, <1>1 DEF Keep, TypeOK
    <3>1. Sound(i) BY DEF RInv
    <3>2. ReadIsVersioned(i)'
      <4>1. i.read.version \in Nat /\ i.read.at \in Layouts BY CallParts
      <4>2. QED BY <1>3, <3>1, <4>1 DEF Sound, ReadIsVersioned
    <3>3. Sound(i)' BY <1>11, <3>1, <3>2, SoundStays
    <3>4. QED BY <3>3
  <2>5. QED BY <2>2, <2>3, <2>4
<1>14. RecordsNamePublished'
  <2>1. \A s, ref : Published(s, ref) => Published(s, ref)'
    BY <1>1 DEF Published
  <2>2. ASSUME NEW l \in Layouts, NEW s \in Selectors
        PROVE  Published(s, dictionary'[l].table[s])
    BY <1>3, <1>10 DEF RInv, RecordsNamePublished
  <2>3. QED BY <1>1, <2>1, <2>2 DEF RInv, RecordsNamePublished
<1>15. RInv' BY <1>11, <1>13, <1>14 DEF RInv
<1>16. BoundNow' = [s \in Selectors |-> Meaning(s, new[s])]
  BY <1>1, <1>6 DEF BoundNow, Meaning
<1>17. Contract!Close(c, "ok")
  <2>1. Asked(k)' = Contract!NoCall BY <1>12 DEF Asked, Contract!NoCall
  <2>2. /\ AskedNow' = [AskedNow EXCEPT ![c] = Asked(k)']
        /\ AnswerNow' = [AnswerNow EXCEPT ![c] = k.outcome]
    <3>1. Keep(c, k) BY <1>1
    <3>2. k \in CallType BY <1>12
    <3>3. QED BY <1>0, <1>11, <3>1, <3>2, OneCallMoves, Zenon
  <2>3. QED BY <1>12, <2>1, <2>2 DEF Contract!Close
<1>18. /\ Contract!Calling(c) /\ AskedNow[c].kind = j.kind
       /\ AskedNow[c].want = j.want /\ Contract!Named(c) = DOMAIN j.want
  BY <1>0, <1>1, CallSeen
<1>19. AskedNow[c].kind = "define" =>
         \A s \in DOMAIN j.want : BoundNow[s] = Contract!Unbound \/ Contract!Means(s, j.want[s])
  <2>1. j.kind = "define" => \A s \in DOMAIN j.want :
          Bound[s] = Unbound \/ DefinedAs(s, Bound[s], j.want[s])
    BY <1>1, <1>4, <1>5 DEF Sound, IsEntitled
  <2>2. QED BY <1>0, <1>7, <1>18, <2>1, MethodsSeen
<1>20. AskedNow[c].kind = "guarded" => Contract!Untouched(c)
  <2>1. j.kind = "guarded" => \A s \in DOMAIN j.want : Bound[s] = j.expected[s]
    BY <1>1, <1>4, <1>5 DEF Sound, IsEntitled
  <2>2. QED BY <1>0, <1>1, <1>18, <2>1, UntouchedSeen
<1>21. BoundNow' \in [Selectors -> Contract!Bindings \cup {Contract!Unbound}]
  <2>1. \A s \in Selectors : Meaning(s, new[s]) \in Contract!Bindings \cup {Contract!Unbound}
    BY <1>0, <1>10, BindingsAreSeen
  <2>2. QED BY <1>16, <2>1
<1>22. \A s \in DOMAIN j.want : BoundNow'[s] # Contract!Unbound /\ BoundNow'[s].definition = j.want[s]
  <2>1. ASSUME NEW s \in DOMAIN j.want
        PROVE  Meaning(s, new[s]) # Contract!Unbound /\ Meaning(s, new[s]).definition = j.want[s]
    BY <1>7, <1>9, <1>10, MeaningFacts DEF DefinedAs
  <2>2. QED BY <1>7, <1>16, <2>1
<1>23. \A s \in Selectors \ DOMAIN j.want : BoundNow'[s] = BoundNow[s]
  <2>1. \A s \in Selectors \ DOMAIN j.want : new[s] = Bound[s]
    BY <1>5, <1>7, <1>8
  <2>2. QED BY <1>16, <2>1 DEF BoundNow
<1>24. Contract!Install(c)
  BY <1>17, <1>18, <1>19, <1>20, <1>21, <1>22, <1>23 DEF Contract!Install
<1>25. QED BY <1>15, <1>24 DEF Contract!Next

(* A step of a migration or a lookup that leaves the class's table as it   *)
(* is, is no step of the contract.                                         *)
LEMMA OthersMap ==
  ASSUME TypeOK, RInv, UNCHANGED <<call, firstSource, firstMethod>>, Bound' = Bound,
         RecordsNamePublished', \A c \in Callers : ReadIsVersioned(call[c])'
  PROVE  RInv' /\ UNCHANGED Contract!vars
<1>1. FirstsStay /\ SourcesStand' BY DEF FirstsStay, RInv, SourcesStand
<1>2. \A c \in Callers : Sound(call[c])'
  <2> TAKE c \in Callers
  <2> PICK i \in CallType : i = call[c] /\ i = call'[c]
    BY DEF TypeOK
  <2>1. Sound(i) /\ ReadIsVersioned(i)' BY DEF RInv
  <2>2. Sound(i)' BY <1>1, <2>1, SoundStays
  <2>3. QED BY <2>2
<1>3. BoundNow' = BoundNow BY <1>1, BoundStays
<1>4. AskedNow' = AskedNow /\ AnswerNow' = AnswerNow
  BY DEF AskedNow, AnswerNow, Asked, Meaning
<1>5. QED BY <1>1, <1>2, <1>3, <1>4 DEF RInv, Contract!vars

(* Reading on, giving up and dying move only the migration. *)
LEMMA MigratorsMap ==
  ASSUME TypeOK, RInv, NEW m \in Migrators, NEW held, Move(m, held),
         \A s \in Selectors : Published(s, held.read.table[s]),
         UNCHANGED <<behavior, dictionary, call, firstSource, firstMethod>>
  PROVE  RInv' /\ UNCHANGED Contract!vars
<1>1. \A n \in Migrators : migration'[n] = IF n = m THEN held ELSE migration[n]
  BY Shapes DEF Move
<1>2. RecordsNamePublished'
  <2>1. \A s, ref : Published(s, ref) => Published(s, ref)' BY DEF Published
  <2>2. QED BY <1>1, <2>1 DEF RInv, RecordsNamePublished
<1>3. \A c \in Callers : ReadIsVersioned(call[c])'
  BY DEF RInv, Sound, ReadIsVersioned
<1>4. Bound' = Bound BY DEF Bound
<1>5. UNCHANGED <<call, firstSource, firstMethod>> OBVIOUS
<1>6. QED BY <1>2, <1>3, <1>4, <1>5, OthersMap

(* Giving up is no step of the contract. *)
LEMMA GiveUpMaps ==
  ASSUME TypeOK, RInv, NEW m \in Migrators, GiveUp(m),
         UNCHANGED <<behavior, dictionary, call, firstSource, firstMethod>>
  PROVE  RInv' /\ UNCHANGED Contract!vars
<1> PICK held : held = IdleMigration
  OBVIOUS
<1>1. \A s \in Selectors : Published(s, held.read.table[s])
  BY UnboundIsPublished DEF IdleMigration, NoRead, NoTable
<1>2. Move(m, held) BY DEF GiveUp
<1>3. UNCHANGED <<behavior, dictionary, call, firstSource, firstMethod>> OBVIOUS
<1>4. QED BY <1>1, <1>2, <1>3, MigratorsMap

(* A migration's reads are no step of the contract. *)
LEMMA MigrationReadsMap ==
  ASSUME TypeOK, RInv, NEW m \in Migrators,
         StartMigration(m) \/ ReadEdge(m) \/ ReadLegacy(m) \/ CrashMigration(m)
  PROVE  RInv' /\ UNCHANGED Contract!vars
<1>1. UNCHANGED <<behavior, dictionary, call, firstSource, firstMethod>>
  BY DEF StartMigration, ReadEdge, ReadLegacy, CrashMigration
<1>2. /\ migration[m] = [pc |-> migration[m].pc, edgeVersion |-> migration[m].edgeVersion,
                        read |-> migration[m].read]
      /\ migration[m].read = [at |-> migration[m].read.at, version |-> migration[m].read.version,
                              table |-> migration[m].read.table]
      /\ migration[m].read.at \in Layouts
  BY DEF TypeOK
<1>3. /\ \A s \in Selectors : Published(s, migration[m].read.table[s])
      /\ \A s \in Selectors : Published(s, dictionary[migration[m].read.at].table[s])
  BY <1>2 DEF RInv, RecordsNamePublished
<1>4. CASE GiveUp(m)
  BY <1>1, <1>4, GiveUpMaps
<1>5. CASE StartMigration(m)
  <2> PICK held : held = [IdleMigration EXCEPT !.pc = "edge", !.edgeVersion = behavior.version]
    OBVIOUS
  <2>1. held.read.table = NoTable BY DEF IdleMigration, NoRead
  <2>2. \A s \in Selectors : Published(s, held.read.table[s])
    BY <2>1, UnboundIsPublished DEF NoTable
  <2>3. Move(m, held) BY <1>5 DEF StartMigration
  <2>4. QED BY <1>1, <2>2, <2>3, MigratorsMap
<1>6. CASE ReadEdge(m)
  <2> PICK held : held = [migration[m] EXCEPT !.pc = "read", !.read.at = behavior.edge]
    OBVIOUS
  <2>1. held.read.table = migration[m].read.table BY <1>2
  <2>2. Move(m, held) BY <1>6 DEF ReadEdge
  <2>3. \A s \in Selectors : Published(s, held.read.table[s]) BY <1>3, <2>1
  <2>4. QED BY <1>1, <2>2, <2>3, MigratorsMap
<1>7. CASE ReadLegacy(m) /\ ~GiveUp(m)
  <2> PICK at \in Layouts : at = migration[m].read.at
    BY <1>2
  <2> PICK held : held = [migration[m] EXCEPT !.read = Snapshot(at),
                            !.pc = IF dictionary[at].sealed THEN "build" ELSE "seal"]
    OBVIOUS
  <2>1. held.read.table = dictionary[at].table BY <1>2 DEF Snapshot
  <2>2. Move(m, held) BY <1>7 DEF ReadLegacy
  <2>3. \A s \in Selectors : Published(s, held.read.table[s]) BY <1>3, <2>1
  <2>4. QED BY <1>1, <2>2, <2>3, MigratorsMap
<1>8. QED BY <1>4, <1>5, <1>6, <1>7 DEF CrashMigration

(* The seal keeps the table: what the migration writes back is what stands *)
(* there.                                                                  *)
LEMMA SealMaps ==
  ASSUME IInv, RInv, NEW m \in Migrators, Seal(m)
  PROVE  RInv' /\ UNCHANGED Contract!vars
<1>0. TypeOK BY DEF IInv, WellTyped
<1>1. UNCHANGED <<behavior, call, firstSource, firstMethod>> BY DEF Seal
<1>2. CASE ~SealAccepts(m)
  BY <1>0, <1>1, <1>2, GiveUpMaps DEF Seal
<1>3. CASE SealAccepts(m)
  <2>1. /\ migration[m].pc = "seal"
        /\ migration[m].read.version = dictionary["legacy"].version
        /\ dictionary' = [dictionary EXCEPT !["legacy"] =
              [version |-> dictionary["legacy"].version + 1, sealed |-> TRUE,
               table |-> migration[m].read.table]]
        /\ Move(m, [migration[m] EXCEPT !.pc = "build"])
    BY <1>3 DEF Seal, SealAccepts
  <2>2. migration[m].read.table = dictionary["legacy"].table
    BY <1>0, <2>1, Shapes DEF IInv, SealInv, MigrationsHoldTheTable
  <2>3. /\ dictionary'["legacy"].version = dictionary["legacy"].version + 1
        /\ \A l \in Layouts : dictionary'[l].table = dictionary[l].table
        /\ dictionary'["hashed"] = dictionary["hashed"]
    BY <1>0, <2>1, <2>2, Shapes DEF Layouts
  <2>4. \A n \in Migrators : migration'[n].read = migration[n].read
    <3>1. migration[m] = [pc |-> migration[m].pc, edgeVersion |-> migration[m].edgeVersion,
                          read |-> migration[m].read]
      BY <1>0 DEF TypeOK
    <3>2. QED BY <1>0, <2>1, <3>1, Shapes DEF Move
  <2>5. RecordsNamePublished'
    <3>1. \A s, ref : Published(s, ref) => Published(s, ref)'
      BY <1>1 DEF Published
    <3>2. QED BY <2>3, <2>4, <3>1 DEF RInv, RecordsNamePublished
  <2>6. \A c \in Callers : ReadIsVersioned(call[c])'
    <3> TAKE c \in Callers
    <3>1. Sound(call[c]) /\ call'[c] = call[c] BY <1>1 DEF RInv
    <3>2. call[c].read.version \in Nat /\ call[c].read.at \in {"legacy", "hashed"}
          /\ dictionary["legacy"].version \in Nat
      BY <1>0, Shapes
    <3>3. QED BY <1>1, <2>3, <3>1, <3>2 DEF Sound, ReadIsVersioned
  <2>7. Bound' = Bound BY <1>0, <1>1, <2>3, Shapes DEF Bound, Layouts
  <2>8. UNCHANGED <<call, firstSource, firstMethod>> BY <1>1
  <2>9. QED BY <1>0, <2>5, <2>6, <2>7, <2>8, OthersMap
<1>4. QED BY <1>2, <1>3

(* The hashed record is built where no call and no send looks yet. *)
LEMMA BuildMaps ==
  ASSUME IInv, RInv, NEW m \in Migrators, Build(m)
  PROVE  RInv' /\ UNCHANGED Contract!vars
<1>0. TypeOK BY DEF IInv, WellTyped
<1>1. UNCHANGED <<behavior, call, firstSource, firstMethod>> BY DEF Build
<1> PICK held : held = [migration[m] EXCEPT !.pc = "swap"]
  OBVIOUS
<1>2. held.read = migration[m].read BY <1>0 DEF TypeOK
<1>3. \A s \in Selectors : Published(s, held.read.table[s])
  BY <1>2 DEF RInv, RecordsNamePublished
<1>4. CASE GiveUp(m) /\ UNCHANGED dictionary
  BY <1>0, <1>1, <1>4, GiveUpMaps
<1>5. CASE Move(m, held) /\ UNCHANGED dictionary
  BY <1>0, <1>1, <1>3, <1>5, MigratorsMap
<1>6. CASE /\ dictionary["hashed"].version = 0 /\ Move(m, held)
           /\ dictionary' = [dictionary EXCEPT !["hashed"] =
                 [version |-> 1, sealed |-> FALSE, table |-> migration[m].read.table]]
  <2>1. /\ dictionary'["hashed"].table = migration[m].read.table
        /\ dictionary'["legacy"] = dictionary["legacy"]
    BY <1>0, <1>6, Shapes
  <2>2. behavior.edge = "legacy"
    BY <1>0, <1>6, Shapes DEF IInv, SealInv, EdgeFollowsSeal
  <2>3. \A n \in Migrators : migration'[n].read = migration[n].read
    BY <1>0, <1>2, <1>6, Shapes DEF Move
  <2>4. RecordsNamePublished'
    <3>1. \A s, ref : Published(s, ref) => Published(s, ref)'
      BY <1>1 DEF Published
    <3>2. QED BY <2>1, <2>3, <3>1 DEF RInv, RecordsNamePublished, Layouts
  <2>5. \A c \in Callers : ReadIsVersioned(call[c])'
    <3> TAKE c \in Callers
    <3>1. Sound(call[c]) /\ call'[c] = call[c] BY <1>1 DEF RInv
    <3>2. call[c].read.at = "legacy"
      BY <1>0, <2>2, Shapes DEF IInv, SealInv, CallsAreOutrun
    <3>3. QED BY <2>1, <3>1, <3>2 DEF Sound, ReadIsVersioned
  <2>6. Bound' = Bound BY <1>1, <2>1, <2>2 DEF Bound
  <2>7. UNCHANGED <<call, firstSource, firstMethod>> BY <1>1
  <2>8. QED BY <1>0, <2>4, <2>5, <2>6, <2>7, OthersMap
<1>7. QED BY <1>4, <1>5, <1>6 DEF Build

(* The swap shows the class the same table under another record. *)
LEMMA SwapMaps ==
  ASSUME IInv, RInv, NEW m \in Migrators, Swap(m)
  PROVE  RInv' /\ UNCHANGED Contract!vars
<1>0. TypeOK BY DEF IInv, WellTyped
<1>1. /\ UNCHANGED <<dictionary, call, firstSource, firstMethod>>
      /\ behavior'.edge \in {behavior.edge, "hashed"}
      /\ GiveUp(m)
  BY DEF Swap
<1>2. dictionary["hashed"].version > 0
  BY DEF Swap, IInv, SealInv, MigrationsHoldTheTable
<1>3. Bound' = Bound
  BY <1>0, <1>1, <1>2, Shapes DEF Bound, IInv, SealInv, TargetMatchesSealed
<1>4. RecordsNamePublished'
  <2>1. \A s, ref : Published(s, ref) => Published(s, ref)'
    BY <1>1 DEF Published
  <2>2. \A n \in Migrators : migration'[n] = IF n = m THEN IdleMigration ELSE migration[n]
    BY <1>0, <1>1, Shapes DEF Move, GiveUp
  <2>3. \A s \in Selectors : Published(s, IdleMigration.read.table[s])
    BY UnboundIsPublished DEF IdleMigration, NoRead, NoTable
  <2>4. QED BY <1>1, <2>1, <2>2, <2>3 DEF RInv, RecordsNamePublished
<1>5. \A c \in Callers : ReadIsVersioned(call[c])'
  BY <1>1 DEF RInv, Sound, ReadIsVersioned
<1>6. UNCHANGED <<call, firstSource, firstMethod>> BY <1>1
<1>7. QED BY <1>0, <1>3, <1>4, <1>5, <1>6, OthersMap

(* A step that changes nothing maps to none. *)
LEMMA StillMaps ==
  ASSUME TypeOK, RInv, UNCHANGED <<behavior, dictionary, firstSource, firstMethod, call, migration>>
  PROVE  RInv' /\ UNCHANGED Contract!vars
<1>1. RecordsNamePublished' /\ \A c \in Callers : ReadIsVersioned(call[c])'
  BY DEF RInv, Sound, RecordsNamePublished, Published, ReadIsVersioned
<1>2. Bound' = Bound BY DEF Bound
<1>3. UNCHANGED <<call, firstSource, firstMethod>> OBVIOUS
<1>4. QED BY <1>1, <1>2, <1>3, OthersMap

(* Every step of the two records is a step of the one table, or none. *)
LEMMA StepMaps ==
  ASSUME IInv, RInv, [Next]_vars, WellTyped'
  PROVE  RInv' /\ [Contract!Next]_(Contract!vars)
<1>0. TypeOK /\ WellTyped BY DEF IInv, WellTyped
<1>1. ASSUME NEW c \in Callers, CallStep(c)
      PROVE  RInv' /\ [Contract!Next]_(Contract!vars)
  <2>1. CASE Begin(c)
    BY <1>0, <2>1, BeginMaps
  <2>2. CASE ReadBehavior(c)
    BY <1>0, <2>2, ReadBehaviorMaps
  <2>3. CASE Plan(c)
    BY <2>3, PlanMaps
  <2>4. CASE PublishSource(c)
    BY <1>0, <2>4, PublishSourceMaps
  <2>5. CASE PublishFirst(c)
    BY <1>0, <2>5, PublishFirstMaps
  <2>6. CASE Commit(c)
    BY <2>6, CommitMaps
  <2>7. CASE LoseCommit(c)
    BY <1>0, <2>7, LoseCommitMaps
  <2>8. CASE Judge(c)
    BY <2>8, JudgeMaps
  <2>9. QED BY <1>1, <2>1, <2>2, <2>3, <2>4, <2>5, <2>6, <2>7, <2>8 DEF CallStep
<1>2. ASSUME NEW m \in Migrators, MigrationStep(m) \/ CrashMigration(m)
      PROVE  RInv' /\ UNCHANGED Contract!vars
  BY <1>0, <1>2, MigrationReadsMap, SealMaps, BuildMaps, SwapMaps DEF MigrationStep
<1>3. ASSUME NEW x \in Senders, LookBehavior(x) \/ LookMethod(x)
      PROVE  RInv' /\ UNCHANGED Contract!vars
  BY <1>0, <1>3, StillMaps DEF LookBehavior, LookMethod
<1>4. CASE UNCHANGED vars
  BY <1>0, <1>4, StillMaps DEF vars
<1>5. QED BY <1>1, <1>2, <1>3, <1>4 DEF Next

(* An old class is an initial state of the contract. *)
LEMMA InitMaps == Init => RInv /\ Contract!Init
<1> SUFFICES ASSUME Init PROVE RInv /\ Contract!Init
  OBVIOUS
<1>0. TypeOK BY TypeInit DEF WellTyped
<1>1. /\ firstMethod = Founding /\ firstSource = [s \in Selectors |-> Founding[s].source]
      /\ \A c \in Callers : call[c] = IdleCall
      /\ \A m \in Migrators : migration[m] = IdleMigration
      /\ behavior.edge = "legacy"
  BY DEF Init
<1>2. /\ dictionary["legacy"].table =
           [s \in Selectors |-> IF Founding[s] = Nothing THEN Unbound ELSE First]
      /\ dictionary["hashed"].table = NoTable
  BY DEF Init
<1>3. RecordsNamePublished
  <2>1. \A s \in Selectors : Published(s, dictionary["legacy"].table[s])
    BY <1>1, <1>2 DEF Published, Unbound, First
  <2>2. \A s \in Selectors : Published(s, NoTable[s])
    BY UnboundIsPublished DEF NoTable
  <2>3. IdleMigration.read.table = NoTable BY DEF IdleMigration, NoRead
  <2>4. QED BY <1>1, <1>2, <2>1, <2>2, <2>3 DEF RecordsNamePublished, Layouts
<1>4. SourcesStand BY <1>1 DEF SourcesStand
<1>5. \A c \in Callers : Sound(call[c])
  <2> PICK k : k = IdleCall
    OBVIOUS
  <2>1. /\ k.pc = "idle" /\ k.read.table = NoTable /\ k.sourced = {}
        /\ k.expected = <<>> /\ k.published = <<>>
    BY DEF IdleCall, NoRead
  <2>2. NamesPublished(k)
    BY <2>1, UnboundIsPublished DEF NamesPublished, NoTable
  <2>3. Sound(k)
    BY <2>1, <2>2 DEF Sound, WellFormed, ReadIsVersioned, IsEntitled
  <2>4. QED BY <1>1, <2>3
<1>6. RInv BY <1>3, <1>4, <1>5 DEF RInv
<1>7. BoundNow \in [Selectors -> Contract!Bindings \cup {Contract!Unbound}]
  BY <1>0, <1>6, MethodsSeen DEF BoundNow
<1>8. AskedNow = [c \in Callers |-> Contract!NoCall] /\ AnswerNow = [c \in Callers |-> "none"]
  BY <1>1 DEF AskedNow, AnswerNow, Asked, IdleCall, Contract!NoCall
<1>9. QED BY <1>6, <1>7, <1>8 DEF Contract!Init

(* The refinement: for any methods, callers, migrators and bounds, what the*)
(* calls, the lost races, the seal, the swap and the crashes do together is*)
(* what the one table of MethodPositions promises (installMethods and      *)
(* migrateMethodDictionary; ADR 0049, 0086).                               *)
THEOREM ImplementsMethodPositions == Spec => KeepsMethodPositions
<1>1. Init => IInv /\ RInv /\ Contract!Init
  BY TypeInit, SealInvInit, InitMaps DEF IInv
<1>2. IInv /\ RInv /\ [Next]_vars => IInv' /\ RInv' /\ [Contract!Next]_(Contract!vars)
  <2> SUFFICES ASSUME IInv, RInv, [Next]_vars
               PROVE  IInv' /\ RInv' /\ [Contract!Next]_(Contract!vars)
    OBVIOUS
  <2>1. WellTyped' /\ SealInv' BY TypeNext, SealInvNext DEF IInv, WellTyped
  <2>2. QED BY <2>1, StepMaps DEF IInv
<1>3. QED BY <1>1, <1>2, PTL DEF Spec, KeepsMethodPositions, Contract!Spec
========================================
