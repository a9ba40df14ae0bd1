---------------------------- MODULE BranchesProofs ----------------------------
(***************************************************************************)
(* For any images, names, records, clients and bounds: no advance of a     *)
(* branch is lost, and a merge nobody disturbs gives what its plan says.   *)
(***************************************************************************)
EXTENDS Branches, WellFoundedInduction, SequenceTheorems, FunctionTheorems,
        FiniteSetTheorems, TLAPS

(* The shape of the state.  What a record or a plan is stays open: a merge *)
(* makes records that nobody wrote.                                        *)

ClientPcs ==
  {"rest", "shaping", "shaped", "creating", "advancing", "read", "checked", "deleting", "forking",
   "filling", "merging", "planned", "applying", "swept", "notFound"}
ClientStates(p) ==
  [pc : ClientPcs,
   image : Images, name : Names, entry : BranchHead, target : Nat,
   token : Nat, force : BOOLEAN, from : BranchHead, plan : {p}, pending : SUBSET Ids]

IsContent(content) == content = [id \in Ids |-> content[id]]
IsRevision(r) ==
  /\ r = Revision(r.content, r.by, r.plan) /\ IsContent(r.content)
  /\ r.by \in {"edit", "branch", "fork", "merge"}
IsHistory(revisions) ==
  /\ revisions \in Seq({revisions[k] : k \in 1..Len(revisions)})
  /\ \A k \in 1..Len(revisions) : IsRevision(revisions[k])

Typed ==
  /\ history = [i \in Images |-> history[i]]
  /\ \A i \in Images : IsHistory(history[i])
  /\ heads \in [Images -> [Names -> BranchHead]]
  /\ clients = [c \in Clients |-> clients[c]]
  /\ \A c \in Clients : clients[c] \in ClientStates(clients[c].plan)

(* A head names a revision of its image, and so does what an operation     *)
(* took from one.                                                          *)
HeadsAreRevisions == \A i \in Images, n \in Names : heads[i][n].revision <= Frontier(i)

TargetsExist(c) ==
  LET me == clients[c] IN
  /\ me.pc \notin {"rest", "forking"} => Existing(me.image)
  /\ me.target <= Frontier(me.image)
  /\ me.pc \in {"shaping", "shaped", "creating", "checked"} => me.target # 0
  /\ me.pc \in {"merging", "planned", "applying", "swept"} => me.from.revision # 0
  /\ me.from.revision <= Frontier(me.image)

(* What an advance has read of the head is the head as it is, or older. *)
EntryIsThePast(c) ==
  LET me == clients[c]  head == heads[me.image][me.name] IN
  /\ me.pc \in {"merging", "planned", "applying", "swept"} => me.token = 0
  /\ me.pc = "advancing" => me.token <= head.version
  /\ me.pc \in {"read", "checked"} =>
       /\ me.token <= me.entry.version /\ me.entry.version <= head.version
       /\ me.entry.version = head.version => me.entry = head
  /\ me.pc = "checked" => MayAdvance(me.entry, me.target, me.force)

(* A record changes between two revisions by an edit, or as the plan of a  *)
(* merge between them says.                                                *)
Flagged(plan, id) == plan[id].write \/ plan[id].remove
Explains(r, id, rec) ==
  \/ r.by \in {"edit", "fork"}
  \/ r.by = "merge" /\ Flagged(r.plan, id) /\ rec = r.plan[id].record

ChangesAreExplained ==
  \A i \in Images : \A j, k \in 1..Frontier(i) : \A id \in Ids :
    j <= k =>
      \/ At(i, k)[id] = At(i, j)[id]
      \/ \E m \in j + 1 .. k : Explains(history[i][m], id, At(i, k)[id])

(* What a plan leaves alone is what the target branch had. *)
Planning == {"planned", "applying", "swept", "notFound", "advancing", "read", "checked"}
Suits(plan, content) ==
  \A id \in Ids :
    /\ plan[id].remove => plan[id].record = NoRec
    /\ plan[id].conflict = "none" => Flagged(plan, id) \/ plan[id].record = content[id]
PlanIsSound(c) ==
  LET me == clients[c] IN
  me.pc \in Planning /\ me.plan # NoPlan =>
    me.from.revision # 0 /\ Suits(me.plan, At(me.image, me.from.revision))

PendingAreWrites(c) ==
  LET me == clients[c]  writes == {id \in Ids : me.plan[id].write} IN
  /\ me.pc \in {"planned", "applying"} => me.pending \subseteq writes
  /\ me.pc = "planned" => writes \subseteq me.pending

(* How far the merge has come, as long as nobody else writes. *)
Applied(c) ==
  LET me == clients[c] IN
  me.pc \in {"applying", "swept"} /\ me.plan # NoPlan /\ Undisturbed(c) =>
    \A id \in Ids : me.plan[id].conflict = "none" =>
      \/ Live(me.image)[id] = me.plan[id].record
      \/ me.pc = "applying" /\ (me.plan[id].remove \/ id \in me.pending)

Holds(content, plan) ==
  \A id \in Ids : plan[id].conflict = "none" => content[id] = plan[id].record
TargetHoldsThePlan(c) ==
  LET me == clients[c] IN
  me.pc \in {"advancing", "read", "checked"} /\ me.plan # NoPlan =>
    me.target # 0 /\ (Undisturbed(c) => Holds(At(me.image, me.target), me.plan))

ClientIsSound(c) ==
  /\ TargetsExist(c) /\ EntryIsThePast(c) /\ PlanIsSound(c) /\ PendingAreWrites(c)
  /\ Applied(c) /\ TargetHoldsThePlan(c)

BranchesInv ==
  /\ Typed /\ HeadsAreRevisions /\ ChangesAreExplained
  /\ \A c \in Clients : ClientIsSound(c)

----------------------------------------
(* Sequences and records. *)

(* A sequence with one element more. *)
LEMMA SeqAppend ==
  ASSUME NEW s, s \in Seq({s[k] : k \in 1..Len(s)}), NEW e, NEW t, t = Append(s, e)
  PROVE  /\ Len(s) \in Nat /\ Len(t) = Len(s) + 1
         /\ t \in Seq({t[k] : k \in 1..Len(t)})
         /\ \A k \in 1..Len(s) : t[k] = s[k]
         /\ t[Len(t)] = e /\ Last(t) = e
<1> DEFINE S == {s[k] : k \in 1..Len(s)}
<1>1. /\ Len(s) \in Nat /\ Len(t) = Len(s) + 1 /\ t[Len(s) + 1] = e
      /\ \A k \in 1..Len(s) : t[k] = s[k]
  OBVIOUS
<1>2. t \in Seq(S \cup {e}) OBVIOUS
<1>3. t \in Seq({t[k] : k \in 1..Len(t)}) BY <1>2
<1>4. QED BY <1>1, <1>3 DEF Last

(* A client at rest. *)
LEMMA RestTyped ==
  /\ AtRest \in ClientStates(NoPlan)
  /\ AtRest.pc = "rest" /\ AtRest.entry = NoHead /\ AtRest.target = 0
  /\ AtRest.token = 0 /\ AtRest.force = FALSE /\ AtRest.from = NoHead /\ AtRest.plan = NoPlan
  /\ AtRest.pending = {}
<1>1. (CHOOSE i \in Images : TRUE) \in Images /\ (CHOOSE n \in Names : TRUE) \in Names
  BY BranchesAssumption
<1>2. NoHead \in BranchHead BY DEF NoHead, BranchHead
<1>3. AtRest \in ClientStates(NoPlan)
  BY <1>1, <1>2 DEF AtRest, ClientStates, ClientPcs
<1>4. QED BY <1>3 DEF AtRest

(* A client that starts an operation. *)
LEMMA StartsTyped ==
  ASSUME NEW c, NEW i \in Images, NEW n \in Names,
         NEW pc \in {"shaping", "advancing", "deleting", "forking", "merging"}
  PROVE  /\ Starts(c, i, n, pc) \in ClientStates(NoPlan)
         /\ Starts(c, i, n, pc).pc = pc /\ Starts(c, i, n, pc).image = i
         /\ Starts(c, i, n, pc).name = n /\ Starts(c, i, n, pc).entry = NoHead
         /\ Starts(c, i, n, pc).target = 0 /\ Starts(c, i, n, pc).token = 0
         /\ Starts(c, i, n, pc).from = NoHead /\ Starts(c, i, n, pc).plan = NoPlan
         /\ Starts(c, i, n, pc).pending = {}
<1> PICK x : x = Starts(c, i, n, pc)
  OBVIOUS
<1>1. x = [AtRest EXCEPT !.pc = pc, !.image = i, !.name = n] BY DEF Starts
<1>2. x \in ClientStates(NoPlan) BY <1>1, RestTyped DEF ClientStates, ClientPcs
<1>3. x.pc = pc /\ x.image = i /\ x.name = n BY <1>1, RestTyped DEF ClientStates
<1>4. /\ x.entry = AtRest.entry /\ x.target = AtRest.target /\ x.token = AtRest.token
  BY <1>1, RestTyped DEF ClientStates
<1>5. x.from = AtRest.from /\ x.plan = AtRest.plan /\ x.pending = AtRest.pending
  BY <1>1, RestTyped DEF ClientStates
<1>6. QED BY <1>2, <1>3, <1>4, <1>5, RestTyped

(* The updates of a client. *)
WithPc(x, v) == [x EXCEPT !.pc = v]
(* This update changes these fields only. *)
LEMMA PcUpdate ==
  ASSUME NEW p, NEW x \in ClientStates(p), NEW v \in ClientPcs
  PROVE  /\ WithPc(x, v) \in ClientStates(p)
         /\ WithPc(x, v).pc = v /\ WithPc(x, v).image = x.image
         /\ WithPc(x, v).name = x.name /\ WithPc(x, v).entry = x.entry
         /\ WithPc(x, v).target = x.target
         /\ WithPc(x, v).token = x.token /\ WithPc(x, v).force = x.force
         /\ WithPc(x, v).from = x.from /\ WithPc(x, v).plan = x.plan
         /\ WithPc(x, v).pending = x.pending
<1>1. WithPc(x, v) \in ClientStates(p) BY DEF ClientStates, WithPc
<1>2. /\ WithPc(x, v).pc = v
      /\ WithPc(x, v).image = x.image
      /\ WithPc(x, v).name = x.name
      /\ WithPc(x, v).entry = x.entry
  BY DEF ClientStates, WithPc
<1>3. /\ WithPc(x, v).target = x.target
     
      /\ WithPc(x, v).token = x.token
      /\ WithPc(x, v).force = x.force
  BY DEF ClientStates, WithPc
<1>4. /\ WithPc(x, v).from = x.from
      /\ WithPc(x, v).plan = x.plan
      /\ WithPc(x, v).pending = x.pending
  BY DEF ClientStates, WithPc
<1> QED BY <1>1, <1>2, <1>3, <1>4

WithTargetForce(x, k, f) == [x EXCEPT !.target = k, !.force = f]
(* This update changes these fields only. *)
LEMMA TargetForceUpdate ==
  ASSUME NEW p, NEW x \in ClientStates(p), NEW k \in Nat, NEW f \in BOOLEAN
  PROVE  /\ WithTargetForce(x, k, f) \in ClientStates(p)
         /\ WithTargetForce(x, k, f).target = k /\ WithTargetForce(x, k, f).force = f
         /\ WithTargetForce(x, k, f).pc = x.pc /\ WithTargetForce(x, k, f).image = x.image
         /\ WithTargetForce(x, k, f).name = x.name /\ WithTargetForce(x, k, f).entry = x.entry
         /\ WithTargetForce(x, k, f).token = x.token
         /\ WithTargetForce(x, k, f).from = x.from /\ WithTargetForce(x, k, f).plan = x.plan
         /\ WithTargetForce(x, k, f).pending = x.pending
<1>1. WithTargetForce(x, k, f) \in ClientStates(p)
  BY DEF ClientStates, WithTargetForce
<1>2. /\ WithTargetForce(x, k, f).target = k
      /\ WithTargetForce(x, k, f).force = f
      /\ WithTargetForce(x, k, f).pc = x.pc
      /\ WithTargetForce(x, k, f).image = x.image
  BY DEF ClientStates, WithTargetForce
<1>3. /\ WithTargetForce(x, k, f).name = x.name
      /\ WithTargetForce(x, k, f).entry = x.entry
      /\ WithTargetForce(x, k, f).token = x.token
     
  BY DEF ClientStates, WithTargetForce
<1>4. /\ WithTargetForce(x, k, f).from = x.from
      /\ WithTargetForce(x, k, f).plan = x.plan
      /\ WithTargetForce(x, k, f).pending = x.pending
  BY DEF ClientStates, WithTargetForce
<1> QED BY <1>1, <1>2, <1>3, <1>4

WithTokenForce(x, k, f) == [x EXCEPT !.token = k, !.force = f]
(* This update changes these fields only. *)
LEMMA TokenForceUpdate ==
  ASSUME NEW p, NEW x \in ClientStates(p), NEW k \in Nat, NEW f \in BOOLEAN
  PROVE  /\ WithTokenForce(x, k, f) \in ClientStates(p)
         /\ WithTokenForce(x, k, f).token = k /\ WithTokenForce(x, k, f).force = f
         /\ WithTokenForce(x, k, f).pc = x.pc /\ WithTokenForce(x, k, f).image = x.image
         /\ WithTokenForce(x, k, f).name = x.name /\ WithTokenForce(x, k, f).entry = x.entry
         /\ WithTokenForce(x, k, f).target = x.target
         /\ WithTokenForce(x, k, f).from = x.from /\ WithTokenForce(x, k, f).plan = x.plan
         /\ WithTokenForce(x, k, f).pending = x.pending
<1>1. WithTokenForce(x, k, f) \in ClientStates(p)
  BY DEF ClientStates, WithTokenForce
<1>2. /\ WithTokenForce(x, k, f).token = k
      /\ WithTokenForce(x, k, f).force = f
      /\ WithTokenForce(x, k, f).pc = x.pc
      /\ WithTokenForce(x, k, f).image = x.image
  BY DEF ClientStates, WithTokenForce
<1>3. /\ WithTokenForce(x, k, f).name = x.name
      /\ WithTokenForce(x, k, f).entry = x.entry
      /\ WithTokenForce(x, k, f).target = x.target
     
  BY DEF ClientStates, WithTokenForce
<1>4. /\ WithTokenForce(x, k, f).from = x.from
      /\ WithTokenForce(x, k, f).plan = x.plan
      /\ WithTokenForce(x, k, f).pending = x.pending
  BY DEF ClientStates, WithTokenForce
<1> QED BY <1>1, <1>2, <1>3, <1>4

WithPcEntry(x, v, e) == [x EXCEPT !.pc = v, !.entry = e]
(* This update changes these fields only. *)
LEMMA PcEntryUpdate ==
  ASSUME NEW p, NEW x \in ClientStates(p), NEW v \in ClientPcs, NEW e \in BranchHead
  PROVE  /\ WithPcEntry(x, v, e) \in ClientStates(p)
         /\ WithPcEntry(x, v, e).pc = v /\ WithPcEntry(x, v, e).entry = e
         /\ WithPcEntry(x, v, e).image = x.image /\ WithPcEntry(x, v, e).name = x.name
         /\ WithPcEntry(x, v, e).target = x.target
         /\ WithPcEntry(x, v, e).token = x.token /\ WithPcEntry(x, v, e).force = x.force
         /\ WithPcEntry(x, v, e).from = x.from /\ WithPcEntry(x, v, e).plan = x.plan
         /\ WithPcEntry(x, v, e).pending = x.pending
<1>1. WithPcEntry(x, v, e) \in ClientStates(p) BY DEF ClientStates, WithPcEntry
<1>2. /\ WithPcEntry(x, v, e).pc = v
      /\ WithPcEntry(x, v, e).entry = e
      /\ WithPcEntry(x, v, e).image = x.image
      /\ WithPcEntry(x, v, e).name = x.name
  BY DEF ClientStates, WithPcEntry
<1>3. /\ WithPcEntry(x, v, e).target = x.target
     
      /\ WithPcEntry(x, v, e).token = x.token
      /\ WithPcEntry(x, v, e).force = x.force
  BY DEF ClientStates, WithPcEntry
<1>4. /\ WithPcEntry(x, v, e).from = x.from
      /\ WithPcEntry(x, v, e).plan = x.plan
      /\ WithPcEntry(x, v, e).pending = x.pending
  BY DEF ClientStates, WithPcEntry
<1> QED BY <1>1, <1>2, <1>3, <1>4

WithPcTarget(x, v, t) == [x EXCEPT !.pc = v, !.target = t]
(* This update changes these fields only. *)
LEMMA PcTargetUpdate ==
  ASSUME NEW p, NEW x \in ClientStates(p), NEW v \in ClientPcs, NEW t \in Nat
  PROVE  /\ WithPcTarget(x, v, t) \in ClientStates(p)
         /\ WithPcTarget(x, v, t).pc = v /\ WithPcTarget(x, v, t).target = t
         /\ WithPcTarget(x, v, t).image = x.image /\ WithPcTarget(x, v, t).name = x.name
         /\ WithPcTarget(x, v, t).entry = x.entry
         /\ WithPcTarget(x, v, t).token = x.token /\ WithPcTarget(x, v, t).force = x.force
         /\ WithPcTarget(x, v, t).from = x.from /\ WithPcTarget(x, v, t).plan = x.plan
         /\ WithPcTarget(x, v, t).pending = x.pending
<1>1. WithPcTarget(x, v, t) \in ClientStates(p)
  BY DEF ClientStates, WithPcTarget
<1>2. /\ WithPcTarget(x, v, t).pc = v
      /\ WithPcTarget(x, v, t).target = t
      /\ WithPcTarget(x, v, t).image = x.image
      /\ WithPcTarget(x, v, t).name = x.name
  BY DEF ClientStates, WithPcTarget
<1>3. /\ WithPcTarget(x, v, t).entry = x.entry
     
      /\ WithPcTarget(x, v, t).token = x.token
      /\ WithPcTarget(x, v, t).force = x.force
  BY DEF ClientStates, WithPcTarget
<1>4. /\ WithPcTarget(x, v, t).from = x.from
      /\ WithPcTarget(x, v, t).plan = x.plan
      /\ WithPcTarget(x, v, t).pending = x.pending
  BY DEF ClientStates, WithPcTarget
<1> QED BY <1>1, <1>2, <1>3, <1>4

WithPlan(x, q) == [x EXCEPT !.plan = q]
(* This update changes these fields only. *)
LEMMA PlanUpdate ==
  ASSUME NEW p, NEW x \in ClientStates(p), NEW q
  PROVE  /\ WithPlan(x, q) \in ClientStates(q)
         /\ WithPlan(x, q).plan = q /\ WithPlan(x, q).pc = x.pc
         /\ WithPlan(x, q).image = x.image /\ WithPlan(x, q).name = x.name
         /\ WithPlan(x, q).entry = x.entry /\ WithPlan(x, q).target = x.target
         /\ WithPlan(x, q).token = x.token
         /\ WithPlan(x, q).force = x.force /\ WithPlan(x, q).from = x.from
         /\ WithPlan(x, q).pending = x.pending
<1>1. WithPlan(x, q) \in ClientStates(q) BY DEF ClientStates, WithPlan
<1>2. /\ WithPlan(x, q).plan = q
      /\ WithPlan(x, q).pc = x.pc
      /\ WithPlan(x, q).image = x.image
      /\ WithPlan(x, q).name = x.name
  BY DEF ClientStates, WithPlan
<1>3. /\ WithPlan(x, q).entry = x.entry
      /\ WithPlan(x, q).target = x.target
     
      /\ WithPlan(x, q).token = x.token
  BY DEF ClientStates, WithPlan
<1>4. /\ WithPlan(x, q).force = x.force
      /\ WithPlan(x, q).from = x.from
      /\ WithPlan(x, q).pending = x.pending
  BY DEF ClientStates, WithPlan
<1> QED BY <1>1, <1>2, <1>3, <1>4

WithPcTargetPlan(x, v, t, q) == [x EXCEPT !.pc = v, !.target = t, !.plan = q]
(* This update changes these fields only. *)
LEMMA PcTargetPlanUpdate ==
  ASSUME NEW p, NEW x \in ClientStates(p), NEW v \in ClientPcs, NEW t \in Nat, NEW q
  PROVE  /\ WithPcTargetPlan(x, v, t, q) \in ClientStates(q)
         /\ WithPcTargetPlan(x, v, t, q).pc = v /\ WithPcTargetPlan(x, v, t, q).target = t
         /\ WithPcTargetPlan(x, v, t, q).plan = q /\ WithPcTargetPlan(x, v, t, q).image = x.image
         /\ WithPcTargetPlan(x, v, t, q).name = x.name /\ WithPcTargetPlan(x, v, t, q).entry = x.entry
         /\ WithPcTargetPlan(x, v, t, q).token = x.token
         /\ WithPcTargetPlan(x, v, t, q).force = x.force /\ WithPcTargetPlan(x, v, t, q).from = x.from
         /\ WithPcTargetPlan(x, v, t, q).pending = x.pending
<1>1. WithPcTargetPlan(x, v, t, q) \in ClientStates(q)
  BY DEF ClientStates, WithPcTargetPlan
<1>2. /\ WithPcTargetPlan(x, v, t, q).pc = v
      /\ WithPcTargetPlan(x, v, t, q).target = t
      /\ WithPcTargetPlan(x, v, t, q).plan = q
      /\ WithPcTargetPlan(x, v, t, q).image = x.image
  BY DEF ClientStates, WithPcTargetPlan
<1>3. /\ WithPcTargetPlan(x, v, t, q).name = x.name
      /\ WithPcTargetPlan(x, v, t, q).entry = x.entry
     
      /\ WithPcTargetPlan(x, v, t, q).token = x.token
  BY DEF ClientStates, WithPcTargetPlan
<1>4. /\ WithPcTargetPlan(x, v, t, q).force = x.force
      /\ WithPcTargetPlan(x, v, t, q).from = x.from
      /\ WithPcTargetPlan(x, v, t, q).pending = x.pending
  BY DEF ClientStates, WithPcTargetPlan
<1> QED BY <1>1, <1>2, <1>3, <1>4

WithFrom(x, e) == [x EXCEPT !.from = e]
(* This update changes these fields only. *)
LEMMA FromUpdate ==
  ASSUME NEW p, NEW x \in ClientStates(p), NEW e \in BranchHead
  PROVE  /\ WithFrom(x, e) \in ClientStates(p)
         /\ WithFrom(x, e).from = e /\ WithFrom(x, e).pc = x.pc
         /\ WithFrom(x, e).image = x.image /\ WithFrom(x, e).name = x.name
         /\ WithFrom(x, e).entry = x.entry /\ WithFrom(x, e).target = x.target
         /\ WithFrom(x, e).token = x.token
         /\ WithFrom(x, e).force = x.force /\ WithFrom(x, e).plan = x.plan
         /\ WithFrom(x, e).pending = x.pending
<1>1. WithFrom(x, e) \in ClientStates(p) BY DEF ClientStates, WithFrom
<1>2. /\ WithFrom(x, e).from = e
      /\ WithFrom(x, e).pc = x.pc
      /\ WithFrom(x, e).image = x.image
      /\ WithFrom(x, e).name = x.name
  BY DEF ClientStates, WithFrom
<1>3. /\ WithFrom(x, e).entry = x.entry
      /\ WithFrom(x, e).target = x.target
     
      /\ WithFrom(x, e).token = x.token
  BY DEF ClientStates, WithFrom
<1>4. /\ WithFrom(x, e).force = x.force
      /\ WithFrom(x, e).plan = x.plan
      /\ WithFrom(x, e).pending = x.pending
  BY DEF ClientStates, WithFrom
<1> QED BY <1>1, <1>2, <1>3, <1>4

WithPcPlanPendingTarget(x, v, q, w, t) == [x EXCEPT !.pc = v, !.plan = q, !.pending = w, !.target = t]
(* This update changes these fields only. *)
LEMMA PcPlanPendingTargetUpdate ==
  ASSUME NEW p, NEW x \in ClientStates(p), NEW v \in ClientPcs, NEW q, NEW w \in SUBSET Ids, NEW t \in Nat
  PROVE  /\ WithPcPlanPendingTarget(x, v, q, w, t) \in ClientStates(q)
         /\ WithPcPlanPendingTarget(x, v, q, w, t).pc = v /\ WithPcPlanPendingTarget(x, v, q, w, t).plan = q
         /\ WithPcPlanPendingTarget(x, v, q, w, t).pending = w /\ WithPcPlanPendingTarget(x, v, q, w, t).target = t
         /\ WithPcPlanPendingTarget(x, v, q, w, t).image = x.image /\ WithPcPlanPendingTarget(x, v, q, w, t).name = x.name
         /\ WithPcPlanPendingTarget(x, v, q, w, t).entry = x.entry
         /\ WithPcPlanPendingTarget(x, v, q, w, t).token = x.token /\ WithPcPlanPendingTarget(x, v, q, w, t).force = x.force
         /\ WithPcPlanPendingTarget(x, v, q, w, t).from = x.from
<1>1. WithPcPlanPendingTarget(x, v, q, w, t) \in ClientStates(q)
  BY DEF ClientStates, WithPcPlanPendingTarget
<1>2. /\ WithPcPlanPendingTarget(x, v, q, w, t).pc = v
      /\ WithPcPlanPendingTarget(x, v, q, w, t).plan = q
      /\ WithPcPlanPendingTarget(x, v, q, w, t).pending = w
      /\ WithPcPlanPendingTarget(x, v, q, w, t).target = t
  BY DEF ClientStates, WithPcPlanPendingTarget
<1>3. /\ WithPcPlanPendingTarget(x, v, q, w, t).image = x.image
      /\ WithPcPlanPendingTarget(x, v, q, w, t).name = x.name
      /\ WithPcPlanPendingTarget(x, v, q, w, t).entry = x.entry
     
  BY DEF ClientStates, WithPcPlanPendingTarget
<1>4. /\ WithPcPlanPendingTarget(x, v, q, w, t).token = x.token
      /\ WithPcPlanPendingTarget(x, v, q, w, t).force = x.force
      /\ WithPcPlanPendingTarget(x, v, q, w, t).from = x.from
  BY DEF ClientStates, WithPcPlanPendingTarget
<1> QED BY <1>1, <1>2, <1>3, <1>4

WithPcPlanPending(x, v, q, w) == [x EXCEPT !.pc = v, !.plan = q, !.pending = w]
(* This update changes these fields only. *)
LEMMA PcPlanPendingUpdate ==
  ASSUME NEW p, NEW x \in ClientStates(p), NEW v \in ClientPcs, NEW q, NEW w \in SUBSET Ids
  PROVE  /\ WithPcPlanPending(x, v, q, w) \in ClientStates(q)
         /\ WithPcPlanPending(x, v, q, w).pc = v /\ WithPcPlanPending(x, v, q, w).plan = q
         /\ WithPcPlanPending(x, v, q, w).pending = w /\ WithPcPlanPending(x, v, q, w).image = x.image
         /\ WithPcPlanPending(x, v, q, w).name = x.name /\ WithPcPlanPending(x, v, q, w).entry = x.entry
         /\ WithPcPlanPending(x, v, q, w).target = x.target
         /\ WithPcPlanPending(x, v, q, w).token = x.token /\ WithPcPlanPending(x, v, q, w).force = x.force
         /\ WithPcPlanPending(x, v, q, w).from = x.from
<1>1. WithPcPlanPending(x, v, q, w) \in ClientStates(q)
  BY DEF ClientStates, WithPcPlanPending
<1>2. /\ WithPcPlanPending(x, v, q, w).pc = v
      /\ WithPcPlanPending(x, v, q, w).plan = q
      /\ WithPcPlanPending(x, v, q, w).pending = w
      /\ WithPcPlanPending(x, v, q, w).image = x.image
  BY DEF ClientStates, WithPcPlanPending
<1>3. /\ WithPcPlanPending(x, v, q, w).name = x.name
      /\ WithPcPlanPending(x, v, q, w).entry = x.entry
      /\ WithPcPlanPending(x, v, q, w).target = x.target
     
  BY DEF ClientStates, WithPcPlanPending
<1>4. /\ WithPcPlanPending(x, v, q, w).token = x.token
      /\ WithPcPlanPending(x, v, q, w).force = x.force
      /\ WithPcPlanPending(x, v, q, w).from = x.from
  BY DEF ClientStates, WithPcPlanPending
<1> QED BY <1>1, <1>2, <1>3, <1>4

WithPcForceTarget(x, v, f, t) == [x EXCEPT !.pc = v, !.force = f, !.target = t]
(* This update changes these fields only. *)
LEMMA PcForceTargetUpdate ==
  ASSUME NEW p, NEW x \in ClientStates(p), NEW v \in ClientPcs, NEW f \in BOOLEAN, NEW t \in Nat
  PROVE  /\ WithPcForceTarget(x, v, f, t) \in ClientStates(p)
         /\ WithPcForceTarget(x, v, f, t).pc = v /\ WithPcForceTarget(x, v, f, t).force = f
         /\ WithPcForceTarget(x, v, f, t).target = t /\ WithPcForceTarget(x, v, f, t).image = x.image
         /\ WithPcForceTarget(x, v, f, t).name = x.name /\ WithPcForceTarget(x, v, f, t).entry = x.entry
         /\ WithPcForceTarget(x, v, f, t).token = x.token
         /\ WithPcForceTarget(x, v, f, t).from = x.from /\ WithPcForceTarget(x, v, f, t).plan = x.plan
         /\ WithPcForceTarget(x, v, f, t).pending = x.pending
<1>1. WithPcForceTarget(x, v, f, t) \in ClientStates(p)
  BY DEF ClientStates, WithPcForceTarget
<1>2. /\ WithPcForceTarget(x, v, f, t).pc = v
      /\ WithPcForceTarget(x, v, f, t).force = f
      /\ WithPcForceTarget(x, v, f, t).target = t
      /\ WithPcForceTarget(x, v, f, t).image = x.image
  BY DEF ClientStates, WithPcForceTarget
<1>3. /\ WithPcForceTarget(x, v, f, t).name = x.name
      /\ WithPcForceTarget(x, v, f, t).entry = x.entry
     
      /\ WithPcForceTarget(x, v, f, t).token = x.token
  BY DEF ClientStates, WithPcForceTarget
<1>4. /\ WithPcForceTarget(x, v, f, t).from = x.from
      /\ WithPcForceTarget(x, v, f, t).plan = x.plan
      /\ WithPcForceTarget(x, v, f, t).pending = x.pending
  BY DEF ClientStates, WithPcForceTarget
<1> QED BY <1>1, <1>2, <1>3, <1>4

WithPending(x, w) == [x EXCEPT !.pending = w]
(* This update changes these fields only. *)
LEMMA PendingUpdate ==
  ASSUME NEW p, NEW x \in ClientStates(p), NEW w \in SUBSET Ids
  PROVE  /\ WithPending(x, w) \in ClientStates(p)
         /\ WithPending(x, w).pending = w /\ WithPending(x, w).pc = x.pc
         /\ WithPending(x, w).image = x.image /\ WithPending(x, w).name = x.name
         /\ WithPending(x, w).entry = x.entry /\ WithPending(x, w).target = x.target
         /\ WithPending(x, w).token = x.token
         /\ WithPending(x, w).force = x.force /\ WithPending(x, w).from = x.from
         /\ WithPending(x, w).plan = x.plan
<1>1. WithPending(x, w) \in ClientStates(p) BY DEF ClientStates, WithPending
<1>2. /\ WithPending(x, w).pending = w
      /\ WithPending(x, w).pc = x.pc
      /\ WithPending(x, w).image = x.image
      /\ WithPending(x, w).name = x.name
  BY DEF ClientStates, WithPending
<1>3. /\ WithPending(x, w).entry = x.entry
      /\ WithPending(x, w).target = x.target
     
      /\ WithPending(x, w).token = x.token
  BY DEF ClientStates, WithPending
<1>4. /\ WithPending(x, w).force = x.force
      /\ WithPending(x, w).from = x.from
      /\ WithPending(x, w).plan = x.plan
  BY DEF ClientStates, WithPending
<1> QED BY <1>1, <1>2, <1>3, <1>4

----------------------------------------
(* Revisions only grow. *)

(* What a revision may be, given the records of the one before. *)
Succeeds(content, r) ==
  /\ r.by = "branch" => r.content = content
  /\ r.by = "merge" =>
       \A id \in Ids : \/ r.content[id] = content[id]
                       \/ Flagged(r.plan, id) /\ r.content[id] = r.plan[id].record

HistoryTyped ==
  /\ history = [i \in Images |-> history[i]]
  /\ \A i \in Images : IsHistory(history[i])
HeadsTyped == heads \in [Images -> [Names -> BranchHead]]
ClientsTyped ==
  /\ clients = [c \in Clients |-> clients[c]]
  /\ \A c \in Clients : clients[c] \in ClientStates(clients[c].plan)

(* An image gets one revision more, or stays as it is. *)
Grows(i) ==
  /\ Frontier(i) \in Nat /\ Frontier(i)' \in {Frontier(i), Frontier(i) + 1}
  /\ \A k \in 1..Frontier(i) : history'[i][k] = history[i][k]
  /\ Frontier(i)' # Frontier(i) /\ Existing(i) => Succeeds(Live(i), history'[i][Frontier(i) + 1])

HistoryStep == HistoryTyped' /\ \A i \in Images : Grows(i)

(* Nothing is written. *)
LEMMA HistoryRests ==
  ASSUME HistoryTyped, history' = history
  PROVE  HistoryStep
BY DEF HistoryTyped, HistoryStep, Grows, Frontier, IsHistory

(* One revision is committed. *)
LEMMA HistoryCommits ==
  ASSUME HistoryTyped, NEW i \in Images, NEW content, NEW by, NEW plan,
         IsContent(content), by \in {"edit", "branch", "fork", "merge"},
         Existing(i) => Succeeds(Live(i), Revision(content, by, plan)),
         history' = [history EXCEPT ![i] = Append(@, Revision(content, by, plan))]
  PROVE  /\ HistoryStep
         /\ Frontier(i)' = Frontier(i) + 1
         /\ Live(i)' = content
<1> DEFINE e == Revision(content, by, plan)
<1>1. /\ history'[i] = Append(history[i], e)
      /\ \A j \in Images \ {i} : history'[j] = history[j]
      /\ history' = [j \in Images |-> history'[j]]
  BY DEF HistoryTyped
<1>e. IsRevision(e) /\ (Existing(i) => Succeeds(Live(i), e))
  BY DEF IsRevision, Revision
<1> HIDE DEF e
<1>2. history[i] \in Seq({history[i][k] : k \in 1..Len(history[i])})
  BY DEF HistoryTyped, IsHistory
<1>3. /\ Len(history[i]) \in Nat /\ Len(history'[i]) = Len(history[i]) + 1
      /\ history'[i] \in Seq({history'[i][k] : k \in 1..Len(history'[i])})
      /\ \A k \in 1..Len(history[i]) : history'[i][k] = history[i][k]
      /\ history'[i][Len(history'[i])] = e
  BY <1>1, <1>2, SeqAppend
<1>l. Last(history'[i]) = e BY <1>3 DEF Last
<1>4. Grows(i) BY <1>3, <1>e DEF Grows, Frontier
<1>5. \A j \in Images \ {i} : Grows(j)
  BY <1>1 DEF Grows, Frontier, HistoryTyped, IsHistory
<1>6. \A k \in 1..Len(history'[i]) : IsRevision(history'[i][k])
  <2> TAKE k \in 1..Len(history'[i])
  <2>1. CASE k \in 1..Len(history[i])
    BY <2>1, <1>3 DEF HistoryTyped, IsHistory
  <2>2. CASE k \notin 1..Len(history[i])
    <3>1. k = Len(history'[i]) BY <2>2, <1>3
    <3>2. QED BY <3>1, <1>3, <1>e
  <2>3. QED BY <2>1, <2>2
<1>7. HistoryTyped'
  <2>1. \A j \in Images \ {i} : IsHistory(history'[j]) BY <1>1 DEF HistoryTyped
  <2>2. IsHistory(history'[i]) BY <1>3, <1>6 DEF IsHistory
  <2>3. QED BY <1>1, <2>1, <2>2 DEF HistoryTyped
<1>8. Live(i)' = content
  <2>1. e.content = content BY DEF e, Revision
  <2>2. QED BY <1>l, <2>1 DEF Live
<1>9. QED BY <1>3, <1>4, <1>5, <1>7, <1>8 DEF HistoryStep, Frontier

(* What a revision says of a record is explained after one revision more. *)
LEMMA StillExplained ==
  ASSUME HistoryTyped, ChangesAreExplained, HistoryStep
  PROVE  ChangesAreExplained'
<1> SUFFICES ASSUME NEW i \in Images, NEW j \in 1..Frontier(i)', NEW k \in 1..Frontier(i)',
                    NEW id \in Ids, j <= k
             PROVE  \/ At(i, k)'[id] = At(i, j)'[id]
                    \/ \E m \in j + 1 .. k : Explains(history'[i][m], id, At(i, k)'[id])
  BY DEF ChangesAreExplained
<1>g. Grows(i) BY DEF HistoryStep
<1>n. Frontier(i) \in Nat /\ Frontier(i)' \in Nat BY <1>g DEF Grows
<1>1. \A l \in 1..Frontier(i) : history'[i][l] = history[i][l] /\ At(i, l)' = At(i, l)
  BY <1>g DEF Grows, At
<1>2. ASSUME NEW a \in 1..Frontier(i), NEW b \in 1..Frontier(i), a <= b
      PROVE  \/ At(i, b)'[id] = At(i, a)'[id]
             \/ \E m \in a + 1 .. b : Explains(history'[i][m], id, At(i, b)'[id])
  <2>1. CASE At(i, b)[id] = At(i, a)[id]
    BY <2>1, <1>1
  <2>2. CASE \E m \in a + 1 .. b : Explains(history[i][m], id, At(i, b)[id])
    BY <2>2, <1>1, <1>2, <1>n
  <2>3. QED BY <2>1, <2>2, <1>2 DEF ChangesAreExplained
<1>3. CASE k \in 1..Frontier(i)
  BY <1>3, <1>2, <1>n
<1>4. CASE k \notin 1..Frontier(i)
  <2>1. k = Frontier(i) + 1 /\ Frontier(i)' = Frontier(i) + 1
    BY <1>4, <1>g, <1>n DEF Grows
  <2>2. CASE j = k
    BY <2>2
  <2>3. CASE j # k
    <3>1. j \in 1..Frontier(i) /\ Existing(i)
      BY <2>1, <2>3, <1>n DEF Existing, Frontier
    <3> DEFINE r == history'[i][k]
    <3>2. Succeeds(Live(i), r) /\ IsRevision(r) /\ At(i, k)' = r.content
      <4>1. IsHistory(history'[i]) /\ k \in 1..Len(history'[i])
        BY DEF HistoryStep, HistoryTyped, Frontier
      <4>2. Succeeds(Live(i), r) BY <2>1, <3>1, <1>g, <1>n DEF Grows
      <4>3. QED BY <4>1, <4>2 DEF IsHistory, At
    <3>3. Live(i) = At(i, Frontier(i)) /\ Frontier(i) \in 1..Frontier(i)
      BY <3>1, <1>n DEF Live, At, Frontier, Last
    <3> HIDE DEF r
    <3>4. CASE r.content[id] = Live(i)[id]
      <4>f. PICK f \in 1..Frontier(i) : f = Frontier(i)
        BY <3>3
      <4>1. \/ At(i, f)'[id] = At(i, j)'[id]
            \/ \E m \in j + 1 .. f : Explains(history'[i][m], id, At(i, f)'[id])
        BY <1>2, <3>1, <4>f, <1>n
      <4>2. At(i, k)'[id] = At(i, f)'[id] BY <3>2, <3>3, <3>4, <1>1, <4>f
      <4>3. \A m \in j + 1 .. f : m \in j + 1 .. k BY <4>f, <2>1, <1>n
      <4>4. QED BY <4>1, <4>2, <4>3
    <3>5. CASE r.content[id] # Live(i)[id]
      <4>1. Explains(r, id, At(i, k)'[id])
        BY <3>2, <3>5 DEF Succeeds, Explains, IsRevision
      <4>2. k \in j + 1 .. k BY <2>1, <3>1, <1>n
      <4>3. QED BY <4>1, <4>2 DEF r
    <3>6. QED BY <3>4, <3>5
  <2>4. QED BY <2>2, <2>3
<1>5. QED BY <1>3, <1>4

----------------------------------------
(* What the steps of others leave true of a client. *)

HeadsStep ==
  /\ HeadsTyped' /\ HeadsAreRevisions'
  /\ \A i \in Images, n \in Names :
       heads'[i][n] = heads[i][n] \/ heads'[i][n].version > heads[i][n].version

(* The types, cut into the parts a step changes together. *)
LEMMA TypedParts ==
  /\ Typed <=> HistoryTyped /\ HeadsTyped /\ ClientsTyped
  /\ Typed' <=> HistoryTyped' /\ HeadsTyped' /\ ClientsTyped'
BY DEF Typed, HistoryTyped, HeadsTyped, ClientsTyped

(* The fields of a client. *)
LEMMA ClientFields ==
  ASSUME ClientsTyped, NEW c \in Clients, NEW me, me = clients[c]
  PROVE  /\ me \in ClientStates(me.plan)
         /\ me.pc \in ClientPcs /\ me.image \in Images /\ me.name \in Names
         /\ me.entry \in BranchHead /\ me.target \in Nat /\ me.token \in Nat
         /\ me.force \in BOOLEAN /\ me.from \in BranchHead /\ me.pending \subseteq Ids
         /\ me.from.revision \in Nat /\ me.entry.revision \in Nat /\ me.entry.version \in Nat
<1>1. me \in ClientStates(me.plan) BY DEF ClientsTyped
<1>2. /\ me.pc \in ClientPcs /\ me.image \in Images /\ me.name \in Names
      /\ me.entry \in BranchHead /\ me.target \in Nat /\ me.token \in Nat
  BY <1>1 DEF ClientStates
<1>3. me.force \in BOOLEAN /\ me.from \in BranchHead /\ me.pending \subseteq Ids
  BY <1>1 DEF ClientStates
<1>4. QED BY <1>1, <1>2, <1>3 DEF BranchHead

SameMerge(c) ==
  /\ clients'[c].image = clients[c].image /\ clients'[c].from = clients[c].from
  /\ clients'[c].plan = clients[c].plan

(* The last revision of an image is what a revision's records are after it. *)
LEMMA LiveIsLast ==
  ASSUME NEW i, Frontier(i) \in Nat, Frontier(i) # 0
  PROVE  Live(i) = At(i, Frontier(i)) /\ Frontier(i) \in 1..Frontier(i) /\ Existing(i)
BY DEF Live, At, Frontier, Last, Existing

(* Who is undisturbed after a step was so before it. *)
LEMMA UndisturbedBefore ==
  ASSUME ClientsTyped, HistoryStep, NEW c \in Clients, SameMerge(c), Undisturbed(c)'
  PROVE  Undisturbed(c)
<1> PICK i \in Images : i = clients[c].image
  BY ClientFields
<1> PICK r \in Nat : r = clients[c].from.revision
  BY ClientFields
<1>1. clients'[c].image = i /\ clients'[c].from.revision = r /\ clients'[c].plan = clients[c].plan
  BY DEF SameMerge
<1>2. \A k \in r + 1 .. Frontier(i)' :
        \/ history'[i][k].by = "branch"
        \/ history'[i][k].by = "merge" /\ history'[i][k].plan = clients[c].plan
  BY <1>1 DEF Undisturbed
<1>3. /\ Frontier(i) \in Nat /\ Frontier(i)' \in Nat /\ Frontier(i) <= Frontier(i)'
      /\ \A k \in 1..Frontier(i) : history'[i][k] = history[i][k]
  BY DEF HistoryStep, Grows
<1>4. \A k \in r + 1 .. Frontier(i) : k \in r + 1 .. Frontier(i)' /\ k \in 1..Frontier(i)
  BY <1>3
<1>5. QED BY <1>2, <1>3, <1>4 DEF Undisturbed

(* And a record that changed then became what its plan says. *)
LEMMA LiveMoves ==
  ASSUME ClientsTyped, HistoryStep, NEW c \in Clients, SameMerge(c), Undisturbed(c)',
         NEW i \in Images, i = clients[c].image, NEW plan, plan = clients[c].plan,
         clients[c].from.revision # 0, clients[c].from.revision <= Frontier(i)
  PROVE  \A id \in Ids : \/ Live(i)'[id] = Live(i)[id]
                         \/ Flagged(plan, id) /\ Live(i)'[id] = plan[id].record
<1> PICK r \in Nat : r = clients[c].from.revision
  BY ClientFields
<1> PICK f \in Nat : f = Frontier(i)
  BY DEF HistoryStep, Grows
<1>f. r # 0 /\ r <= f /\ f # 0 OBVIOUS
<1>0. Live(i) = At(i, f) /\ Existing(i) BY <1>f, LiveIsLast
<1>1. CASE Frontier(i)' = f
  <2>1. Live(i)' = history'[i][f].content BY <1>1, <1>f DEF Live, Frontier, Last
  <2>2. history'[i][f] = history[i][f] BY <1>f DEF HistoryStep, Grows
  <2>3. Live(i)' = Live(i) BY <1>0, <2>1, <2>2 DEF At
  <2>4. QED BY <2>3
<1>2. CASE Frontier(i)' = f + 1
  <2> PICK last : last = f + 1
    OBVIOUS
  <2>r. PICK rev : rev = history'[i][last]
    OBVIOUS
  <2>1. Live(i)' = rev.content BY <1>2, <1>f, <2>r DEF Live, Frontier, Last
  <2>2. Succeeds(Live(i), rev) BY <1>2, <1>0, <2>r DEF HistoryStep, Grows
  <2>3. rev.by = "branch" \/ (rev.by = "merge" /\ rev.plan = plan)
    <3>1. last \in r + 1 .. Frontier(i)' BY <1>2, <1>f
    <3>2. clients'[c].image = i /\ clients'[c].from.revision = r /\ clients'[c].plan = plan
      BY DEF SameMerge
    <3>3. \A k \in r + 1 .. Frontier(i)' :
            \/ history'[i][k].by = "branch"
            \/ history'[i][k].by = "merge" /\ history'[i][k].plan = plan
      BY <3>2 DEF Undisturbed
    <3>4. QED BY <3>1, <3>3, <2>r
  <2>4. QED BY <2>1, <2>2, <2>3 DEF Succeeds
<1>3. QED BY <1>1, <1>2 DEF HistoryStep, Grows

(* A record that an undisturbed merge has settled stays settled. *)
LEMMA SettledStays ==
  ASSUME ClientsTyped, HistoryStep, NEW c \in Clients, SameMerge(c), Undisturbed(c)',
         NEW i \in Images, i = clients[c].image, NEW plan, plan = clients[c].plan,
         clients[c].from.revision # 0, clients[c].from.revision <= Frontier(i),
         NEW id \in Ids, Live(i)[id] = plan[id].record
  PROVE  Live(i)'[id] = plan[id].record
BY LiveMoves

(* What an operation took from a head or a frontier stays a revision. *)
LEMMA TargetsStay ==
  ASSUME ClientsTyped, HistoryStep, NEW c \in Clients, clients'[c] = clients[c], TargetsExist(c)
  PROVE  TargetsExist(c)'
<1> PICK me : me = clients[c]
  OBVIOUS
<1>1. /\ me.image \in Images /\ me.target \in Nat /\ me.from.revision \in Nat
  BY ClientFields
<1>2. /\ Frontier(me.image) \in Nat /\ Frontier(me.image)' \in Nat
      /\ Frontier(me.image) <= Frontier(me.image)'
  BY <1>1 DEF HistoryStep, Grows
<1>3. Existing(me.image) => Existing(me.image)'
  BY <1>1, <1>2 DEF Existing, Frontier, HistoryStep, HistoryTyped, IsHistory, Grows
<1>4. QED BY <1>1, <1>2, <1>3 DEF TargetsExist

(* A head only gets newer than what an advance has read of it. *)
LEMMA EntryStays ==
  ASSUME ClientsTyped, HeadsTyped, HeadsStep, NEW c \in Clients, clients'[c] = clients[c],
         EntryIsThePast(c)
  PROVE  EntryIsThePast(c)'
<1> PICK me : me = clients[c]
  OBVIOUS
<1>1. /\ me.image \in Images /\ me.name \in Names /\ me.token \in Nat /\ me.entry.version \in Nat
  BY ClientFields
<1> PICK head : head = heads[me.image][me.name]
  OBVIOUS
<1> PICK next : next = heads'[me.image][me.name]
  OBVIOUS
<1>2. /\ head.version \in Nat /\ next.version \in Nat
      /\ next = head \/ next.version > head.version
  BY <1>1 DEF HeadsTyped, HeadsStep, BranchHead
<1>3. QED BY <1>1, <1>2 DEF EntryIsThePast

(* A merge's plan still suits the revision its branch was at. *)
LEMMA PlanStays ==
  ASSUME ClientsTyped, HistoryStep, NEW c \in Clients, SameMerge(c),
         clients'[c].pc \in Planning => clients[c].pc \in Planning,
         TargetsExist(c), PlanIsSound(c)
  PROVE  PlanIsSound(c)'
<1> PICK i \in Images : i = clients[c].image
  BY ClientFields
<1> PICK r \in Nat : r = clients[c].from.revision
  BY ClientFields
<1>1. r <= Frontier(i) /\ clients'[c].image = i /\ clients'[c].from.revision = r
  BY DEF TargetsExist, SameMerge
<1>2. r # 0 => At(i, r)' = At(i, r) BY <1>1 DEF At, HistoryStep, Grows
<1>3. QED BY <1>1, <1>2 DEF PlanIsSound, SameMerge

(* What an undisturbed merge has written stays written. *)
LEMMA AppliedStays ==
  ASSUME ClientsTyped, HistoryStep, NEW c \in Clients, clients'[c] = clients[c],
         TargetsExist(c), Applied(c)
  PROVE  Applied(c)'
<1> PICK me : me = clients[c]
  OBVIOUS
<1> SUFFICES ASSUME me.pc \in {"applying", "swept"}, me.plan # NoPlan, Undisturbed(c)',
                    NEW id \in Ids, me.plan[id].conflict = "none"
             PROVE  \/ Live(me.image)'[id] = me.plan[id].record
                    \/ me.pc = "applying" /\ (me.plan[id].remove \/ id \in me.pending)
  BY DEF Applied
<1>1. SameMerge(c) /\ me.image \in Images BY ClientFields DEF SameMerge
<1>2. Undisturbed(c) BY <1>1, UndisturbedBefore
<1>3. me.from.revision # 0 /\ me.from.revision <= Frontier(me.image)
  BY DEF TargetsExist
<1>4. \/ Live(me.image)[id] = me.plan[id].record
      \/ me.pc = "applying" /\ (me.plan[id].remove \/ id \in me.pending)
  BY <1>2 DEF Applied
<1>5. QED BY <1>1, <1>3, <1>4, SettledStays

(* The revision an undisturbed merge advances to holds its plan. *)
LEMMA TargetStays ==
  ASSUME ClientsTyped, HistoryStep, NEW c \in Clients, SameMerge(c),
         clients'[c].pc \in {"advancing", "read", "checked"} =>
           clients[c].pc \in {"advancing", "read", "checked"},
         clients[c].target # 0 => clients'[c].target = clients[c].target,
         TargetsExist(c), TargetHoldsThePlan(c)
  PROVE  TargetHoldsThePlan(c)'
<1> PICK i \in Images : i = clients[c].image
  BY ClientFields
<1> PICK t \in Nat : t = clients[c].target
  BY ClientFields
<1>1. t <= Frontier(i) /\ clients'[c].image = i /\ clients'[c].plan = clients[c].plan
      /\ (t # 0 => clients'[c].target = t)
  BY DEF TargetsExist, SameMerge
<1>2. t # 0 => At(i, t)' = At(i, t) BY <1>1 DEF At, HistoryStep, Grows
<1>3. Undisturbed(c)' => Undisturbed(c) BY UndisturbedBefore
<1>4. QED BY <1>1, <1>2, <1>3 DEF TargetHoldsThePlan

(* A client that rests is as sound as it was. *)
LEMMA OthersStay ==
  ASSUME Typed, HistoryStep, HeadsStep, NEW c \in Clients, clients'[c] = clients[c],
         ClientIsSound(c)
  PROVE  ClientIsSound(c)'
<1>1. ClientsTyped /\ HeadsTyped BY TypedParts
<1>2. PendingAreWrites(c)' BY DEF ClientIsSound, PendingAreWrites
<1>s. SameMerge(c) BY DEF SameMerge
<1>3. QED
  BY <1>1, <1>2, <1>s, TargetsStay, EntryStays, PlanStays, AppliedStays, TargetStays DEF ClientIsSound

(* One client goes on, and the others stay as they are. *)
LEMMA StepOf ==
  ASSUME BranchesInv, HistoryStep, HeadsStep, NEW c \in Clients, NEW new, Goes(c, new),
         new \in ClientStates(new.plan), ClientIsSound(c)'
  PROVE  BranchesInv'
<1>1. HistoryTyped /\ ClientsTyped /\ HeadsTyped /\ Typed /\ ChangesAreExplained
  BY TypedParts DEF BranchesInv
<1>2. /\ clients'[c] = new /\ \A d \in Clients \ {c} : clients'[d] = clients[d]
      /\ clients' = [d \in Clients |-> clients'[d]]
  BY <1>1 DEF Goes, ClientsTyped
<1>3. ClientsTyped' BY <1>1, <1>2 DEF ClientsTyped
<1>4. Typed' BY <1>3, TypedParts DEF HistoryStep, HeadsStep
<1>5. \A d \in Clients \ {c} : ClientIsSound(d)'
  BY <1>1, <1>2, OthersStay DEF BranchesInv
<1>6. QED BY <1>1, <1>4, <1>5, StillExplained DEF BranchesInv, HeadsStep

----------------------------------------
(* The steps of createBranch, advanceBranch and deleteBranch. *)

(* The live records of an image that exists. *)
LEMMA LiveRecords ==
  ASSUME HistoryTyped, NEW i \in Images
  PROVE  /\ Frontier(i) \in Nat /\ (Existing(i) <=> Frontier(i) # 0)
         /\ Existing(i) => IsContent(Live(i))
         /\ \A k \in 1..Frontier(i) : IsContent(At(i, k))
<1>1. IsHistory(history[i]) BY DEF HistoryTyped
<1>2. Frontier(i) \in Nat /\ (Existing(i) <=> Frontier(i) # 0)
  BY <1>1 DEF IsHistory, Frontier, Existing
<1>3. \A k \in 1..Frontier(i) : IsContent(At(i, k))
  BY <1>1 DEF IsHistory, Frontier, At, IsRevision
<1>4. Existing(i) => IsContent(Live(i))
  <2>1. SUFFICES ASSUME Existing(i) PROVE IsContent(Live(i))
    OBVIOUS
  <2>2. PICK f : f = Frontier(i)
    OBVIOUS
  <2>3. Live(i) = At(i, f) /\ f \in 1..Frontier(i)
    BY <1>2, <2>1, <2>2, LiveIsLast
  <2>4. QED BY <1>3, <2>3
<1>5. QED BY <1>2, <1>3, <1>4

(* No head is written. *)
LEMMA HeadsRest ==
  ASSUME HeadsTyped, HeadsAreRevisions, HistoryStep, heads' = heads
  PROVE  HeadsStep
<1>1. \A i \in Images : /\ Frontier(i) \in Nat /\ Frontier(i)' \in Nat
                        /\ Frontier(i) <= Frontier(i)'
  BY DEF HistoryStep, Grows
<1>2. \A i \in Images, n \in Names : heads[i][n].revision \in Nat
  BY DEF HeadsTyped, BranchHead
<1>3. HeadsAreRevisions' BY <1>1, <1>2 DEF HeadsAreRevisions
<1>4. QED BY <1>3 DEF HeadsStep, HeadsTyped

(* One head is written, with a version of its own. *)
LEMMA HeadMoves ==
  ASSUME HeadsTyped, HeadsAreRevisions, HistoryStep, NEW i \in Images, NEW n \in Names,
         NEW head \in BranchHead, head.version > heads[i][n].version,
         head.revision <= Frontier(i)', heads' = [heads EXCEPT ![i][n] = head]
  PROVE  HeadsStep /\ heads'[i][n] = head
<1>1. \A j \in Images : /\ Frontier(j) \in Nat /\ Frontier(j)' \in Nat
                        /\ Frontier(j) <= Frontier(j)'
  BY DEF HistoryStep, Grows
<1>2. \A j \in Images, m \in Names : heads[j][m].revision \in Nat
  BY DEF HeadsTyped, BranchHead
<1>3. /\ heads'[i][n] = head /\ HeadsTyped'
      /\ \A j \in Images, m \in Names : heads'[j][m] = heads[j][m] \/ (j = i /\ m = n)
  BY DEF HeadsTyped
<1>4. HeadsAreRevisions'
  <2> SUFFICES ASSUME NEW j \in Images, NEW m \in Names
               PROVE  heads'[j][m].revision <= Frontier(j)'
    BY DEF HeadsAreRevisions
  <2>1. CASE j = i /\ m = n
    BY <2>1, <1>3
  <2>2. CASE heads'[j][m] = heads[j][m]
    BY <2>2, <1>1, <1>2 DEF HeadsAreRevisions
  <2>3. QED BY <2>1, <2>2, <1>3
<1>5. QED BY <1>3, <1>4 DEF HeadsStep

(* A client without a plan. *)
LEMMA PlainSound ==
  ASSUME NEW c \in Clients, clients'[c].plan = NoPlan, clients'[c].pc \notin {"planned", "applying"},
         TargetsExist(c)', EntryIsThePast(c)'
  PROVE  ClientIsSound(c)'
BY DEF ClientIsSound, PlanIsSound, PendingAreWrites, Applied, TargetHoldsThePlan

(* An operation that ends. *)
LEMMA EndsSound ==
  ASSUME BranchesInv, HistoryStep, HeadsStep, NEW c \in Clients, Ends(c)
  PROVE  BranchesInv'
<1>1. clients'[c] = AtRest
  BY TypedParts DEF BranchesInv, Ends, Goes, ClientsTyped
<1>2. clients'[c].pc = "rest" /\ clients'[c].target = 0 /\ clients'[c].plan = NoPlan
      /\ clients'[c].from.revision = 0 /\ clients'[c].image \in Images
  BY <1>1, RestTyped DEF NoHead, ClientStates
<1>3. TargetsExist(c)'
  <2> PICK i \in Images : i = clients'[c].image
    BY <1>2
  <2>1. Frontier(i)' \in Nat /\ 0 <= Frontier(i)' BY DEF HistoryStep, Grows
  <2>2. QED BY <1>2, <2>1 DEF TargetsExist
<1>4. EntryIsThePast(c)' BY <1>2 DEF EntryIsThePast
<1>5. ClientIsSound(c)' BY <1>2, <1>3, <1>4, PlainSound
<1>6. QED BY <1>5, RestTyped, StepOf DEF Ends

(* An operation that starts without a plan, and reads only. *)
LEMMA BeginsSound ==
  ASSUME BranchesInv, NEW c \in Clients, NEW new, Goes(c, new), UNCHANGED <<history, heads>>,
         new \in ClientStates(NoPlan), new.pc \in {"shaping", "advancing", "deleting", "merging"},
         new.plan = NoPlan, new.pc = "shaping" => new.target # 0,
         Existing(new.image), new.target <= Frontier(new.image),
         new.from.revision <= Frontier(new.image), new.pc = "merging" => new.from.revision # 0,
         new.pc = "merging" => new.token = 0,
         new.pc = "advancing" => new.token <= heads[new.image][new.name].version
  PROVE  BranchesInv'
<1>1. HistoryStep /\ HeadsStep
  BY HistoryRests, HeadsRest, TypedParts DEF BranchesInv
<1>2. clients'[c] = new BY TypedParts DEF BranchesInv, Goes, ClientsTyped
<1>3. TargetsExist(c)' BY <1>2 DEF TargetsExist, Existing, Frontier
<1>4. EntryIsThePast(c)' BY <1>2 DEF EntryIsThePast
<1>5. ClientIsSound(c)' BY <1>2, <1>3, <1>4, PlainSound
<1>6. QED BY <1>1, <1>5, StepOf

(* createBranch takes a revision of the image. *)
LEMMA CreateStartsStep ==
  ASSUME BranchesInv, NEW c \in Clients, NEW i \in Images, NEW n \in Names, NEW goal \in 1..Frontier(i),
         NEW overwrite \in BOOLEAN, CreateStarts(c, i, n, goal, overwrite)
  PROVE  BranchesInv'
<1> PICK start : start = Starts(c, i, n, "shaping")
  OBVIOUS
<1> PICK new : new = WithTargetForce(start, goal, overwrite)
  OBVIOUS
<1>1. Goes(c, new) /\ UNCHANGED <<history, heads>> /\ Existing(i)
  BY DEF CreateStarts, WithTargetForce
<1>2. Frontier(i) \in Nat /\ goal \in Nat /\ goal # 0 /\ goal <= Frontier(i) /\ NoHead.revision = 0
  BY LiveRecords, TypedParts DEF BranchesInv, NoHead
<1>3. start \in ClientStates(NoPlan) /\ start.pc = "shaping" /\ start.image = i /\ start.name = n
      /\ start.from = NoHead /\ start.plan = NoPlan
  BY StartsTyped
<1>4. /\ new \in ClientStates(NoPlan) /\ new.pc = "shaping" /\ new.image = i
      /\ new.target = goal /\ new.from = NoHead /\ new.plan = NoPlan
  BY <1>2, <1>3, TargetForceUpdate
<1>5. QED BY <1>1, <1>2, <1>4, BeginsSound

(* advanceBranch is called, perhaps with the version its caller saw. *)
LEMMA AdvanceStartsStep ==
  ASSUME BranchesInv, NEW c \in Clients, NEW i \in Images, NEW n \in Names, NEW token, NEW force \in BOOLEAN,
         AdvanceStarts(c, i, n, token, force)
  PROVE  BranchesInv'
<1> PICK start : start = Starts(c, i, n, "advancing")
  OBVIOUS
<1> PICK new : new = WithTokenForce(start, token, force)
  OBVIOUS
<1>1. /\ Goes(c, new) /\ UNCHANGED <<history, heads>>
      /\ heads[i][n].revision # 0 /\ token \in 0..heads[i][n].version
  BY DEF AdvanceStarts, WithTokenForce
<1>2. heads[i][n].version \in Nat /\ heads[i][n].revision \in Nat
  BY TypedParts DEF BranchesInv, HeadsTyped, BranchHead
<1>3. start \in ClientStates(NoPlan) /\ start.pc = "advancing" /\ start.image = i /\ start.name = n
      /\ start.from = NoHead /\ start.plan = NoPlan /\ start.target = 0
  BY StartsTyped
<1>4. /\ new \in ClientStates(NoPlan) /\ new.pc = "advancing" /\ new.image = i /\ new.name = n
      /\ new.target = 0 /\ new.from = NoHead /\ new.plan = NoPlan /\ new.token = token
  BY <1>1, <1>2, <1>3, TokenForceUpdate
<1>5. Frontier(i) \in Nat /\ Frontier(i) # 0 /\ Existing(i) /\ NoHead.revision = 0
  BY <1>1, <1>2, LiveRecords, TypedParts DEF BranchesInv, HeadsAreRevisions, NoHead
<1>6. QED BY <1>1, <1>2, <1>4, <1>5, BeginsSound

(* deleteBranch reads the head. *)
LEMMA DeleteReadsStep ==
  ASSUME BranchesInv, NEW c \in Clients, NEW i \in Images, NEW n \in Names, DeleteReads(c, i, n)
  PROVE  BranchesInv'
<1> PICK new : new = Starts(c, i, n, "deleting")
  OBVIOUS
<1>1. Goes(c, new) /\ UNCHANGED <<history, heads>> /\ Existing(i)
  BY DEF DeleteReads
<1>2. new \in ClientStates(NoPlan) /\ new.pc = "deleting" /\ new.image = i
      /\ new.from = NoHead /\ new.plan = NoPlan /\ new.target = 0
  <2> PICK pc \in {"shaping", "advancing", "deleting", "forking", "merging"} : pc = "deleting"
    OBVIOUS
  <2>1. new = Starts(c, i, n, pc) OBVIOUS
  <2>2. QED BY <2>1, StartsTyped
<1>3. Frontier(i) \in Nat /\ NoHead.revision = 0
  BY LiveRecords, TypedParts DEF BranchesInv, NoHead
<1>4. QED BY <1>1, <1>2, <1>3, BeginsSound

(* mergeBranches reads the target branch's head. *)
LEMMA MergeReadsStep ==
  ASSUME BranchesInv, NEW c \in Clients, NEW i \in Images, NEW n \in Names, MergeReads(c, i, n)
  PROVE  BranchesInv'
<1> PICK start : start = Starts(c, i, n, "merging")
  OBVIOUS
<1>h. PICK head : head = heads[i][n]
  OBVIOUS
<1>n. PICK new : new = WithFrom(start, head)
  OBVIOUS
<1>1. Goes(c, new) /\ UNCHANGED <<history, heads>> /\ head.revision # 0
  BY <1>h, <1>n DEF MergeReads, WithFrom
<1>2. head \in BranchHead /\ head.revision \in Nat /\ head.revision <= Frontier(i)
  BY <1>h, TypedParts DEF BranchesInv, HeadsTyped, BranchHead, HeadsAreRevisions
<1>3. start \in ClientStates(NoPlan) /\ start.pc = "merging" /\ start.image = i
      /\ start.plan = NoPlan /\ start.target = 0 /\ start.token = 0
  BY StartsTyped
<1>4. /\ new \in ClientStates(NoPlan) /\ new.pc = "merging" /\ new.image = i
      /\ new.target = 0 /\ new.from = head /\ new.plan = NoPlan /\ new.token = 0
  BY <1>2, <1>3, <1>n, FromUpdate
<1>5. Frontier(i) \in Nat /\ Existing(i)
  <2>1. HistoryTyped BY TypedParts DEF BranchesInv
  <2>2. QED BY <2>1, <1>1, <1>2, LiveRecords
<1>6. QED BY <1>1, <1>2, <1>4, <1>5, BeginsSound

----------------------------------------
(* The writes of heads, forks, and the live image in other hands. *)

(* What BranchesInv says of a client, taken apart. *)
LEMMA InvParts ==
  ASSUME BranchesInv
  PROVE  /\ HistoryTyped /\ HeadsTyped /\ ClientsTyped /\ HeadsAreRevisions /\ ChangesAreExplained
         /\ \A c \in Clients :
              /\ ClientIsSound(c) /\ TargetsExist(c) /\ EntryIsThePast(c) /\ PlanIsSound(c)
              /\ PendingAreWrites(c) /\ Applied(c) /\ TargetHoldsThePlan(c)
BY TypedParts DEF BranchesInv, ClientIsSound

(* A client that goes on is in the state it goes on to. *)
LEMMA NewState ==
  ASSUME BranchesInv, NEW c \in Clients, NEW new, Goes(c, new)
  PROVE  clients'[c] = new
BY InvParts DEF Goes, ClientsTyped

(* A branch's head is committed as a revision of the same records. *)
LEMMA BranchCommits ==
  ASSUME BranchesInv, NEW i \in Images, Existing(i), Commit(i, Live(i), "branch", NoPlan)
  PROVE  HistoryStep /\ Frontier(i)' = Frontier(i) + 1 /\ Frontier(i) \in Nat
<1>1. HistoryTyped /\ IsContent(Live(i)) /\ Frontier(i) \in Nat
  BY InvParts, LiveRecords
<1>2. Succeeds(Live(i), Revision(Live(i), "branch", NoPlan))
  BY DEF Succeeds, Revision
<1>3. history' = [history EXCEPT ![i] = Append(@, Revision(Live(i), "branch", NoPlan))]
  BY DEF Commit
<1>4. QED BY <1>1, <1>2, <1>3, HistoryCommits

(* A head is put at the version expected, or the operation is refused. *)
LEMMA PutHeadSound ==
  ASSUME BranchesInv, NEW c \in Clients, NEW expected \in Nat, NEW revision, NEW parent \in Nat,
         Existing(clients[c].image), revision \in 1..Frontier(clients[c].image),
         PutHead(c, expected, revision, parent)
  PROVE  BranchesInv'
<1> PICK i \in Images : i = clients[c].image
  BY InvParts, ClientFields
<1> PICK n \in Names : n = clients[c].name
  BY InvParts, ClientFields
<1>0. HistoryTyped /\ HeadsTyped /\ HeadsAreRevisions /\ Frontier(i) \in Nat
  BY InvParts, LiveRecords
<1>1. CASE heads[i][n].version = expected
  <2>h. PICK head : head = [version |-> expected + 1, revision |-> revision, parent |-> parent]
    OBVIOUS
  <2>1. /\ heads' = [heads EXCEPT ![i][n] = head]
        /\ Commit(i, Live(i), "branch", NoPlan) /\ Ends(c)
    BY <1>1, <2>h DEF PutHead
  <2>2. HistoryStep /\ Frontier(i)' = Frontier(i) + 1 BY <2>1, BranchCommits
  <2>3. /\ head \in BranchHead /\ head.version > heads[i][n].version
        /\ head.revision <= Frontier(i)'
    BY <2>h, <2>2, <1>0, <1>1 DEF BranchHead
  <2>4. HeadsStep BY <2>1, <2>2, <2>3, <1>0, HeadMoves
  <2>5. QED BY <2>1, <2>2, <2>4, EndsSound
<1>2. CASE heads[i][n].version # expected
  <2>1. Ends(c) /\ UNCHANGED <<history, heads>> BY <1>2 DEF PutHead
  <2>2. QED BY <2>1, <1>0, HistoryRests, HeadsRest, EndsSound
<1>3. QED BY <1>1, <1>2

(* An operation that ends and has written nothing. *)
LEMMA EndsQuietly ==
  ASSUME BranchesInv, NEW c \in Clients, Ends(c), UNCHANGED <<history, heads>>
  PROVE  BranchesInv'
BY InvParts, HistoryRests, HeadsRest, EndsSound

(* createBranch puts its head. *)
LEMMA CreatePutsStep ==
  ASSUME BranchesInv, NEW c \in Clients, CreatePuts(c)
  PROVE  BranchesInv'
<1> PICK me : me = clients[c]
  OBVIOUS
<1>1. me.pc = "creating" /\ PutHead(c, me.entry.version, me.target, 0)
  BY DEF CreatePuts
<1>2. me \in ClientStates(me.plan) /\ me.entry.version \in Nat /\ me.target \in Nat /\ me.image \in Images
  BY InvParts, ClientFields
<1>3. Existing(me.image) /\ me.target <= Frontier(me.image) /\ me.target # 0
  BY <1>1, InvParts DEF TargetsExist
<1>4. me.target \in 1..Frontier(me.image) BY <1>2, <1>3, InvParts, LiveRecords
<1>5. QED BY <1>1, <1>2, <1>3, <1>4, PutHeadSound

(* advanceBranch puts its head. *)
LEMMA AdvancePutsStep ==
  ASSUME BranchesInv, NEW c \in Clients, AdvancePuts(c)
  PROVE  BranchesInv'
<1> PICK me : me = clients[c]
  OBVIOUS
<1>e. PICK expected : expected = IF me.token # 0 THEN me.token ELSE me.entry.version
  OBVIOUS
<1>1. me.pc = "checked" /\ PutHead(c, expected, me.target, me.entry.revision)
  BY <1>e DEF AdvancePuts
<1>2. /\ me.entry.version \in Nat /\ me.target \in Nat /\ me.token \in Nat
      /\ me.entry.revision \in Nat /\ me.image \in Images
  BY InvParts, ClientFields
<1>3. expected \in Nat BY <1>2, <1>e
<1>4. Existing(me.image) /\ me.target <= Frontier(me.image) /\ me.target # 0
  BY <1>1, InvParts DEF TargetsExist
<1>5. me.target \in 1..Frontier(me.image) BY <1>2, <1>4, InvParts, LiveRecords
<1>6. QED BY <1>1, <1>2, <1>3, <1>4, <1>5, PutHeadSound

(* deleteBranch leaves a tombstone with a version of its own. *)
LEMMA DeleteSweepsStep ==
  ASSUME BranchesInv, NEW c \in Clients, DeleteSweeps(c)
  PROVE  BranchesInv'
<1> PICK i \in Images : i = clients[c].image
  BY InvParts, ClientFields
<1> PICK n \in Names : n = clients[c].name
  BY InvParts, ClientFields
<1>0. HistoryTyped /\ HeadsTyped /\ HeadsAreRevisions /\ Frontier(i) \in Nat
  BY InvParts, LiveRecords
<1>1. CASE heads[i][n].revision = 0
  BY <1>1, EndsQuietly DEF DeleteSweeps
<1>2. CASE heads[i][n].revision # 0
  <2>h. PICK head : head = [NoHead EXCEPT !.version = heads[i][n].version + 1]
    OBVIOUS
  <2>1. /\ heads' = [heads EXCEPT ![i][n] = head]
        /\ Commit(i, Live(i), "branch", NoPlan) /\ Ends(c)
    BY <1>2, <2>h DEF DeleteSweeps
  <2>2. Existing(i) BY InvParts DEF TargetsExist, DeleteSweeps
  <2>3. HistoryStep /\ Frontier(i)' = Frontier(i) + 1
    BY <2>1, <2>2, BranchCommits
  <2>4. heads[i][n].version \in Nat BY <1>0 DEF HeadsTyped, BranchHead
  <2>5. /\ head \in BranchHead /\ head.version > heads[i][n].version /\ head.revision = 0
    BY <2>h, <2>4 DEF BranchHead, NoHead
  <2>6. head.revision <= Frontier(i)' BY <2>3, <2>5, <1>0
  <2>7. HeadsStep BY <2>1, <2>3, <2>5, <2>6, <1>0, HeadMoves
  <2>8. QED BY <2>1, <2>3, <2>7, EndsSound
<1>3. QED BY <1>1, <1>2

(* A client that dies leaves what it has written. *)
LEMMA AbandonsStep ==
  ASSUME BranchesInv, NEW c \in Clients, Abandons(c)
  PROVE  BranchesInv'
BY EndsQuietly DEF Abandons

(* A client that goes on and writes nothing. *)
LEMMA ReadsSound ==
  ASSUME BranchesInv, NEW c \in Clients, NEW new, Goes(c, new), UNCHANGED <<history, heads>>,
         new \in ClientStates(new.plan), ClientIsSound(c)'
  PROVE  BranchesInv'
BY InvParts, HistoryRests, HeadsRest, StepOf

(* advanceBranch reads the head. *)
LEMMA AdvanceReadsStep ==
  ASSUME BranchesInv, NEW c \in Clients, AdvanceReads(c)
  PROVE  BranchesInv'
<1> PICK me : me = clients[c]
  OBVIOUS
<1>0. /\ me \in ClientStates(me.plan) /\ me.image \in Images /\ me.name \in Names
      /\ me.token \in Nat /\ me.pc = "advancing"
  BY InvParts, ClientFields DEF AdvanceReads
<1>h. PICK head : head = heads[me.image][me.name]
  OBVIOUS
<1>1. CASE head.revision = 0
  BY <1>1, <1>h, EndsQuietly DEF AdvanceReads
<1>2. CASE head.revision # 0
  <2>n. PICK new : new = WithPcEntry(me, "read", head)
    OBVIOUS
  <2>1. Goes(c, new) /\ UNCHANGED <<history, heads>>
    BY <1>2, <1>h, <2>n DEF AdvanceReads, WithPcEntry
  <2>2. head \in BranchHead /\ head.version \in Nat
    BY <1>0, <1>h, InvParts DEF HeadsTyped, BranchHead
  <2>3. /\ new \in ClientStates(me.plan) /\ new.pc = "read" /\ new.entry = head
        /\ new.image = me.image /\ new.name = me.name /\ new.target = me.target
        /\ new.token = me.token /\ new.force = me.force /\ new.from = me.from /\ new.plan = me.plan
    <3>1. "read" \in ClientPcs BY DEF ClientPcs
    <3>2. QED BY <1>0, <2>2, <2>n, <3>1, PcEntryUpdate
  <2>4. clients'[c] = new BY <2>1, NewState
  <2>m. /\ SameMerge(c) /\ HistoryStep /\ clients[c].pc = "advancing"
        /\ clients'[c].pc = new.pc /\ clients'[c].target = new.target /\ clients[c].target = me.target
    BY <1>0, <2>1, <2>3, <2>4, InvParts, HistoryRests DEF SameMerge
  <2>5. TargetsExist(c)'
    BY <1>0, <2>1, <2>3, <2>4, InvParts DEF TargetsExist, Existing, Frontier
  <2>6. EntryIsThePast(c)'
    <3>1. me.token <= head.version BY <1>0, <1>h, InvParts DEF EntryIsThePast
    <3>2. QED BY <3>1, <1>h, <2>1, <2>2, <2>3, <2>4 DEF EntryIsThePast
  <2>7. PlanIsSound(c)' BY <2>3, <2>m, InvParts, PlanStays DEF Planning
  <2>8. TargetHoldsThePlan(c)' BY <2>3, <2>m, InvParts, TargetStays
  <2>9. ClientIsSound(c)'
    BY <2>3, <2>4, <2>5, <2>6, <2>7, <2>8 DEF ClientIsSound, PendingAreWrites, Applied
  <2>10. QED BY <2>1, <2>3, <2>9, ReadsSound
<1>3. QED BY <1>1, <1>2

(* advanceBranch reads the frontier and compares it with the head. *)
LEMMA AdvanceChecksStep ==
  ASSUME BranchesInv, NEW c \in Clients, NEW revision, AdvanceChecks(c, revision)
  PROVE  BranchesInv'
<1> PICK me : me = clients[c]
  OBVIOUS
<1>0. /\ me \in ClientStates(me.plan) /\ me.image \in Images /\ me.target \in Nat
      /\ me.from.revision \in Nat /\ me.pc = "read"
  BY InvParts, ClientFields DEF AdvanceChecks
<1>1. CASE ~MayAdvance(me.entry, revision, me.force)
  BY <1>1, EndsQuietly DEF AdvanceChecks
<1>2. CASE MayAdvance(me.entry, revision, me.force)
  <2>n. PICK new : new = WithPcTarget(me, "checked", revision)
    OBVIOUS
  <2>1. Goes(c, new) /\ UNCHANGED <<history, heads>>
    BY <1>2, <2>n DEF AdvanceChecks, WithPcTarget
  <2>2. /\ revision \in Nat /\ revision # 0 /\ revision <= Frontier(me.image)
        /\ me.target # 0 => revision = me.target
    <3>1. Frontier(me.image) \in Nat BY <1>0, InvParts, LiveRecords
    <3>2. CASE me.target # 0
      BY <3>1, <3>2, <1>0, InvParts DEF AdvanceChecks, TargetsExist
    <3>3. CASE me.target = 0
      BY <3>1, <3>3, <1>0 DEF AdvanceChecks
    <3>4. QED BY <3>2, <3>3
  <2>3. /\ new \in ClientStates(me.plan) /\ new.pc = "checked" /\ new.entry = me.entry
        /\ new.image = me.image /\ new.name = me.name /\ new.target = revision
        /\ new.token = me.token /\ new.force = me.force /\ new.from = me.from /\ new.plan = me.plan
    <3>1. "checked" \in ClientPcs BY DEF ClientPcs
    <3>2. QED BY <1>0, <2>2, <2>n, <3>1, PcTargetUpdate
  <2>4. clients'[c] = new BY <2>1, NewState
  <2>m. /\ SameMerge(c) /\ HistoryStep /\ clients[c].pc = "read"
        /\ clients'[c].pc = new.pc /\ clients'[c].target = new.target /\ clients[c].target = me.target
    BY <1>0, <2>1, <2>3, <2>4, InvParts, HistoryRests DEF SameMerge
  <2>5. TargetsExist(c)'
    BY <1>0, <2>1, <2>2, <2>3, <2>4, InvParts DEF TargetsExist, Existing, Frontier
  <2>6. EntryIsThePast(c)'
    BY <1>0, <1>2, <2>1, <2>3, <2>4, InvParts DEF EntryIsThePast
  <2>7. PlanIsSound(c)' BY <2>3, <2>m, InvParts, PlanStays DEF Planning
  <2>8. TargetHoldsThePlan(c)' BY <2>2, <2>3, <2>m, InvParts, TargetStays
  <2>9. ClientIsSound(c)'
    BY <2>3, <2>4, <2>5, <2>6, <2>7, <2>8 DEF ClientIsSound, PendingAreWrites, Applied
  <2>10. QED BY <2>1, <2>3, <2>9, ReadsSound
<1>3. QED BY <1>1, <1>2

----------------------------------------
(* Edits and forks. *)

(* A write of someone who is no client. *)
LEMMA EditSound ==
  ASSUME BranchesInv, NEW i \in Images, Existing(i), NEW id, NEW rec,
         Commit(i, [Live(i) EXCEPT ![id] = rec], "edit", NoPlan), UNCHANGED <<heads, clients>>
  PROVE  BranchesInv'
<1>c. PICK content : content = [Live(i) EXCEPT ![id] = rec]
  OBVIOUS
<1>1. HistoryTyped /\ HeadsTyped /\ ClientsTyped /\ HeadsAreRevisions /\ ChangesAreExplained
      /\ IsContent(Live(i))
  BY InvParts, LiveRecords
<1>2. IsContent(content) BY <1>1, <1>c DEF IsContent
<1>3. Succeeds(Live(i), Revision(content, "edit", NoPlan))
  BY DEF Succeeds, Revision
<1>4. history' = [history EXCEPT ![i] = Append(@, Revision(content, "edit", NoPlan))]
  BY <1>c DEF Commit
<1>5. HistoryStep BY <1>1, <1>2, <1>3, <1>4, HistoryCommits
<1>6. HeadsStep BY <1>1, <1>5, HeadsRest
<1>7. \A c \in Clients : ClientIsSound(c)'
  <2>1. Typed BY DEF BranchesInv
  <2>2. QED BY <2>1, <1>5, <1>6, OthersStay, InvParts
<1>8. ClientsTyped' BY <1>1 DEF ClientsTyped
<1>9. QED
  BY <1>1, <1>5, <1>6, <1>7, <1>8, TypedParts, StillExplained DEF BranchesInv, HistoryStep, HeadsStep

(* Someone else writes or sweeps a record. *)
LEMMA EditStep ==
  ASSUME BranchesInv, NEW i \in Images, NEW id \in Ids,
         Sweep(i, id) \/ \E rec \in Records : PutObject(i, id, rec)
  PROVE  BranchesInv'
BY EditSound DEF Sweep, PutObject

(* An operation that does not merge. *)
LEMMA NotMerging ==
  ASSUME NEW c \in Clients, clients'[c].pc \in {"forking", "filling", "shaping", "shaped", "creating"},
         TargetsExist(c)'
  PROVE  ClientIsSound(c)'
BY DEF ClientIsSound, EntryIsThePast, PlanIsSound, Planning, PendingAreWrites, Applied,
       TargetHoldsThePlan

(* createBranch makes sure that the image has the shape of a head. *)
LEMMA EnsuresHeadShapeStep ==
  ASSUME BranchesInv, NEW c \in Clients, EnsuresHeadShape(c)
  PROVE  BranchesInv'
<1> PICK me : me = clients[c]
  OBVIOUS
<1> PICK i \in Images : i = me.image
  BY InvParts, ClientFields
<1> PICK new : new = WithPc(me, "shaped")
  OBVIOUS
<1>0. /\ HistoryTyped /\ HeadsTyped /\ HeadsAreRevisions /\ me \in ClientStates(me.plan)
      /\ TargetsExist(c) /\ me.target \in Nat /\ me.from.revision \in Nat /\ me.pc = "shaping"
  BY InvParts, ClientFields DEF EnsuresHeadShape
<1>1. /\ Goes(c, new) /\ heads' = heads
      /\ UNCHANGED history \/ Commit(i, Live(i), "branch", NoPlan)
  BY DEF EnsuresHeadShape, Turns, WithPc
<1>2. Existing(i) /\ me.target # 0 /\ me.target <= Frontier(i) /\ me.from.revision <= Frontier(i)
  BY <1>0 DEF TargetsExist
<1>3. HistoryStep BY <1>0, <1>1, <1>2, BranchCommits, HistoryRests
<1>4. Frontier(i) \in Nat /\ Frontier(i)' \in Nat /\ Frontier(i) <= Frontier(i)' /\ Existing(i)'
  <2>1. Frontier(i) \in Nat /\ Frontier(i)' \in Nat /\ Frontier(i) <= Frontier(i)'
    BY <1>3 DEF HistoryStep, Grows
  <2>2. IsHistory(history'[i]) /\ Frontier(i) # 0
    BY <1>0, <1>2, <1>3, LiveRecords DEF HistoryStep, HistoryTyped
  <2>3. QED BY <2>1, <2>2 DEF IsHistory, Existing, Frontier
<1>5. HeadsStep BY <1>0, <1>1, <1>3, HeadsRest
<1>6. /\ new \in ClientStates(me.plan) /\ new.pc = "shaped" /\ new.image = i
      /\ new.target = me.target /\ new.from = me.from /\ new.plan = me.plan
  <2>1. "shaped" \in ClientPcs BY DEF ClientPcs
  <2>2. QED BY <1>0, <2>1, PcUpdate
<1>7. clients'[c] = new BY <1>1, NewState
<1>8. TargetsExist(c)' BY <1>0, <1>2, <1>4, <1>6, <1>7 DEF TargetsExist
<1>9. QED BY <1>1, <1>3, <1>5, <1>6, <1>7, <1>8, NotMerging, StepOf

(* createBranch reads the head in the way. *)
LEMMA CreateReadsStep ==
  ASSUME BranchesInv, NEW c \in Clients, CreateReads(c)
  PROVE  BranchesInv'
<1> PICK me : me = clients[c]
  OBVIOUS
<1> PICK i \in Images : i = me.image
  BY InvParts, ClientFields
<1> PICK n \in Names : n = me.name
  BY InvParts, ClientFields
<1>0. me \in ClientStates(me.plan) /\ TargetsExist(c) /\ HeadsTyped /\ me.pc = "shaped"
  BY InvParts, ClientFields DEF CreateReads
<1>1. CASE heads[i][n].revision # 0 /\ ~me.force
  BY <1>1, EndsQuietly DEF CreateReads
<1>2. CASE ~(heads[i][n].revision # 0 /\ ~me.force)
  <2>e. PICK entry : entry = IF heads[i][n].revision = 0 THEN NoHead ELSE heads[i][n]
    OBVIOUS
  <2>n. PICK new : new = WithPcEntry(me, "creating", entry)
    OBVIOUS
  <2>1. Goes(c, new) /\ UNCHANGED <<history, heads>>
    BY <1>2, <2>e, <2>n DEF CreateReads, WithPcEntry
  <2>2. entry \in BranchHead BY <1>0, <2>e DEF HeadsTyped, NoHead, BranchHead
  <2>3. /\ new \in ClientStates(me.plan) /\ new.pc = "creating" /\ new.image = me.image
        /\ new.target = me.target /\ new.from = me.from /\ new.plan = me.plan
    <3>1. "creating" \in ClientPcs BY DEF ClientPcs
    <3>2. QED BY <1>0, <2>2, <2>n, <3>1, PcEntryUpdate
  <2>4. clients'[c] = new BY <2>1, NewState
  <2>5. TargetsExist(c)'
    BY <1>0, <2>1, <2>3, <2>4 DEF TargetsExist, Existing, Frontier
  <2>6. QED BY <2>1, <2>3, <2>4, <2>5, NotMerging, ReadsSound
<1>3. QED BY <1>1, <1>2

(* A fork reads the records of a frontier. *)
LEMMA ForkReadsStep ==
  ASSUME BranchesInv, NEW c \in Clients, NEW source, NEW revision, NEW i \in Images, NEW n \in Names,
         ForkReads(c, source, revision, i, n)
  PROVE  BranchesInv'
<1>s. PICK start : start = Starts(c, i, n, "forking")
  OBVIOUS
<1>p. PICK plan : plan = [id \in Ids |-> Kept(At(source, revision)[id])]
  OBVIOUS
<1>n. PICK new : new = WithPlan(start, plan)
  OBVIOUS
<1>1. Goes(c, new) /\ UNCHANGED <<history, heads>>
  BY <1>s, <1>p, <1>n DEF ForkReads, WithPlan
<1>2. /\ start \in ClientStates(NoPlan) /\ start.pc = "forking" /\ start.image = i
      /\ start.target = 0 /\ start.from = NoHead
  BY <1>s, StartsTyped
<1>3. /\ new \in ClientStates(plan) /\ new.pc = "forking" /\ new.image = i
      /\ new.target = 0 /\ new.from = NoHead /\ new.plan = plan
  BY <1>n, <1>2, PlanUpdate
<1>4. clients'[c] = new BY <1>1, NewState
<1>5. Frontier(i) \in Nat /\ NoHead.revision = 0
  BY InvParts, LiveRecords DEF NoHead
<1>6. TargetsExist(c)' BY <1>1, <1>3, <1>4, <1>5 DEF TargetsExist, Frontier
<1>7. ClientIsSound(c)' BY <1>3, <1>4, <1>6, NotMerging
<1>8. QED BY <1>1, <1>3, <1>7, ReadsSound

(* A fork creates its image. *)
LEMMA ForkCreatesImageStep ==
  ASSUME BranchesInv, NEW c \in Clients, ForkCreatesImage(c)
  PROVE  BranchesInv'
<1> PICK me : me = clients[c]
  OBVIOUS
<1> PICK i \in Images : i = me.image
  BY InvParts, ClientFields
<1>0. HistoryTyped /\ HeadsTyped /\ HeadsAreRevisions /\ me \in ClientStates(me.plan)
      /\ TargetsExist(c) /\ me.target \in Nat /\ me.from.revision \in Nat
  BY InvParts, ClientFields
<1>1. CASE Existing(i)
  BY <1>1, EndsQuietly DEF ForkCreatesImage
<1>2. CASE ~Existing(i)
  <2>n. PICK new : new = WithPc(me, "filling")
    OBVIOUS
  <2>1. /\ Goes(c, new) /\ heads' = heads
        /\ history' = [history EXCEPT ![i] = <<Revision(Empty, "fork", NoPlan)>>]
    BY <1>2, <2>n DEF ForkCreatesImage, Turns, WithPc
  <2>2. history' = [history EXCEPT ![i] = Append(@, Revision(Empty, "fork", NoPlan))]
    <3>r. PICK r : r = Revision(Empty, "fork", NoPlan)
      OBVIOUS
    <3>1. history[i] = << >> BY <1>2 DEF Existing
    <3>2. Append(history[i], r) = <<r>> BY <3>1
    <3>3. QED BY <2>1, <3>r, <3>2
  <2>3. IsContent(Empty) BY DEF IsContent, Empty
  <2>4. HistoryStep /\ Frontier(i)' = Frontier(i) + 1
    BY <2>2, <2>3, <1>0, <1>2, HistoryCommits
  <2>5. HeadsStep BY <2>1, <2>4, <1>0, HeadsRest
  <2>6. /\ new \in ClientStates(me.plan) /\ new.pc = "filling" /\ new.image = i
        /\ new.target = me.target /\ new.from = me.from /\ new.plan = me.plan
    <3>1. "filling" \in ClientPcs BY DEF ClientPcs
    <3>2. QED BY <1>0, <2>n, <3>1, PcUpdate
  <2>7. clients'[c] = new BY <2>1, NewState
  <2>8. Frontier(i) \in Nat /\ Frontier(i)' \in Nat /\ Existing(i)'
    <3>1. Frontier(i) \in Nat BY <1>0, LiveRecords
    <3>2. IsHistory(history'[i]) BY <2>4 DEF HistoryStep, HistoryTyped
    <3>3. QED BY <3>1, <3>2, <2>4 DEF IsHistory, Existing, Frontier
  <2>9. TargetsExist(c)' BY <1>0, <2>4, <2>6, <2>7, <2>8 DEF TargetsExist
  <2>10. ClientIsSound(c)' BY <2>6, <2>7, <2>9, NotMerging
  <2>11. QED BY <2>1, <2>4, <2>5, <2>6, <2>10, StepOf
<1>3. QED BY <1>1, <1>2

(* A fork inserts its records, all or none. *)
LEMMA ForkFillsStep ==
  ASSUME BranchesInv, NEW c \in Clients, ForkFills(c)
  PROVE  BranchesInv'
<1> PICK me : me = clients[c]
  OBVIOUS
<1> PICK i \in Images : i = me.image
  BY InvParts, ClientFields
<1>f. PICK filled : filled = {id \in Ids : me.plan[id].record # NoRec}
  OBVIOUS
<1>0. HistoryTyped /\ HeadsTyped /\ HeadsAreRevisions /\ me \in ClientStates(me.plan)
      /\ TargetsExist(c) /\ me.from.revision \in Nat /\ me.pc = "filling"
  BY InvParts, ClientFields DEF ForkFills
<1>1. CASE \E id \in filled : EverStored(i, id)
  BY <1>f, <1>1, EndsQuietly DEF ForkFills
<1>2. CASE ~ \E id \in filled : EverStored(i, id)
  <2>c. PICK content : content = [id \in Ids |-> IF id \in filled THEN me.plan[id].record
                                                ELSE Live(i)[id]]
    OBVIOUS
  <2>n. PICK new : new = WithPcTargetPlan(me, "shaping", Len(history'[i]), NoPlan)
    OBVIOUS
  <2>1. /\ Goes(c, new) /\ heads' = heads /\ Commit(i, content, "fork", NoPlan)
    BY <1>f, <1>2, <2>c, <2>n DEF ForkFills, WithPcTargetPlan
  <2>2. IsContent(content) BY <2>c DEF IsContent
  <2>3. Succeeds(Live(i), Revision(content, "fork", NoPlan))
    BY DEF Succeeds, Revision
  <2>4. HistoryStep /\ Frontier(i)' = Frontier(i) + 1
    BY <2>1, <2>2, <2>3, <1>0, HistoryCommits DEF Commit
  <2>5. HeadsStep BY <2>1, <2>4, <1>0, HeadsRest
  <2>6. /\ Frontier(i) \in Nat /\ Frontier(i)' \in Nat /\ Existing(i)' /\ Frontier(i)' # 0
        /\ Len(history'[i]) = Frontier(i)'
    <3>1. Frontier(i) \in Nat BY <1>0, LiveRecords
    <3>2. IsHistory(history'[i]) BY <2>4 DEF HistoryStep, HistoryTyped
    <3>3. QED BY <3>1, <3>2, <2>4 DEF IsHistory, Existing, Frontier
  <2>7. /\ new \in ClientStates(NoPlan) /\ new.pc = "shaping" /\ new.image = i
        /\ new.target = Frontier(i)' /\ new.from = me.from /\ new.plan = NoPlan
    <3>1. "shaping" \in ClientPcs BY DEF ClientPcs
    <3>2. QED BY <1>0, <2>6, <2>n, <3>1, PcTargetPlanUpdate
  <2>8. clients'[c] = new BY <2>1, NewState
  <2>9. TargetsExist(c)'
    <3>1. me.from.revision <= Frontier(i) BY <1>0 DEF TargetsExist
    <3>2. QED BY <1>0, <3>1, <2>4, <2>6, <2>7, <2>8 DEF TargetsExist
  <2>10. EntryIsThePast(c)' BY <2>7, <2>8 DEF EntryIsThePast
  <2>11. ClientIsSound(c)' BY <2>7, <2>8, <2>9, <2>10, PlainSound
  <2>12. QED BY <2>1, <2>4, <2>5, <2>7, <2>11, StepOf
<1>3. QED BY <1>1, <1>2

----------------------------------------
(* What a plan says of one record. *)

(* A record that a plan removes is gone, and one that it neither writes    *)
(* nor removes is what the target branch has.                              *)
Fits(p, l) ==
  /\ p.remove => p.record = NoRec
  /\ p.conflict = "none" => p.write \/ p.remove \/ p.record = l

(* The four forms a plan of one record has. *)
LEMMA PlansOfOneRecord ==
  ASSUME NEW rec, NEW kind, NEW l
  PROVE  /\ Fits(Written(rec), l) /\ Fits(Removed, l) /\ Fits(Kept(l), l)
         /\ kind # "none" => Fits(Conflicting(rec, kind), l)
<1>1. ASSUME NEW r PROVE /\ Kept(r).record = r /\ ~Kept(r).write /\ ~Kept(r).remove
                         /\ Kept(r).conflict = "none"
  BY DEF Kept
<1>2. Fits(Kept(l), l) BY DEF Fits, Kept
<1>3. Written(rec).write /\ ~Written(rec).remove BY DEF Written, Kept
<1>4. Removed.record = NoRec /\ Removed.remove BY DEF Removed, Kept
<1>5. Conflicting(rec, kind).conflict = kind /\ ~Conflicting(rec, kind).remove
  BY DEF Conflicting, Kept
<1>6. QED BY <1>2, <1>3, <1>4, <1>5 DEF Fits

(* mergeObjectRecordThreeWay and mergeLexicalEnvironmentRecordThreeWay     *)
(* write a record or report a conflict of its kind.                        *)
LEMMA StructuredFits ==
  ASSUME NEW b, NEW l, NEW r, b.kind \in Structured
  PROVE  Fits(MergeStructured(b, l, r), l)
<1>1. b.kind # "none" BY DEF Structured
<1>2. \E rec : MergeStructured(b, l, r) \in {Conflicting(rec, b.kind), Written(rec)}
  BY DEF MergeStructured
<1>3. QED BY <1>1, <1>2, PlansOfOneRecord

(* The five cases of mergeImageRecords. *)
LEMMA PlanRecordFits ==
  ASSUME NEW b, NEW l, NEW r
  PROVE  Fits(PlanRecord(b, l, r), l)
<1>1. CASE b = NoRec
  <2>1. PlanRecord(b, l, r) = PlanAdded(l, r) BY <1>1 DEF PlanRecord
  <2>2. \/ PlanAdded(l, r) = Kept(NoRec) /\ l = NoRec
        \/ PlanAdded(l, r) \in {Written(l), Written(r), Conflicting(NoRec, "add-add")}
    BY DEF PlanAdded
  <2>3. QED BY <2>1, <2>2, PlansOfOneRecord
<1>2. CASE b # NoRec /\ l = NoRec /\ r = NoRec
  BY <1>2, PlansOfOneRecord DEF PlanRecord
<1>3. CASE b # NoRec /\ ((l = NoRec) # (r = NoRec))
  <2>1. \E m : PlanRecord(b, l, r) = PlanDeleted(b, m) BY <1>3 DEF PlanRecord
  <2>2. \A m : PlanDeleted(b, m) \in {Removed, Conflicting(b, "delete-modify")}
    BY DEF PlanDeleted
  <2>3. QED BY <2>1, <2>2, PlansOfOneRecord
<1>4. CASE b # NoRec /\ l # NoRec /\ r # NoRec
  <2>1. PlanRecord(b, l, r) = PlanModified(b, l, r) BY <1>4 DEF PlanRecord
  <2>2. \/ PlanModified(b, l, r) = Kept(b) /\ l = b
        \/ PlanModified(b, l, r) \in {Written(l), Written(r), Conflicting(b, "kind-conflict"),
                                      Conflicting(b, "record-conflict")}
        \/ PlanModified(b, l, r) = MergeStructured(b, l, r) /\ b.kind \in Structured
    BY DEF PlanModified
  <2>3. QED BY <2>1, <2>2, PlansOfOneRecord, StructuredFits
<1>5. QED BY <1>1, <1>2, <1>3, <1>4

(* And applyConflictResolution. *)
LEMMA ResolvedFits ==
  ASSUME NEW b, NEW l, NEW r, NEW resolution
  PROVE  Fits(Resolve(PlanRecord(b, l, r), b, l, r, resolution), l)
<1> PICK p : p = PlanRecord(b, l, r)
  OBVIOUS
<1>1. \/ Resolve(p, b, l, r, resolution) = p
      \/ Resolve(p, b, l, r, resolution) = Removed
      \/ \E rec : Resolve(p, b, l, r, resolution) = Written(rec)
  BY DEF Resolve
<1>2. QED BY <1>1, PlanRecordFits, PlansOfOneRecord

----------------------------------------
(* The steps of mergeBranches. *)

(* mergeBranches plans: what the plan leaves alone is the branch's. *)
LEMMA MergePlansStep ==
  ASSUME BranchesInv, NEW c \in Clients, NEW source \in Images, NEW n \in Names, NEW base,
         NEW resolution, NEW allowConflicts,
         MergePlans(c, source, n, base, resolution, allowConflicts)
  PROVE  BranchesInv'
<1> PICK me : me = clients[c]
  OBVIOUS
<1>h. PICK right : right = heads[source][n]
  OBVIOUS
<1>b. PICK baseRev : baseRev = IF base # 0 THEN base ELSE DefaultBase(right, me.from)
  OBVIOUS
<1>p. PICK plan :
        plan = [id \in Ids |->
                  Resolve(PlanRecord(At(me.image, baseRev)[id], At(me.image, me.from.revision)[id],
                                     At(source, right.revision)[id]),
                          At(me.image, baseRev)[id], At(me.image, me.from.revision)[id],
                          At(source, right.revision)[id], resolution)]
  OBVIOUS
<1>w. PICK writes : writes = {id \in Ids : plan[id].write}
  OBVIOUS
<1>t. PICK goal : goal = IF source = me.image /\ baseRev = me.from.revision
                             THEN right.revision ELSE 0
  OBVIOUS
<1>n. PICK new : new = WithPcPlanPendingTarget(me, "planned", plan, writes, goal)
  OBVIOUS
<1>0. /\ me \in ClientStates(me.plan) /\ me.image \in Images /\ me.from.revision \in Nat
      /\ me.pc = "merging"
  BY InvParts, ClientFields DEF MergePlans
<1>1. /\ UNCHANGED <<history, heads>>
      /\ Ends(c) \/ Goes(c, new)
  BY <1>h, <1>b, <1>p, <1>w, <1>t, <1>n DEF MergePlans, WithPcPlanPendingTarget
<1>2. CASE Ends(c)
  BY <1>1, <1>2, EndsQuietly
<1>3. CASE Goes(c, new)
  <2>1. goal \in Nat /\ goal <= Frontier(me.image)
    <3>1. /\ right.revision \in Nat /\ right.revision <= Frontier(source)
          /\ Frontier(me.image) \in Nat
      BY <1>0, <1>h, InvParts, LiveRecords DEF HeadsTyped, BranchHead, HeadsAreRevisions
    <3>2. QED BY <1>t, <3>1
  <2>2. /\ new \in ClientStates(plan) /\ new.pc = "planned" /\ new.image = me.image
        /\ new.from = me.from /\ new.plan = plan /\ new.pending = writes /\ new.target = goal
        /\ new.token = me.token
    <3>1. "planned" \in ClientPcs /\ writes \in SUBSET Ids BY <1>w DEF ClientPcs
    <3>2. QED BY <1>0, <1>n, <2>1, <3>1, PcPlanPendingTargetUpdate
  <2>3. clients'[c] = new BY <1>3, NewState
  <2>4. TargetsExist(c)'
    BY <1>0, <1>1, <2>1, <2>2, <2>3, InvParts DEF TargetsExist, Existing, Frontier
  <2>5. EntryIsThePast(c)' BY <1>0, <2>2, <2>3, InvParts DEF EntryIsThePast
  <2>6. Suits(plan, At(me.image, me.from.revision))
    <3> SUFFICES ASSUME NEW id \in Ids
                 PROVE  /\ plan[id].remove => plan[id].record = NoRec
                        /\ plan[id].conflict = "none" =>
                             Flagged(plan, id) \/ plan[id].record = At(me.image, me.from.revision)[id]
      BY DEF Suits
    <3>1. PICK l : l = At(me.image, me.from.revision)[id]
      OBVIOUS
    <3>2. Fits(plan[id], l) BY <1>p, <3>1, ResolvedFits
    <3>3. QED BY <3>1, <3>2 DEF Fits, Flagged
  <2>7. PlanIsSound(c)'
    <3>1. me.from.revision # 0 BY <1>0, InvParts DEF TargetsExist
    <3>2. QED BY <1>1, <2>2, <2>3, <2>6, <3>1 DEF PlanIsSound, At
  <2>8. PendingAreWrites(c)' BY <1>w, <2>2, <2>3 DEF PendingAreWrites
  <2>9. ClientIsSound(c)'
    BY <2>2, <2>3, <2>4, <2>5, <2>7, <2>8 DEF ClientIsSound, Applied, TargetHoldsThePlan
  <2>10. QED BY <1>1, <1>3, <2>2, <2>9, ReadsSound
<1>4. QED BY <1>1, <1>2, <1>3

(* What an undisturbed image has since the target branch's revision. *)
LEMMA SinceFrom ==
  ASSUME BranchesInv, NEW c \in Clients, Undisturbed(c),
         NEW i \in Images, i = clients[c].image, NEW plan, plan = clients[c].plan,
         clients[c].from.revision # 0, NEW id \in Ids
  PROVE  \/ Live(i)[id] = At(i, clients[c].from.revision)[id]
         \/ Flagged(plan, id) /\ Live(i)[id] = plan[id].record
<1> PICK r \in Nat : r = clients[c].from.revision
  BY InvParts, ClientFields
<1> PICK f \in Nat : f = Frontier(i)
  BY InvParts, LiveRecords
<1>1. r # 0 /\ r <= f BY InvParts DEF TargetsExist
<1>2. Live(i) = At(i, f) BY <1>1, LiveIsLast
<1>3. \/ At(i, f)[id] = At(i, r)[id]
      \/ \E m \in r + 1 .. f : Explains(history[i][m], id, At(i, f)[id])
  BY <1>1, InvParts DEF ChangesAreExplained
<1>4. ASSUME NEW m \in r + 1 .. f, Explains(history[i][m], id, At(i, f)[id])
      PROVE  Flagged(plan, id) /\ At(i, f)[id] = plan[id].record
  <2>1. \/ history[i][m].by = "branch"
        \/ history[i][m].by = "merge" /\ history[i][m].plan = plan
    BY DEF Undisturbed
  <2>2. QED BY <1>4, <2>1 DEF Explains
<1>5. QED BY <1>2, <1>3, <1>4

(* mergeBranches decides whether a plain advance will do. *)
LEMMA MergeDecidesStep ==
  ASSUME BranchesInv, NEW c \in Clients, MergeDecides(c)
  PROVE  BranchesInv'
<1> PICK me : me = clients[c]
  OBVIOUS
<1> PICK i \in Images : i = me.image
  BY InvParts, ClientFields
<1>0. /\ me \in ClientStates(me.plan) /\ me.from.revision \in Nat /\ me.target \in Nat
      /\ me.pc = "planned" /\ UNCHANGED <<history, heads>>
      /\ TargetsExist(c) /\ me.from.revision # 0 /\ Frontier(i) \in Nat
  BY InvParts, ClientFields, LiveRecords DEF MergeDecides, TargetsExist
<1>f. PICK fast : fast = (me.target >= me.from.revision /\ Frontier(i) = me.target)
  OBVIOUS
<1>1. CASE fast
  <2>n. PICK new : new = WithPcPlanPending(me, "advancing", NoPlan, {})
    OBVIOUS
  <2>1. Goes(c, new) BY <1>f, <1>1, <2>n DEF MergeDecides, WithPcPlanPending
  <2>2. /\ new \in ClientStates(NoPlan) /\ new.pc = "advancing" /\ new.image = i /\ new.name = me.name
        /\ new.from = me.from /\ new.plan = NoPlan /\ new.target = me.target /\ new.token = me.token
    <3>1. "advancing" \in ClientPcs /\ {} \in SUBSET Ids BY DEF ClientPcs
    <3>2. QED BY <1>0, <2>n, <3>1, PcPlanPendingUpdate
  <2>3. clients'[c] = new BY <2>1, NewState
  <2>4. TargetsExist(c)'
    BY <1>0, <2>2, <2>3 DEF TargetsExist, Existing, Frontier
  <2>5. EntryIsThePast(c)'
    <3>1. me.token = 0 /\ me.name \in Names
      BY <1>0, InvParts, ClientFields DEF EntryIsThePast
    <3>2. heads[i][me.name].version \in Nat /\ heads' = heads
      BY <1>0, <3>1, InvParts DEF HeadsTyped, BranchHead
    <3>3. QED BY <2>2, <2>3, <3>1, <3>2 DEF EntryIsThePast
  <2>6. ClientIsSound(c)' BY <2>2, <2>3, <2>4, <2>5, PlainSound
  <2>7. QED BY <1>0, <2>1, <2>2, <2>6, ReadsSound
<1>2. CASE ~fast
  <2>n. PICK new : new = WithPcForceTarget(me, "applying", TRUE, 0)
    OBVIOUS
  <2>1. Goes(c, new) BY <1>f, <1>2, <2>n DEF MergeDecides, WithPcForceTarget
  <2>2. /\ new \in ClientStates(me.plan) /\ new.pc = "applying" /\ new.image = i
        /\ new.from = me.from /\ new.plan = me.plan /\ new.target = 0 /\ new.token = me.token
        /\ new.pending = me.pending
    <3>1. "applying" \in ClientPcs BY DEF ClientPcs
    <3>f. PICK force \in BOOLEAN : force = TRUE
      OBVIOUS
    <3>n. new = WithPcForceTarget(me, "applying", force, 0) BY <2>n, <3>f
    <3>2. QED BY <1>0, <3>n, <3>1, PcForceTargetUpdate
  <2>3. clients'[c] = new BY <2>1, NewState
  <2>m. SameMerge(c) /\ HistoryStep
    BY <1>0, <2>2, <2>3, InvParts, HistoryRests DEF SameMerge
  <2>4. TargetsExist(c)'
    BY <1>0, <2>2, <2>3 DEF TargetsExist, Existing, Frontier
  <2>5. EntryIsThePast(c)' BY <1>0, <2>2, <2>3, InvParts DEF EntryIsThePast
  <2>6. PlanIsSound(c)' BY <1>0, <2>m, InvParts, PlanStays DEF Planning
  <2>7. PendingAreWrites(c)' BY <1>0, <2>2, <2>3, InvParts DEF PendingAreWrites
  <2>8. Applied(c)'
    <3> SUFFICES ASSUME me.plan # NoPlan, Undisturbed(c)',
                        NEW id \in Ids, me.plan[id].conflict = "none"
                 PROVE  \/ Live(i)'[id] = me.plan[id].record
                        \/ me.plan[id].remove \/ id \in me.pending
      BY <2>2, <2>3 DEF Applied
    <3>1. Undisturbed(c) /\ Live(i)' = Live(i)
      BY <1>0, <2>m, InvParts, UndisturbedBefore DEF Live
    <3>2. PICK content : content = At(i, me.from.revision)
      OBVIOUS
    <3>3. Suits(me.plan, content)
      BY <1>0, <3>2, InvParts DEF PlanIsSound, Planning
    <3>4. Live(i)[id] = content[id] \/ (Flagged(me.plan, id) /\ Live(i)[id] = me.plan[id].record)
      BY <1>0, <3>1, <3>2, SinceFrom
    <3>5. CASE Flagged(me.plan, id)
      BY <1>0, <3>5, InvParts DEF Flagged, PendingAreWrites
    <3>6. CASE ~Flagged(me.plan, id)
      BY <3>1, <3>3, <3>4, <3>6 DEF Suits
    <3>7. QED BY <3>5, <3>6
  <2>9. ClientIsSound(c)'
    BY <2>2, <2>3, <2>4, <2>5, <2>6, <2>7, <2>8 DEF ClientIsSound, TargetHoldsThePlan
  <2>10. QED BY <1>0, <2>1, <2>2, <2>9, ReadsSound
<1>3. QED BY <1>1, <1>2

----------------------------------------
(* Records are written one by one, and what a plan removes goes at once.    *)
(* A set of ids that is not empty has one that applyImageMerge takes next. *)
LEMMA LeastId ==
  ASSUME NEW S, S \subseteq Nat, S # {}
  PROVE  \E a \in S : \A b \in S : a <= b
<1>1. PICK a \in S : \A b \in S : ~ (<<b, a>> \in OpToRel(<, Nat))
  BY NatLessThanWellFounded, WFMin
<1>2. \A b \in S : ~ (b < a) BY <1>1 DEF OpToRel
<1>3. QED BY <1>2

(* The order of kinds, and of ids within a kind, has a first. *)
LEMMA NextExists ==
  ASSUME NEW plan, NEW S, S \subseteq Ids, S # {}
  PROVE  \E a \in S : \A b \in S : Precedes(a, b, plan)
<1>k. PICK order : order = [a \in S |-> KindOrder(plan[a].record.kind)]
  OBVIOUS
<1>1. \A a \in S : order[a] = KindOrder(plan[a].record.kind) /\ order[a] \in {2, 3, 5} /\ a \in Nat
  BY <1>k, BranchesAssumption DEF KindOrder
<1>2. \E m \in {2, 3, 5} : (\E a \in S : order[a] = m) /\ (\A a \in S : m <= order[a])
  <2>1. CASE \E a \in S : order[a] = 2
    BY <1>1, <2>1
  <2>2. CASE (\A a \in S : order[a] # 2) /\ \E a \in S : order[a] = 3
    BY <1>1, <2>2
  <2>3. CASE \A a \in S : order[a] # 2 /\ order[a] # 3
    BY <1>1, <2>3
  <2>4. QED BY <2>1, <2>2, <2>3
<1>3. PICK m \in {2, 3, 5} : (\E a \in S : order[a] = m) /\ (\A a \in S : m <= order[a])
  BY <1>2
<1>4. PICK a \in {x \in S : order[x] = m} : \A b \in {x \in S : order[x] = m} : a <= b
  BY <1>1, <1>3, LeastId
<1>5. ASSUME NEW b \in S PROVE order[a] < order[b] \/ (order[a] = order[b] /\ a <= b)
  <2>1. CASE order[b] = m
    BY <2>1, <1>4
  <2>2. CASE order[b] # m
    BY <2>2, <1>1, <1>3, <1>4
  <2>3. QED BY <2>1, <2>2
<1>6. QED BY <1>1, <1>4, <1>5 DEF Precedes

(* A record written or removed as a merge's plan says. *)
LEMMA MergeCommits ==
  ASSUME BranchesInv, NEW i \in Images, Existing(i), NEW content, NEW plan,
         IsContent(content), Commit(i, content, "merge", plan),
         \A id \in Ids : content[id] = Live(i)[id] \/ (Flagged(plan, id) /\ content[id] = plan[id].record)
  PROVE  HistoryStep /\ Live(i)' = content
<1>r. PICK r : r = Revision(content, "merge", plan)
  OBVIOUS
<1>1. r.content = content /\ r.by = "merge" /\ r.plan = plan
  BY <1>r DEF Revision
<1>2. HistoryTyped BY InvParts
<1>3. Succeeds(Live(i), Revision(content, "merge", plan))
  BY <1>1, <1>r DEF Succeeds
<1>4. history' = [history EXCEPT ![i] = Append(@, Revision(content, "merge", plan))]
  BY DEF Commit
<1>5. QED BY <1>2, <1>3, <1>4, HistoryCommits

(* A client whose merge goes on with a write, or without one. *)
LEMMA ApplyingGoesOn ==
  ASSUME BranchesInv, NEW c \in Clients, NEW i \in Images, i = clients[c].image,
         HistoryStep, heads' = heads, SameMerge(c), clients[c].pc = "applying",
         clients'[c].pc \in {"applying", "swept", "notFound"},
         clients'[c].target = clients[c].target, clients'[c].token = clients[c].token
  PROVE  /\ TargetsExist(c)' /\ EntryIsThePast(c)' /\ PlanIsSound(c)' /\ TargetHoldsThePlan(c)'
         /\ Undisturbed(c)' => Undisturbed(c)
<1> PICK me : me = clients[c]
  OBVIOUS
<1> PICK r \in Nat : r = me.from.revision
  BY InvParts, ClientFields
<1>1. /\ Frontier(i) \in Nat /\ Frontier(i)' \in Nat /\ Frontier(i) <= Frontier(i)'
  BY DEF HistoryStep, Grows
<1>2. Existing(i) /\ me.target <= Frontier(i) /\ r # 0 /\ r <= Frontier(i) /\ me.target \in Nat
      /\ TargetsExist(c) /\ me.token = 0 /\ PlanIsSound(c)
  BY InvParts, ClientFields DEF TargetsExist, EntryIsThePast
<1>3. Existing(i)'
  BY <1>1, <1>2, InvParts, LiveRecords DEF HistoryStep, Existing, Frontier, HistoryTyped, IsHistory
<1>4. TargetsExist(c)' BY <1>1, <1>2, <1>3 DEF TargetsExist, SameMerge
<1>5. EntryIsThePast(c)' BY <1>2 DEF EntryIsThePast
<1>6. PlanIsSound(c)' BY <1>2, InvParts, PlanStays DEF Planning
<1>7. TargetHoldsThePlan(c)' BY DEF TargetHoldsThePlan
<1>8. Undisturbed(c)' => Undisturbed(c) BY InvParts, UndisturbedBefore
<1>9. QED BY <1>4, <1>5, <1>6, <1>7, <1>8

(* applyImageMerge writes the next record, or is refused. *)
LEMMA ApplyNextStep ==
  ASSUME BranchesInv, NEW c \in Clients, ApplyNext(c)
  PROVE  BranchesInv'
<1> PICK me : me = clients[c]
  OBVIOUS
<1> PICK i \in Images : i = me.image
  BY InvParts, ClientFields
<1>i. PICK id : id = CHOOSE a \in me.pending : \A b \in me.pending : Precedes(a, b, me.plan)
  OBVIOUS
<1>r. PICK rec : rec = me.plan[id].record
  OBVIOUS
<1>n. PICK new : new = WithPending(me, me.pending \ {id})
  OBVIOUS
<1>0. /\ me \in ClientStates(me.plan) /\ me.pending \subseteq Ids /\ me.pc = "applying"
      /\ me.pending # {} /\ heads' = heads /\ Existing(i) /\ HistoryTyped /\ HeadsTyped
      /\ HeadsAreRevisions
  BY InvParts, ClientFields DEF ApplyNext, TargetsExist
<1>1. id \in me.pending BY <1>0, <1>i, NextExists
<1>2. \/ Ends(c) /\ UNCHANGED history
      \/ Goes(c, new) /\ Live(i)[id] = rec /\ UNCHANGED history
      \/ Goes(c, new) /\ Commit(i, [Live(i) EXCEPT ![id] = rec], "merge", me.plan)
  BY <1>i, <1>r, <1>n DEF ApplyNext, WithPending
<1>3. CASE Ends(c) /\ UNCHANGED history
  BY <1>0, <1>3, EndsQuietly
<1>4. CASE /\ Goes(c, new)
           /\ \/ Live(i)[id] = rec /\ UNCHANGED history
              \/ Commit(i, [Live(i) EXCEPT ![id] = rec], "merge", me.plan)
  <2>1. /\ new \in ClientStates(me.plan) /\ new.pc = "applying" /\ new.image = i
        /\ new.from = me.from /\ new.plan = me.plan /\ new.target = me.target
        /\ new.token = me.token /\ new.pending = me.pending \ {id}
    <3>1. me.pending \ {id} \in SUBSET Ids BY <1>0
    <3>2. QED BY <1>0, <1>n, <3>1, PendingUpdate
  <2>2. clients'[c] = new BY <1>4, NewState
  <2>3. id \in Ids /\ me.plan[id].write
    BY <1>0, <1>1, InvParts DEF PendingAreWrites
  <2>4. /\ HistoryStep /\ Live(i)'[id] = rec
        /\ \A x \in Ids \ {id} : Live(i)'[x] = Live(i)[x]
    <3>1. CASE Live(i)[id] = rec /\ UNCHANGED history
      BY <3>1, <1>0, HistoryRests DEF Live
    <3>2. CASE Commit(i, [Live(i) EXCEPT ![id] = rec], "merge", me.plan)
      <4>c. PICK content : content = [Live(i) EXCEPT ![id] = rec]
        OBVIOUS
      <4>1. IsContent(Live(i)) BY <1>0, LiveRecords
      <4>2. IsContent(content) /\ content[id] = rec /\ \A x \in Ids \ {id} : content[x] = Live(i)[x]
        BY <2>3, <4>c, <4>1 DEF IsContent
      <4>3. \A x \in Ids : content[x] = Live(i)[x] \/ (Flagged(me.plan, x) /\ content[x] = me.plan[x].record)
        BY <1>r, <2>3, <4>2 DEF Flagged
      <4>p. PICK plan : plan = me.plan
        OBVIOUS
      <4>q. /\ Commit(i, content, "merge", plan)
            /\ \A x \in Ids : content[x] = Live(i)[x] \/ (Flagged(plan, x) /\ content[x] = plan[x].record)
        BY <3>2, <4>c, <4>3, <4>p
      <4>4. HistoryStep /\ Live(i)' = content BY <1>0, <4>2, <4>q, MergeCommits
      <4>5. QED BY <4>2, <4>4
    <3>3. QED BY <1>4, <3>1, <3>2
  <2>5. HeadsStep BY <1>0, <2>4, HeadsRest
  <2>6. SameMerge(c) BY <2>1, <2>2 DEF SameMerge
  <2>7. /\ TargetsExist(c)' /\ EntryIsThePast(c)' /\ PlanIsSound(c)' /\ TargetHoldsThePlan(c)'
        /\ Undisturbed(c)' => Undisturbed(c)
    BY <1>0, <2>1, <2>2, <2>4, <2>6, ApplyingGoesOn
  <2>8. PendingAreWrites(c)' BY <1>0, <2>1, <2>2, InvParts DEF PendingAreWrites
  <2>9. Applied(c)'
    <3> SUFFICES ASSUME me.plan # NoPlan, Undisturbed(c)',
                        NEW x \in Ids, me.plan[x].conflict = "none"
                 PROVE  \/ Live(i)'[x] = me.plan[x].record
                        \/ me.plan[x].remove \/ x \in me.pending \ {id}
      BY <2>1, <2>2 DEF Applied
    <3>1. Live(i)[x] = me.plan[x].record \/ me.plan[x].remove \/ x \in me.pending
      BY <1>0, <2>7, InvParts DEF Applied
    <3>2. QED BY <1>r, <2>4, <3>1
  <2>10. ClientIsSound(c)' BY <2>7, <2>8, <2>9 DEF ClientIsSound
  <2>11. QED BY <1>4, <2>1, <2>4, <2>5, <2>10, StepOf
<1>5. QED BY <1>2, <1>3, <1>4

----------------------------------------
(* What a merge removes, and the revision it ends at. *)

(* applyImageMerge removes what the plan removes, all at once. *)
LEMMA MergeSweepsStep ==
  ASSUME BranchesInv, NEW c \in Clients, MergeSweeps(c)
  PROVE  BranchesInv'
<1> PICK me : me = clients[c]
  OBVIOUS
<1> PICK i \in Images : i = me.image
  BY InvParts, ClientFields
<1>r. PICK removed : removed = {id \in Ids : me.plan[id].remove}
  OBVIOUS
<1>c. PICK content : content = [id \in Ids |-> IF id \in removed THEN NoRec ELSE Live(i)[id]]
  OBVIOUS
<1>0. /\ me \in ClientStates(me.plan) /\ me.pc = "applying" /\ me.pending = {}
      /\ heads' = heads /\ Existing(i) /\ HistoryTyped /\ HeadsTyped /\ HeadsAreRevisions
  BY InvParts, ClientFields DEF MergeSweeps, TargetsExist
<1>1. \/ Goes(c, WithPc(me, "notFound")) /\ UNCHANGED history
      \/ Goes(c, WithPc(me, "swept")) /\ removed = {} /\ UNCHANGED history
      \/ Goes(c, WithPc(me, "swept")) /\ Commit(i, content, "merge", me.plan)
  BY <1>r, <1>c DEF MergeSweeps, SweepRemoved, Turns, WithPc
<1>2. PICK pc \in {"notFound", "swept"} :
        /\ Goes(c, WithPc(me, pc))
        /\ \/ UNCHANGED history /\ (pc = "notFound" \/ removed = {})
           \/ Commit(i, content, "merge", me.plan)
  BY <1>1
<1>n. PICK new : new = WithPc(me, pc)
  OBVIOUS
<1>3. /\ new \in ClientStates(me.plan) /\ new.pc = pc /\ new.image = i
      /\ new.from = me.from /\ new.plan = me.plan /\ new.target = me.target
      /\ new.token = me.token /\ new.pending = {}
  <2>1. pc \in ClientPcs BY DEF ClientPcs
  <2>2. QED BY <1>0, <1>n, <2>1, PcUpdate
<1>4. clients'[c] = new BY <1>2, <1>n, NewState
<1>f. me.plan # NoPlan => \A id \in removed : me.plan[id].record = NoRec
  BY <1>0, <1>r, InvParts DEF PlanIsSound, Planning, Suits
<1>p. removed = {} \/ me.plan # NoPlan BY <1>r DEF NoPlan, Kept
<1>5. /\ HistoryStep
      /\ pc = "swept" => \A id \in Ids : Live(i)'[id] = IF id \in removed THEN NoRec ELSE Live(i)[id]
  <2>1. CASE UNCHANGED history /\ (pc = "notFound" \/ removed = {})
    BY <2>1, <1>0, HistoryRests DEF Live
  <2>2. CASE Commit(i, content, "merge", me.plan)
    <3>p. PICK plan : plan = me.plan
      OBVIOUS
    <3>1. \A id \in Ids : content[id] = Live(i)[id] \/ (Flagged(plan, id) /\ content[id] = plan[id].record)
      BY <1>c, <1>f, <1>p, <1>r, <3>p DEF Flagged
    <3>2. IsContent(content) /\ Commit(i, content, "merge", plan)
      BY <1>c, <2>2, <3>p DEF IsContent
    <3>3. HistoryStep /\ Live(i)' = content BY <1>0, <3>1, <3>2, MergeCommits
    <3>4. QED BY <1>c, <3>3
  <2>3. QED BY <1>2, <2>1, <2>2
<1>6. HeadsStep BY <1>0, <1>5, HeadsRest
<1>7. SameMerge(c) BY <1>3, <1>4 DEF SameMerge
<1>8. /\ TargetsExist(c)' /\ EntryIsThePast(c)' /\ PlanIsSound(c)' /\ TargetHoldsThePlan(c)'
      /\ Undisturbed(c)' => Undisturbed(c)
  BY <1>0, <1>3, <1>4, <1>5, <1>7, ApplyingGoesOn
<1>9. Applied(c)'
  <2> SUFFICES ASSUME pc = "swept", me.plan # NoPlan, Undisturbed(c)',
                      NEW id \in Ids, me.plan[id].conflict = "none"
               PROVE  Live(i)'[id] = me.plan[id].record
    BY <1>3, <1>4 DEF Applied
  <2>1. Live(i)[id] = me.plan[id].record \/ me.plan[id].remove
    BY <1>0, <1>8, InvParts DEF Applied
  <2>2. QED BY <1>5, <1>f, <1>r, <2>1
<1>10. PendingAreWrites(c)' BY <1>3, <1>4 DEF PendingAreWrites
<1>11. ClientIsSound(c)' BY <1>8, <1>9, <1>10 DEF ClientIsSound
<1>12. QED BY <1>2, <1>n, <1>3, <1>5, <1>6, <1>11, StepOf

(* mergeBranches advances its branch to the frontier it finds. *)
LEMMA MergeFrontierStep ==
  ASSUME BranchesInv, NEW c \in Clients, MergeFrontier(c)
  PROVE  BranchesInv'
<1> PICK me : me = clients[c]
  OBVIOUS
<1> PICK i \in Images : i = me.image
  BY InvParts, ClientFields
<1> PICK f : f = Frontier(i)
  OBVIOUS
<1>n. PICK new : new = WithPcTarget(me, "advancing", f)
  OBVIOUS
<1>0. /\ me \in ClientStates(me.plan) /\ me.pc = "swept" /\ me.name \in Names
      /\ UNCHANGED <<history, heads>> /\ TargetsExist(c) /\ f \in Nat /\ me.token = 0
      /\ me.from.revision \in Nat
  BY InvParts, ClientFields, LiveRecords DEF MergeFrontier, EntryIsThePast
<1>1. Goes(c, new) BY <1>n DEF MergeFrontier, WithPcTarget
<1>2. /\ new \in ClientStates(me.plan) /\ new.pc = "advancing" /\ new.image = i /\ new.name = me.name
      /\ new.from = me.from /\ new.plan = me.plan /\ new.target = f /\ new.token = 0
  <2>1. "advancing" \in ClientPcs BY DEF ClientPcs
  <2>2. QED BY <1>0, <1>n, <2>1, PcTargetUpdate
<1>3. clients'[c] = new BY <1>1, NewState
<1>4. Existing(i) /\ me.from.revision # 0 /\ me.from.revision <= f /\ f # 0
  BY <1>0 DEF TargetsExist
<1>5. SameMerge(c) /\ HistoryStep
  BY <1>0, <1>2, <1>3, InvParts, HistoryRests DEF SameMerge
<1>6. TargetsExist(c)'
  BY <1>0, <1>2, <1>3, <1>4 DEF TargetsExist, Existing, Frontier
<1>7. EntryIsThePast(c)'
  <2>1. heads[i][me.name].version \in Nat
    BY <1>0, InvParts DEF HeadsTyped, BranchHead
  <2>2. QED BY <1>0, <1>2, <1>3, <2>1 DEF EntryIsThePast
<1>8. PlanIsSound(c)' BY <1>0, <1>5, InvParts, PlanStays DEF Planning
<1>9. TargetHoldsThePlan(c)'
  <2> SUFFICES ASSUME me.plan # NoPlan, Undisturbed(c)'
               PROVE  Holds(At(i, f)', me.plan)
    BY <1>2, <1>3, <1>4 DEF TargetHoldsThePlan
  <2>1. Undisturbed(c) BY <1>5, InvParts, UndisturbedBefore
  <2>2. \A id \in Ids : me.plan[id].conflict = "none" => Live(i)[id] = me.plan[id].record
    BY <1>0, <2>1, InvParts DEF Applied
  <2>3. At(i, f)' = Live(i)
    <3>1. Live(i) = At(i, f) BY <1>0, <1>4, LiveIsLast
    <3>2. QED BY <1>0, <3>1 DEF At
  <2>4. QED BY <2>2, <2>3 DEF Holds
<1>10. ClientIsSound(c)'
  BY <1>2, <1>3, <1>6, <1>7, <1>8, <1>9 DEF ClientIsSound, PendingAreWrites, Applied
<1>11. QED BY <1>0, <1>1, <1>2, <1>10, ReadsSound

----------------------------------------
(* The two facts of an inductive invariant, and what follows from it. *)

(* The history an image begins with. *)
LEMMA BeginningIsHistory ==
  ASSUME NEW a, NEW b, IsContent(a), IsContent(b), NEW s,
         s = <<Revision(a, "edit", NoPlan), Revision(b, "edit", NoPlan), Revision(b, "branch", NoPlan),
               Revision(b, "branch", NoPlan)>>
  PROVE  /\ IsHistory(s) /\ Len(s) = 4
         /\ s[1].by = "edit" /\ s[2].by = "edit"
         /\ s[2].content = b /\ s[3].content = b /\ s[4].content = b
<1>x. PICK x : x = Revision(a, "edit", NoPlan)
  OBVIOUS
<1>y. PICK y : y = Revision(b, "edit", NoPlan)
  OBVIOUS
<1>z. PICK z : z = Revision(b, "branch", NoPlan)
  OBVIOUS
<1>1. IsRevision(x) /\ IsRevision(y) /\ IsRevision(z)
  BY <1>x, <1>y, <1>z DEF IsRevision, Revision
<1>2. x.by = "edit" /\ y.by = "edit" /\ y.content = b /\ z.content = b
  BY <1>x, <1>y, <1>z DEF Revision
<1>3. s = <<x, y, z, z>> BY <1>x, <1>y, <1>z
<1>4. Len(s) = 4 /\ s[1] = x /\ s[2] = y /\ s[3] = z /\ s[4] = z BY <1>3
<1>5. s \in Seq({s[k] : k \in 1..Len(s)})
  <2>1. \A j \in 1..4 : s[j] \in {s[k] : k \in 1..4} OBVIOUS
  <2>2. s \in Seq({s[k] : k \in 1..4}) BY <1>3, <1>4, <2>1
  <2>3. QED BY <1>4, <2>2
<1>6. \A k \in 1..Len(s) : IsRevision(s[k])
  <2> SUFFICES ASSUME NEW k \in 1..4 PROVE IsRevision(s[k])
    BY <1>4
  <2>1. k = 1 \/ k = 2 \/ k = 3 \/ k = 4 OBVIOUS
  <2>2. QED BY <1>1, <1>4, <2>1
<1>7. QED BY <1>2, <1>4, <1>5, <1>6 DEF IsHistory

(* The image has two revisions and a branch, and every client rests. *)
LEMMA Initially == BranchesInit => BranchesInv
<1> SUFFICES ASSUME BranchesInit PROVE BranchesInv
  OBVIOUS
<1> PICK start \in Beginnings, revision \in 1..2 :
      /\ history = [i \in Images |-> IF i # Home THEN << >> ELSE
                      <<Revision(start[1], "edit", NoPlan), Revision(start[2], "edit", NoPlan),
                        Revision(start[2], "branch", NoPlan), Revision(start[2], "branch", NoPlan)>>]
      /\ heads = [i \in Images |-> [n \in Names |->
                    IF i = Home THEN [version |-> 1, revision |-> revision, parent |-> 0] ELSE NoHead]]
  BY DEF BranchesInit
<1>a. PICK a : a = start[1]
  OBVIOUS
<1>b. PICK b : b = start[2]
  OBVIOUS
<1>1. IsContent(a) /\ IsContent(b)
  BY <1>a, <1>b, BranchesAssumption DEF IsContent
<1>2. Home \in Images BY BranchesAssumption DEF Home
<1>3. /\ history = [i \in Images |-> history[i]]
      /\ \A i \in Images \ {Home} : history[i] = << >>
      /\ history[Home] = <<Revision(a, "edit", NoPlan), Revision(b, "edit", NoPlan),
                           Revision(b, "branch", NoPlan), Revision(b, "branch", NoPlan)>>
  BY <1>a, <1>b, <1>2
<1>4. /\ IsHistory(history[Home]) /\ Len(history[Home]) = 4
      /\ history[Home][2].by = "edit"
      /\ history[Home][2].content = b /\ history[Home][3].content = b /\ history[Home][4].content = b
  BY <1>1, <1>3, BeginningIsHistory
<1>5. \A i \in Images \ {Home} : IsHistory(history[i]) /\ Len(history[i]) = 0
  BY <1>3 DEF IsHistory
<1>6. HistoryTyped BY <1>3, <1>4, <1>5 DEF HistoryTyped
<1>7. HeadsTyped BY DEF HeadsTyped, BranchHead, NoHead
<1>8. ClientsTyped /\ \A c \in Clients : clients[c] = AtRest
  BY RestTyped DEF ClientsTyped, BranchesInit
<1>9. HeadsAreRevisions
  <2> SUFFICES ASSUME NEW i \in Images, NEW n \in Names PROVE heads[i][n].revision <= Frontier(i)
    BY DEF HeadsAreRevisions
  <2>1. CASE i = Home
    BY <2>1, <1>4 DEF Frontier
  <2>2. CASE i # Home
    BY <2>2, <1>5 DEF Frontier, NoHead
  <2>3. QED BY <2>1, <2>2
<1>10. ChangesAreExplained
  <2> SUFFICES ASSUME NEW i \in Images, NEW j \in 1..Frontier(i), NEW k \in 1..Frontier(i),
                      NEW id \in Ids, j <= k
               PROVE  \/ At(i, k)[id] = At(i, j)[id]
                      \/ \E m \in j + 1 .. k : Explains(history[i][m], id, At(i, k)[id])
    BY DEF ChangesAreExplained
  <2>1. i = Home BY <1>5 DEF Frontier
  <2>2. j \in {1, 2, 3, 4} /\ k \in {1, 2, 3, 4} BY <2>1, <1>4 DEF Frontier
  <2>3. CASE j = k
    BY <2>3
  <2>4. CASE j \in {2, 3} /\ k \in {3, 4}
    BY <2>1, <2>4, <1>4 DEF At
  <2>5. CASE j = 1 /\ k \in {2, 3, 4}
    <3>1. 2 \in j + 1 .. k BY <2>5
    <3>2. Explains(history[i][2], id, At(i, k)[id]) BY <2>1, <1>4 DEF Explains
    <3>3. QED BY <3>1, <3>2
  <2>6. QED BY <2>2, <2>3, <2>4, <2>5
<1>11. \A c \in Clients : ClientIsSound(c)
  <2> SUFFICES ASSUME NEW c \in Clients PROVE ClientIsSound(c)
    OBVIOUS
  <2>1. /\ clients[c].pc = "rest" /\ clients[c].target = 0 /\ clients[c].from.revision = 0
        /\ clients[c].plan = NoPlan /\ clients[c].image \in Images
    BY <1>8, RestTyped DEF ClientStates, NoHead
  <2>2. Frontier(clients[c].image) \in Nat BY <2>1, <1>6, LiveRecords
  <2>3. TargetsExist(c) BY <2>1, <2>2 DEF TargetsExist
  <2>4. QED BY <2>1, <2>3 DEF ClientIsSound, EntryIsThePast, PlanIsSound, PendingAreWrites, Applied,
                      TargetHoldsThePlan
<1>12. QED BY <1>6, <1>7, <1>8, <1>9, <1>10, <1>11, TypedParts DEF BranchesInv

(* A client that is in an operation takes its next step. *)
LEMMA WorksStep ==
  ASSUME BranchesInv, NEW c \in Clients, Works(c)
  PROVE  BranchesInv'
<1>1. CASE CreatePuts(c)
  BY <1>1, CreatePutsStep
<1>2. CASE AdvanceReads(c)
  BY <1>2, AdvanceReadsStep
<1>3. CASE AdvancePuts(c)
  BY <1>3, AdvancePutsStep
<1>4. CASE DeleteSweeps(c)
  BY <1>4, DeleteSweepsStep
<1>5. CASE ForkCreatesImage(c)
  BY <1>5, ForkCreatesImageStep
<1>6. CASE ForkFills(c)
  BY <1>6, ForkFillsStep
<1>7. CASE MergeDecides(c)
  BY <1>7, MergeDecidesStep
<1>8. CASE ApplyNext(c)
  BY <1>8, ApplyNextStep
<1>9. CASE MergeSweeps(c)
  BY <1>9, MergeSweepsStep
<1>10. CASE MergeFrontier(c)
  BY <1>10, MergeFrontierStep
<1>11. CASE \E revision \in 1..Frontier(clients[c].image) : AdvanceChecks(c, revision)
  BY <1>11, AdvanceChecksStep
<1>12. CASE Abandons(c)
  BY <1>12, AbandonsStep
<1>13. CASE EnsuresHeadShape(c) \/ CreateReads(c)
  BY <1>13, EnsuresHeadShapeStep, CreateReadsStep
<1>14. QED
  BY <1>1, <1>2, <1>3, <1>4, <1>5, <1>6, <1>7, <1>8, <1>9, <1>10, <1>11, <1>12, <1>13 DEF Works

(* Nothing changes. *)
LEMMA Stutters ==
  ASSUME BranchesInv, UNCHANGED branchVars
  PROVE  BranchesInv'
<1>1. UNCHANGED <<history, heads, clients>> BY DEF branchVars
<1>2. HistoryStep /\ HeadsStep BY <1>1, InvParts, HistoryRests, HeadsRest
<1>3. \A c \in Clients : ClientIsSound(c)'
  <2>1. Typed BY DEF BranchesInv
  <2>2. QED BY <2>1, <1>1, <1>2, InvParts, OthersStay
<1>4. ClientsTyped' BY <1>1, InvParts DEF ClientsTyped
<1>5. QED
  BY <1>2, <1>3, <1>4, InvParts, TypedParts, StillExplained DEF BranchesInv, HistoryStep, HeadsStep

(* Every step keeps the invariant. *)
LEMMA Steps == BranchesInv /\ [BranchesNext]_branchVars => BranchesInv'
<1> SUFFICES ASSUME BranchesInv, [BranchesNext]_branchVars PROVE BranchesInv'
  OBVIOUS
<1>1. CASE \E i \in Images, id \in Ids : Sweep(i, id) \/ \E rec \in Records : PutObject(i, id, rec)
  BY <1>1, EditStep
<1>2. CASE \E c \in Clients, i \in Images, n \in Names, force \in BOOLEAN :
             \E token \in {0, heads[i][n].version} : AdvanceStarts(c, i, n, token, force)
  BY <1>2, AdvanceStartsStep
<1>3. ASSUME NEW c \in Clients, NEW i \in Images, NEW n \in Names,
             \/ \E goal \in 1..Frontier(i), overwrite \in BOOLEAN : CreateStarts(c, i, n, goal, overwrite)
             \/ DeleteReads(c, i, n)
             \/ \E source \in Images : \E revision \in 1..Frontier(source) :
                  ForkReads(c, source, revision, i, n)
             \/ MergeReads(c, i, n)
             \/ \E base \in 0..Frontier(clients[c].image), resolution \in {"none", "left", "right"},
                   allow \in BOOLEAN : MergePlans(c, i, n, base, resolution, allow)
      PROVE  BranchesInv'
  <2>1. CASE \E goal \in 1..Frontier(i), overwrite \in BOOLEAN : CreateStarts(c, i, n, goal, overwrite)
    BY <2>1, CreateStartsStep
  <2>2. CASE DeleteReads(c, i, n)
    BY <2>2, DeleteReadsStep
  <2>3. CASE \E source \in Images : \E revision \in 1..Frontier(source) :
               ForkReads(c, source, revision, i, n)
    BY <2>3, ForkReadsStep
  <2>4. CASE MergeReads(c, i, n)
    BY <2>4, MergeReadsStep
  <2>5. CASE \E base \in 0..Frontier(clients[c].image), resolution \in {"none", "left", "right"},
                allow \in BOOLEAN : MergePlans(c, i, n, base, resolution, allow)
    BY <2>5, MergePlansStep
  <2>6. QED BY <1>3, <2>1, <2>2, <2>3, <2>4, <2>5
<1>4. CASE \E c \in Clients : Works(c)
  BY <1>4, WorksStep
<1>5. CASE UNCHANGED branchVars
  BY <1>5, Stutters
<1>6. QED BY <1>1, <1>2, <1>3, <1>4, <1>5, BranchesAssumption DEF BranchesNext

(* The inductive invariant of branches: a client's reading of a head is the *)
(* head or older, every change of a record is somebody's edit or the plan of *)
(* a merge, and what an undisturbed merge has settled stays settled        *)
(* (branches.js createBranch 139-207, advanceBranch 265-358, mergeBranches 569-722). *)
THEOREM BranchesInvariance == BranchesSpec => []BranchesInv
BY Initially, Steps, PTL DEF BranchesSpec

----------------------------------------
(* Only these steps write a head. *)
LEMMA HeadsAreWritten ==
  ASSUME BranchesNext, heads' # heads
  PROVE  \E d \in Clients : CreatePuts(d) \/ AdvancePuts(d) \/ DeleteSweeps(d)
<1>1. \A i, id : ~Sweep(i, id) /\ \A rec : ~PutObject(i, id, rec)
  BY DEF Sweep, PutObject
<1>2. \A c, i, n, token, force : ~AdvanceStarts(c, i, n, token, force)
  BY DEF AdvanceStarts
<1>3. \A c, i, n, goal, overwrite : ~CreateStarts(c, i, n, goal, overwrite)
  BY DEF CreateStarts
<1>4. \A c, i, n : ~DeleteReads(c, i, n) /\ ~MergeReads(c, i, n)
  BY DEF DeleteReads, MergeReads
<1>5. \A c, source, revision, i, n : ~ForkReads(c, source, revision, i, n)
  BY DEF ForkReads
<1>6. ASSUME NEW c, NEW i, NEW n, NEW base, NEW resolution, NEW allow,
             MergePlans(c, i, n, base, resolution, allow)
      PROVE  FALSE
  <2>1. heads' = heads BY <1>6, Zenon DEF MergePlans
  <2>2. QED BY <2>1
<1>7. \A c : /\ ~AdvanceReads(c) /\ ~ForkCreatesImage(c) /\ ~ForkFills(c) /\ ~MergeDecides(c)
             /\ ~ApplyNext(c) /\ ~MergeSweeps(c) /\ ~MergeFrontier(c) /\ ~Abandons(c)
             /\ ~EnsuresHeadShape(c) /\ ~CreateReads(c)
  BY DEF EnsuresHeadShape, CreateReads, AdvanceReads, ForkCreatesImage, ForkFills, MergeDecides, ApplyNext, MergeSweeps,
         MergeFrontier, Abandons
<1>8. \A c, revision : ~AdvanceChecks(c, revision) BY DEF AdvanceChecks
<1>9. PICK c \in Clients : Works(c)
  BY <1>1, <1>2, <1>3, <1>4, <1>5, <1>6 DEF BranchesNext
<1>10. CreatePuts(c) \/ AdvancePuts(c) \/ DeleteSweeps(c)
  BY <1>7, <1>8, <1>9 DEF Works
<1>11. QED BY <1>10

(* An advance writes the head of a client that has checked. *)
LEMMA AdvancesPut ==
  ASSUME BranchesInv, BranchesNext, NEW c \in Clients, NEW i \in Images, NEW n \in Names, Advances(c, i, n)
  PROVE  /\ heads[i][n].version = IF clients[c].token # 0 THEN clients[c].token ELSE clients[c].entry.version
         /\ heads'[i][n].revision = clients[c].target
         /\ heads'[i][n].parent = clients[c].entry.revision
         /\ HistoryStep
<1> PICK me : me = clients[c]
  OBVIOUS
<1>0. /\ me.pc = "checked" /\ heads' # heads /\ clients'[c] # me
      /\ me.image = i /\ me.name = n
  BY DEF Advances
<1>e. PICK expected : expected = IF me.token # 0 THEN me.token ELSE me.entry.version
  OBVIOUS
<1>1. PICK d \in Clients : CreatePuts(d) \/ AdvancePuts(d) \/ DeleteSweeps(d)
  BY <1>0, HeadsAreWritten
<1>2. Ends(d) BY <1>1 DEF CreatePuts, AdvancePuts, DeleteSweeps, PutHead
<1>3. d = c BY <1>0, <1>2, InvParts DEF Ends, Goes, ClientsTyped
<1>4. AdvancePuts(c) BY <1>0, <1>1, <1>3 DEF CreatePuts, DeleteSweeps
<1>5. PutHead(c, expected, me.target, me.entry.revision)
  BY <1>e, <1>4 DEF AdvancePuts
<1>h. PICK head : head = [version |-> expected + 1, revision |-> me.target, parent |-> me.entry.revision]
  OBVIOUS
<1>6. heads[i][n].version = expected /\ heads' = [heads EXCEPT ![i][n] = head]
      /\ Commit(i, Live(i), "branch", NoPlan)
  BY <1>0, <1>5, <1>h DEF PutHead
<1>7. heads'[i][n] = head BY <1>6, InvParts DEF HeadsTyped
<1>8. head.revision = me.target /\ head.parent = me.entry.revision BY <1>h
<1>9. Existing(i) BY <1>0, InvParts DEF TargetsExist
<1>10. HistoryStep BY <1>6, <1>9, BranchCommits
<1>11. QED BY <1>e, <1>6, <1>7, <1>8, <1>10

(* What NoAdvanceIsLost says of a step. *)
LEMMA AdvanceFollows ==
  ASSUME BranchesInv, BranchesNext, NEW c \in Clients, NEW i \in Images, NEW n \in Names, Advances(c, i, n)
  PROVE  /\ heads'[i][n].parent = heads[i][n].revision
         /\ heads'[i][n].revision >= heads[i][n].revision \/ clients[c].force
<1> PICK me : me = clients[c]
  OBVIOUS
<1> PICK head : head = heads[i][n]
  OBVIOUS
<1>1. /\ me.pc = "checked" /\ me.image = i /\ me.name = n BY DEF Advances
<1>2. /\ head.version = IF me.token # 0 THEN me.token ELSE me.entry.version
      /\ heads'[i][n].revision = me.target /\ heads'[i][n].parent = me.entry.revision
  BY AdvancesPut
<1>3. /\ me.token <= me.entry.version /\ me.entry.version <= head.version
      /\ me.entry.version = head.version => me.entry = head
      /\ MayAdvance(me.entry, me.target, me.force)
  BY <1>1, InvParts DEF EntryIsThePast
<1>4. me.token \in Nat /\ me.entry.version \in Nat /\ head.version \in Nat
  BY InvParts, ClientFields DEF HeadsTyped, BranchHead
<1>5. me.entry = head BY <1>2, <1>3, <1>4
<1>6. QED BY <1>2, <1>3, <1>5 DEF MayAdvance

(* What MergeGivesThePlan says of a step. *)
LEMMA MergeEndsAtItsPlan ==
  ASSUME BranchesInv, BranchesNext, NEW c \in Clients, NEW i \in Images, NEW n \in Names, Advances(c, i, n),
         Merging(c), Undisturbed(c), NEW id \in Ids, clients[c].plan[id].conflict = "none"
  PROVE  At(i, heads'[i][n].revision)[id] = clients[c].plan[id].record
<1>1. clients[c].pc = "checked" /\ clients[c].image = i BY DEF Advances
<1>2. Holds(At(i, clients[c].target), clients[c].plan)
  BY <1>1, InvParts DEF TargetHoldsThePlan, Merging
<1>3. heads'[i][n].revision = clients[c].target BY AdvancesPut
<1>4. QED BY <1>2, <1>3 DEF Holds

(* NoAdvanceIsLost: an advance records as its parent the revision the branch *)
(* was at, and goes back only when the caller asks for it, whoever else    *)
(* advances, recreates or deletes the branch meanwhile (branches.js        *)
(* advanceBranch 265-358).                                                 *)
THEOREM AdvancesKeepTheChain == BranchesSpec => NoAdvanceIsLost
<1>1. BranchesInv /\ [BranchesNext]_branchVars =>
        [\A c \in Clients, i \in Images, n \in Names : Advances(c, i, n) =>
           /\ heads'[i][n].parent = heads[i][n].revision
           /\ heads'[i][n].revision >= heads[i][n].revision \/ clients[c].force]_branchVars
  BY AdvanceFollows
<1>2. QED BY <1>1, BranchesInvariance, PTL DEF BranchesSpec, NoAdvanceIsLost

(* MergeGivesThePlan: where nobody else writes, the revision that a merge  *)
(* advances its branch to holds the plan of the merge, also when an earlier *)
(* attempt died half way (branches.js mergeBranches 569-722, merge.js      *)
(* applyImageMerge 837-876).                                               *)
THEOREM MergesGiveTheirPlan == BranchesSpec => MergeGivesThePlan
<1>1. BranchesInv /\ [BranchesNext]_branchVars =>
        [\A c \in Clients, i \in Images, n \in Names :
           Advances(c, i, n) /\ Merging(c) /\ Undisturbed(c) =>
             \A id \in Ids : clients[c].plan[id].conflict = "none" =>
               At(i, heads'[i][n].revision)[id] = clients[c].plan[id].record]_branchVars
  BY MergeEndsAtItsPlan
<1>2. QED BY <1>1, BranchesInvariance, PTL DEF BranchesSpec, MergeGivesThePlan

----------------------------------------
(* The bounds.  A client that is busy has been counted, so that one that   *)
(* dies can give its call back.                                            *)
Busy == {c \in Clients : clients[c].pc # "rest"}
CallsAreCounted ==
  /\ ops \in 0..MaxOps /\ edits \in 0..MaxEdits /\ crashes \in 0..MaxCrashes
  /\ IsFiniteSet(Busy) /\ Cardinality(Busy) <= ops

(* A client that was busy goes on: no other becomes busy. *)
LEMMA BusyStaysCounted ==
  ASSUME CallsAreCounted, Busy' \subseteq Busy, UNCHANGED ops,
         edits' \in 0..MaxEdits, crashes' \in 0..MaxCrashes
  PROVE  CallsAreCounted'
<1>1. IsFiniteSet(Busy') /\ Cardinality(Busy') <= Cardinality(Busy)
  BY FS_Subset DEF CallsAreCounted
<1>2. Cardinality(Busy) \in Nat /\ Cardinality(Busy') \in Nat
  BY <1>1, FS_CardinalityType DEF CallsAreCounted
<1>3. Cardinality(Busy') <= ops' BY <1>1, <1>2 DEF CallsAreCounted
<1>4. QED BY <1>1, <1>3 DEF CallsAreCounted

(* Another call begins. *)
LEMMA StartIsCounted ==
  ASSUME CallsAreCounted, NEW c \in Clients, Free(c), UNCHANGED <<edits, crashes>>,
         \A d \in Clients \ {c} : clients'[d] = clients[d]
  PROVE  CallsAreCounted'
<1>1. c \notin Busy /\ Busy' \subseteq Busy \cup {c} /\ ops' = ops + 1 /\ ops < MaxOps
  BY DEF Free, Busy
<1>2. IsFiniteSet(Busy \cup {c}) /\ Cardinality(Busy \cup {c}) = Cardinality(Busy) + 1
  BY <1>1, FS_AddElement DEF CallsAreCounted
<1>3. IsFiniteSet(Busy') /\ Cardinality(Busy') <= Cardinality(Busy \cup {c})
  BY <1>1, <1>2, FS_Subset
<1>4. Cardinality(Busy) \in Nat /\ Cardinality(Busy') \in Nat
  BY <1>3, FS_CardinalityType DEF CallsAreCounted
<1>5. ops' \in 0..MaxOps /\ Cardinality(Busy') <= ops'
  BY <1>1, <1>2, <1>3, <1>4, BranchesAssumption DEF CallsAreCounted
<1>6. QED BY <1>3, <1>5 DEF CallsAreCounted

(* A client dies. *)
LEMMA AbandonedIsCounted ==
  ASSUME BranchesInv, CallsAreCounted, NEW c \in Clients, Abandons(c)
  PROVE  CallsAreCounted'
<1>1. /\ clients[c].pc # "rest" /\ ops' = ops - 1 /\ UNCHANGED edits
      /\ crashes < MaxCrashes /\ crashes' = crashes + 1 /\ Goes(c, AtRest)
  BY DEF Abandons, Ends
<1>2. clients'[c] = AtRest /\ \A d \in Clients \ {c} : clients'[d] = clients[d]
  BY <1>1, InvParts DEF Goes, ClientsTyped
<1>3. AtRest.pc = "rest" BY DEF AtRest
<1>4. c \in Busy /\ Busy' = Busy \ {c} BY <1>1, <1>2, <1>3 DEF Busy
<1>5. IsFiniteSet(Busy') /\ Cardinality(Busy') = Cardinality(Busy) - 1
  BY <1>4, FS_RemoveElement DEF CallsAreCounted
<1>6. Cardinality(Busy) \in Nat /\ Cardinality(Busy') \in Nat
  BY <1>5, FS_CardinalityType DEF CallsAreCounted
<1>7. ops' \in 0..MaxOps /\ Cardinality(Busy') <= ops'
  BY <1>1, <1>5, <1>6, BranchesAssumption DEF CallsAreCounted
<1>8. crashes' \in 0..MaxCrashes BY <1>1, BranchesAssumption DEF CallsAreCounted
<1>9. QED BY <1>1, <1>5, <1>7, <1>8 DEF CallsAreCounted

(* Only a client that acts changes. *)
LEMMA OthersAreAsTheyWere ==
  ASSUME BranchesInv, NEW c \in Clients, \E new : Goes(c, new)
  PROVE  \A d \in Clients \ {c} : clients'[d] = clients[d]
BY InvParts DEF Goes, ClientsTyped

(* A step of a call keeps the calls counted. *)
LEMMA WorkIsCounted ==
  ASSUME BranchesInv, CallsAreCounted, NEW c \in Clients, Works(c)
  PROVE  CallsAreCounted'
<1>1. CASE Abandons(c)
  BY <1>1, AbandonedIsCounted
<1>2. ASSUME ~Abandons(c)
      PROVE  clients[c].pc # "rest" /\ (\E new : Goes(c, new)) /\ UNCHANGED <<ops, edits, crashes>>
  <2>1. CASE CreatePuts(c)
    BY <2>1 DEF CreatePuts, PutHead, Ends
  <2>2. CASE AdvanceReads(c)
    BY <2>2 DEF AdvanceReads, Ends
  <2>3. CASE AdvancePuts(c)
    BY <2>3 DEF AdvancePuts, PutHead, Ends
  <2>4. CASE DeleteSweeps(c)
    BY <2>4 DEF DeleteSweeps, Ends
  <2>5. CASE ForkCreatesImage(c)
    BY <2>5 DEF ForkCreatesImage, Ends, Turns
  <2>6. CASE ForkFills(c)
    BY <2>6 DEF ForkFills, Ends
  <2>7. CASE MergeDecides(c)
    BY <2>7 DEF MergeDecides
  <2>8. CASE ApplyNext(c)
    BY <2>8 DEF ApplyNext, Ends
  <2>9. CASE MergeSweeps(c)
    BY <2>9 DEF MergeSweeps, SweepRemoved, Turns
  <2>10. CASE MergeFrontier(c)
    BY <2>10 DEF MergeFrontier
  <2>11. CASE \E revision \in 1..Frontier(clients[c].image) : AdvanceChecks(c, revision)
    BY <2>11 DEF AdvanceChecks, Ends
  <2>12. CASE EnsuresHeadShape(c)
    BY <2>12 DEF EnsuresHeadShape, Turns
  <2>13. CASE CreateReads(c)
    BY <2>13 DEF CreateReads, Ends
  <2>14. QED
    BY <1>2, <2>1, <2>2, <2>3, <2>4, <2>5, <2>6, <2>7, <2>8, <2>9, <2>10, <2>11, <2>12, <2>13 DEF Works
<1>3. ASSUME ~Abandons(c)
      PROVE  CallsAreCounted'
  <2>1. Busy' \subseteq Busy BY <1>2, <1>3, OthersAreAsTheyWere DEF Busy
  <2>2. QED BY <1>2, <1>3, <2>1, BusyStaysCounted DEF CallsAreCounted
<1>4. QED BY <1>1, <1>3

(* And so does every step. *)
LEMMA EveryCallIsCounted == BranchesInv /\ CallsAreCounted /\ [BranchesNext]_branchVars => CallsAreCounted'
<1> SUFFICES ASSUME BranchesInv, CallsAreCounted, [BranchesNext]_branchVars
             PROVE  CallsAreCounted'
  OBVIOUS
<1>1. CASE \E i \in Images, id \in Ids : Sweep(i, id) \/ \E rec \in Records : PutObject(i, id, rec)
  <2>1. UNCHANGED <<clients, ops, crashes>> /\ edits < MaxEdits /\ edits' = edits + 1
    BY <1>1 DEF Sweep, PutObject
  <2>2. Busy' \subseteq Busy /\ edits' \in 0..MaxEdits
    BY <2>1, BranchesAssumption DEF Busy, CallsAreCounted
  <2>3. QED BY <2>1, <2>2, BusyStaysCounted DEF CallsAreCounted
<1>2. CASE \E c \in Clients, i \in Images, n \in Names, force \in BOOLEAN :
             \E token \in {0, heads[i][n].version} : AdvanceStarts(c, i, n, token, force)
  <2>1. PICK c \in Clients : Free(c) /\ (\E new : Goes(c, new)) /\ UNCHANGED <<edits, crashes>>
    BY <1>2 DEF AdvanceStarts
  <2>2. QED BY <2>1, OthersAreAsTheyWere, StartIsCounted
<1>3. ASSUME NEW c \in Clients, NEW i \in Images, NEW n \in Names,
             \/ \E goal \in 1..Frontier(i), overwrite \in BOOLEAN : CreateStarts(c, i, n, goal, overwrite)
             \/ DeleteReads(c, i, n)
             \/ \E source \in Images : \E revision \in 1..Frontier(source) :
                  ForkReads(c, source, revision, i, n)
             \/ MergeReads(c, i, n)
      PROVE  CallsAreCounted'
  <2>1. Free(c) /\ (\E new : Goes(c, new)) /\ UNCHANGED <<edits, crashes>>
    BY <1>3 DEF CreateStarts, DeleteReads, ForkReads, MergeReads
  <2>2. QED BY <2>1, OthersAreAsTheyWere, StartIsCounted
<1>4. ASSUME NEW c \in Clients, NEW i \in Images, NEW n \in Names,
             \E base \in 0..Frontier(clients[c].image), resolution \in {"none", "left", "right"},
               allow \in BOOLEAN : MergePlans(c, i, n, base, resolution, allow)
      PROVE  CallsAreCounted'
  <2>1. /\ clients[c].pc # "rest" /\ (\E new : Goes(c, new)) /\ UNCHANGED <<ops, edits, crashes>>
    BY <1>4 DEF MergePlans, Ends
  <2>2. Busy' \subseteq Busy BY <2>1, OthersAreAsTheyWere DEF Busy
  <2>3. QED BY <2>1, <2>2, BusyStaysCounted DEF CallsAreCounted
<1>5. CASE \E c \in Clients : Works(c)
  BY <1>5, WorkIsCounted
<1>6. CASE UNCHANGED branchVars
  <2>1. UNCHANGED <<clients, ops, edits, crashes>> BY <1>6 DEF branchVars
  <2>2. Busy' \subseteq Busy BY <2>1 DEF Busy
  <2>3. QED BY <2>1, <2>2, BusyStaysCounted DEF CallsAreCounted
<1>7. QED BY <1>1, <1>2, <1>3, <1>4, <1>5, <1>6, BranchesAssumption DEF BranchesNext

(* Types and bounds: an image's revisions hold something at every id, a    *)
(* head names a revision of its image, and no more calls are made than the *)
(* bound allows (branches.js).                                             *)
THEOREM BranchesTypeCorrect == BranchesSpec => []BranchesTypeOK
<1>1. BranchesInit => CallsAreCounted
  <2> SUFFICES ASSUME BranchesInit
               PROVE  CallsAreCounted
    OBVIOUS
  <2>1. Busy = {} BY DEF BranchesInit, AtRest, Busy
  <2>2. IsFiniteSet(Busy) /\ Cardinality(Busy) = 0 BY <2>1, FS_EmptySet
  <2>3. QED BY <2>2, BranchesAssumption DEF BranchesInit, CallsAreCounted
<1>2. BranchesInv /\ CallsAreCounted => BranchesTypeOK
  <2> SUFFICES ASSUME BranchesInv, CallsAreCounted
               PROVE  BranchesTypeOK
    OBVIOUS
  <2>1. /\ \A i \in Images : IsHistory(history[i])
        /\ heads \in [Images -> [Names -> BranchHead]]
        /\ \A c \in Clients : clients[c] \in ClientStates(clients[c].plan)
        /\ HeadsAreRevisions
    BY DEF BranchesInv, Typed
  <2>2. \A i \in Images : \A k \in 1..Frontier(i) : IsRevision(history[i][k])
    BY <2>1 DEF IsHistory, Frontier
  <2>3. \A i \in Images : \A k \in 1..Frontier(i) :
          /\ DOMAIN history[i][k].content = Ids
          /\ history[i][k].by \in {"edit", "branch", "fork", "merge"}
    BY <2>2 DEF IsRevision, IsContent
  <2>4. \A c \in Clients :
          /\ clients[c].pc \in ClientPcs /\ clients[c].image \in Images
          /\ clients[c].name \in Names /\ clients[c].pending \subseteq Ids
    BY <2>1 DEF ClientStates
  <2>5. QED BY <2>1, <2>3, <2>4 DEF BranchesTypeOK, HeadsAreRevisions, CallsAreCounted, ClientPcs
<1>3. QED BY <1>1, <1>2, EveryCallIsCounted, BranchesInvariance, PTL DEF BranchesSpec
========================================
