------------------------------- MODULE Branches -------------------------------
(***************************************************************************)
(* Named branches of an image (src/graph/branches.js).  A branch is a head *)
(* record in the image that names one of the image's revisions; there is   *)
(* one live image and one history, and a branch is a point of it.  A fork  *)
(* copies the records of a frontier into another image.  A merge plans     *)
(* from three frontiers, writes the plan onto the LIVE image record by     *)
(* record, sweeps what it removes and advances the target branch to the    *)
(* revision it then finds.                                                 *)
(*                                                                         *)
(* Every await is a step boundary, except where a read only bounds a value *)
(* the step chooses anyway.  A merge writes a record that differs from the *)
(* live one without expecting a version, so its read and its write are one *)
(* step.  The events of one transaction count as one revision.             *)
(***************************************************************************)
EXTENDS RecordMerge, FiniteSets

CONSTANTS
  Images, Names, Ids, Records,
  Beginnings,   \* the records of the first two revisions, as pairs
  Clients,      \* callers of the branch operations
  Mergers,      \* bound: the clients that do more than advance
  MaxOps,       \* bound: branch operations that run to their end
  MaxEdits,     \* bound: writes and sweeps of others
  MaxCrashes    \* bound: operations abandoned between two steps

ASSUME BranchesAssumption ==
  /\ Images # {} /\ Names # {}
  /\ Mergers \subseteq Clients /\ Ids \subseteq Nat /\ NoRec \notin Records
  /\ Beginnings \subseteq [Ids -> Records \cup {NoRec}] \X [Ids -> Records \cup {NoRec}]
  /\ {MaxOps, MaxEdits, MaxCrashes} \subseteq Nat

VARIABLES
  history,  \* per image, its revisions: the records each one has, and whose it is
  heads,    \* per image and name: the head record; revision 0 is none (or a tombstone)
  clients,  \* what each client is doing
  ops, edits, crashes

branchVars == <<history, heads, clients, ops, edits, crashes>>

Empty == [id \in Ids |-> NoRec]
NoHead == [version |-> 0, revision |-> 0, parent |-> 0]
NoPlan == [id \in Ids |-> Kept(NoRec)]
AtRest == [pc |-> "rest", image |-> CHOOSE i \in Images : TRUE, name |-> CHOOSE n \in Names : TRUE,
           entry |-> NoHead, target |-> 0, token |-> 0, force |-> FALSE,
           from |-> NoHead, plan |-> NoPlan, pending |-> {}]

Home == CHOOSE i \in Images : TRUE
Existing(i) == history[i] # << >>
Frontier(i) == Len(history[i])
Live(i) == Last(history[i]).content
At(i, revision) == history[i][revision].content

Revision(content, by, plan) == [content |-> content, by |-> by, plan |-> plan]

Commit(i, content, by, plan) ==
  history' = [history EXCEPT ![i] = Append(@, Revision(content, by, plan))]

(* The first branch of an image makes two revisions, the first of them for *)
(* the shape of its head.                                                  *)
HasHeadShape(i) == \E k \in 1..Frontier(i) : history[i][k].by = "branch"

(* The image has two revisions of its records, and a branch at one of them. *)
BranchesInit ==
  /\ \E start \in Beginnings, revision \in 1..2 :
       /\ history = [i \in Images |-> IF i # Home THEN << >> ELSE
                       <<Revision(start[1], "edit", NoPlan), Revision(start[2], "edit", NoPlan),
                         Revision(start[2], "branch", NoPlan), Revision(start[2], "branch", NoPlan)>>]
       /\ heads = [i \in Images |-> [n \in Names |->
                     IF i = Home THEN [version |-> 1, revision |-> revision, parent |-> 0] ELSE NoHead]]
  /\ clients = [c \in Clients |-> AtRest]
  /\ ops = 0 /\ edits = 0 /\ crashes = 0

Goes(c, new) == clients' = [clients EXCEPT ![c] = new]
Turns(c, pc) == Goes(c, [clients[c] EXCEPT !.pc = pc])

(* The operation answers or throws; the client may start another.          *)
Ends(c) == Goes(c, AtRest)

Free(c) ==
  /\ clients[c].pc = "rest"
  /\ ops < MaxOps /\ ops' = ops + 1

Starts(c, i, n, pc) == [AtRest EXCEPT !.pc = pc, !.image = i, !.name = n]

----------------------------------------
(* The live image in other hands.                                          *)

PutObject(i, id, rec) ==
  /\ Existing(i) /\ edits < MaxEdits /\ edits' = edits + 1
  /\ Live(i)[id] # rec
  /\ Commit(i, [Live(i) EXCEPT ![id] = rec], "edit", NoPlan)
  /\ UNCHANGED <<heads, clients, ops, crashes>>

Sweep(i, id) ==
  /\ Existing(i) /\ edits < MaxEdits /\ edits' = edits + 1
  /\ Live(i)[id] # NoRec
  /\ Commit(i, [Live(i) EXCEPT ![id] = NoRec], "edit", NoPlan)
  /\ UNCHANGED <<heads, clients, ops, crashes>>

----------------------------------------
(* createBranch, advanceBranch, deleteBranch.                              *)

(* The frontier, or a revision up to it.                                   *)
CreateStarts(c, i, n, target, overwrite) ==
  /\ Free(c) /\ Existing(i) /\ target \in 1..Frontier(i)
  /\ Goes(c, [Starts(c, i, n, "shaping") EXCEPT !.target = target, !.force = overwrite])
  /\ UNCHANGED <<history, heads, edits, crashes>>

EnsuresHeadShape(c) ==
  /\ clients[c].pc = "shaping"
  /\ IF HasHeadShape(clients[c].image) THEN UNCHANGED history
     ELSE Commit(clients[c].image, Live(clients[c].image), "branch", NoPlan)
  /\ Turns(c, "shaped")
  /\ UNCHANGED <<heads, ops, edits, crashes>>

(* The record in the way, if any.  A branch that already is where it       *)
(* should be is the answer; another revision is a conflict.                *)
CreateReads(c) ==
  LET me == clients[c]  old == heads[me.image][me.name] IN
  /\ me.pc = "shaped"
  /\ IF old.revision # 0 /\ ~me.force THEN Ends(c)
     ELSE Goes(c, [me EXCEPT !.pc = "creating", !.entry = IF old.revision = 0 THEN NoHead ELSE old])
  /\ UNCHANGED <<history, heads, ops, edits, crashes>>

PutHeadBlindly(c, expected, revision, parent) ==
  LET i == clients[c].image  n == clients[c].name IN
  /\ heads' = [heads EXCEPT ![i][n] = [version |-> @.version + 1, revision |-> revision, parent |-> parent]]
  /\ Commit(i, Live(i), "branch", NoPlan)
  /\ Ends(c)

(* putObject of a head with an expected version.  A deleted head leaves a  *)
(* tombstone whose version counts.                                         *)
PutHead(c, expected, revision, parent) ==
  LET i == clients[c].image  n == clients[c].name IN
  IF heads[i][n].version = expected
  THEN /\ heads' = [heads EXCEPT ![i][n] = [version |-> expected + 1, revision |-> revision, parent |-> parent]]
       /\ Commit(i, Live(i), "branch", NoPlan)
       /\ Ends(c)
  ELSE Ends(c) /\ UNCHANGED <<history, heads>>

CreatePuts(c) ==
  /\ clients[c].pc = "creating"
  /\ PutHead(c, clients[c].entry.version, clients[c].target, 0)
  /\ UNCHANGED <<ops, edits, crashes>>

(* A caller's token is the version it saw the head at.                     *)
AdvanceStarts(c, i, n, token, force) ==
  /\ Free(c) /\ heads[i][n].revision # 0 /\ token \in 0..heads[i][n].version
  /\ Goes(c, [Starts(c, i, n, "advancing") EXCEPT !.token = token, !.force = force])
  /\ UNCHANGED <<history, heads, edits, crashes>>

AdvanceReads(c) ==
  LET me == clients[c] IN
  /\ me.pc = "advancing"
  /\ IF heads[me.image][me.name].revision = 0 THEN Ends(c)
     ELSE Goes(c, [me EXCEPT !.pc = "read", !.entry = heads[me.image][me.name]])
  /\ UNCHANGED <<history, heads, ops, edits, crashes>>

MayAdvance(entry, revision, force) == revision >= entry.revision \/ force

(* The image's frontier; a target given by the caller stays what it is.    *)
AdvanceChecks(c, revision) ==
  LET me == clients[c] IN
  /\ me.pc = "read"
  /\ IF me.target # 0 THEN revision = me.target ELSE revision \in 1..Frontier(me.image)
  /\ IF MayAdvance(me.entry, revision, me.force)
     THEN Goes(c, [me EXCEPT !.pc = "checked", !.target = revision])
     ELSE Ends(c)
  /\ UNCHANGED <<history, heads, ops, edits, crashes>>

AdvancePuts(c) ==
  LET me == clients[c] IN
  /\ me.pc = "checked"
  /\ PutHead(c, IF me.token # 0 THEN me.token ELSE me.entry.version, me.target, me.entry.revision)
  /\ UNCHANGED <<ops, edits, crashes>>

DeleteReads(c, i, n) ==
  /\ Free(c) /\ Existing(i) /\ heads[i][n].revision # 0
  /\ Goes(c, Starts(c, i, n, "deleting"))
  /\ UNCHANGED <<history, heads, edits, crashes>>

DeleteSweeps(c) ==
  LET me == clients[c]  head == heads[me.image][me.name] IN
  /\ me.pc = "deleting"
  /\ IF head.revision = 0 THEN Ends(c) /\ UNCHANGED <<history, heads>>
     ELSE /\ heads' = [heads EXCEPT ![me.image][me.name] = [NoHead EXCEPT !.version = head.version + 1]]
          /\ Commit(me.image, Live(me.image), "branch", NoPlan)
          /\ Ends(c)
  /\ UNCHANGED <<ops, edits, crashes>>

----------------------------------------
(* forkImageFromFrontier.                                                  *)

ForkReads(c, source, revision, i, n) ==
  /\ Free(c) /\ Existing(source) /\ i # source /\ revision \in 1..Frontier(source)
  /\ Goes(c, [Starts(c, i, n, "forking") EXCEPT
                !.plan = [id \in Ids |-> Kept(At(source, revision)[id])]])
  /\ UNCHANGED <<history, heads, edits, crashes>>

ForkCreatesImage(c) ==
  LET i == clients[c].image IN
  /\ clients[c].pc = "forking"
  /\ IF Existing(i) THEN Ends(c) /\ UNCHANGED history
     ELSE Turns(c, "filling") /\ history' = [history EXCEPT ![i] = <<Revision(Empty, "fork", NoPlan)>>]
  /\ UNCHANGED <<heads, ops, edits, crashes>>

EverStored(i, id) == \E k \in 1..Frontier(i) : At(i, k)[id] # NoRec

(* createRecords: all of them, insert-only, or none.                       *)
ForkFills(c) ==
  LET me == clients[c]
      filled == {id \in Ids : me.plan[id].record # NoRec} IN
  /\ me.pc = "filling"
  /\ IF \E id \in filled : EverStored(me.image, id)
     THEN Ends(c) /\ UNCHANGED history
     ELSE /\ Commit(me.image, [id \in Ids |-> IF id \in filled THEN me.plan[id].record
                                              ELSE Live(me.image)[id]], "fork", NoPlan)
          /\ Goes(c, [me EXCEPT !.pc = "shaping", !.target = Len(history'[me.image]), !.plan = NoPlan])
  /\ UNCHANGED <<heads, ops, edits, crashes>>

----------------------------------------
(* mergeBranches.                                                          *)

MergeReads(c, i, n) ==
  /\ Free(c) /\ heads[i][n].revision # 0
  /\ Goes(c, [Starts(c, i, n, "merging") EXCEPT !.from = heads[i][n]])
  /\ UNCHANGED <<history, heads, edits, crashes>>

(* Without a base: the revision the source branch had before, taken in the *)
(* target's image, or the target's own.                                    *)
DefaultBase(source, target) == IF source.parent # 0 THEN source.parent ELSE target.revision

MergePlans(c, source, n, base, resolution, allowConflicts) ==
  LET me == clients[c]
      right == heads[source][n]
      baseRev == IF base # 0 THEN base ELSE DefaultBase(right, me.from)
      plan == [id \in Ids |->
                 LET b == At(me.image, baseRev)[id]
                     l == At(me.image, me.from.revision)[id]
                     r == At(source, right.revision)[id] IN
                 Resolve(PlanRecord(b, l, r), b, l, r, resolution)]
      clean == \A id \in Ids : plan[id].conflict = "none" IN
  /\ me.pc = "merging" /\ right.revision # 0
  /\ base \in 0..Frontier(me.image)
  /\ IF baseRev > Frontier(me.image) THEN Ends(c)
     ELSE IF ~clean /\ ~allowConflicts THEN Ends(c)
     ELSE Goes(c, [me EXCEPT !.pc = "planned", !.plan = plan,
                             !.pending = {id \in Ids : plan[id].write},
                             !.target = IF source = me.image /\ baseRev = me.from.revision
                                        THEN right.revision ELSE 0])
  /\ UNCHANGED <<history, heads, ops, edits, crashes>>

(* A pure fast-forward: the source is the target's own continuation and    *)
(* the live image is at it.                                                *)
MergeDecides(c) ==
  LET me == clients[c] IN
  /\ me.pc = "planned"
  /\ Goes(c, IF me.target >= me.from.revision /\ Frontier(me.image) = me.target
             THEN [me EXCEPT !.pc = "advancing", !.plan = NoPlan, !.pending = {}]
             ELSE [me EXCEPT !.pc = "applying", !.force = TRUE, !.target = 0])
  /\ UNCHANGED <<history, heads, ops, edits, crashes>>

KindOrder(kind) == IF kind = "object" THEN 5 ELSE IF kind = "lexical-environment" THEN 3 ELSE 2

Precedes(a, b, plan) ==
  LET ka == KindOrder(plan[a].record.kind)  kb == KindOrder(plan[b].record.kind) IN
  ka < kb \/ (ka = kb /\ a <= b)

(* applySingleMergedRecord: objects replace whatever is there, the other   *)
(* kinds are inserted only.                                                *)
ApplyNext(c) ==
  LET me == clients[c]
      id == CHOOSE a \in me.pending : \A b \in me.pending : Precedes(a, b, me.plan)
      rec == me.plan[id].record IN
  /\ me.pc = "applying" /\ me.pending # {}
  /\ IF rec.kind # "object" /\ Live(me.image)[id] # rec /\ EverStored(me.image, id)
     THEN Ends(c) /\ UNCHANGED history
     ELSE /\ IF Live(me.image)[id] = rec THEN UNCHANGED history
             ELSE Commit(me.image, [Live(me.image) EXCEPT ![id] = rec], "merge", me.plan)
          /\ Goes(c, [me EXCEPT !.pending = @ \ {id}])
  /\ UNCHANGED <<heads, ops, edits, crashes>>

(* sweepRecords refuses the whole batch for one id that is not there.      *)
SweepRemoved(c) ==
  LET me == clients[c]
      removed == {id \in Ids : me.plan[id].remove} IN
  IF removed = {} THEN Turns(c, "swept") /\ UNCHANGED history
  ELSE IF \E id \in removed : Live(me.image)[id] = NoRec
       THEN Turns(c, "notFound") /\ UNCHANGED history
  ELSE /\ Commit(me.image, [id \in Ids |-> IF id \in removed THEN NoRec ELSE Live(me.image)[id]], "merge", me.plan)
       /\ Turns(c, "swept")

MergeSweeps(c) ==
  /\ clients[c].pc = "applying" /\ clients[c].pending = {}
  /\ SweepRemoved(c)
  /\ UNCHANGED <<heads, ops, edits, crashes>>

(* postMergeFrontier; then advanceBranch from the head as it is then.      *)
MergeFrontier(c) ==
  /\ clients[c].pc = "swept"
  /\ Goes(c, [clients[c] EXCEPT !.pc = "advancing", !.target = Frontier(clients[c].image)])
  /\ UNCHANGED <<history, heads, ops, edits, crashes>>

(* A client that dies between two writes; one that only read left nothing. *)
Abandons(c) ==
  /\ clients[c].pc \in {"filling", "shaping", "shaped", "creating", "applying", "swept"}
  /\ crashes < MaxCrashes /\ crashes' = crashes + 1
  /\ Ends(c)
  /\ ops' = ops - 1
  /\ UNCHANGED <<history, heads, edits>>

Works(c) ==
  \/ EnsuresHeadShape(c) \/ CreateReads(c) \/ CreatePuts(c)
  \/ AdvanceReads(c) \/ AdvancePuts(c) \/ DeleteSweeps(c) \/ ForkCreatesImage(c) \/ ForkFills(c)
  \/ MergeDecides(c) \/ ApplyNext(c) \/ MergeSweeps(c) \/ MergeFrontier(c)
  \/ \E revision \in 1..Frontier(clients[c].image) : AdvanceChecks(c, revision)
  \/ Abandons(c)

BranchesNext ==
  \/ \E i \in Images, id \in Ids : Sweep(i, id) \/ \E rec \in Records : PutObject(i, id, rec)
  \/ \E c \in Clients, i \in Images, n \in Names, force \in BOOLEAN :
       \E token \in {0, heads[i][n].version} : AdvanceStarts(c, i, n, token, force)
  \/ \E c \in Mergers, i \in Images, n \in Names :
       \/ \E target \in 1..Frontier(i), overwrite \in BOOLEAN : CreateStarts(c, i, n, target, overwrite)
       \/ DeleteReads(c, i, n)
       \/ \E source \in Images : \E revision \in 1..Frontier(source) : ForkReads(c, source, revision, i, n)
       \/ MergeReads(c, i, n)
       \/ /\ clients[c].pc = "merging"
          /\ \E base \in 0..Frontier(clients[c].image), resolution \in {"none", "left", "right"},
                allow \in BOOLEAN : MergePlans(c, i, n, base, resolution, allow)
  \/ \E c \in Clients : Works(c)

BranchesSpec == BranchesInit /\ [][BranchesNext]_branchVars

----------------------------------------
(* Properties.                                                             *)

BranchHead == [version : Nat, revision : Nat, parent : Nat]

BranchesTypeOK ==
  /\ \A i \in Images : \A k \in 1..Frontier(i) :
       /\ DOMAIN history[i][k].content = Ids    \* a merge makes records nobody wrote
       /\ history[i][k].by \in {"edit", "branch", "fork", "merge"}
  /\ heads \in [Images -> [Names -> BranchHead]]
  /\ \A i \in Images, n \in Names : heads[i][n].revision <= Frontier(i)
  /\ \A c \in Clients :
       /\ clients[c].pc \in {"rest", "shaping", "shaped", "creating", "advancing", "read", "checked", "deleting", "forking",
            "filling", "merging", "planned", "applying", "swept", "notFound"}
       /\ clients[c].image \in Images /\ clients[c].name \in Names
       /\ clients[c].pending \subseteq Ids
  /\ ops \in 0..MaxOps /\ edits \in 0..MaxEdits /\ crashes \in 0..MaxCrashes

Advances(c, i, n) ==
  /\ clients[c].pc = "checked" /\ heads' # heads /\ clients'[c] # clients[c]
  /\ clients[c].image = i /\ clients[c].name = n

(* An advance starts where the previous one ended, and without the caller  *)
(* asking for it never goes back: of two clients that read the same head,  *)
(* or a client and a merge that ends, one is refused (branches.js          *)
(* advanceBranch 265-358).                                                 *)
NoAdvanceIsLost ==
  [][\A c \in Clients, i \in Images, n \in Names : Advances(c, i, n) =>
       /\ heads'[i][n].parent = heads[i][n].revision
       /\ heads'[i][n].revision >= heads[i][n].revision \/ clients[c].force]_branchVars

(* Nobody but this merge, or an earlier attempt with the same plan, wrote  *)
(* to the image since the revision the target branch was at.               *)
Undisturbed(c) ==
  LET me == clients[c] IN
  \A k \in me.from.revision + 1 .. Frontier(me.image) :
    \/ history[me.image][k].by = "branch"
    \/ history[me.image][k].by = "merge" /\ history[me.image][k].plan = me.plan

Merging(c) == clients[c].plan # NoPlan

(* Where nobody else writes meanwhile, the revision a merge advances its   *)
(* branch to holds the merge of the two frontiers, record for record, also *)
(* when an earlier attempt died between two of its writes                  *)
(* (branches.js mergeBranches 569-722, merge.js applyImageMerge 837-876).  *)
MergeGivesThePlan ==
  [][\A c \in Clients, i \in Images, n \in Names :
       Advances(c, i, n) /\ Merging(c) /\ Undisturbed(c) =>
         \A id \in Ids : clients[c].plan[id].conflict = "none" =>
           At(i, heads'[i][n].revision)[id] = clients[c].plan[id].record]_branchVars

(* A merge with nothing left to decide that removes only what its target   *)
(* branch has is applied, also by the attempt after one that died: clean   *)
(* means applied (test/branches-working-frontier.test.js:394-395).         *)
CleanMergesAreApplied ==
  \A c \in Clients :
    LET me == clients[c] IN
    /\ me.pc = "notFound" /\ Undisturbed(c)
    /\ \A id \in Ids : me.plan[id].remove => At(me.image, me.from.revision)[id] # NoRec
    => \E id \in Ids : me.plan[id].conflict # "none"
========================================
