-------------------------------- MODULE Merges --------------------------------
(***************************************************************************)
(* Three-way merges on every base, left and right of a small set: of       *)
(* records (RecordMerge), of the descriptors and the releases of a Project *)
(* (src/project/merge.js, diff.js), and the upgrade of an installation to  *)
(* a merged release (model.js).  The reference knows no cases: a side      *)
(* claims what it changed, one claim wins, two conflict.  No resolutions   *)
(* are given, and every release has at most one dependency on each         *)
(* project.                                                                *)
(***************************************************************************)
EXTENDS RecordMerge, FiniteSets

CONSTANTS
  Candidates,  \* records, and NoRec
  MemberKeys,  \* Project-local member keys, and projects a release depends on
  Descriptors, \* [name, namespace, members |-> [MemberKeys -> Missing or [role, target]]]
  Manifests,   \* [profile, members, dependencies |-> [MemberKeys -> Missing or a value]]
  TargetImage, \* the image a merge is for
  NoRef        \* the namespace of a Project without one

VARIABLES sides, project, release, crossImage

----------------------------------------
(* Records.                                                                *)

CasesInit == sides \in [{"base", "left", "right"} -> Candidates]

Claims(b, l, r) == LET changed == {l, r} \ {b} IN IF changed = {} THEN {b} ELSE changed

Settled(claims) == Cardinality(claims) = 1

Value(b, claims) == IF Settled(claims) THEN CHOOSE v \in claims : TRUE ELSE b

(* An indexed part is a set of links, a row of elements, or one value.     *)
LinkSet(b, l, r) ==
  LET old == ToSet(b[1])  mine == ToSet(l[1])  yours == ToSet(r[1]) IN
  (old \cap mine \cap yours) \cup (mine \ old) \cup (yours \ old)

ElementsAgree(b, l, r) ==
  << >> \notin {b, l, r} /\ Len(b[1]) = Len(l[1]) /\ Len(b[1]) = Len(r[1])

PartsClaims(b, l, r) ==
  IF ~ElementsAgree(b, l, r) THEN Claims(b, l, r)
  ELSE {<<row>> : row \in {row \in [DOMAIN b[1] -> UNION {ToSet(p[1]) : p \in {b, l, r}}] :
                             \A k \in DOMAIN row : row[k] \in Claims(b[1][k], l[1][k], r[1][k])}}

FieldsSettled(b, l, r) ==
  /\ Settled(Claims(b.scalar, l.scalar, r.scalar))
  /\ \A s \in Slots : Settled(Claims(b.slots[s], l.slots[s], r.slots[s]))
  /\ \/ Settled(Claims(b.parts, l.parts, r.parts)) \/ Settled(PartsClaims(b.parts, l.parts, r.parts))
     \/ b.scalar = Linkage /\ << >> \notin {b.parts, l.parts, r.parts}

FieldsAgree(m, b, l, r) ==
  /\ m.scalar = Value(b.scalar, Claims(b.scalar, l.scalar, r.scalar))
  /\ \A s \in Slots : m.slots[s] = Value(b.slots[s], Claims(b.slots[s], l.slots[s], r.slots[s]))
  /\ CASE Settled(Claims(b.parts, l.parts, r.parts)) ->
            m.parts = Value(b.parts, Claims(b.parts, l.parts, r.parts))
       [] b.scalar = Linkage /\ ~Settled(Claims(b.parts, l.parts, r.parts)) /\ << >> \notin {b.parts, l.parts, r.parts} ->
            ToSet(m.parts[1]) = LinkSet(b.parts, l.parts, r.parts)
       [] OTHER -> m.parts = Value(b.parts, PartsClaims(b.parts, l.parts, r.parts))

DropsParts(b, l, r) == b.parts # << >> /\ << >> \in {l.parts, r.parts}

(* The merge is what the two sides claim: a change of one side is taken,   *)
(* whole or field by field, a change of both that differs is a conflict,   *)
(* nothing else changes, and left and right are alike.  Left out are       *)
(* records whose indexed part one side drops (merge.js mergeImageRecords   *)
(* 408-675 and the helpers above it).                                      *)
MergeTakesEveryClaim ==
  LET b == sides["base"]  l == sides["left"]  r == sides["right"]
      plan == PlanRecord(b, l, r)
      claims == Claims(b, l, r)
      byField == /\ b.kind \in Structured /\ l.kind = b.kind /\ r.kind = b.kind
                 /\ NoRec \notin {b, l, r} /\ ~Settled(claims) IN
  IF byField
  THEN ~DropsParts(b, l, r) =>
         /\ plan.conflict = "none" <=> FieldsSettled(b, l, r)
         /\ plan.conflict = "none" => FieldsAgree(plan.record, b, l, r)
  ELSE /\ plan.conflict = "none" <=> Settled(claims)
       /\ plan.record = Value(b, claims)
       /\ plan.remove <=> (b # NoRec /\ plan.record = NoRec)

----------------------------------------
(* Descriptors and releases.                                               *)

NoMember == [role |-> Missing, target |-> NoRef]

(* sameRef, rehomeRef, rehomeMember.  A merge across images compares refs  *)
(* by object id; every ref of the result is put into the target image.     *)
SameRef(x, y) ==
  \/ x = y
  \/ crossImage /\ NoRef \notin {x, y} /\ x.id = y.id

RehomeRef(ref) == IF ref = NoRef THEN ref ELSE [ref EXCEPT !.image = TargetImage]
RehomeMember(member) == [member EXCEPT !.target = RehomeRef(@)]
SameMember(x, y) == x.role = y.role /\ SameRef(x.target, y.target)

(* A field of a descriptor, under an equality of its own.                  *)
FieldThreeWay(b, l, r, Same(_, _)) ==
  [merged |-> IF Same(l, b) THEN r ELSE IF Same(r, b) \/ Same(l, r) THEN l ELSE b,
   conflict |-> ~Same(l, b) /\ ~Same(r, b) /\ ~Same(l, r)]

MergeName(b, l, r) == ThreeWay(b.name, l.name, r.name)

MergeNamespace(b, l, r) ==
  LET m == FieldThreeWay(b.namespace, l.namespace, r.namespace, SameRef) IN
  [m EXCEPT !.merged = RehomeRef(@)]

(* One member of mergeProjectDescriptors; an added member in conflict is   *)
(* left out, any other conflict leaves the base's member.                  *)
MergeDeleted(b, l, r) ==
  LET other == IF l = NoMember THEN r ELSE l
      conflict == other # NoMember /\ ~SameMember(other, b) IN
  [merged |-> IF conflict THEN b ELSE NoMember, conflict |-> conflict]

MergeAdded(l, r) ==
  CASE r = NoMember -> [merged |-> l, conflict |-> FALSE]
    [] l = NoMember -> [merged |-> r, conflict |-> FALSE]
    [] OTHER -> [merged |-> IF SameMember(l, r) THEN l ELSE NoMember,
                 conflict |-> ~SameMember(l, r)]

MergeModified(b, l, r) ==
  LET whole == FieldThreeWay(b, l, r, SameMember)
      role == ThreeWay(b.role, l.role, r.role)
      target == FieldThreeWay(b.target, l.target, r.target, SameRef)
      conflict == whole.conflict /\ (role.conflict \/ target.conflict) IN
  [merged |-> CASE ~whole.conflict -> whole.merged
                [] conflict -> b
                [] OTHER -> [role |-> role.merged,
                             target |-> IF SameRef(l.target, b.target) THEN r.target
                                        ELSE l.target],
   conflict |-> conflict]

MergeMember(b, l, r) ==
  LET m == CASE b = NoMember -> MergeAdded(l, r)
             [] b # NoMember /\ NoMember \in {l, r} -> MergeDeleted(b, l, r)
             [] OTHER -> MergeModified(b, l, r) IN
  [m EXCEPT !.merged = RehomeMember(@)]

MergeDescriptors(b, l, r) ==
  LET member(k) == MergeMember(b.members[k], l.members[k], r.members[k]) IN
  [merged |-> [name |-> MergeName(b, l, r).merged,
               namespace |-> MergeNamespace(b, l, r).merged,
               members |-> [k \in MemberKeys |-> member(k).merged]],
   conflict |-> \/ MergeName(b, l, r).conflict \/ MergeNamespace(b, l, r).conflict
                \/ \E k \in MemberKeys : member(k).conflict]

(* mergeProjectReleases: the profile, the members by key and the           *)
(* dependencies by project, each of them whole.                            *)
MergeEntry(b, l, r) ==
  LET m == ThreeWay(b, l, r) IN
  [m EXCEPT !.merged = IF m.conflict /\ b = Missing THEN Missing ELSE @]

MergeReleases(b, l, r) ==
  LET member(k) == MergeEntry(b.members[k], l.members[k], r.members[k])
      dependency(k) == MergeEntry(b.dependencies[k], l.dependencies[k], r.dependencies[k])
      profile == ThreeWay(b.profile, l.profile, r.profile) IN
  [merged |-> [profile |-> profile.merged,
               members |-> [k \in MemberKeys |-> member(k).merged],
               dependencies |-> [k \in MemberKeys |-> dependency(k).merged]],
   conflict |-> \/ profile.conflict
                \/ \E k \in MemberKeys : member(k).conflict \/ dependency(k).conflict]

----------------------------------------
(* diffProjectDescriptors and diffProjectReleases: what happened to a key. *)
DiffKey(before, after, none) ==
  CASE before = none /\ after = none -> "absent"
    [] before = none /\ after # none -> "added"
    [] before # none /\ after = none -> "removed"
    [] OTHER -> IF before = after THEN "unchanged" ELSE "modified"

DiffMembers(from, to, none) ==
  [k \in MemberKeys |-> DiffKey(from.members[k], to.members[k], none)]

DiffDescriptors(from, to) ==
  [nameChanged |-> from.name # to.name, namespaceChanged |-> from.namespace # to.namespace,
   members |-> DiffMembers(from, to, NoMember)]

(* planProjectUpgrade, and the installation its actions lead to.           *)
UpgradeAction(installed, desired) ==
  CASE installed = Missing /\ desired = Missing -> "none"
    [] installed = Missing /\ desired # Missing -> "install"
    [] installed # Missing /\ desired = Missing -> "detach"
    [] OTHER -> IF installed = desired THEN "retain" ELSE "replace"

Upgraded(current, next) ==
  [k \in MemberKeys |->
     CASE UpgradeAction(current[k], next[k]) \in {"install", "replace"} -> next[k]
       [] UpgradeAction(current[k], next[k]) = "retain" -> current[k]
       [] OTHER -> Missing]

ProjectCasesInit ==
  /\ project \in [{"base", "left", "right"} -> Descriptors]
  /\ release \in [{"base", "left", "right"} -> Manifests]
  /\ crossImage \in BOOLEAN

----------------------------------------
AtHome(ref) == ref = NoRef \/ ref.image = TargetImage
AllAtHome(d) == AtHome(d.namespace) /\ \A k \in MemberKeys : AtHome(d.members[k].target)

MembersSettled(b, l, r) ==
  IF NoMember \in {b, l, r} THEN Settled(Claims(b, l, r))
  ELSE Settled(Claims(b.role, l.role, r.role)) /\ Settled(Claims(b.target, l.target, r.target))

MemberValue(b, l, r) ==
  IF NoMember \in {b, l, r} THEN Value(b, Claims(b, l, r))
  ELSE [role |-> Value(b.role, Claims(b.role, l.role, r.role)),
        target |-> Value(b.target, Claims(b.target, l.target, r.target))]

(* Within one image a Project merges to what the two sides claim: name,    *)
(* namespace, and for every member its presence, role and target; what     *)
(* both claim differently is a conflict, and a clean merge applies both    *)
(* diffs and nothing else (mergeProjectDescriptors, diffProjectDescriptors).*)
ProjectsTakeEveryClaim ==
  LET b == project["base"]  l == project["left"]  r == project["right"]
      m == MergeDescriptors(b, l, r)
      diff(x) == DiffDescriptors(b, x).members IN
  (\A side \in DOMAIN project : AllAtHome(project[side])) /\ ~crossImage =>
    /\ ~m.conflict <=>
         /\ Settled(Claims(b.name, l.name, r.name))
         /\ Settled(Claims(b.namespace, l.namespace, r.namespace))
         /\ \A k \in MemberKeys : MembersSettled(b.members[k], l.members[k], r.members[k])
    /\ ~m.conflict =>
         /\ m.merged.name = Value(b.name, Claims(b.name, l.name, r.name))
         /\ m.merged.namespace = Value(b.namespace, Claims(b.namespace, l.namespace, r.namespace))
         /\ \A k \in MemberKeys :
              /\ m.merged.members[k] = MemberValue(b.members[k], l.members[k], r.members[k])
              /\ diff(m.merged)[k] \in {diff(l)[k], diff(r)[k]}

(* An upgrade to the clean merge of two releases installs exactly what the *)
(* two sides claim, and touches no member that neither of them changed     *)
(* (mergeProjectReleases, planProjectUpgrade).                             *)
UpgradesFollowTheMerge ==
  LET b == release["base"]  l == release["left"]  r == release["right"]
      m == MergeReleases(b, l, r) IN
  ~m.conflict =>
    \A k \in MemberKeys :
      /\ Upgraded(b.members, m.merged.members)[k] =
           Value(b.members[k], Claims(b.members[k], l.members[k], r.members[k]))
      /\ UpgradeAction(b.members[k], m.merged.members[k]) \notin {"retain", "none"} =>
           b.members[k] \notin {l.members[k]} \cap {r.members[k]}
========================================
