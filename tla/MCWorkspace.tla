----------------------------- MODULE MCWorkspace -----------------------------
(***************************************************************************)
(* What clients do with a workspace's objects, each on its own: branches   *)
(* and merges of images, the merges of single records and of Projects and  *)
(* releases, work on a Project, the installation of releases, derived      *)
(* artifacts, objects under authority with their observers, and the        *)
(* migration of objects to another shape.  One of the parts runs, the      *)
(* others rest where they began.                                           *)
(***************************************************************************)
EXTENDS Branches, Merges, Projects, Derivations,
        AuthorizedObjects, ShapeMigration

CONSTANTS Parts, thing, holder, fixedId

VARIABLE part

mergeVars == <<sides, project, release, crossImage>>

----------------------------------------
(* Two images with one branch name; two objects, one of them removed since *)
(* the revision the branch is at.                                          *)
ObjectRec(scalar, x, y, parts) ==
  [kind |-> "object", scalar |-> scalar, parts |-> parts,
   slots |-> [s \in Slots |-> IF s = "x" THEN x ELSE y]]
OtherRec(kind, scalar, y) ==
  [kind |-> kind, scalar |-> scalar, slots |-> [s \in Slots |-> IF s = "x" THEN "-" ELSE y],
   parts |-> << >>]
Plain(x) == ObjectRec("s", x, "0", << >>)
PairOf(first, second) == [id \in {1, 2} |-> IF id = 1 THEN first ELSE second]
TwoRecords == {Plain("0"), Plain("1")}
OneBeginning == {<<PairOf(Plain("0"), Plain("0")), PairOf(NoRec, Plain("0"))>>}

(* Records to merge: slots kept, changed and removed on either side, rows  *)
(* of values and links that grow, shrink and reorder, the kinds that must  *)
(* not change.                                                             *)
RecordsToMerge ==
  {NoRec}
  \cup {ObjectRec("plain", x, y, << >>) : x \in {"0", "1", "2"}, y \in {"0", "1", "-"}}
  \cup {ObjectRec("values", "0", y, <<row>>) :
          y \in {"0", "1"}, row \in {<<1>>, <<2>>, <<1, 2>>, <<3, 2>>, <<1, 4>>}}
  \cup {ObjectRec("project", "0", "0", <<row>>) : row \in {<< >>, <<1>>, <<2>>, <<1, 2>>, <<1, 3>>}}
  \cup {OtherRec("code-artifact", code, "-") : code \in {"c", "d", "e"}}
  \cup {OtherRec("lexical-environment", code, y) : code \in {"c", "d"}, y \in {"0", "1", "-"}}

(* A Project with a name, a namespace here or in another image and one     *)
(* member; a release with one member and one dependency.                   *)
Namespaces == {[image |-> "home", id |-> 1], [image |-> "home", id |-> 2], [image |-> "away", id |-> 1]}
SomeDescriptors ==
  [name : {"p", "q"}, namespace : {NoRef},
   members : [MemberKeys -> {NoMember} \cup [role : {"code", "text"}, target : Namespaces]]]
  \cup [name : {"p"}, namespace : Namespaces, members : [MemberKeys -> {NoMember}]]
SomeManifests ==
  [profile : {"all"}, members : [MemberKeys -> {Missing, "1", "2"}],
   dependencies : [MemberKeys -> {Missing, "1"}]]
ThreeOf(x) == [side \in {"base", "left", "right"} |-> x]
FirstOf(S) == ThreeOf(CHOOSE x \in S : TRUE)

(* A Project whose one member may name an object of another image.         *)
Homes == [p |-> "home", m |-> "home", t |-> "home", u |-> "away"]

(* Two releases of one project: a cycle, and one record more.              *)
ReleaseRoots == [r1 |-> [k |-> "a", l |-> "a"], r2 |-> [k |-> "a"]]
ReleaseRecords == [r1 |-> [a |-> {"b"}, b |-> {"a"}], r2 |-> [a |-> {"b", "c"}, b |-> {"c"}, c |-> {}]]

(* A request leaves the ids to the service or chooses the first.           *)
SomeWanted == {<< >>, <<fixedId>>}

(* A batch of one that names its second member and one that names an       *)
(* object; a grant to read, one to refer and the one to create.            *)
SomeBatches == {<<2, thing>>}
SomeGrants == {<<"read", thing>>, <<"edge", thing>>, <<"create", ClassId>>}

(* A shape and another with the slots' names exchanged, one slot more and  *)
(* no indexed part.                                                        *)
SlotOf(id, name) == [id |-> id, name |-> name]
TwoShapes ==
  [s |-> [slots |-> {SlotOf("1", "x"), SlotOf("2", "y")}, indexed |-> TRUE],
   t |-> [slots |-> {SlotOf("1", "y"), SlotOf("2", "x"), SlotOf("3", "z")}, indexed |-> FALSE]]
NoMapping == [k \in {} |-> "1"]
Request(m, d, drop) == [from |-> "s", to |-> "t", mapping |-> m, default |-> d, drop |-> drop]
SomeMigrations ==
  {Request(NoMapping, 0, TRUE), Request(NoMapping, NoDefault, TRUE),
   Request([k \in {"3"} |-> "1"], NoDefault, TRUE), Request([k \in {"3"} |-> "7"], 0, TRUE),
   Request([k \in {"3"} |-> "1"], 0, FALSE),
   [from |-> "t", to |-> "s", mapping |-> NoMapping, default |-> NoDefault, drop |-> FALSE]}

----------------------------------------
(* One merge is all there is to a merge.                                   *)
MergesInit ==
  IF part = "records"
  THEN CasesInit /\ project = FirstOf(SomeDescriptors) /\ release = FirstOf(SomeManifests)
       /\ crossImage = FALSE
  ELSE /\ sides = ThreeOf(NoRec)
       /\ IF part = "releases"
          THEN /\ ProjectCasesInit
               /\ \/ release = FirstOf(SomeManifests)
                  \/ project = FirstOf(SomeDescriptors) /\ crossImage
          ELSE project = FirstOf(SomeDescriptors) /\ release = FirstOf(SomeManifests)
               /\ crossImage = FALSE

WorkspaceInit ==
  /\ part \in Parts
  /\ BranchesInit
  /\ heads[Home]["main"].revision = 1
  /\ MergesInit
  /\ ProjectInit
  /\ InstallInit
  /\ DerivationInit
  /\ ObjectsInit
  /\ MigrationInit
  /\ \/ part = "migration"
     \/ \A o \in Movables : \A id \in DOMAIN movable[o].slots : movable[o].slots[id] = 0

(* What the run bounds of the branches: a branch is created at, and        *)
(* advanced to, the frontier or one of the first two revisions (the next   *)
(* ones hold what the second holds); who forces an advance gives no token; *)
(* and after a crash what died is tried again, beside what was under way:  *)
(* nothing else begins, and nobody edits, which a merge's promise excuses. *)
BranchesBounds ==
  /\ \A c \in Clients :
       LET now == clients'[c] IN
       /\ clients[c].target = 0 /\ now.target # 0 /\ now.pc \in {"shaping", "checked"}
            => now.target \in {1, 2, Len(history'[now.image])}
       /\ clients[c].pc = "rest" /\ now.pc = "advancing" /\ now.force => now.token = 0
  /\ crashes > 0 =>
       /\ edits' = edits
       /\ \A c \in Clients :
            clients[c].pc = "rest" => clients'[c].pc \notin {"shaping", "advancing", "deleting"}

(* Three builds and one disturbance, or two of each; four calls under the  *)
(* same grants, or three and a change.                                     *)
DerivationBounds == builds' + restarts' + listFailures' + sweeps' <= MaxBuilds + 1
ObjectsBounds == calls' + grantChanges' <= MaxCalls

WorkspaceNext ==
  /\ UNCHANGED <<part, mergeVars>>
  /\ \/ part = "branches" /\ BranchesNext /\ BranchesBounds
        /\ UNCHANGED <<projectVars, installVars, derivationVars, objectVars, migrationVars>>
     \/ part = "project" /\ ProjectNext
        /\ UNCHANGED <<branchVars, installVars, derivationVars, objectVars, migrationVars>>
     \/ part = "install" /\ InstallNext
        /\ UNCHANGED <<branchVars, projectVars, derivationVars, objectVars, migrationVars>>
     \/ part = "derivation" /\ DerivationNext /\ DerivationBounds
        /\ UNCHANGED <<branchVars, projectVars, installVars, objectVars, migrationVars>>
     \/ part = "objects" /\ ObjectsNext /\ ObjectsBounds
        /\ UNCHANGED <<branchVars, projectVars, installVars, derivationVars, migrationVars>>
     \/ part = "migration" /\ MigrationNext
        /\ UNCHANGED <<branchVars, projectVars, installVars, derivationVars, objectVars>>

WorkspaceSpec ==
  WorkspaceInit
  /\ [][WorkspaceNext]_<<part, mergeVars, branchVars, projectVars, installVars, derivationVars,
                         objectVars, migrationVars>>

----------------------------------------
(* The variables of the part that runs have their types.                   *)
WorkspaceTypeOK ==
  /\ part = "branches" => BranchesTypeOK
  /\ part = "project" => ProjectTypeOK
  /\ part = "install" => InstallTypeOK
  /\ part = "derivation" => DerivationTypeOK
  /\ part = "objects" => ObjectsTypeOK
  /\ part = "migration" => MigrationTypeOK

(* A merge takes what exactly one side changed and reports a conflict for  *)
(* what both changed apart, slot by slot, row by row and member by member  *)
(* (graph/merge.js mergeImageRecords, project/merge.js, project/model.js). *)
MergesTakeEveryClaim ==
  /\ part = "records" => MergeTakesEveryClaim
  /\ part = "releases" => ProjectsTakeEveryClaim /\ UpgradesFollowTheMerge

(* A release is a moment of the Project it was captured from, and what is  *)
(* installed is all of a release under new identities, once, whoever else  *)
(* installs (project/release-capture.js, managed-installation.js).         *)
ReleasesAreWhole ==
  /\ part = "project" => ReleasesAreMoments
  /\ part = "install" => InstalledMeansCopied /\ LosersLeaveNothing

(* An artifact that was registered is found again, and an observer is told *)
(* or refused every object that changed before its cursor                  *)
(* (compilation-service.js, callable/image-observation-binding.js).        *)
NothingIsOverlooked ==
  /\ part = "derivation" => NoDerivationIsForgotten
  /\ part = "objects" => ObserversMissNothing

(* No step undoes another's: no advance of a branch is lost, a merge gives *)
(* what its plan says, a Project keeps its links, an object keeps its      *)
(* references, and a tool's outputs are one run's                          *)
(* (graph/branches.js, project/working-state.js, object/migration.js,      *)
(* callable/image-mutation-binding.js, toolchain-service.js).              *)
StepsKeepWhatIsThere ==
  /\ NoAdvanceIsLost /\ MergeGivesThePlan
  /\ LinksAreKept
  /\ ReferencesOnlyGrow
  /\ QuietMigrationsKeepSlots
  /\ ToolResultsAreWhole
========================================
