------------------------------- MODULE Projects -------------------------------
(* A durable working Project and the capture of a release from it              *)
(* (project/working-state.js, project/release-capture.js, and the closure      *)
(* walk of graph/bundle.js).  A Project is one object whose indexed part links *)
(* its member objects; a member is an object with a role and a target; the     *)
(* targets, in the Project's image or another one, refer to one another.  Each *)
(* await is a step, so the clients that create the Project, add members,       *)
(* rename it and capture releases interleave with one another and with the     *)
(* edits of the targets; a client may die between two steps.                   *)
(* Admission of the shapes (ensureShapes) is the subject of EnsureRecords and  *)
(* done; record contents are reduced to one datum (a Project's name, a         *)
(* member's role) and the references.                                          *)
EXTENDS Naturals, Sequences, SequencesExt, FiniteSets

CONSTANTS
  Project,      \* the id of the Project object
  Members,      \* the ids of the member objects its keys name
  Targets,      \* the ids of the objects members may name
  HomeOf,       \* [ids -> images]: the image a record lives in
  ProjectNames,        \* the names a Project is given
  Roles,        \* the roles of members
  Selected,     \* the roles the release profile selects
  ProjectClients,
  MaxProjectOps, MaxTargetEdits, MaxProjectCrashes   \* bounds of the instance

ASSUME ProjectAssumption ==
  /\ HomeOf \in [{Project} \cup Members \cup Targets -> STRING]
  /\ \A m \in Members : HomeOf[m] = HomeOf[Project]
  /\ Selected \subseteq Roles
  /\ IsFiniteSet(Members) /\ IsFiniteSet(Targets)
  /\ Project \notin Members \cup Targets

ProjectIds == {Project} \cup Members \cup Targets
HostImages == {HomeOf[id] : id \in ProjectIds}
Absent == [version |-> 0]

VARIABLES
  store,        \* [ids -> the record there, or Absent]: datum, refs, version
  frontier,     \* [images -> how many commits it has had]
  worker,       \* [clients -> what the client is doing, with what it has read]
  projectOps, targetEdits, projectCrashes
projectVars == <<store, frontier, worker, projectOps, targetEdits, projectCrashes>>

Resting == [at |-> "rest"]
Here(id) == store[id] # Absent
ImageContents(i) == [id \in {x \in ProjectIds : HomeOf[x] = i} |-> store[id]]

(* A committed put: the next version of the record, one more commit of its     *)
(* image.                                                                      *)
PutRecord(id, datum, refs) ==
  /\ store' = [store EXCEPT ![id] =
                [datum |-> datum, refs |-> refs, version |-> store[id].version + 1]]
  /\ frontier' = [frontier EXCEPT ![HomeOf[id]] = @ + 1]

Becomes(c, state) == worker' = [worker EXCEPT ![c] = state]
Reads == UNCHANGED <<store, frontier>>
SameWork == UNCHANGED <<projectOps, targetEdits, projectCrashes>>
Takes(c, at) == worker[c].at = at
Begins(c, state) ==
  /\ worker[c].at \in {"rest", "ended", "added", "released"}
  /\ projectOps < MaxProjectOps
  /\ projectOps' = projectOps + 1
  /\ Becomes(c, state)
  /\ Reads /\ UNCHANGED <<targetEdits, projectCrashes>>

----------------------------------------
(* createProject: an existing Project is returned as it is; otherwise an       *)
(* insert-only put, whose conflict means somebody else created it meanwhile.   *)
ProjectReads(c, n) ==
  Begins(c, IF Here(Project) THEN [at |-> "ended"] ELSE [at |-> "create", name |-> n])

ProjectPuts(c) ==
  /\ Takes(c, "create")
  /\ Becomes(c, [at |-> "ended"])
  /\ IF store[Project].version = 0
       THEN PutRecord(Project, worker[c].name, {})
       ELSE Reads
  /\ SameWork

(* addProjectMember reads the Project, then the member.  A member that exists  *)
(* with the same role is retargeted at the version read (nothing to do when    *)
(* the target is the same) and the call succeeds; a new one is put with no     *)
(* expected version and then linked into the Project as it was read.           *)
AddReadsProject(c, m, role, t) ==
  /\ Here(Project)
  /\ Begins(c, [at |-> "member", member |-> m, role |-> role, target |-> t,
                project |-> store[Project]])

AddReadsMember(c) ==
  LET w == worker[c]
      old == store[w.member]
  IN /\ Takes(c, "member")
     /\ Becomes(c,
          CASE ~Here(w.member)        -> [w EXCEPT !.at = "put"]
            [] Here(w.member) /\ old.datum # w.role -> [at |-> "ended"]
            [] Here(w.member) /\ old.datum = w.role /\ old.refs = {w.target} ->
                 [at |-> "added", member |-> w.member]
            [] OTHER -> [at |-> "retarget", member |-> w.member, role |-> w.role,
                         target |-> w.target, version |-> old.version])
     /\ Reads /\ SameWork

AddRetargets(c) ==
  LET w == worker[c]
  IN /\ Takes(c, "retarget")
     /\ IF store[w.member].version = w.version
          THEN /\ PutRecord(w.member, w.role, {w.target})
               /\ Becomes(c, [at |-> "added", member |-> w.member])
          ELSE Reads /\ Becomes(c, [at |-> "ended"])
     /\ SameWork

AddPutsMember(c) ==
  LET w == worker[c]
  IN /\ Takes(c, "put")
     /\ PutRecord(w.member, w.role, {w.target})
     /\ Becomes(c, IF w.member \in w.project.refs
                     THEN [at |-> "added", member |-> w.member]
                     ELSE [at |-> "link", member |-> w.member, project |-> w.project])
     /\ SameWork

AddLinksMember(c) ==
  LET w == worker[c]
  IN /\ Takes(c, "link")
     /\ IF store[Project].version = w.project.version
          THEN /\ PutRecord(Project, w.project.datum, w.project.refs \cup {w.member})
               /\ Becomes(c, [at |-> "added", member |-> w.member])
          ELSE Reads /\ Becomes(c, [at |-> "ended"])
     /\ SameWork

(* authorizedReadProject gives the caller the version of the Project object as *)
(* a token; authorizedRenameProject reads the record again and writes it with  *)
(* the new name, on the condition that the version is still the token's.       *)
RenameTakesToken(c, n) ==
  /\ Here(Project)
  /\ Begins(c, [at |-> "rename", name |-> n, token |-> store[Project].version])

RenameReads(c) ==
  LET w == worker[c]
  IN /\ Takes(c, "rename")
     /\ Becomes(c, [at |-> "renamed", name |-> w.name, token |-> w.token,
                    refs |-> store[Project].refs])
     /\ Reads /\ SameWork

RenamePuts(c) ==
  LET w == worker[c]
  IN /\ Takes(c, "renamed")
     /\ Becomes(c, [at |-> "ended"])
     /\ IF store[Project].version = w.token
          THEN PutRecord(Project, w.name, w.refs)
          ELSE Reads
     /\ SameWork

----------------------------------------
(* A capture reads through one session.  The first read from an image is       *)
(* preceded by a read of its frontier; the Project and its members come first, *)
(* then the targets of the selected members (direct), or everything reachable  *)
(* from them (graph), in the order they were met; a missing record ends it.    *)
(* At the end every frontier is read again, image by image, and one that moved *)
(* refuses the capture.  `before` also keeps what the image held at its        *)
(* frontier, for the statement of ReleasesAreMoments only.                     *)
CaptureBegins(c, whole) ==
  Begins(c, [at |-> "capture", whole |-> whole, todo |-> <<Project>>,
             before |-> <<>>, seen |-> {}])

Brackets(c) ==
  LET w == worker[c]
      image == HomeOf[Head(w.todo)]
  IN /\ Takes(c, "capture")
     /\ w.todo # <<>>
     /\ image \notin DOMAIN w.before
     /\ Becomes(c, [w EXCEPT !.before =
          [i \in DOMAIN @ \cup {image} |->
             IF i = image THEN [frontier |-> frontier[image],
                                held |-> ImageContents(image)] ELSE @[i]]])
     /\ Reads /\ SameWork

(* What reading a record adds to the walk: the members of the Project, the     *)
(* target of a selected member, what a target refers to when the whole graph   *)
(* is captured.                                                                *)
Follows(w, id, record) ==
  CASE id = Project -> record.refs
    [] id \in Members -> IF record.datum \in Selected THEN record.refs ELSE {}
    [] OTHER -> IF w.whole THEN record.refs ELSE {}

CaptureReads(c) ==
  LET w == worker[c]
      id == Head(w.todo)
      old == {x \in w.seen : x.id = id}
  IN /\ Takes(c, "capture")
     /\ w.todo # <<>>
     /\ HomeOf[id] \in DOMAIN w.before
     /\ Becomes(c,
          IF w.whole /\ old # {} THEN [w EXCEPT !.todo = Tail(@)]
          ELSE IF ~Here(id) THEN [at |-> "ended"]
          ELSE [w EXCEPT !.seen = @ \cup {[id |-> id, record |-> store[id]]},
                         !.todo = Tail(@) \o SetToSeq(Follows(w, id, store[id]))])
     /\ Reads /\ SameWork

CaptureChecks(c) ==
  LET w == worker[c]
  IN /\ Takes(c, "capture")
     /\ w.todo = <<>>
     /\ Becomes(c, [at |-> "stable", before |-> w.before, seen |-> w.seen,
                    left |-> SetToSeq(DOMAIN w.before)])
     /\ Reads /\ SameWork

AssertsStable(c) ==
  LET w == worker[c]
  IN /\ Takes(c, "stable")
     /\ Becomes(c,
          IF w.left = <<>>
            THEN [at |-> "released", before |-> w.before, seen |-> w.seen]
          ELSE IF frontier[Head(w.left)] = w.before[Head(w.left)].frontier
            THEN [w EXCEPT !.left = Tail(@)]
          ELSE [at |-> "ended"])
     /\ Reads /\ SameWork

----------------------------------------
(* Somebody edits a target; a client dies.                                     *)
EditsTarget(t, refs) ==
  /\ targetEdits < MaxTargetEdits
  /\ targetEdits' = targetEdits + 1
  /\ refs # store[t].refs
  /\ PutRecord(t, store[t].datum, refs)
  /\ UNCHANGED <<worker, projectOps, projectCrashes>>

ProjectClientDies(c) ==
  /\ projectCrashes < MaxProjectCrashes
  /\ worker[c].at \notin {"rest", "ended", "added", "released"}
  /\ projectCrashes' = projectCrashes + 1
  /\ Becomes(c, Resting)
  /\ Reads /\ UNCHANGED <<projectOps, targetEdits>>

ProjectInit ==
  /\ store = [id \in ProjectIds |->
       IF id \in Targets THEN [datum |-> "target", refs |-> {}, version |-> 1] ELSE Absent]
  /\ frontier = [i \in HostImages |-> 0]
  /\ worker = [c \in ProjectClients |-> Resting]
  /\ projectOps = 0 /\ targetEdits = 0 /\ projectCrashes = 0

CaptureStep(c) ==
  \/ \E whole \in BOOLEAN : CaptureBegins(c, whole)
  \/ Brackets(c) \/ CaptureReads(c) \/ CaptureChecks(c) \/ AssertsStable(c)

ProjectNext ==
  \/ \E c \in ProjectClients :
       \/ \E n \in ProjectNames : ProjectReads(c, n) \/ RenameTakesToken(c, n)
       \/ ProjectPuts(c)
       \/ \E m \in Members, role \in Roles, t \in Targets : AddReadsProject(c, m, role, t)
       \/ AddReadsMember(c) \/ AddRetargets(c) \/ AddPutsMember(c) \/ AddLinksMember(c)
       \/ RenameReads(c) \/ RenamePuts(c)
       \/ CaptureStep(c)
       \/ ProjectClientDies(c)
  \/ \E t \in Targets, refs \in SUBSET Targets : EditsTarget(t, refs)

ProjectSpec == ProjectInit /\ [][ProjectNext]_projectVars

----------------------------------------
ProjectTypeOK ==
  /\ \A id \in ProjectIds :
       \/ store[id] = Absent
       \/ /\ store[id].version \in Nat \ {0}
          /\ store[id].refs \subseteq ProjectIds
          /\ store[id].datum \in ProjectNames \cup Roles \cup {"target"}
  /\ frontier \in [HostImages -> Nat]
  /\ \A c \in ProjectClients :
       worker[c].at \in {"rest", "create", "member", "retarget", "put", "link", "rename",
                         "renamed", "capture", "stable", "ended", "added", "released"}

(* A release that was captured is one moment of every image it drew on: every  *)
(* record read from an image is what that image held at the frontier the       *)
(* release names for it, however the reads, the discovery of further images    *)
(* and other commits were interleaved (createStableCurrentReadSession).        *)
ReleasesAreMoments ==
  \A c \in ProjectClients : worker[c].at = "released" =>
    \A x \in worker[c].seen : worker[c].before[HomeOf[x.id]].held[x.id] = x.record

(* Once a member is linked into a Project nothing that creates, renames or     *)
(* extends the Project takes the link away, however old the record is that it  *)
(* writes back (createProject's replay, authorizedRenameProject).              *)
LinksAreKept ==
  [][Here(Project) => store[Project].refs \subseteq store'[Project].refs]_projectVars

(* addProjectMember "Add[s] (or, with the same key and role, retarget[s]) a    *)
(* Project member": when a call has succeeded and no other call is still       *)
(* busy with that member, the member is one of the Project's.                  *)
BusyWith(m) == \E c \in ProjectClients :
  worker[c].at \in {"member", "put", "link"} /\ worker[c].member = m
AddedMembersAreLinked ==
  \A c \in ProjectClients :
    worker[c].at = "added" /\ ~BusyWith(worker[c].member) =>
      worker[c].member \in store[Project].refs

----------------------------------------
(* Installing a captured release into an image: the import of its graph bundle  *)
(* (graph/bundle.js), the installation of a release as a fresh copy             *)
(* (project/release-installation.js) and the managed installation, whose one    *)
(* deterministic head record decides between concurrent installers              *)
(* (project/managed-installation.js, project/installation-state.js).            *)
(* A bundle is a rooted graph over local ids; an import mints one target id per *)
(* local id, rewrites every reference and publishes all records in one          *)
(* insert-only transaction (ImageStore's createRecords, one step here).  Every  *)
(* await of an installer is a step; an installer may die between two of them    *)
(* and its caller may try again.                                                *)

CONSTANTS
  Installers,
  Releases,
  RootsOf,       \* [Releases -> [member keys -> local ids]]
  RecordsOf,     \* [Releases -> [local ids -> the local ids a record refers to]]
  MaxInstalls, MaxInstallCrashes    \* bounds of the instance

ASSUME InstallAssumption == \A r \in Releases :
  /\ IsFiniteSet(DOMAIN RootsOf[r]) /\ IsFiniteSet(DOMAIN RecordsOf[r])
  /\ \A k \in DOMAIN RootsOf[r] : RootsOf[r][k] \in DOMAIN RecordsOf[r]
  /\ \A l \in DOMAIN RecordsOf[r] : RecordsOf[r][l] \subseteq DOMAIN RecordsOf[r]

HeadId == 0                              \* installationHeadObjectId(projectId)

VARIABLES
  target,        \* the records of the target image, by id: kind and references
  minted,        \* the last id a uuid was drawn for
  installer,     \* [installers -> where its call is and what it holds]
  installs, installCrashes
installVars == <<target, minted, installer, installs, installCrashes>>

NotInstalling == [at |-> "rest"]
In(i, at) == installer[i].at = at
InstallerGoes(i, state) == installer' = [installer EXCEPT ![i] = state]
Unpublished == UNCHANGED <<target, minted>>
SameInstalls == UNCHANGED <<installs, installCrashes>>

Asked(i, release, managed) ==
  /\ installer[i].at \in {"rest", "installed", "refused"}
  /\ installs < MaxInstalls
  /\ installs' = installs + 1
  /\ InstallerGoes(i, [at |-> IF managed THEN "head" ELSE "prepare",
               release |-> release, managed |-> managed])
  /\ Unpublished /\ UNCHANGED installCrashes

----------------------------------------

(* readManagedProjectInstallation: the head, then the snapshot it names, then  *)
(* the members the snapshot links.  decideExisting: the installation of the    *)
(* same release is the answer, another release is a conflict.                  *)
Decided(i, winner) ==
  IF winner.release = installer[i].release
    THEN [at |-> "installed", managed |-> TRUE, release |-> winner.release,
          roots |-> winner.roots]
    ELSE [at |-> "refused"]

ReadsHead(i) ==
  /\ In(i, "head") \/ In(i, "winner")
  /\ InstallerGoes(i, [installer[i] EXCEPT
       !.at = IF HeadId \in DOMAIN target THEN "snapshot"
              ELSE IF In(i, "winner") THEN "refused" ELSE "prepare"])
  /\ Unpublished /\ SameInstalls

ReadsSnapshot(i) ==
  /\ In(i, "snapshot")
  /\ LET snapshot == target[HeadId].snapshot
     IN InstallerGoes(i, IF snapshot \notin DOMAIN target THEN [at |-> "refused"]
                 ELSE [at |-> "members", release |-> installer[i].release,
                       managed |-> TRUE, snapshot |-> snapshot])
  /\ Unpublished /\ SameInstalls

ReadsMembers(i) ==
  /\ In(i, "members")
  /\ LET snapshot == target[installer[i].snapshot]
     IN InstallerGoes(i, IF snapshot.members \subseteq DOMAIN target
          THEN Decided(i, [release |-> snapshot.release,
                 roots |-> [k \in {target[m].key : m \in snapshot.members} |->
                              (CHOOSE m \in {target[x] : x \in snapshot.members} :
                                 m.key = k).refersTo]])
          ELSE [at |-> "refused"])
  /\ Unpublished /\ SameInstalls

----------------------------------------
(* prepareGraphBundleImport: one fresh id per local id, all minted before any  *)
(* record is rewritten, so that shared and cyclic references meet.             *)
(* materializeInstallationRecords mints one more per member and one for the    *)
(* snapshot.                                                                   *)
FreshIds(locals, from) ==
  CHOOSE f \in [locals -> from + 1 .. from + Cardinality(locals)] :
    \A a, b \in locals : f[a] = f[b] => a = b

Rewritten(r, ids, managed) ==
  [id \in {ids[l] : l \in DOMAIN ids} |->
     LET l == CHOOSE x \in DOMAIN ids : ids[x] = id
     IN [kind |-> "graph", managed |-> managed,
         refs |-> {ids[y] : y \in RecordsOf[r][l]}]]

InstallationRecords(r, ids, from) ==
  LET keys == DOMAIN RootsOf[r]
      memberIds == FreshIds(keys, from)
      members == {memberIds[k] : k \in keys}
      snapshot == from + Cardinality(keys) + 1
  IN [id \in members \cup {snapshot, HeadId} |->
        IF id = HeadId THEN [kind |-> "head", snapshot |-> snapshot]
        ELSE IF id = snapshot
          THEN [kind |-> "snapshot", release |-> r, members |-> members]
        ELSE LET k == CHOOSE x \in keys : memberIds[x] = id
             IN [kind |-> "member", key |-> k, refersTo |-> ids[RootsOf[r][k]]]]

Prepares(i) ==
  LET r == installer[i].release
      ids == FreshIds(DOMAIN RecordsOf[r], minted)
      drawn == minted + Cardinality(DOMAIN RecordsOf[r])
  IN /\ In(i, "prepare")
     /\ minted' = drawn + IF installer[i].managed
                            THEN Cardinality(DOMAIN RootsOf[r]) + 1 ELSE 0
     /\ InstallerGoes(i, [at |-> "publish", release |-> r, managed |-> installer[i].managed,
          roots |-> [k \in DOMAIN RootsOf[r] |-> ids[RootsOf[r][k]]],
          graph |-> Rewritten(r, ids, installer[i].managed),
          state |-> IF installer[i].managed
                      THEN InstallationRecords(r, ids, drawn) ELSE <<>>])
     /\ UNCHANGED target /\ SameInstalls

(* createRecords: everything or nothing; an id that exists, which only the     *)
(* head can be, is a conflict, and the installer then reads who won.           *)
With(f, g) == [x \in DOMAIN f \cup DOMAIN g |-> IF x \in DOMAIN g THEN g[x] ELSE f[x]]

PublishesTheGraphFirst(i) ==
  LET w == installer[i]
  IN /\ In(i, "publish")
     /\ IF DOMAIN w.state \cap DOMAIN target # {}
          THEN /\ InstallerGoes(i, [at |-> "winner", release |-> w.release, managed |-> TRUE])
               /\ target' = With(target, w.graph)
          ELSE /\ target' = With(With(target, w.graph), w.state)
               /\ InstallerGoes(i, [at |-> "installed", managed |-> w.managed,
                            release |-> w.release, roots |-> w.roots])
     /\ UNCHANGED minted /\ SameInstalls

Publishes(i) ==
  LET w == installer[i]
  IN /\ In(i, "publish")
     /\ IF DOMAIN w.state \cap DOMAIN target # {}
          THEN /\ InstallerGoes(i, [at |-> "winner", release |-> w.release, managed |-> TRUE])
               /\ UNCHANGED target
          ELSE /\ target' = With(With(target, w.graph), w.state)
               /\ InstallerGoes(i, [at |-> "installed", managed |-> w.managed,
                            release |-> w.release, roots |-> w.roots])
     /\ UNCHANGED minted /\ SameInstalls

InstallerDies(i) ==
  /\ installCrashes < MaxInstallCrashes
  /\ installer[i].at \notin {"rest", "installed", "refused"}
  /\ installCrashes' = installCrashes + 1
  /\ InstallerGoes(i, NotInstalling)
  /\ Unpublished /\ UNCHANGED installs

InstallInit ==
  /\ target = <<>>
  /\ minted = 0
  /\ installer = [i \in Installers |-> NotInstalling]
  /\ installs = 0 /\ installCrashes = 0

InstallNext == \E i \in Installers :
  \/ \E r \in Releases, managed \in BOOLEAN : Asked(i, r, managed)
  \/ ReadsHead(i) \/ ReadsSnapshot(i) \/ ReadsMembers(i)
  \/ Prepares(i) \/ Publishes(i) \/ InstallerDies(i)

InstallSpec == InstallInit /\ [][InstallNext]_installVars

----------------------------------------
InstallTypeOK ==
  /\ minted \in Nat
  /\ DOMAIN target \subseteq 0 .. minted
  /\ \A id \in DOMAIN target : target[id].kind \in {"graph", "member", "snapshot", "head"}
  /\ \A i \in Installers : installer[i].at \in
       {"rest", "head", "winner", "snapshot", "members", "prepare", "publish",
        "installed", "refused"}

(* What the targets of an installation reach is a copy of the release's graph: *)
(* the same sharing and the same cycles, and nothing missing.                  *)
IsACopy(r, roots) ==
  \E copy \in [DOMAIN RecordsOf[r] -> DOMAIN target] :
    /\ \A a, b \in DOMAIN copy : copy[a] = copy[b] => a = b
    /\ \A k \in DOMAIN RootsOf[r] : copy[RootsOf[r][k]] = roots[k]
    /\ \A l \in DOMAIN copy : /\ target[copy[l]].kind = "graph"
                              /\ target[copy[l]].refs = {copy[y] : y \in RecordsOf[r][l]}

(* Every call that succeeds, the loser of a race and the retry after a crash   *)
(* included, is given targets that hold a whole copy of the very release it    *)
(* asked for (decideExisting, prepareGraphBundleImport).                       *)
InstalledMeansCopied ==
  \A i \in Installers : In(i, "installed") =>
    /\ DOMAIN installer[i].roots = DOMAIN RootsOf[installer[i].release]
    /\ IsACopy(installer[i].release, installer[i].roots)

(* A managed attempt that lost the race for the head, or died, leaves nothing  *)
(* behind: the graph records that managed installs put into the image are      *)
(* exactly as many as the release in the head has, none before there is a head *)
(* (installManagedProjectRelease, createRecords).                              *)
LosersLeaveNothing ==
  Cardinality({id \in DOMAIN target : target[id].kind = "graph" /\ target[id].managed})
    = IF HeadId \in DOMAIN target
        THEN Cardinality(DOMAIN RecordsOf[target[target[HeadId].snapshot].release])
        ELSE 0
========================================
