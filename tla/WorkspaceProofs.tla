---------------------------- MODULE WorkspaceProofs ----------------------------
(***************************************************************************)
(* Projects: for any members, targets, homes of theirs and clients a       *)
(* captured release is one moment of every image it drew on, and no link   *)
(* of a Project to a member is lost.  Installations: a call that succeeds  *)
(* has a whole copy of the release it asked for, and who loses the race    *)
(* for the head leaves nothing.  Authorized objects: for any callers,      *)
(* observers and grants an object keeps its references, and an observer is *)
(* told of every put behind its cursor or was refused it.  Derivations:    *)
(* the reuse index lacks nothing whose maker has returned, and a request   *)
(* is answered with the outputs of one run.  Migrations: a put over what   *)
(* was listed keeps the slots that both shapes have.  With BranchesProofs, *)
(* what all the parts of MCWorkspace promise together.                     *)
(***************************************************************************)
EXTENDS MCWorkspace, BranchesProofs

----------------------------------------
(* Projects.  The records of the images, and what every client has read of *)
(* them.                                                                   *)
Data == ProjectNames \cup Roles \cup {"target"}

RecordsTyped ==
  /\ store = [id \in ProjectIds |-> store[id]]
  /\ \A id \in ProjectIds :
       \/ store[id] = Absent
       \/ /\ store[id].version \in Nat \ {0}
          /\ store[id].refs \subseteq ProjectIds
          /\ store[id].datum \in Data
  /\ \A t \in Targets : Here(t)
  /\ frontier \in [HostImages -> Nat]

Places == {"rest", "create", "member", "retarget", "put", "link", "rename",
           "renamed", "capture", "stable", "ended", "added", "released"}

WorkersTyped ==
  /\ worker = [c \in ProjectClients |-> worker[c]]
  /\ \A c \in ProjectClients : worker[c].at \in Places

(* What a call was asked for, and that a Project it read is as it was      *)
(* unless it has another version by now.                                   *)
AddsSoundly(c) ==
  LET w == worker[c] IN
  /\ w.at = "create" => w.name \in ProjectNames
  /\ w.at \in {"member", "put", "retarget", "link"} => w.member \in Members
  /\ w.at \in {"member", "put", "retarget"} => w.role \in Roles /\ w.target \in Targets
  /\ w.at = "member" => w = [at |-> "member", member |-> w.member, role |-> w.role,
                             target |-> w.target, project |-> w.project]
  /\ w.at \in {"member", "put", "link"} =>
       /\ w.project.version \in Nat /\ w.project.version <= store[Project].version
       /\ w.project.refs \subseteq ProjectIds /\ w.project.datum \in Data
       /\ w.project.version = store[Project].version => w.project.refs = store[Project].refs

RenamesSoundly(c) ==
  LET w == worker[c] IN
  w.at \in {"rename", "renamed"} =>
    /\ Here(Project) /\ w.name \in ProjectNames
    /\ w.token \in Nat /\ w.token <= store[Project].version
    /\ w.at = "renamed" =>
         /\ w.refs \subseteq ProjectIds
         /\ w.token = store[Project].version => w.refs = store[Project].refs

(* What a capture has read of an image is what the image holds, and held   *)
(* at the frontier it began with, as long as the frontier has not moved;   *)
(* and it is what was held for good once that frontier is read again.      *)
BracketsSoundly(c) ==
  LET w == worker[c] IN
  w.at \in {"capture", "stable", "released"} =>
    /\ DOMAIN w.before \subseteq HostImages
    /\ \A i \in DOMAIN w.before :
         /\ w.before[i].frontier \in Nat /\ w.before[i].frontier <= frontier[i]
         /\ w.before[i].frontier = frontier[i] =>
              \A id \in ProjectIds : HomeOf[id] = i => w.before[i].held[id] = store[id]
    /\ \A x \in w.seen : x.id \in ProjectIds /\ HomeOf[x.id] \in DOMAIN w.before

Unchecked(w) == IF w.at = "capture" THEN DOMAIN w.before
                ELSE IF w.at = "stable" THEN {w.left[i] : i \in DOMAIN w.left} ELSE {}

CapturesSoundly(c) ==
  LET w == worker[c] IN
  /\ w.at = "capture" =>
       /\ w = [at |-> "capture", whole |-> w.whole, todo |-> w.todo,
               before |-> w.before, seen |-> w.seen]
       /\ w.todo \in Seq(ProjectIds)
  /\ w.at = "stable" =>
       /\ w = [at |-> "stable", before |-> w.before, seen |-> w.seen, left |-> w.left]
       /\ w.left \in Seq(DOMAIN w.before)
  /\ w.at \in {"capture", "stable", "released"} =>
       \A x \in w.seen :
         IF HomeOf[x.id] \in Unchecked(w)
         THEN w.before[HomeOf[x.id]].frontier = frontier[HomeOf[x.id]] => x.record = store[x.id]
         ELSE w.before[HomeOf[x.id]].held[x.id] = x.record

WorkIsSound(c) ==
  AddsSoundly(c) /\ RenamesSoundly(c) /\ BracketsSoundly(c) /\ CapturesSoundly(c)

ProjectInv == RecordsTyped /\ WorkersTyped /\ \A c \in ProjectClients : WorkIsSound(c)

(* A later moment: records and frontiers only go up, and what kept its     *)
(* version, or its image's frontier, is what it was.                       *)
Evolves ==
  /\ \A id \in ProjectIds :
       /\ store[id].version <= store'[id].version
       /\ store[id].version = store'[id].version => store'[id] = store[id]
       /\ Here(id) => store'[id] # Absent
  /\ \A i \in HostImages :
       /\ frontier[i] <= frontier'[i]
       /\ frontier[i] = frontier'[i] =>
            \A id \in ProjectIds : HomeOf[id] = i => store'[id] = store[id]

(* A record that is there has a version, and one that is not has none. *)
LEMMA Versions ==
  ASSUME RecordsTyped, NEW id \in ProjectIds
  PROVE  /\ store[id].version \in Nat
         /\ Here(id) => store[id].version # 0 /\ store[id].refs \subseteq ProjectIds
                        /\ store[id].datum \in Data
         /\ ~Here(id) => store[id].version = 0
<1>1. Absent.version = 0 BY DEF Absent
<1>2. QED BY <1>1 DEF RecordsTyped, Here

(* Nothing happens to the records when a client reads. *)
LEMMA ReadsEvolve ==
  ASSUME RecordsTyped, Reads
  PROVE  Evolves /\ RecordsTyped'
<1>1. \A id \in ProjectIds : store[id].version \in Nat BY Versions
<1>2. \A i \in HostImages : frontier[i] \in Nat BY DEF RecordsTyped
<1>3. Evolves BY <1>1, <1>2 DEF Reads, Evolves, Here
<1>4. RecordsTyped' BY DEF Reads, RecordsTyped, Here
<1>5. QED BY <1>3, <1>4

(* A put replaces one record and moves its image's frontier. *)
LEMMA PutEvolves ==
  ASSUME RecordsTyped, NEW id \in ProjectIds, NEW datum \in Data,
         NEW refs \in SUBSET ProjectIds, PutRecord(id, datum, refs)
  PROVE  /\ Evolves /\ RecordsTyped'
         /\ store'[id].datum = datum /\ store'[id].refs = refs
         /\ store'[id].version = store[id].version + 1 /\ store'[id] # Absent
         /\ \A x \in ProjectIds \ {id} : store'[x] = store[x]
<1> DEFINE new == [datum |-> datum, refs |-> refs, version |-> store[id].version + 1]
           home == HomeOf[id]
<1>1. \A x \in ProjectIds : store[x].version \in Nat BY Versions
<1>2. /\ store' = [store EXCEPT ![id] = new]
      /\ frontier' = [frontier EXCEPT ![home] = frontier[home] + 1]
  BY DEF PutRecord
<1>3. home \in HostImages /\ frontier[home] \in Nat
  BY DEF HostImages, RecordsTyped
<1>4. /\ store'[id] = new /\ \A x \in ProjectIds \ {id} : store'[x] = store[x]
      /\ store' = [x \in ProjectIds |-> store'[x]]
  BY <1>2 DEF RecordsTyped
<1>5. /\ frontier' \in [HostImages -> Nat] /\ frontier'[home] = frontier[home] + 1
      /\ \A i \in HostImages \ {home} : frontier'[i] = frontier[i]
  BY <1>2, <1>3 DEF RecordsTyped
<1>6. new.version = store[id].version + 1 /\ new.datum = datum /\ new.refs = refs
  OBVIOUS
<1>7. new # Absent
  <2>1. new.version # 0 BY <1>1, <1>6
  <2>2. QED BY <2>1 DEF Absent
<1> HIDE DEF new
<1>8. RecordsTyped'
  <2>1. \A t \in Targets : t \in ProjectIds /\ store[t] # Absent
    BY DEF RecordsTyped, Here, ProjectIds
  <2>2. \A t \in Targets : store'[t] # Absent BY <1>4, <1>7, <2>1
  <2>3. QED BY <1>1, <1>4, <1>5, <1>6, <2>2 DEF RecordsTyped, Here
<1>9. Evolves
  <2>1. \A x \in ProjectIds :
          /\ store[x].version <= store'[x].version
          /\ store[x].version = store'[x].version => store'[x] = store[x]
          /\ Here(x) => store'[x] # Absent
    BY <1>1, <1>4, <1>6, <1>7 DEF Here
  <2>2. \A i \in HostImages :
          /\ frontier[i] <= frontier'[i]
          /\ frontier[i] = frontier'[i] =>
               \A x \in ProjectIds : HomeOf[x] = i => store'[x] = store[x]
    BY <1>3, <1>4, <1>5 DEF RecordsTyped
  <2>3. QED BY <2>1, <2>2 DEF Evolves
<1>10. QED BY <1>4, <1>6, <1>7, <1>8, <1>9

(* What a client has read stays true of what it was read from while others *)
(* go on.                                                                  *)
LEMMA Bystander ==
  ASSUME RecordsTyped, RecordsTyped', Evolves,
         NEW d \in ProjectClients, WorkIsSound(d), worker'[d] = worker[d]
  PROVE  WorkIsSound(d)'
<1>1. Project \in ProjectIds BY DEF ProjectIds
<1>2. store[Project].version \in Nat /\ store'[Project].version \in Nat
  BY <1>1, Versions DEF RecordsTyped, Here, Absent
<1>3. /\ store[Project].version <= store'[Project].version
      /\ store[Project].version = store'[Project].version => store'[Project] = store[Project]
      /\ Here(Project) => store'[Project] # Absent
  BY <1>1 DEF Evolves
<1>4. AddsSoundly(d)' BY <1>2, <1>3 DEF WorkIsSound, AddsSoundly
<1>5. RenamesSoundly(d)' BY <1>2, <1>3 DEF WorkIsSound, RenamesSoundly, Here
<1>6. \A i \in HostImages : frontier[i] \in Nat /\ frontier'[i] \in Nat
  BY DEF RecordsTyped
<1>7. BracketsSoundly(d)'
  <2> SUFFICES ASSUME worker[d].at \in {"capture", "stable", "released"}
               PROVE  \A i \in DOMAIN worker[d].before :
                        /\ worker[d].before[i].frontier <= frontier'[i]
                        /\ worker[d].before[i].frontier = frontier'[i] =>
                             \A id \in ProjectIds : HomeOf[id] = i =>
                               worker[d].before[i].held[id] = store'[id]
    BY DEF WorkIsSound, BracketsSoundly
  <2> SUFFICES ASSUME NEW i \in DOMAIN worker[d].before
               PROVE  /\ worker[d].before[i].frontier <= frontier'[i]
                      /\ worker[d].before[i].frontier = frontier'[i] =>
                           \A id \in ProjectIds : HomeOf[id] = i =>
                             worker[d].before[i].held[id] = store'[id]
    OBVIOUS
  <2>1. /\ i \in HostImages /\ worker[d].before[i].frontier \in Nat
        /\ worker[d].before[i].frontier <= frontier[i]
        /\ worker[d].before[i].frontier = frontier[i] =>
             \A id \in ProjectIds : HomeOf[id] = i => worker[d].before[i].held[id] = store[id]
    BY DEF WorkIsSound, BracketsSoundly
  <2>2. /\ frontier[i] <= frontier'[i]
        /\ frontier[i] = frontier'[i] =>
             \A id \in ProjectIds : HomeOf[id] = i => store'[id] = store[id]
    BY <2>1 DEF Evolves
  <2>3. QED BY <1>6, <2>1, <2>2
<1>8. CapturesSoundly(d)'
  <2>1. worker[d].at = "capture" =>
          /\ worker[d] = [at |-> "capture", whole |-> worker[d].whole, todo |-> worker[d].todo,
                          before |-> worker[d].before, seen |-> worker[d].seen]
          /\ worker[d].todo \in Seq(ProjectIds)
    BY DEF WorkIsSound, CapturesSoundly
  <2>2. worker[d].at = "stable" =>
          /\ worker[d] = [at |-> "stable", before |-> worker[d].before, seen |-> worker[d].seen,
                          left |-> worker[d].left]
          /\ worker[d].left \in Seq(DOMAIN worker[d].before)
    BY DEF WorkIsSound, CapturesSoundly
  <2>3. ASSUME worker[d].at \in {"capture", "stable", "released"}, NEW x \in worker[d].seen
        PROVE  IF HomeOf[x.id] \in Unchecked(worker[d])
               THEN worker[d].before[HomeOf[x.id]].frontier = frontier'[HomeOf[x.id]]
                      => x.record = store'[x.id]
               ELSE worker[d].before[HomeOf[x.id]].held[x.id] = x.record
    <3> DEFINE i == HomeOf[x.id]
    <3>1. /\ x.id \in ProjectIds /\ i \in HostImages /\ worker[d].before[i].frontier \in Nat
          /\ worker[d].before[i].frontier <= frontier[i]
      BY <2>3 DEF WorkIsSound, BracketsSoundly
    <3>2. /\ frontier[i] <= frontier'[i]
          /\ frontier[i] = frontier'[i] => store'[x.id] = store[x.id]
      BY <3>1 DEF Evolves
    <3>3. IF i \in Unchecked(worker[d])
          THEN worker[d].before[i].frontier = frontier[i] => x.record = store[x.id]
          ELSE worker[d].before[i].held[x.id] = x.record
      BY <2>3 DEF WorkIsSound, CapturesSoundly
    <3> HIDE DEF i
    <3>4. IF i \in Unchecked(worker[d])
          THEN worker[d].before[i].frontier = frontier'[i] => x.record = store'[x.id]
          ELSE worker[d].before[i].held[x.id] = x.record
      BY <1>6, <3>1, <3>2, <3>3
    <3>5. QED BY <3>4 DEF i
  <2>4. QED BY <2>1, <2>2, <2>3 DEF CapturesSoundly, Unchecked
<1>9. QED BY <1>4, <1>5, <1>7, <1>8 DEF WorkIsSound

(* A client takes a step that leaves it in a sound state. *)
LEMMA ClientStep ==
  ASSUME ProjectInv, NEW c \in ProjectClients, NEW state, Becomes(c, state),
         Evolves, RecordsTyped', state.at \in Places,
         worker'[c] = state => WorkIsSound(c)'
  PROVE  ProjectInv'
<1>1. RecordsTyped /\ WorkersTyped /\ \A d \in ProjectClients : WorkIsSound(d)
  BY DEF ProjectInv
<1>2. /\ worker'[c] = state /\ \A d \in ProjectClients \ {c} : worker'[d] = worker[d]
      /\ worker' = [d \in ProjectClients |-> worker'[d]]
  BY <1>1 DEF Becomes, WorkersTyped
<1>3. WorkersTyped' BY <1>1, <1>2 DEF WorkersTyped
<1>4. \A d \in ProjectClients \ {c} : WorkIsSound(d)' BY <1>1, <1>2, Bystander
<1>5. QED BY <1>2, <1>3, <1>4 DEF ProjectInv

(* A place where a client holds nothing. *)
LEMMA NothingHeld ==
  ASSUME NEW c \in ProjectClients, worker[c].at \in {"rest", "ended", "added"}
  PROVE  WorkIsSound(c)
BY DEF WorkIsSound, AddsSoundly, RenamesSoundly, BracketsSoundly, CapturesSoundly

(* A client begins. *)
LEMMA BeginStep ==
  ASSUME ProjectInv, NEW c \in ProjectClients, NEW state, Begins(c, state),
         state.at \in Places, worker'[c] = state => WorkIsSound(c)'
  PROVE  ProjectInv'
<1>1. RecordsTyped /\ Becomes(c, state) /\ Reads BY DEF ProjectInv, Begins
<1>2. Evolves /\ RecordsTyped' BY <1>1, ReadsEvolve
<1>3. QED BY <1>1, <1>2, ClientStep

(* A client that reads goes on. *)
LEMMA ReadStep ==
  ASSUME ProjectInv, NEW c \in ProjectClients, NEW state, Becomes(c, state), Reads,
         state.at \in Places, worker'[c] = state => WorkIsSound(c)'
  PROVE  ProjectInv'
<1>1. RecordsTyped BY DEF ProjectInv
<1>2. Evolves /\ RecordsTyped' BY <1>1, ReadsEvolve
<1>3. QED BY <1>2, ClientStep

(* createProject. *)
LEMMA ProjectReadsStep ==
  ASSUME ProjectInv, NEW c \in ProjectClients, NEW n \in ProjectNames, ProjectReads(c, n)
  PROVE  ProjectInv'
<1> DEFINE state == IF Here(Project) THEN [at |-> "ended"] ELSE [at |-> "create", name |-> n]
<1>1. state.at \in {"ended", "create"} /\ (state.at = "create" => state.name = n)
  OBVIOUS
<1>2. Begins(c, state) BY DEF ProjectReads
<1> HIDE DEF state
<1>3. worker'[c] = state => WorkIsSound(c)'
  BY <1>1 DEF WorkIsSound, AddsSoundly, RenamesSoundly, BracketsSoundly, CapturesSoundly
<1>4. QED BY <1>1, <1>2, <1>3, BeginStep DEF Places

(* The insert-only put of a new Project. *)
LEMMA ProjectPutsStep ==
  ASSUME ProjectInv, NEW c \in ProjectClients, ProjectPuts(c)
  PROVE  ProjectInv'
<1>1. RecordsTyped /\ WorkIsSound(c) BY DEF ProjectInv
<1>2. Becomes(c, [at |-> "ended"]) /\ Project \in ProjectIds /\ {} \in SUBSET ProjectIds
  BY DEF ProjectPuts, ProjectIds
<1>3. worker[c].name \in Data
  BY <1>1 DEF ProjectPuts, Takes, WorkIsSound, AddsSoundly, Data
<1>4. Evolves /\ RecordsTyped'
  BY <1>1, <1>2, <1>3, PutEvolves, ReadsEvolve DEF ProjectPuts
<1>5. worker'[c] = [at |-> "ended"] => WorkIsSound(c)'
  BY DEF WorkIsSound, AddsSoundly, RenamesSoundly, BracketsSoundly, CapturesSoundly
<1>6. QED BY <1>2, <1>4, <1>5, ClientStep DEF Places

(* addProjectMember. *)
LEMMA AddReadsStep ==
  ASSUME ProjectInv, NEW c \in ProjectClients, NEW m \in Members, NEW role \in Roles,
         NEW t \in Targets, AddReadsProject(c, m, role, t)
  PROVE  ProjectInv'
<1> DEFINE state == [at |-> "member", member |-> m, role |-> role, target |-> t,
                     project |-> store[Project]]
<1>1. RecordsTyped /\ Here(Project) /\ Begins(c, state) /\ Project \in ProjectIds
  BY DEF ProjectInv, AddReadsProject, ProjectIds
<1>2. store[Project].version \in Nat /\ store[Project].refs \subseteq ProjectIds
      /\ store[Project].datum \in Data
  BY <1>1, Versions
<1>3. UNCHANGED store BY <1>1 DEF Begins, Reads
<1>4. worker'[c] = state => WorkIsSound(c)'
  BY <1>2, <1>3 DEF WorkIsSound, AddsSoundly, RenamesSoundly, BracketsSoundly, CapturesSoundly
<1>5. QED BY <1>1, <1>4, BeginStep DEF Places

(* The member is read, and decides how the call goes on. *)
LEMMA AddReadsMemberStep ==
  ASSUME ProjectInv, NEW c \in ProjectClients, AddReadsMember(c)
  PROVE  ProjectInv'
<1> DEFINE w == worker[c]
           old == store[w.member]
<1>1. RecordsTyped /\ WorkIsSound(c) /\ w.at = "member" /\ Reads
  BY DEF ProjectInv, AddReadsMember, Takes
<1>2. /\ w = [at |-> "member", member |-> w.member, role |-> w.role,
              target |-> w.target, project |-> w.project]
      /\ w.member \in Members /\ w.role \in Roles /\ w.target \in Targets
      /\ w.project.version \in Nat /\ w.project.version <= store[Project].version
      /\ w.project.refs \subseteq ProjectIds /\ w.project.datum \in Data
      /\ w.project.version = store[Project].version => w.project.refs = store[Project].refs
  BY <1>1 DEF WorkIsSound, AddsSoundly
<1>3. UNCHANGED store BY <1>1 DEF Reads
<1>4. CASE ~Here(w.member)
  <2> DEFINE state == [w EXCEPT !.at = "put"]
  <2>1. Becomes(c, state) BY <1>4 DEF AddReadsMember
  <2>2. /\ state.at = "put" /\ state.member = w.member /\ state.role = w.role
        /\ state.target = w.target /\ state.project = w.project
    BY <1>2
  <2> HIDE DEF state
  <2>3. worker'[c] = state => WorkIsSound(c)'
    BY <1>2, <1>3, <2>2 DEF WorkIsSound, AddsSoundly, RenamesSoundly, BracketsSoundly,
       CapturesSoundly
  <2>4. QED BY <1>1, <2>1, <2>2, <2>3, ReadStep DEF Places
<1>5. CASE Here(w.member) /\ old.datum # w.role
  <2>1. Becomes(c, [at |-> "ended"]) BY <1>5 DEF AddReadsMember
  <2>2. worker'[c] = [at |-> "ended"] => WorkIsSound(c)'
    BY DEF WorkIsSound, AddsSoundly, RenamesSoundly, BracketsSoundly, CapturesSoundly
  <2>3. QED BY <1>1, <2>1, <2>2, ReadStep DEF Places
<1>6. CASE Here(w.member) /\ old.datum = w.role /\ old.refs = {w.target}
  <2> DEFINE state == [at |-> "added", member |-> w.member]
  <2>1. Becomes(c, state) BY <1>6 DEF AddReadsMember
  <2>2. worker'[c] = state => WorkIsSound(c)'
    BY DEF WorkIsSound, AddsSoundly, RenamesSoundly, BracketsSoundly, CapturesSoundly
  <2>3. QED BY <1>1, <2>1, <2>2, ReadStep DEF Places
<1>7. CASE Here(w.member) /\ old.datum = w.role /\ old.refs # {w.target}
  <2> DEFINE state == [at |-> "retarget", member |-> w.member, role |-> w.role,
                       target |-> w.target, version |-> old.version]
  <2>1. Becomes(c, state) BY <1>7 DEF AddReadsMember
  <2>2. worker'[c] = state => WorkIsSound(c)'
    BY <1>2 DEF WorkIsSound, AddsSoundly, RenamesSoundly, BracketsSoundly, CapturesSoundly
  <2>3. QED BY <1>1, <2>1, <2>2, ReadStep DEF Places
<1>8. QED BY <1>4, <1>5, <1>6, <1>7

(* A member's record is not the Project's. *)
LEMMA MembersAreOthers ==
  ASSUME NEW m \in Members
  PROVE  m \in ProjectIds /\ m # Project
BY ProjectAssumption DEF ProjectIds

(* An existing member is given another target. *)
LEMMA AddRetargetsStep ==
  ASSUME ProjectInv, NEW c \in ProjectClients, AddRetargets(c)
  PROVE  ProjectInv'
<1> DEFINE w == worker[c]
           state == IF store[w.member].version = w.version
                    THEN [at |-> "added", member |-> w.member] ELSE [at |-> "ended"]
<1>1. RecordsTyped /\ WorkIsSound(c) /\ w.at = "retarget"
  BY DEF ProjectInv, AddRetargets, Takes
<1>2. w.member \in Members /\ w.role \in Data /\ {w.target} \in SUBSET ProjectIds
  BY <1>1 DEF WorkIsSound, AddsSoundly, Data, ProjectIds
<1>3. Evolves /\ RecordsTyped'
  BY <1>1, <1>2, MembersAreOthers, PutEvolves, ReadsEvolve DEF AddRetargets
<1>4. Becomes(c, state) BY DEF AddRetargets
<1>5. state.at \in {"added", "ended"} OBVIOUS
<1> HIDE DEF state
<1>6. worker'[c] = state => WorkIsSound(c)'
  BY <1>5 DEF WorkIsSound, AddsSoundly, RenamesSoundly, BracketsSoundly, CapturesSoundly
<1>7. QED BY <1>3, <1>4, <1>5, <1>6, ClientStep DEF Places

(* A new member is put. *)
LEMMA AddPutsStep ==
  ASSUME ProjectInv, NEW c \in ProjectClients, AddPutsMember(c)
  PROVE  ProjectInv'
<1> DEFINE w == worker[c]
           state == IF w.member \in w.project.refs
                    THEN [at |-> "added", member |-> w.member]
                    ELSE [at |-> "link", member |-> w.member, project |-> w.project]
<1>1. RecordsTyped /\ WorkIsSound(c) /\ w.at = "put"
  BY DEF ProjectInv, AddPutsMember, Takes
<1>2. /\ w.member \in Members /\ w.role \in Data /\ {w.target} \in SUBSET ProjectIds
      /\ w.project.version \in Nat /\ w.project.version <= store[Project].version
      /\ w.project.refs \subseteq ProjectIds /\ w.project.datum \in Data
      /\ w.project.version = store[Project].version => w.project.refs = store[Project].refs
  BY <1>1 DEF WorkIsSound, AddsSoundly, Data, ProjectIds
<1>3. PutRecord(w.member, w.role, {w.target}) /\ Becomes(c, state)
  BY DEF AddPutsMember
<1>4. Evolves /\ RecordsTyped' /\ store'[Project] = store[Project]
  BY <1>1, <1>2, <1>3, MembersAreOthers, PutEvolves DEF ProjectIds
<1>5. /\ state.at \in {"added", "link"}
      /\ state.at = "link" => state.member = w.member /\ state.project = w.project
  OBVIOUS
<1> HIDE DEF state
<1>6. worker'[c] = state => WorkIsSound(c)'
  BY <1>2, <1>4, <1>5 DEF WorkIsSound, AddsSoundly, RenamesSoundly, BracketsSoundly,
     CapturesSoundly
<1>7. QED BY <1>3, <1>4, <1>5, <1>6, ClientStep DEF Places

(* A new member is linked into the Project. *)
LEMMA AddLinksStep ==
  ASSUME ProjectInv, NEW c \in ProjectClients, AddLinksMember(c)
  PROVE  ProjectInv'
<1> DEFINE w == worker[c]
           state == IF store[Project].version = w.project.version
                    THEN [at |-> "added", member |-> w.member] ELSE [at |-> "ended"]
<1>1. RecordsTyped /\ WorkIsSound(c) /\ w.at = "link"
  BY DEF ProjectInv, AddLinksMember, Takes
<1>2. /\ w.project.datum \in Data /\ w.project.refs \cup {w.member} \in SUBSET ProjectIds
      /\ Project \in ProjectIds
  BY <1>1, MembersAreOthers DEF WorkIsSound, AddsSoundly, ProjectIds
<1>3. Evolves /\ RecordsTyped'
  BY <1>1, <1>2, PutEvolves, ReadsEvolve DEF AddLinksMember
<1>4. Becomes(c, state) BY DEF AddLinksMember
<1>5. state.at \in {"added", "ended"} OBVIOUS
<1> HIDE DEF state
<1>6. worker'[c] = state => WorkIsSound(c)'
  BY <1>5 DEF WorkIsSound, AddsSoundly, RenamesSoundly, BracketsSoundly, CapturesSoundly
<1>7. QED BY <1>3, <1>4, <1>5, <1>6, ClientStep DEF Places

(* authorizedRenameProject. *)
LEMMA RenameTakesStep ==
  ASSUME ProjectInv, NEW c \in ProjectClients, NEW n \in ProjectNames, RenameTakesToken(c, n)
  PROVE  ProjectInv'
<1> DEFINE state == [at |-> "rename", name |-> n, token |-> store[Project].version]
<1>1. RecordsTyped /\ Here(Project) /\ Begins(c, state) /\ Project \in ProjectIds
  BY DEF ProjectInv, RenameTakesToken, ProjectIds
<1>2. store[Project].version \in Nat /\ UNCHANGED store
  BY <1>1, Versions DEF Begins, Reads
<1>3. worker'[c] = state => WorkIsSound(c)'
  BY <1>1, <1>2 DEF WorkIsSound, AddsSoundly, RenamesSoundly, BracketsSoundly, CapturesSoundly,
     Here
<1>4. QED BY <1>1, <1>3, BeginStep DEF Places

(* The Project is read again. *)
LEMMA RenameReadsStep ==
  ASSUME ProjectInv, NEW c \in ProjectClients, RenameReads(c)
  PROVE  ProjectInv'
<1> DEFINE w == worker[c]
           state == [at |-> "renamed", name |-> w.name, token |-> w.token,
                     refs |-> store[Project].refs]
<1>1. RecordsTyped /\ WorkIsSound(c) /\ w.at = "rename" /\ Reads /\ Becomes(c, state)
  BY DEF ProjectInv, RenameReads, Takes
<1>2. /\ Here(Project) /\ w.name \in ProjectNames
      /\ w.token \in Nat /\ w.token <= store[Project].version
  BY <1>1 DEF WorkIsSound, RenamesSoundly
<1>3. store[Project].refs \subseteq ProjectIds /\ UNCHANGED store
  BY <1>1, <1>2, Versions DEF ProjectIds, Reads
<1>4. worker'[c] = state => WorkIsSound(c)'
  BY <1>2, <1>3 DEF WorkIsSound, AddsSoundly, RenamesSoundly, BracketsSoundly, CapturesSoundly,
     Here
<1>5. QED BY <1>1, <1>4, ReadStep DEF Places

(* The new name is written. *)
LEMMA RenamePutsStep ==
  ASSUME ProjectInv, NEW c \in ProjectClients, RenamePuts(c)
  PROVE  ProjectInv'
<1>1. RecordsTyped /\ WorkIsSound(c) /\ Becomes(c, [at |-> "ended"])
  BY DEF ProjectInv, RenamePuts
<1>2. worker[c].name \in Data /\ worker[c].refs \in SUBSET ProjectIds /\ Project \in ProjectIds
  BY <1>1 DEF RenamePuts, Takes, WorkIsSound, RenamesSoundly, Data, ProjectIds
<1>3. Evolves /\ RecordsTyped'
  BY <1>1, <1>2, PutEvolves, ReadsEvolve DEF RenamePuts
<1>4. worker'[c] = [at |-> "ended"] => WorkIsSound(c)'
  BY DEF WorkIsSound, AddsSoundly, RenamesSoundly, BracketsSoundly, CapturesSoundly
<1>5. QED BY <1>1, <1>3, <1>4, ClientStep DEF Places


(* The sequence of a finite set has each of its elements once. *)
LEMMA SetToSeqOnce ==
  ASSUME NEW S, IsFiniteSet(S)
  PROVE  /\ SetToSeq(S) \in Seq(S)
         /\ \A i, j \in 1..Len(SetToSeq(S)) : SetToSeq(S)[i] = SetToSeq(S)[j] => i = j
         /\ \A x \in S : \E i \in 1..Len(SetToSeq(S)) : SetToSeq(S)[i] = x
<1>1. PICK n \in Nat : n = Cardinality(S) /\ ExistsBijection(1..n, S)
  BY FS_CardinalityType
<1>2. \E f \in [1..n -> S] : IsInjective(f)
  BY <1>1 DEF ExistsBijection, Bijection, Injection
<1>3. PICK f : f = SetToSeq(S)
  OBVIOUS
<1>4. f \in [1..n -> S] /\ IsInjective(f) BY <1>1, <1>2, <1>3 DEF SetToSeq
<1>5. f \in Injection(1..n, S) BY <1>4 DEF Injection
<1>6. Cardinality(1..n) = n BY FS_Interval
<1>7. f \in Surjection(1..n, S) BY <1>1, <1>5, <1>6, FS_Injection
<1>8. f \in Seq(S) /\ Len(f) = n BY <1>4
<1> QED BY <1>3, <1>4, <1>7, <1>8 DEF IsInjective, Surjection

(* There are finitely many records, and images. *)
LEMMA FinitelyMany ==
  IsFiniteSet(ProjectIds) /\ IsFiniteSet(HostImages)
<1>1. IsFiniteSet(ProjectIds)
  BY ProjectAssumption, FS_Union, FS_Singleton DEF ProjectIds
<1> DEFINE home == [id \in ProjectIds |-> HomeOf[id]]
<1>2. home \in Surjection(ProjectIds, HostImages) BY DEF HostImages, Surjection
<1>3. QED BY <1>1, <1>2, FS_Surjection

(* captureProjectRelease. *)
LEMMA CaptureBeginsStep ==
  ASSUME ProjectInv, NEW c \in ProjectClients, NEW whole \in BOOLEAN, CaptureBegins(c, whole)
  PROVE  ProjectInv'
<1> DEFINE state == [at |-> "capture", whole |-> whole, todo |-> <<Project>>,
                     before |-> <<>>, seen |-> {}]
<1>1. Begins(c, state) BY DEF CaptureBegins
<1>2. <<Project>> \in Seq(ProjectIds) /\ DOMAIN <<>> = {} BY DEF ProjectIds
<1>3. worker'[c] = state => WorkIsSound(c)'
  BY <1>2 DEF WorkIsSound, AddsSoundly, RenamesSoundly, BracketsSoundly, CapturesSoundly
<1>4. QED BY <1>1, <1>3, BeginStep DEF Places

(* What a capture read of the images, and of the records, is sound. *)
SoundBrackets(before) ==
  /\ DOMAIN before \subseteq HostImages
  /\ \A i \in DOMAIN before :
       /\ before[i].frontier \in Nat /\ before[i].frontier <= frontier[i]
       /\ before[i].frontier = frontier[i] =>
            \A id \in ProjectIds : HomeOf[id] = i => before[i].held[id] = store[id]
SoundReads(before, seen) ==
  \A x \in seen :
    /\ x.id \in ProjectIds /\ HomeOf[x.id] \in DOMAIN before
    /\ before[HomeOf[x.id]].frontier = frontier[HomeOf[x.id]] => x.record = store[x.id]

(* What a capture holds. *)
LEMMA CaptureHolds ==
  ASSUME ProjectInv, NEW c \in ProjectClients, worker[c].at = "capture"
  PROVE  /\ worker[c] = [at |-> "capture", whole |-> worker[c].whole, todo |-> worker[c].todo,
                         before |-> worker[c].before, seen |-> worker[c].seen]
         /\ worker[c].todo \in Seq(ProjectIds)
         /\ SoundBrackets(worker[c].before)
         /\ SoundReads(worker[c].before, worker[c].seen)
<1>1. WorkIsSound(c) BY DEF ProjectInv
<1>2. QED BY <1>1 DEF WorkIsSound, BracketsSoundly, CapturesSoundly, Unchecked, SoundBrackets,
     SoundReads

(* A capture that goes on as one. *)
LEMMA CaptureGoesOn ==
  ASSUME ProjectInv, NEW c \in ProjectClients, NEW whole, NEW todo \in Seq(ProjectIds),
         NEW before, NEW seen,
         Becomes(c, [at |-> "capture", whole |-> whole, todo |-> todo,
                     before |-> before, seen |-> seen]),
         Reads,
         SoundBrackets(before), SoundReads(before, seen)
  PROVE  ProjectInv'
<1> DEFINE state == [at |-> "capture", whole |-> whole, todo |-> todo,
                     before |-> before, seen |-> seen]
<1>1. /\ state = [at |-> "capture", whole |-> state.whole, todo |-> state.todo,
                  before |-> state.before, seen |-> state.seen]
      /\ state.at = "capture" /\ state.todo = todo /\ state.before = before
      /\ state.seen = seen
  OBVIOUS
<1>2. UNCHANGED <<store, frontier>> BY DEF Reads
<1>3. Becomes(c, state) OBVIOUS
<1> HIDE DEF state
<1>4. ASSUME worker'[c] = state
      PROVE  WorkIsSound(c)'
  <2>1. AddsSoundly(c)' /\ RenamesSoundly(c)'
    BY <1>1, <1>4 DEF AddsSoundly, RenamesSoundly
  <2>2. BracketsSoundly(c)'
    BY <1>1, <1>2, <1>4 DEF BracketsSoundly, SoundBrackets, SoundReads
  <2>3. CapturesSoundly(c)'
    BY <1>1, <1>2, <1>4 DEF CapturesSoundly, Unchecked, SoundReads
  <2>4. QED BY <2>1, <2>2, <2>3 DEF WorkIsSound
<1>5. state.at \in Places BY <1>1 DEF Places
<1>6. QED BY <1>3, <1>4, <1>5, ReadStep

(* The frontier of an image is read before the first record of it. *)
LEMMA BracketsStep ==
  ASSUME ProjectInv, NEW c \in ProjectClients, Brackets(c)
  PROVE  ProjectInv'
<1> DEFINE w == worker[c]
           image == HomeOf[Head(w.todo)]
           read == [frontier |-> frontier[image], held |-> ImageContents(image)]
           before == [i \in DOMAIN w.before \cup {image} |->
                        IF i = image THEN read ELSE w.before[i]]
           state == [at |-> "capture", whole |-> w.whole, todo |-> w.todo,
                     before |-> before, seen |-> w.seen]
<1>1. w.at = "capture" /\ w.todo # <<>> /\ image \notin DOMAIN w.before /\ Reads
  BY DEF Brackets, Takes
<1>2. /\ w = [at |-> "capture", whole |-> w.whole, todo |-> w.todo,
              before |-> w.before, seen |-> w.seen]
      /\ w.todo \in Seq(ProjectIds)
      /\ SoundBrackets(w.before) /\ SoundReads(w.before, w.seen)
  BY <1>1, CaptureHolds
<1>3. image \in HostImages BY <1>1, <1>2 DEF HostImages
<1>4. Becomes(c, [w EXCEPT !.before = before]) BY DEF Brackets
<1>5. Becomes(c, state) BY <1>2, <1>4
<1>6. frontier[image] \in Nat BY <1>3 DEF ProjectInv, RecordsTyped
<1>7. \A id \in ProjectIds : HomeOf[id] = image => read.held[id] = store[id]
  BY DEF ImageContents
<1>8. read.frontier = frontier[image] OBVIOUS
<1> HIDE DEF image, read
<1>9. /\ DOMAIN before = DOMAIN w.before \cup {image} /\ before[image] = read
      /\ \A i \in DOMAIN w.before : before[i] = w.before[i]
  BY <1>1
<1> HIDE DEF before
<1>10. SoundBrackets(before)
  BY <1>2, <1>3, <1>6, <1>7, <1>8, <1>9 DEF SoundBrackets
<1>11. SoundReads(before, w.seen) BY <1>1, <1>2, <1>9 DEF SoundReads
<1>12. QED BY <1>1, <1>2, <1>5, <1>10, <1>11, CaptureGoesOn

(* The references a capture follows are records. *)
LEMMA FollowsRecords ==
  ASSUME ProjectInv, NEW w, NEW id \in ProjectIds, Here(id)
  PROVE  /\ Follows(w, id, store[id]) \in SUBSET ProjectIds
         /\ SetToSeq(Follows(w, id, store[id])) \in Seq(ProjectIds)
<1>1. store[id].refs \subseteq ProjectIds BY Versions DEF ProjectInv
<1>2. PICK next : next = Follows(w, id, store[id])
  OBVIOUS
<1>3. next \in SUBSET ProjectIds BY <1>1, <1>2 DEF Follows
<1>4. IsFiniteSet(next) BY <1>3, FinitelyMany, FS_Subset
<1>5. SetToSeq(next) \in Seq(next) BY <1>4, SetToSeqOnce
<1>6. SetToSeq(next) \in Seq(ProjectIds) BY <1>3, <1>5, SeqMonotonic
<1>7. QED BY <1>2, <1>3, <1>6

(* A capture reads the next record. *)
LEMMA CaptureReadsStep ==
  ASSUME ProjectInv, NEW c \in ProjectClients, CaptureReads(c)
  PROVE  ProjectInv'
<1> DEFINE w == worker[c]
           id == Head(w.todo)
           old == {x \in w.seen : x.id = id}
           state(todo, seen) == [at |-> "capture", whole |-> w.whole, todo |-> todo,
                                 before |-> w.before, seen |-> seen]
<1>1. /\ w.at = "capture" /\ w.todo # <<>> /\ HomeOf[id] \in DOMAIN w.before /\ Reads
      /\ Becomes(c,
          IF w.whole /\ old # {} THEN [w EXCEPT !.todo = Tail(w.todo)]
          ELSE IF ~Here(id) THEN [at |-> "ended"]
          ELSE [w EXCEPT !.seen = w.seen \cup {[id |-> id, record |-> store[id]]},
                         !.todo = Tail(w.todo) \o SetToSeq(Follows(w, id, store[id]))])
  BY DEF CaptureReads, Takes
<1>2. /\ w = [at |-> "capture", whole |-> w.whole, todo |-> w.todo,
              before |-> w.before, seen |-> w.seen]
      /\ w.todo \in Seq(ProjectIds)
      /\ SoundBrackets(w.before) /\ SoundReads(w.before, w.seen)
  BY <1>1, CaptureHolds
<1>3. id \in ProjectIds /\ Tail(w.todo) \in Seq(ProjectIds)
  BY <1>1, <1>2, HeadTailProperties
<1>4. CASE w.whole /\ old # {}
  <2>1. Becomes(c, [w EXCEPT !.todo = Tail(w.todo)]) BY <1>1, <1>4
  <2>2. PICK todo \in Seq(ProjectIds) : todo = Tail(w.todo)
    BY <1>3
  <2>3. [w EXCEPT !.todo = todo] = state(todo, w.seen) BY <1>2
  <2>4. Becomes(c, state(todo, w.seen)) BY <2>1, <2>2, <2>3
  <2>5. QED BY <1>1, <1>2, <2>4, CaptureGoesOn
<1>5. CASE ~(w.whole /\ old # {}) /\ ~Here(id)
  <2>1. Becomes(c, [at |-> "ended"]) BY <1>1, <1>5
  <2>2. worker'[c] = [at |-> "ended"] => WorkIsSound(c)'
    BY DEF WorkIsSound, AddsSoundly, RenamesSoundly, BracketsSoundly, CapturesSoundly
  <2>3. QED BY <1>1, <2>1, <2>2, ReadStep DEF Places
<1>6. CASE ~(w.whole /\ old # {}) /\ Here(id)
  <2>1. PICK todo : todo = Tail(w.todo) \o SetToSeq(Follows(w, id, store[id]))
    OBVIOUS
  <2>2. PICK seen : seen = w.seen \cup {[id |-> id, record |-> store[id]]}
    OBVIOUS
  <2>3. Becomes(c, [w EXCEPT !.seen = seen, !.todo = todo])
    BY <1>1, <1>6, <2>1, <2>2
  <2>4. [w EXCEPT !.seen = seen, !.todo = todo] = state(todo, seen)
    <3>1. PICK read : read = [w EXCEPT !.seen = seen]
      OBVIOUS
    <3>2. read = [at |-> "capture", whole |-> w.whole, todo |-> w.todo,
                  before |-> w.before, seen |-> seen]
      BY <1>2, <3>1
    <3>3. [read EXCEPT !.todo = todo] = state(todo, seen) BY <3>2
    <3>4. QED BY <3>1, <3>3
  <2>5. SetToSeq(Follows(w, id, store[id])) \in Seq(ProjectIds)
    BY <1>3, <1>6, FollowsRecords
  <2>6. todo \in Seq(ProjectIds) BY <1>3, <2>1, <2>5, ConcatProperties
  <2>7. SoundReads(w.before, seen) BY <1>1, <1>2, <1>3, <2>2 DEF SoundReads
  <2>8. Becomes(c, state(todo, seen)) BY <2>3, <2>4
  <2>9. QED BY <1>1, <1>2, <2>6, <2>7, <2>8, CaptureGoesOn
<1>7. QED BY <1>4, <1>5, <1>6

(* What a capture that checks its frontiers holds: a record of an image    *)
(* whose frontier was found unmoved is what the image held.                *)
SoundChecks(before, seen, left) ==
  \A x \in seen :
    IF HomeOf[x.id] \in {left[k] : k \in DOMAIN left}
    THEN before[HomeOf[x.id]].frontier = frontier[HomeOf[x.id]] => x.record = store[x.id]
    ELSE before[HomeOf[x.id]].held[x.id] = x.record
Covered(before, seen) == \A x \in seen : x.id \in ProjectIds /\ HomeOf[x.id] \in DOMAIN before

(* An element of a sequence is its head or one of its tail. *)
LEMMA TailCovers ==
  ASSUME NEW S, NEW s \in Seq(S), s # <<>>
  PROVE  /\ Head(s) \in S /\ Tail(s) \in Seq(S)
         /\ \A k \in 1..Len(s) : s[k] = Head(s) \/ \E j \in 1..Len(Tail(s)) : s[k] = Tail(s)[j]
<1>1. /\ Head(s) \in S /\ Tail(s) \in Seq(S)
      /\ Len(Tail(s)) = Len(s) - 1 /\ Len(s) \in Nat
      /\ \A j \in 1..Len(Tail(s)) : Tail(s)[j] = s[j + 1]
  BY HeadTailProperties, LenProperties
<1>2. Head(s) = s[1] OBVIOUS
<1>3. ASSUME NEW k \in 1..Len(s), k # 1
      PROVE  \E j \in 1..Len(Tail(s)) : s[k] = Tail(s)[j]
  <2>1. k - 1 \in 1..Len(Tail(s)) /\ (k - 1) + 1 = k BY <1>1, <1>3
  <2>2. QED BY <1>1, <2>1
<1>4. QED BY <1>1, <1>2, <1>3

(* The capture has read its last record, and turns to the frontiers. *)
LEMMA CaptureChecksStep ==
  ASSUME ProjectInv, NEW c \in ProjectClients, CaptureChecks(c)
  PROVE  ProjectInv'
<1> DEFINE w == worker[c]
<1>1. w.at = "capture" /\ Reads BY DEF CaptureChecks, Takes
<1>2. SoundBrackets(w.before) /\ SoundReads(w.before, w.seen)
  BY <1>1, CaptureHolds
<1>3. PICK left : left = SetToSeq(DOMAIN w.before)
  OBVIOUS
<1>4. IsFiniteSet(DOMAIN w.before)
  BY <1>2, FinitelyMany, FS_Subset DEF SoundBrackets
<1>5. /\ left \in Seq(DOMAIN w.before)
      /\ \A i \in DOMAIN w.before : \E k \in 1..Len(left) : left[k] = i
  BY <1>3, <1>4, SetToSeqOnce
<1>6. DOMAIN left = 1..Len(left) BY <1>5, LenProperties
<1>7. \A i \in DOMAIN w.before : i \in {left[k] : k \in DOMAIN left}
  BY <1>5, <1>6
<1> DEFINE state == [at |-> "stable", before |-> w.before, seen |-> w.seen, left |-> left]
<1>14. SoundChecks(w.before, w.seen, left)
  BY <1>2, <1>7 DEF SoundChecks, SoundReads
<1>8. Becomes(c, state) BY <1>3 DEF CaptureChecks
<1>9. /\ state = [at |-> "stable", before |-> state.before, seen |-> state.seen,
                  left |-> state.left]
      /\ state.at = "stable" /\ state.before = w.before /\ state.seen = w.seen
      /\ state.left = left
  OBVIOUS
<1>10. UNCHANGED <<store, frontier>> BY <1>1 DEF Reads
<1> HIDE DEF state
<1>11. ASSUME worker'[c] = state
       PROVE  WorkIsSound(c)'
  <2>1. AddsSoundly(c)' /\ RenamesSoundly(c)'
    BY <1>9, <1>11 DEF AddsSoundly, RenamesSoundly
  <2>2. BracketsSoundly(c)'
    BY <1>2, <1>9, <1>10, <1>11 DEF BracketsSoundly, SoundBrackets, SoundReads
  <2>3. CapturesSoundly(c)'
    BY <1>5, <1>9, <1>10, <1>11, <1>14 DEF CapturesSoundly, Unchecked, SoundChecks
  <2>4. QED BY <2>1, <2>2, <2>3 DEF WorkIsSound
<1>12. state.at \in Places BY <1>9 DEF Places
<1>13. QED BY <1>1, <1>8, <1>11, <1>12, ReadStep

(* The next frontier is read again. *)
LEMMA AssertsStableStep ==
  ASSUME ProjectInv, NEW c \in ProjectClients, AssertsStable(c)
  PROVE  ProjectInv'
<1> DEFINE w == worker[c]
<1>1. /\ w.at = "stable" /\ Reads
      /\ Becomes(c,
          IF w.left = <<>>
            THEN [at |-> "released", before |-> w.before, seen |-> w.seen]
          ELSE IF frontier[Head(w.left)] = w.before[Head(w.left)].frontier
            THEN [w EXCEPT !.left = Tail(w.left)]
          ELSE [at |-> "ended"])
  BY DEF AssertsStable, Takes
<1>2. WorkIsSound(c) BY DEF ProjectInv
<1>3. /\ w = [at |-> "stable", before |-> w.before, seen |-> w.seen, left |-> w.left]
      /\ w.left \in Seq(DOMAIN w.before)
      /\ SoundChecks(w.before, w.seen, w.left)
  BY <1>1, <1>2 DEF WorkIsSound, CapturesSoundly, Unchecked, SoundChecks
<1>4. SoundBrackets(w.before) /\ Covered(w.before, w.seen)
  BY <1>1, <1>2 DEF WorkIsSound, BracketsSoundly, SoundBrackets, Covered
<1>5. UNCHANGED <<store, frontier>> BY <1>1 DEF Reads
<1>6. CASE w.left = <<>>
  <2> DEFINE state == [at |-> "released", before |-> w.before, seen |-> w.seen]
  <2>1. Becomes(c, state) BY <1>1, <1>6
  <2>2. state.at = "released" /\ state.before = w.before /\ state.seen = w.seen
    OBVIOUS
  <2>3. {w.left[k] : k \in DOMAIN w.left} = {} BY <1>6
  <2> HIDE DEF state
  <2>4. ASSUME worker'[c] = state
        PROVE  WorkIsSound(c)'
    <3>1. AddsSoundly(c)' /\ RenamesSoundly(c)'
      BY <2>2, <2>4 DEF AddsSoundly, RenamesSoundly
    <3>2. BracketsSoundly(c)'
      BY <1>4, <1>5, <2>2, <2>4 DEF BracketsSoundly, SoundBrackets, Covered
    <3>3. CapturesSoundly(c)'
      BY <1>3, <1>5, <2>2, <2>3, <2>4 DEF CapturesSoundly, Unchecked, SoundChecks
    <3>4. QED BY <3>1, <3>2, <3>3 DEF WorkIsSound
  <2>5. QED BY <1>1, <2>1, <2>2, <2>4, ReadStep DEF Places
<1>7. CASE w.left # <<>> /\ frontier[Head(w.left)] = w.before[Head(w.left)].frontier
  <2>1. PICK left : left = Tail(w.left)
    OBVIOUS
  <2>2. PICK image : image = Head(w.left)
    OBVIOUS
  <2>3. /\ image \in DOMAIN w.before /\ left \in Seq(DOMAIN w.before)
        /\ \A k \in 1..Len(w.left) :
             w.left[k] = image \/ \E j \in 1..Len(left) : w.left[k] = left[j]
    BY <1>3, <1>7, <2>1, <2>2, TailCovers
  <2>4. \A i \in {w.left[k] : k \in DOMAIN w.left} :
          i = image \/ i \in {left[k] : k \in DOMAIN left}
    BY <1>3, <2>3
  <2>5. \A id \in ProjectIds : HomeOf[id] = image => w.before[image].held[id] = store[id]
    BY <1>4, <1>7, <2>2, <2>3 DEF SoundBrackets
  <2>6. w.before[image].frontier = frontier[image] BY <1>7, <2>2
  <2>7. SoundChecks(w.before, w.seen, left)
    <3> SUFFICES ASSUME NEW x \in w.seen
                 PROVE  IF HomeOf[x.id] \in {left[k] : k \in DOMAIN left}
                        THEN w.before[HomeOf[x.id]].frontier = frontier[HomeOf[x.id]] =>
                               x.record = store[x.id]
                        ELSE w.before[HomeOf[x.id]].held[x.id] = x.record
      BY DEF SoundChecks
    <3>1. x.id \in ProjectIds BY <1>4 DEF Covered
    <3>2. IF HomeOf[x.id] \in {w.left[k] : k \in DOMAIN w.left}
          THEN w.before[HomeOf[x.id]].frontier = frontier[HomeOf[x.id]] =>
                 x.record = store[x.id]
          ELSE w.before[HomeOf[x.id]].held[x.id] = x.record
      BY <1>3 DEF SoundChecks
    <3>3. \A k \in DOMAIN left : \E j \in DOMAIN w.left : left[k] = w.left[j]
      BY <1>3, <1>7, <2>1, <2>3, HeadTailProperties
    <3>4. QED BY <2>4, <2>5, <2>6, <3>1, <3>2, <3>3
  <2> DEFINE state == [at |-> "stable", before |-> w.before, seen |-> w.seen, left |-> left]
  <2>8. Becomes(c, [w EXCEPT !.left = left]) BY <1>1, <1>7, <2>1
  <2>9. [w EXCEPT !.left = left] = state BY <1>3
  <2>10. Becomes(c, state) BY <2>8, <2>9
  <2>11. /\ state = [at |-> "stable", before |-> state.before, seen |-> state.seen,
                     left |-> state.left]
         /\ state.at = "stable" /\ state.before = w.before /\ state.seen = w.seen
         /\ state.left = left
    OBVIOUS
  <2> HIDE DEF state
  <2>12. ASSUME worker'[c] = state
         PROVE  WorkIsSound(c)'
    <3>1. AddsSoundly(c)' /\ RenamesSoundly(c)'
      BY <2>11, <2>12 DEF AddsSoundly, RenamesSoundly
    <3>2. BracketsSoundly(c)'
      BY <1>4, <1>5, <2>11, <2>12 DEF BracketsSoundly, SoundBrackets, Covered
    <3>3. CapturesSoundly(c)'
      BY <1>5, <2>3, <2>7, <2>11, <2>12 DEF CapturesSoundly, Unchecked, SoundChecks
    <3>4. QED BY <3>1, <3>2, <3>3 DEF WorkIsSound
  <2>13. QED BY <1>1, <2>10, <2>11, <2>12, ReadStep DEF Places
<1>8. CASE w.left # <<>> /\ frontier[Head(w.left)] # w.before[Head(w.left)].frontier
  <2>1. Becomes(c, [at |-> "ended"]) BY <1>1, <1>8
  <2>2. worker'[c] = [at |-> "ended"] => WorkIsSound(c)'
    BY DEF WorkIsSound, AddsSoundly, RenamesSoundly, BracketsSoundly, CapturesSoundly
  <2>3. QED BY <1>1, <2>1, <2>2, ReadStep DEF Places
<1>9. QED BY <1>6, <1>7, <1>8

(* Somebody edits a target. *)
LEMMA EditsStep ==
  ASSUME ProjectInv, NEW t \in Targets, NEW refs \in SUBSET Targets,
         EditsTarget(t, refs)
  PROVE  ProjectInv'
<1>1. RecordsTyped /\ WorkersTyped /\ t \in ProjectIds /\ refs \in SUBSET ProjectIds
  BY DEF ProjectInv, ProjectIds
<1>2. Here(t) /\ PutRecord(t, store[t].datum, refs)
  BY <1>1 DEF EditsTarget, RecordsTyped
<1>8. store[t].datum \in Data BY <1>1, <1>2, Versions
<1>3. Evolves /\ RecordsTyped' BY <1>1, <1>2, <1>8, PutEvolves
<1>4. UNCHANGED worker BY DEF EditsTarget
<1>5. \A d \in ProjectClients : WorkIsSound(d)'
  BY <1>1, <1>3, <1>4, Bystander DEF ProjectInv
<1>6. WorkersTyped' BY <1>1, <1>4 DEF WorkersTyped
<1>7. QED BY <1>3, <1>5, <1>6 DEF ProjectInv

(* A client dies. *)
LEMMA ClientDiesStep ==
  ASSUME ProjectInv, NEW c \in ProjectClients, ProjectClientDies(c)
  PROVE  ProjectInv'
<1>1. Becomes(c, Resting) /\ Reads BY DEF ProjectClientDies
<1>2. Resting.at = "rest" BY DEF Resting
<1>3. worker'[c] = Resting => WorkIsSound(c)'
  BY <1>2 DEF WorkIsSound, AddsSoundly, RenamesSoundly, BracketsSoundly, CapturesSoundly
<1>4. QED BY <1>1, <1>2, <1>3, ReadStep DEF Places

(* At first the targets are there, and nothing else. *)
LEMMA ProjectBegins ==
  ASSUME ProjectInit
  PROVE  ProjectInv
<1> DEFINE made == [datum |-> "target", refs |-> {}, version |-> 1]
<1>1. /\ store = [id \in ProjectIds |-> IF id \in Targets THEN made ELSE Absent]
      /\ frontier = [i \in HostImages |-> 0]
      /\ worker = [c \in ProjectClients |-> Resting]
  BY DEF ProjectInit
<1>2. made.version = 1 /\ made.refs = {} /\ made.datum = "target" /\ Targets \subseteq ProjectIds
  BY DEF ProjectIds
<1>3. made # Absent
  <2>1. Absent.version = 0 BY DEF Absent
  <2>2. QED BY <1>2, <2>1
<1> HIDE DEF made
<1>4. RecordsTyped BY <1>1, <1>2, <1>3 DEF RecordsTyped, Here, Data
<1>5. Resting.at = "rest" BY DEF Resting
<1>6. WorkersTyped /\ \A c \in ProjectClients : worker[c].at = "rest"
  BY <1>1, <1>5 DEF WorkersTyped, Places
<1>7. \A c \in ProjectClients : WorkIsSound(c) BY <1>6, NothingHeld
<1>8. QED BY <1>4, <1>6, <1>7 DEF ProjectInv

(* A step of a client. *)
LEMMA ProjectClientSteps ==
  ASSUME ProjectInv, NEW c \in ProjectClients,
         \/ \E n \in ProjectNames : ProjectReads(c, n) \/ RenameTakesToken(c, n)
         \/ ProjectPuts(c)
         \/ \E m \in Members, role \in Roles, t \in Targets : AddReadsProject(c, m, role, t)
         \/ AddReadsMember(c) \/ AddRetargets(c) \/ AddPutsMember(c) \/ AddLinksMember(c)
         \/ RenameReads(c) \/ RenamePuts(c)
         \/ CaptureStep(c)
         \/ ProjectClientDies(c)
  PROVE  ProjectInv'
<1>1. CASE \E n \in ProjectNames : ProjectReads(c, n) \/ RenameTakesToken(c, n)
  BY <1>1, ProjectReadsStep, RenameTakesStep
<1>2. CASE ProjectPuts(c)
  BY <1>2, ProjectPutsStep
<1>3. CASE \E m \in Members, role \in Roles, t \in Targets : AddReadsProject(c, m, role, t)
  BY <1>3, AddReadsStep
<1>4. CASE AddReadsMember(c) \/ AddRetargets(c) \/ AddPutsMember(c) \/ AddLinksMember(c)
  BY <1>4, AddReadsMemberStep, AddRetargetsStep, AddPutsStep, AddLinksStep
<1>5. CASE RenameReads(c) \/ RenamePuts(c)
  BY <1>5, RenameReadsStep, RenamePutsStep
<1>6. CASE CaptureStep(c)
  BY <1>6, CaptureBeginsStep, BracketsStep, CaptureReadsStep, CaptureChecksStep,
     AssertsStableStep DEF CaptureStep
<1>7. CASE ProjectClientDies(c)
  BY <1>7, ClientDiesStep
<1>8. QED BY <1>1, <1>2, <1>3, <1>4, <1>5, <1>6, <1>7

(* Nothing changes. *)
LEMMA ProjectRests ==
  ASSUME ProjectInv, UNCHANGED projectVars
  PROVE  ProjectInv'
<1>1. RecordsTyped /\ WorkersTyped /\ Reads
      /\ worker' = worker
  BY DEF ProjectInv, projectVars, Reads
<1>2. Evolves /\ RecordsTyped' BY <1>1, ReadsEvolve
<1>3. \A d \in ProjectClients : WorkIsSound(d)'
  BY <1>1, <1>2, Bystander DEF ProjectInv
<1>4. WorkersTyped' BY <1>1 DEF WorkersTyped
<1>5. QED BY <1>2, <1>3, <1>4 DEF ProjectInv

(* What the clients of a Project hold is sound, in every reachable state. *)
THEOREM ProjectInvariance == ProjectSpec => []ProjectInv
<1>1. ProjectInit => ProjectInv BY ProjectBegins
<1>2. ProjectInv /\ [ProjectNext]_projectVars => ProjectInv'
  BY ProjectClientSteps, EditsStep, ProjectRests DEF ProjectNext
<1>3. QED BY <1>1, <1>2, PTL DEF ProjectSpec

(* The records of a Project, its members and its targets are what the     *)
(* serializers write, and every client is at a known await.                *)
THEOREM ProjectTypeCorrect == ProjectSpec => []ProjectTypeOK
<1>1. ProjectInv => ProjectTypeOK
  BY DEF ProjectInv, RecordsTyped, WorkersTyped, ProjectTypeOK, Data, Places
<1>2. QED BY <1>1, ProjectInvariance, PTL

(* A captured release is one moment of every image it drew on              *)
(* (captureProjectRelease, createStableCurrentReadSession).                *)
THEOREM ReleasesStayMoments == ProjectSpec => []ReleasesAreMoments
<1>1. ASSUME ProjectInv
      PROVE  ReleasesAreMoments
  <2> SUFFICES ASSUME NEW c \in ProjectClients, worker[c].at = "released",
                      NEW x \in worker[c].seen
               PROVE  worker[c].before[HomeOf[x.id]].held[x.id] = x.record
    BY DEF ReleasesAreMoments
  <2>1. CapturesSoundly(c) /\ Unchecked(worker[c]) = {}
    BY <1>1 DEF ProjectInv, WorkIsSound, Unchecked
  <2>2. QED BY <2>1 DEF CapturesSoundly
<1>2. QED BY <1>1, ProjectInvariance, PTL

(* A record that others write leaves the Project as it is. *)
LEMMA OthersLeaveTheProject ==
  ASSUME RecordsTyped, NEW id \in ProjectIds, id # Project, NEW datum, NEW refs,
         PutRecord(id, datum, refs)
  PROVE  store'[Project] = store[Project]
BY DEF PutRecord, RecordsTyped, ProjectIds

(* No step takes a link of the Project away. *)
LEMMA StepsKeepLinks ==
  ASSUME ProjectInv, [ProjectNext]_projectVars, Here(Project)
  PROVE  store[Project].refs \subseteq store'[Project].refs
<1>1. RecordsTyped /\ Project \in ProjectIds /\ \A c \in ProjectClients : WorkIsSound(c)
  BY DEF ProjectInv, ProjectIds
<1>2. store[Project].version \in Nat \ {0} BY <1>1, Versions
<1>3. CASE UNCHANGED store
  BY <1>3
<1>4. ASSUME NEW c \in ProjectClients, ProjectPuts(c)
      PROVE  UNCHANGED store
  BY <1>2, <1>4 DEF ProjectPuts, Reads
<1>5. ASSUME NEW c \in ProjectClients, AddRetargets(c) \/ AddPutsMember(c)
      PROVE  store'[Project].refs = store[Project].refs
  <2>1. worker[c].member \in Members
    BY <1>1, <1>5 DEF AddRetargets, AddPutsMember, Takes, WorkIsSound, AddsSoundly
  <2>2. QED BY <1>1, <1>5, <2>1, MembersAreOthers, OthersLeaveTheProject
       DEF AddRetargets, AddPutsMember, Reads
<1>6. ASSUME NEW c \in ProjectClients, AddLinksMember(c)
      PROVE  store[Project].refs \subseteq store'[Project].refs
  <2> DEFINE w == worker[c]
  <2>1. CASE store[Project].version = w.project.version
    <3>1. w.project.refs = store[Project].refs /\ w.project.refs \subseteq ProjectIds
          /\ w.member \in ProjectIds /\ w.project.datum \in Data
      BY <1>1, <1>6, <2>1, MembersAreOthers
         DEF AddLinksMember, Takes, WorkIsSound, AddsSoundly
    <3>2. PutRecord(Project, w.project.datum, w.project.refs \cup {w.member})
      BY <1>6, <2>1 DEF AddLinksMember
    <3>3. w.project.refs \cup {w.member} \in SUBSET ProjectIds BY <3>1
    <3>4. store'[Project].refs = w.project.refs \cup {w.member}
      BY <1>1, <3>1, <3>2, <3>3, PutEvolves
    <3>5. QED BY <3>1, <3>4
  <2>2. CASE store[Project].version # w.project.version
    BY <1>6, <2>2 DEF AddLinksMember, Reads
  <2>3. QED BY <2>1, <2>2
<1>7. ASSUME NEW c \in ProjectClients, RenamePuts(c)
      PROVE  store[Project].refs \subseteq store'[Project].refs
  <2> DEFINE w == worker[c]
  <2>1. CASE store[Project].version = w.token
    <3>1. w.refs = store[Project].refs /\ w.refs \in SUBSET ProjectIds /\ w.name \in Data
      BY <1>1, <1>7, <2>1 DEF RenamePuts, Takes, WorkIsSound, RenamesSoundly, Data
    <3>2. PutRecord(Project, w.name, w.refs) BY <1>7, <2>1 DEF RenamePuts
    <3>3. QED BY <1>1, <3>1, <3>2, PutEvolves
  <2>2. CASE store[Project].version # w.token
    BY <1>7, <2>2 DEF RenamePuts, Reads
  <2>3. QED BY <2>1, <2>2
<1>8. ASSUME NEW t \in Targets, NEW refs \in SUBSET Targets, EditsTarget(t, refs)
      PROVE  store'[Project].refs = store[Project].refs
  <2>1. t \in ProjectIds /\ t # Project BY ProjectAssumption DEF ProjectIds
  <2>2. QED BY <1>1, <1>8, <2>1, OthersLeaveTheProject DEF EditsTarget
<1>9. ASSUME NEW c \in ProjectClients,
             \/ \E n \in ProjectNames : ProjectReads(c, n) \/ RenameTakesToken(c, n)
             \/ \E m \in Members, role \in Roles, t \in Targets : AddReadsProject(c, m, role, t)
             \/ AddReadsMember(c) \/ RenameReads(c) \/ CaptureStep(c) \/ ProjectClientDies(c)
      PROVE  UNCHANGED store
  BY <1>9 DEF ProjectReads, RenameTakesToken, AddReadsProject, AddReadsMember, RenameReads,
     CaptureStep, CaptureBegins, Brackets, CaptureReads, CaptureChecks, AssertsStable,
     ProjectClientDies, Begins, Reads
<1>10. QED BY <1>3, <1>4, <1>5, <1>6, <1>7, <1>8, <1>9 DEF ProjectNext, projectVars

(* A link to a member is never lost (createProject, addProjectMember,      *)
(* authorizedRenameProject).                                               *)
THEOREM LinksStay == ProjectSpec => LinksAreKept
<1>1. ProjectInv /\ [ProjectNext]_projectVars =>
        [Here(Project) => store[Project].refs \subseteq store'[Project].refs]_projectVars
  BY StepsKeepLinks
<1>2. QED BY <1>1, ProjectInvariance, PTL DEF ProjectSpec, LinksAreKept

----------------------------------------
(* Authorized objects.  What the records are, and the history. *)
ObjectsTyped ==
  /\ objects = [id \in ObjectIds |-> objects[id]]
  /\ \A id \in ObjectIds :
       \/ objects[id] = Unused
       \/ /\ objects[id].leaf \in Leaves
          /\ IsFiniteSet(DOMAIN objects[id].indexed)
          /\ objects[id].version \in Nat \ {0}
  /\ feed \in Seq(ObjectIds)
  /\ grants \subseteq Grantable

CallPlaces == {"rest", "read", "token", "mutate", "put", "class", "create"}

(* A token is of a version the object has had; a list that is about to be  *)
(* written keeps the references of that version.                           *)
CallIsSound(c) ==
  LET w == caller[c] IN
  /\ w.at \in CallPlaces
  /\ w.at \in {"read", "token", "mutate", "put"} => w.id \in ObjectIds
  /\ w.at = "token" =>
       w.version \in Nat \ {0} /\ w.version <= objects[w.id].version
  /\ w.at = "mutate" =>
       w = [at |-> "mutate", id |-> w.id, token |-> w.token, leaf |-> w.leaf, list |-> w.list]
  /\ w.at \in {"mutate", "put"} =>
       /\ w.token \in Nat \ {0} /\ w.token <= objects[w.id].version
       /\ w.leaf \in Leaves /\ IsFiniteSet(DOMAIN w.list)
  /\ w.at = "put" /\ objects[w.id].version = w.token => Keeps(w.list, objects[w.id].indexed)
  /\ w.at = "class" =>
       /\ w = [at |-> "class", leaf |-> w.leaf, batch |-> w.batch, member |-> w.member]
       /\ w.leaf \in Leaves /\ w.batch \in Batches
  /\ w.at = "create" =>
       /\ w = [at |-> "create", leaf |-> w.leaf, batch |-> w.batch, attempts |-> w.attempts]
       /\ w.leaf \in Leaves /\ w.batch \in Batches

(* An observer has dealt with the events up to its cursor, each one way. *)
HeardSoundly(w, heard) ==
  /\ w = [cursor |-> w.cursor, scan |-> w.scan, told |-> w.told, hidden |-> w.hidden]
  /\ w.cursor \in Nat
  /\ w.scan \in Seq(ObjectIds) /\ w.cursor + Len(w.scan) <= Len(heard)
  /\ w.told \cup w.hidden = 1 .. w.cursor
  /\ w.told \cap w.hidden = {}
ObserverIsSound(o) == HeardSoundly(observer[o], feed)

ObjectsInv ==
  /\ ObjectsTyped
  /\ caller = [c \in Callers |-> caller[c]] /\ \A c \in Callers : CallIsSound(c)
  /\ observer = [o \in Observers |-> observer[o]] /\ \A o \in Observers : ObserverIsSound(o)


(* A later moment of the objects: versions only go up, an object that kept *)
(* its version is what it was, and the history has grown.                  *)
ObjectsMove ==
  /\ \A id \in ObjectIds :
       /\ objects[id].version \in Nat /\ objects'[id].version \in Nat
       /\ objects[id].version <= objects'[id].version
       /\ objects[id].version = objects'[id].version => objects'[id] = objects[id]
  /\ feed \in Seq(ObjectIds) /\ feed' \in Seq(ObjectIds) /\ Len(feed) <= Len(feed')

(* An object has a version, and one that is not there has none. *)
LEMMA ObjectVersions ==
  ASSUME ObjectsTyped, NEW id \in ObjectIds
  PROVE  /\ objects[id].version \in Nat
         /\ objects[id].version # 0 <=> objects[id] # Unused
         /\ objects[id] # Unused => IsFiniteSet(DOMAIN objects[id].indexed)
<1>1. Unused.version = 0 BY DEF Unused
<1>2. QED BY <1>1 DEF ObjectsTyped

(* What a call holds stays sound while the objects move on. *)
LEMMA CallStays ==
  ASSUME ObjectsMove, NEW d \in Callers, CallIsSound(d), caller'[d] = caller[d]
  PROVE  CallIsSound(d)'
<1>1. ASSUME caller[d].at \in {"read", "token", "mutate", "put"}
      PROVE  /\ caller[d].id \in ObjectIds
             /\ objects[caller[d].id].version \in Nat /\ objects'[caller[d].id].version \in Nat
             /\ objects[caller[d].id].version <= objects'[caller[d].id].version
             /\ objects[caller[d].id].version = objects'[caller[d].id].version =>
                  objects'[caller[d].id] = objects[caller[d].id]
  BY <1>1 DEF CallIsSound, ObjectsMove
<1>2. caller[d].at = "token" =>
        caller[d].version \in Nat \ {0} /\ caller[d].version <= objects'[caller[d].id].version
  BY <1>1 DEF CallIsSound
<1>3. caller[d].at \in {"mutate", "put"} =>
        caller[d].token \in Nat \ {0} /\ caller[d].token <= objects'[caller[d].id].version
  BY <1>1 DEF CallIsSound
<1>4. caller[d].at = "put" /\ objects'[caller[d].id].version = caller[d].token =>
        Keeps(caller[d].list, objects'[caller[d].id].indexed)
  BY <1>1 DEF CallIsSound
<1>5. QED BY <1>2, <1>3, <1>4 DEF CallIsSound, Keeps, Times

(* What an observer holds stays sound while the history grows. *)
LEMMA ObserverStays ==
  ASSUME ObjectsMove, NEW o \in Observers, ObserverIsSound(o), observer'[o] = observer[o]
  PROVE  ObserverIsSound(o)'
<1>1. Len(feed) \in Nat /\ Len(feed') \in Nat /\ Len(observer[o].scan) \in Nat
  BY LenProperties DEF ObjectsMove, ObserverIsSound, HeardSoundly
<1>2. QED BY <1>1 DEF ObjectsMove, ObserverIsSound, HeardSoundly

(* Nothing is written. *)
LEMMA NothingIsWritten ==
  ASSUME ObjectsTyped, UNCHANGED <<objects, feed>>
  PROVE  ObjectsMove
<1>1. Len(feed) \in Nat BY LenProperties DEF ObjectsTyped
<1>2. QED BY <1>1, ObjectVersions DEF ObjectsMove, ObjectsTyped

(* A commit gives the objects it names their next version. *)
LEMMA CommitMoves ==
  ASSUME ObjectsTyped, NEW records, CommitObjects(records), UNCHANGED grants,
         DOMAIN records \in SUBSET ObjectIds, IsFiniteSet(DOMAIN records),
         \A id \in DOMAIN records :
           records[id].leaf \in Leaves /\ IsFiniteSet(DOMAIN records[id].indexed)
  PROVE  /\ ObjectsMove /\ ObjectsTyped'
         /\ \A id \in DOMAIN records :
              /\ objects'[id].indexed = records[id].indexed
              /\ objects'[id].version = objects[id].version + 1
         /\ \A id \in ObjectIds \ DOMAIN records : objects'[id] = objects[id]
<1> DEFINE next(id) == [leaf |-> records[id].leaf, indexed |-> records[id].indexed,
                        version |-> objects[id].version + 1]
<1>1. /\ objects' = [id \in ObjectIds |-> IF id \in DOMAIN records THEN next(id)
                                          ELSE objects[id]]
      /\ feed' = feed \o SetToSeq(DOMAIN records)
  BY DEF CommitObjects
<1>2. \A id \in ObjectIds : objects[id].version \in Nat BY ObjectVersions
<1>3. /\ objects' = [id \in ObjectIds |-> objects'[id]]
      /\ \A id \in ObjectIds \ DOMAIN records : objects'[id] = objects[id]
      /\ \A id \in DOMAIN records :
           /\ objects'[id].leaf = records[id].leaf
           /\ objects'[id].indexed = records[id].indexed
           /\ objects'[id].version = objects[id].version + 1
  BY <1>1
<1>4. feed \in Seq(ObjectIds) /\ SetToSeq(DOMAIN records) \in Seq(ObjectIds)
  <2>1. PICK ids \in SUBSET ObjectIds : ids = DOMAIN records
    OBVIOUS
  <2>2. SetToSeq(ids) \in Seq(ids) BY <2>1, SetToSeqOnce
  <2>3. SetToSeq(ids) \in Seq(ObjectIds) BY <2>2, SeqMonotonic
  <2>4. QED BY <2>1, <2>3 DEF ObjectsTyped
<1>5. feed' \in Seq(ObjectIds) /\ Len(feed) <= Len(feed')
  <2>1. PICK added \in Seq(ObjectIds) : added = SetToSeq(DOMAIN records)
    BY <1>4
  <2>2. feed \o added \in Seq(ObjectIds) /\ Len(feed \o added) = Len(feed) + Len(added)
    BY <1>4, ConcatProperties
  <2>3. Len(feed) \in Nat /\ Len(added) \in Nat BY <1>4, LenProperties
  <2>4. QED BY <1>1, <2>1, <2>2, <2>3
<1>6. ObjectsMove BY <1>2, <1>3, <1>4, <1>5 DEF ObjectsMove
<1>7. ObjectsTyped'
  <2>1. \A id \in DOMAIN records :
          /\ objects'[id].leaf \in Leaves
          /\ IsFiniteSet(DOMAIN objects'[id].indexed)
          /\ objects'[id].version \in Nat \ {0}
    BY <1>2, <1>3
  <2>2. \A id \in ObjectIds :
          \/ objects'[id] = Unused
          \/ /\ objects'[id].leaf \in Leaves
             /\ IsFiniteSet(DOMAIN objects'[id].indexed)
             /\ objects'[id].version \in Nat \ {0}
    BY <1>3, <2>1 DEF ObjectsTyped
  <2>3. QED BY <1>3, <1>5, <2>2 DEF ObjectsTyped, Unused
<1>8. QED BY <1>3, <1>6, <1>7

(* A call goes to a sound state, and nobody else is disturbed. *)
LEMMA CallSteps ==
  ASSUME ObjectsInv, ObjectsMove, ObjectsTyped', UNCHANGED observer,
         NEW c \in Callers, NEW state, CallerGoes(c, state),
         caller'[c] = state => CallIsSound(c)'
  PROVE  ObjectsInv'
<1>1. /\ caller'[c] = state /\ \A d \in Callers \ {c} : caller'[d] = caller[d]
      /\ caller' = [d \in Callers |-> caller'[d]]
  BY DEF CallerGoes, ObjectsInv
<1>2. \A d \in Callers \ {c} : CallIsSound(d)' BY <1>1, CallStays DEF ObjectsInv
<1>3. \A o \in Observers : ObserverIsSound(o)' BY ObserverStays DEF ObjectsInv
<1>4. QED BY <1>1, <1>2, <1>3 DEF ObjectsInv

(* A call that writes nothing. *)
LEMMA QuietCallSteps ==
  ASSUME ObjectsInv, UNCHANGED <<objects, feed, grants, observer>>,
         NEW c \in Callers, NEW state, CallerGoes(c, state),
         caller'[c] = state => CallIsSound(c)'
  PROVE  ObjectsInv'
<1>1. ObjectsTyped /\ ObjectsTyped' BY DEF ObjectsInv, ObjectsTyped
<1>2. ObjectsMove BY <1>1, NothingIsWritten
<1>3. QED BY <1>1, <1>2, CallSteps
(* The read lane. *)
LEMMA ReadingStep ==
  ASSUME ObjectsInv, NEW c \in Callers, NEW id \in ObjectIds, Reading(c, id)
  PROVE  ObjectsInv'
<1>1. /\ CallerGoes(c, [at |-> "read", id |-> id])
      /\ UNCHANGED <<objects, feed, grants, observer>>
  BY DEF Reading, CallBegins, Store
<1>2. caller'[c] = [at |-> "read", id |-> id] => CallIsSound(c)'
  BY DEF CallIsSound, CallPlaces
<1>3. QED BY <1>1, <1>2, QuietCallSteps

(* The record is read, and the token is the version it has. *)
LEMMA ReadsRecordStep ==
  ASSUME ObjectsInv, NEW c \in Callers, ReadsRecord(c)
  PROVE  ObjectsInv'
<1> DEFINE id == caller[c].id
           token == [at |-> "token", id |-> id, version |-> objects[id].version]
<1>1. /\ CallerGoes(c, IF objects[id] = Unused THEN Idle ELSE token)
      /\ UNCHANGED <<objects, feed, grants, observer>>
  BY DEF ReadsRecord, CallGoesOn, Store
<1>2. id \in ObjectIds BY DEF ObjectsInv, ReadsRecord, Is, CallIsSound
<1>3. CASE objects[id] = Unused
  <2>1. CallerGoes(c, Idle) BY <1>1, <1>3
  <2>2. caller'[c] = Idle => CallIsSound(c)'
    BY DEF Idle, CallIsSound, CallPlaces
  <2>3. QED BY <1>1, <2>1, <2>2, QuietCallSteps
<1>4. CASE objects[id] # Unused
  <2>1. objects[id].version \in Nat \ {0}
    BY <1>2, <1>4, ObjectVersions DEF ObjectsInv
  <2>2. caller'[c] = token => CallIsSound(c)'
    BY <1>1, <1>2, <2>1 DEF CallIsSound, CallPlaces
  <2>3. QED BY <1>1, <1>4, <2>2, QuietCallSteps
<1>5. QED BY <1>3, <1>4

(* The mutation lane: a call goes on with the token. *)
LEMMA MutatingStep ==
  ASSUME ObjectsInv, NEW c \in Callers, NEW leaf \in Leaves, NEW list \in IndexedLists,
         Mutating(c, leaf, list)
  PROVE  ObjectsInv'
<1> DEFINE w == caller[c]
           state == [at |-> "mutate", id |-> w.id, token |-> w.version,
                     leaf |-> leaf, list |-> list]
<1>1. CallerGoes(c, state) /\ UNCHANGED <<objects, feed, grants, observer>>
  BY DEF Mutating, CallBegins, Store
<1>2. w.id \in ObjectIds /\ w.version \in Nat \ {0} /\ w.version <= objects[w.id].version
  BY DEF ObjectsInv, Mutating, Is, CallIsSound
<1>3. IsFiniteSet(DOMAIN list)
  <2>1. PICK n \in 0 .. 2 : list \in [1 .. n -> ObjectIds]
    BY DEF IndexedLists
  <2>2. QED BY <2>1, FS_Interval
<1>4. caller'[c] = state => CallIsSound(c)'
  BY <1>1, <1>2, <1>3 DEF CallIsSound, CallPlaces
<1>5. QED BY <1>1, <1>4, QuietCallSteps

(* The record is read, and the list compared with the record's. *)
LEMMA BuildsIndexedStep ==
  ASSUME ObjectsInv, NEW c \in Callers, BuildsIndexed(c)
  PROVE  ObjectsInv'
<1> DEFINE w == caller[c]
           old == objects[w.id].indexed
           kept == Keeps(w.list, old) /\ \A id \in Added(w.list, old) : Granted("edge", id)
<1>1. /\ CallerGoes(c, IF kept THEN [w EXCEPT !.at = "put"] ELSE Idle)
      /\ UNCHANGED <<objects, feed, grants, observer>>
  BY DEF BuildsIndexed, CallGoesOn, Store
<1>2. /\ w = [at |-> "mutate", id |-> w.id, token |-> w.token, leaf |-> w.leaf,
              list |-> w.list]
      /\ w.id \in ObjectIds /\ w.token \in Nat \ {0} /\ w.token <= objects[w.id].version
      /\ w.leaf \in Leaves /\ IsFiniteSet(DOMAIN w.list)
  BY DEF ObjectsInv, BuildsIndexed, Is, CallIsSound
<1>3. CASE kept
  <2> DEFINE state == [at |-> "put", id |-> w.id, token |-> w.token, leaf |-> w.leaf,
                       list |-> w.list]
  <2>1. CallerGoes(c, [w EXCEPT !.at = "put"]) BY <1>1, <1>3
  <2>2. [w EXCEPT !.at = "put"] = state BY <1>2
  <2>3. CallerGoes(c, state) BY <2>1, <2>2
  <2>4. Keeps(w.list, objects'[w.id].indexed) BY <1>1, <1>3
  <2>5. caller'[c] = state => CallIsSound(c)'
    BY <1>1, <1>2, <2>4 DEF CallIsSound, CallPlaces, Keeps, Times
  <2>6. QED BY <1>1, <2>3, <2>5, QuietCallSteps
<1>4. CASE ~kept
  <2>1. CallerGoes(c, Idle) BY <1>1, <1>4
  <2>2. caller'[c] = Idle => CallIsSound(c)'
    BY DEF Idle, CallIsSound, CallPlaces
  <2>3. QED BY <1>1, <2>1, <2>2, QuietCallSteps
<1>5. QED BY <1>3, <1>4

(* What the put of a mutation does. *)
LEMMA MutationPuts ==
  ASSUME ObjectsInv, NEW c \in Callers, PutObjectAtExpectedVersion(c),
         objects[caller[c].id].version = caller[c].token
  PROVE  /\ ObjectsMove /\ ObjectsTyped'
         /\ caller[c].id \in ObjectIds /\ caller[c].token \in Nat \ {0}
         /\ objects'[caller[c].id].indexed = caller[c].list
         /\ objects'[caller[c].id].version = caller[c].token + 1
         /\ Keeps(caller[c].list, objects[caller[c].id].indexed)
         /\ \A id \in ObjectIds \ {caller[c].id} : objects'[id] = objects[id]
<1> DEFINE w == caller[c]
<1>1. PICK records : records = [x \in {w.id} |-> [leaf |-> w.leaf, indexed |-> w.list]]
  OBVIOUS
<1>2. CommitObjects(records) /\ UNCHANGED grants
  BY <1>1 DEF PutObjectAtExpectedVersion, CallGoesOn
<1>3. /\ w.id \in ObjectIds /\ w.token \in Nat \ {0} /\ w.leaf \in Leaves
      /\ IsFiniteSet(DOMAIN w.list) /\ Keeps(w.list, objects[w.id].indexed)
  BY DEF ObjectsInv, PutObjectAtExpectedVersion, Is, CallIsSound
<1>4. /\ DOMAIN records = {w.id}
      /\ records[w.id].leaf = w.leaf /\ records[w.id].indexed = w.list
  BY <1>1
<1>5. IsFiniteSet(DOMAIN records) BY <1>4, FS_Singleton
<1>6. /\ ObjectsMove /\ ObjectsTyped'
      /\ objects'[w.id].indexed = records[w.id].indexed
      /\ objects'[w.id].version = objects[w.id].version + 1
      /\ \A id \in ObjectIds \ {w.id} : objects'[id] = objects[id]
  <2>1. ObjectsTyped BY DEF ObjectsInv
  <2>2. QED BY <1>2, <1>3, <1>4, <1>5, <2>1, CommitMoves
<1>7. QED BY <1>3, <1>4, <1>6

(* The put of a mutation, or its refusal. *)
LEMMA PutObjectStep ==
  ASSUME ObjectsInv, NEW c \in Callers, PutObjectAtExpectedVersion(c)
  PROVE  ObjectsInv'
<1> DEFINE w == caller[c]
<1>1. CASE objects[w.id].version = w.token
  <2> DEFINE state == [at |-> "token", id |-> w.id, version |-> w.token + 1]
  <2>1. CallerGoes(c, state) /\ UNCHANGED observer
    BY <1>1 DEF PutObjectAtExpectedVersion, CallGoesOn
  <2>2. /\ ObjectsMove /\ ObjectsTyped' /\ w.id \in ObjectIds /\ w.token \in Nat \ {0}
        /\ objects'[w.id].version = w.token + 1
    BY <1>1, MutationPuts
  <2>3. caller'[c] = state => CallIsSound(c)'
    BY <2>2 DEF CallIsSound, CallPlaces
  <2>4. QED BY <2>1, <2>2, <2>3, CallSteps
<1>2. CASE objects[w.id].version # w.token
  <2>1. CallerGoes(c, Idle) /\ UNCHANGED <<objects, feed, grants, observer>>
    BY <1>2 DEF PutObjectAtExpectedVersion, CallGoesOn, Store
  <2>2. caller'[c] = Idle => CallIsSound(c)'
    BY DEF Idle, CallIsSound, CallPlaces
  <2>3. QED BY <2>1, <2>2, QuietCallSteps
<1>3. QED BY <1>1, <1>2

(* The creation lanes. *)
LEMMA CreatingStep ==
  ASSUME ObjectsInv, NEW c \in Callers, NEW leaf \in Leaves, NEW batch \in Batches,
         Creating(c, leaf, batch)
  PROVE  ObjectsInv'
<1> DEFINE state == [at |-> "class", leaf |-> leaf, batch |-> batch, member |-> 1]
<1>1. CallerGoes(c, state) /\ UNCHANGED <<objects, feed, grants, observer>>
  BY DEF Creating, CallBegins, Store
<1>2. caller'[c] = state => CallIsSound(c)' BY DEF CallIsSound, CallPlaces
<1>3. QED BY <1>1, <1>2, QuietCallSteps

(* The next member of a batch, or all are built. *)
LEMMA BuildsMemberStep ==
  ASSUME ObjectsInv, NEW c \in Callers, BuildsMember(c)
  PROVE  ObjectsInv'
<1> DEFINE w == caller[c]
           built == [at |-> "create", leaf |-> w.leaf, batch |-> w.batch, attempts |-> 0]
           goesOn == [w EXCEPT !.member = w.member + 1]
<1>1. /\ w = [at |-> "class", leaf |-> w.leaf, batch |-> w.batch, member |-> w.member]
      /\ w.leaf \in Leaves /\ w.batch \in Batches
  BY DEF ObjectsInv, BuildsMember, Is, CallIsSound
<1>2. UNCHANGED <<objects, feed, grants, observer>>
  BY DEF BuildsMember, CallGoesOn, Store
<1>3. PICK state : CallerGoes(c, state) /\ state \in {Idle, built, goesOn}
  BY Zenon DEF BuildsMember
<1>4. ASSUME caller'[c] = Idle
      PROVE  CallIsSound(c)'
  BY <1>4 DEF Idle, CallIsSound, CallPlaces
<1>5. ASSUME caller'[c] = built
      PROVE  CallIsSound(c)'
  BY <1>1, <1>5 DEF CallIsSound, CallPlaces
<1>6. ASSUME caller'[c] = goesOn
      PROVE  CallIsSound(c)'
  <2>1. goesOn = [at |-> "class", leaf |-> w.leaf, batch |-> w.batch, member |-> w.member + 1]
    BY <1>1
  <2>2. QED BY <1>1, <1>6, <2>1 DEF CallIsSound, CallPlaces
<1>7. QED BY <1>2, <1>3, <1>4, <1>5, <1>6, QuietCallSteps

(* The records an insertion of a batch makes, under the identities drawn. *)
Minted(w, ids) ==
  [id \in {ids[m] : m \in DOMAIN ids} |->
     LET m == CHOOSE x \in DOMAIN ids : ids[x] = id
     IN [leaf |-> w.leaf,
         indexed |-> <<IF w.batch[m] \in ObjectIds THEN w.batch[m] ELSE ids[w.batch[m]]>>]]

(* An insertion that finds its identities free. *)
LEMMA MintedPuts ==
  ASSUME ObjectsInv, NEW c \in Callers, caller[c].at = "create",
         NEW ids \in [DOMAIN caller[c].batch -> ObjectIds],
         \A m \in DOMAIN ids : objects[ids[m]] = Unused,
         CommitObjects(Minted(caller[c], ids)), UNCHANGED grants
  PROVE  /\ ObjectsMove /\ ObjectsTyped'
         /\ ids[1] \in ObjectIds /\ objects'[ids[1]].version = 1
         /\ \A id \in ObjectIds : objects[id] # Unused => objects'[id] = objects[id]
<1> DEFINE w == caller[c]
<1>1. w.leaf \in Leaves /\ w.batch \in Batches BY DEF ObjectsInv, CallIsSound
<1>2. w.batch \in Seq(ObjectIds \cup Nat) /\ w.batch # <<>>
  BY <1>1, ObjectsAssumption
<1>3. /\ DOMAIN w.batch = 1 .. Len(w.batch) /\ Len(w.batch) \in Nat /\ Len(w.batch) # 0
  BY <1>2, EmptySeq, LenProperties
<1>4. 1 \in DOMAIN ids /\ DOMAIN ids = 1 .. Len(w.batch) BY <1>3
<1>5. PICK records : records = Minted(w, ids)
  OBVIOUS
<1>6. DOMAIN records = {ids[m] : m \in DOMAIN ids} BY <1>5 DEF Minted
<1>7. IsFiniteSet(DOMAIN records)
  <2>1. ids \in Surjection(DOMAIN ids, DOMAIN records) BY <1>6 DEF Surjection
  <2>2. IsFiniteSet(DOMAIN ids) BY <1>3, <1>4, FS_Interval
  <2>3. QED BY <2>1, <2>2, FS_Surjection
<1>8. ASSUME NEW id \in DOMAIN records
      PROVE  records[id].leaf \in Leaves /\ IsFiniteSet(DOMAIN records[id].indexed)
  <2> DEFINE place == CHOOSE x \in DOMAIN ids : ids[x] = id
             element == IF w.batch[place] \in ObjectIds THEN w.batch[place]
                        ELSE ids[w.batch[place]]
  <2>1. records[id] = [leaf |-> w.leaf, indexed |-> <<element>>]
    <3>1. id \in {ids[m] : m \in DOMAIN ids} BY <1>6
    <3>2. QED BY <1>5, <3>1, Zenon DEF Minted
  <2> HIDE DEF element
  <2>2. IsFiniteSet(DOMAIN <<element>>)
    <3>1. IsFiniteSet({1}) BY FS_Singleton
    <3>2. DOMAIN <<element>> = {1}
      <4>1. DOMAIN <<element>> = 1 .. 1 /\ 1 .. 1 = {1} OBVIOUS
      <4>2. QED BY <4>1
    <3>3. QED BY <3>1, <3>2
  <2>3. records[id].leaf = w.leaf /\ records[id].indexed = <<element>> BY <2>1
  <2>4. QED BY <1>1, <2>2, <2>3
<1>9. DOMAIN records \in SUBSET ObjectIds BY <1>6
<1>10. ObjectsTyped BY DEF ObjectsInv
<1>11. /\ ObjectsMove /\ ObjectsTyped'
       /\ \A id \in DOMAIN records : objects'[id].version = objects[id].version + 1
       /\ \A id \in ObjectIds \ DOMAIN records : objects'[id] = objects[id]
  BY <1>5, <1>7, <1>8, <1>9, <1>10, CommitMoves
<1>12. ids[1] \in DOMAIN records /\ objects[ids[1]].version = 0
  BY <1>4, <1>6 DEF Unused
<1>13. \A id \in DOMAIN records : objects[id] = Unused BY <1>6
<1>14. QED BY <1>9, <1>11, <1>12, <1>13

(* An insertion, or a collision of identities. *)
LEMMA InsertsMintedStep ==
  ASSUME ObjectsInv, NEW c \in Callers, InsertsMinted(c)
  PROVE  /\ ObjectsInv'
         /\ \A id \in ObjectIds : objects[id] # Unused => objects'[id] = objects[id]
<1> DEFINE w == caller[c]
<1>1. w.at = "create" /\ UNCHANGED <<grants, observer>>
  BY DEF InsertsMinted, Is, CallGoesOn
<1>2. PICK ids \in [DOMAIN w.batch -> ObjectIds] :
        IF \A m \in DOMAIN ids : objects[ids[m]] = Unused
        THEN /\ CommitObjects(Minted(w, ids))
             /\ CallerGoes(c, [at |-> "token", id |-> ids[1], version |-> 1])
        ELSE /\ UNCHANGED Store
             /\ CallerGoes(c, IF w.attempts + 1 = MaxIdentityAttempts THEN Idle
                              ELSE [w EXCEPT !.attempts = w.attempts + 1])
  BY DEF InsertsMinted, Minted
<1>3. CASE \A m \in DOMAIN ids : objects[ids[m]] = Unused
  <2> DEFINE state == [at |-> "token", id |-> ids[1], version |-> 1]
  <2>1. CommitObjects(Minted(w, ids)) /\ CallerGoes(c, state) BY <1>2, <1>3
  <2>2. /\ ObjectsMove /\ ObjectsTyped'
        /\ ids[1] \in ObjectIds /\ objects'[ids[1]].version = 1
        /\ \A id \in ObjectIds : objects[id] # Unused => objects'[id] = objects[id]
    BY <1>1, <1>3, <2>1, MintedPuts
  <2>3. caller'[c] = state => CallIsSound(c)'
    BY <2>2 DEF CallIsSound, CallPlaces
  <2>4. QED BY <1>1, <2>1, <2>2, <2>3, CallSteps
<1>4. CASE ~ \A m \in DOMAIN ids : objects[ids[m]] = Unused
  <2>1. UNCHANGED <<objects, feed, grants, observer>>
    BY <1>1, <1>2, <1>4 DEF Store
  <2>2. CASE w.attempts + 1 = MaxIdentityAttempts
    <3>1. CallerGoes(c, Idle) BY <1>2, <1>4, <2>2
    <3>2. caller'[c] = Idle => CallIsSound(c)'
      BY DEF Idle, CallIsSound, CallPlaces
    <3>3. QED BY <2>1, <3>1, <3>2, QuietCallSteps
  <2>3. CASE w.attempts + 1 # MaxIdentityAttempts
    <3> DEFINE state == [at |-> "create", leaf |-> w.leaf, batch |-> w.batch,
                         attempts |-> w.attempts + 1]
    <3>1. CallerGoes(c, [w EXCEPT !.attempts = w.attempts + 1])
      BY <1>2, <1>4, <2>3
    <3>2. /\ w = [at |-> "create", leaf |-> w.leaf, batch |-> w.batch,
                  attempts |-> w.attempts]
          /\ w.leaf \in Leaves /\ w.batch \in Batches
      BY <1>1 DEF ObjectsInv, CallIsSound
    <3>3. [w EXCEPT !.attempts = w.attempts + 1] = state BY <3>2
    <3>4. CallerGoes(c, state) BY <3>1, <3>3
    <3>5. caller'[c] = state => CallIsSound(c)'
      BY <3>2 DEF CallIsSound, CallPlaces
    <3>6. QED BY <2>1, <3>4, <3>5, QuietCallSteps
  <2>4. QED BY <2>2, <2>3
<1>5. QED BY <1>3, <1>4

(* An observer that has dealt with what is behind its cursor. *)
LEMMA SoundObserver ==
  ASSUME NEW cursor \in Nat, NEW scan \in Seq(ObjectIds), NEW told, NEW hidden,
         NEW heard \in Seq(ObjectIds), cursor + Len(scan) <= Len(heard),
         told \cup hidden = 1 .. cursor, told \cap hidden = {}
  PROVE  HeardSoundly([cursor |-> cursor, scan |-> scan, told |-> told, hidden |-> hidden],
                      heard)
<1> DEFINE w == [cursor |-> cursor, scan |-> scan, told |-> told, hidden |-> hidden]
<1>1. w.cursor = cursor /\ w.scan = scan /\ w.told = told /\ w.hidden = hidden
  OBVIOUS
<1>2. w = [cursor |-> w.cursor, scan |-> w.scan, told |-> w.told, hidden |-> w.hidden]
  OBVIOUS
<1> HIDE DEF w
<1>3. HeardSoundly(w, heard) BY <1>1, <1>2 DEF HeardSoundly
<1>4. QED BY <1>3 DEF w

(* An observer reads the history behind its cursor. *)
LEMMA ScansStep ==
  ASSUME ObjectsInv, NEW o \in Observers, Scans(o)
  PROVE  ObjectsInv'
<1> DEFINE w == observer[o]
<1>1. PICK scan : scan = SubSeq(feed, w.cursor + 1, Len(feed))
  OBVIOUS
<1>2. /\ observer' = [observer EXCEPT ![o].scan = scan]
      /\ UNCHANGED <<objects, feed, grants, caller>> /\ w.cursor < Len(feed)
  BY <1>1 DEF Scans, Store
<1>3. /\ w = [cursor |-> w.cursor, scan |-> w.scan, told |-> w.told, hidden |-> w.hidden]
      /\ w.cursor \in Nat /\ w.told \cup w.hidden = 1 .. w.cursor
      /\ w.told \cap w.hidden = {} /\ feed \in Seq(ObjectIds)
      /\ observer = [x \in Observers |-> observer[x]]
  BY DEF ObjectsInv, ObserverIsSound, HeardSoundly, ObjectsTyped
<1>4. scan \in Seq(ObjectIds) /\ Len(scan) = Len(feed) - w.cursor /\ Len(feed) \in Nat
  <2>1. Len(feed) \in Nat /\ \A k \in 1 .. Len(feed) : feed[k] \in ObjectIds
    BY <1>3, LenProperties
  <2>2. w.cursor + 1 \in Int /\ \A k \in w.cursor + 1 .. Len(feed) : feed[k] \in ObjectIds
    BY <1>3, <2>1
  <2>3. /\ SubSeq(feed, w.cursor + 1, Len(feed)) \in Seq(ObjectIds)
        /\ Len(SubSeq(feed, w.cursor + 1, Len(feed))) =
             IF w.cursor + 1 <= Len(feed) THEN Len(feed) - (w.cursor + 1) + 1 ELSE 0
    BY <2>1, <2>2, SubSeqProperties
  <2>4. QED BY <1>1, <1>2, <1>3, <2>1, <2>3
<1>5. /\ observer'[o] = [cursor |-> w.cursor, scan |-> scan, told |-> w.told,
                         hidden |-> w.hidden]
      /\ observer' = [x \in Observers |-> observer'[x]]
      /\ \A x \in Observers \ {o} : observer'[x] = observer[x]
  BY <1>2, <1>3
<1>6. ObserverIsSound(o)'
  <2>1. w.cursor + Len(scan) <= Len(feed) BY <1>3, <1>4
  <2>2. HeardSoundly([cursor |-> w.cursor, scan |-> scan, told |-> w.told,
                      hidden |-> w.hidden], feed)
    <3>1. /\ w.cursor \in Nat /\ scan \in Seq(ObjectIds) /\ feed \in Seq(ObjectIds)
          /\ w.told \cup w.hidden = 1 .. w.cursor /\ w.told \cap w.hidden = {}
      BY <1>3, <1>4
    <3> HIDE DEF w
    <3>2. QED BY <2>1, <3>1, SoundObserver
  <2>3. QED BY <1>2, <1>5, <2>2 DEF ObserverIsSound
<1>7. ObjectsTyped /\ ObjectsTyped' BY <1>2 DEF ObjectsInv, ObjectsTyped
<1>8. ObjectsMove BY <1>2, <1>7, NothingIsWritten
<1>9. \A x \in Observers : ObserverIsSound(x)'
  BY <1>5, <1>6, <1>8, ObserverStays DEF ObjectsInv
<1>10. \A c \in Callers : CallIsSound(c)'
  BY <1>2, <1>8, CallStays DEF ObjectsInv
<1>11. QED BY <1>2, <1>5, <1>7, <1>9, <1>10 DEF ObjectsInv

(* It is told of the events it may read, and passes over the others. *)
LEMMA ReportsStep ==
  ASSUME ObjectsInv, NEW o \in Observers, Reports(o)
  PROVE  ObjectsInv'
<1> DEFINE w == observer[o]
           cursor == w.cursor + Len(w.scan)
           Positions == w.cursor + 1 .. cursor
<1>1. PICK seen : seen = {p \in Positions : Granted("read", w.scan[p - w.cursor])}
  OBVIOUS
<1>2. /\ observer' = [observer EXCEPT ![o] =
            [w EXCEPT !.scan = <<>>, !.cursor = cursor,
                      !.told = w.told \cup seen, !.hidden = w.hidden \cup (Positions \ seen)]]
      /\ UNCHANGED <<objects, feed, grants, caller>>
  BY <1>1 DEF Reports, Store
<1>3. /\ w = [cursor |-> w.cursor, scan |-> w.scan, told |-> w.told, hidden |-> w.hidden]
      /\ w.cursor \in Nat /\ w.told \cup w.hidden = 1 .. w.cursor
      /\ w.told \cap w.hidden = {} /\ feed \in Seq(ObjectIds)
      /\ w.scan \in Seq(ObjectIds) /\ cursor <= Len(feed)
      /\ observer = [x \in Observers |-> observer[x]]
  BY DEF ObjectsInv, ObserverIsSound, HeardSoundly, ObjectsTyped
<1>4. Len(w.scan) \in Nat /\ Len(feed) \in Nat /\ seen \subseteq Positions
  BY <1>1, <1>3, LenProperties
<1>5. PICK told, hidden : told = w.told \cup seen /\ hidden = w.hidden \cup (Positions \ seen)
  OBVIOUS
<1>6. told \cup hidden = 1 .. cursor /\ told \cap hidden = {} /\ cursor \in Nat
  <2>1. (1 .. w.cursor) \cap Positions = {} /\ (1 .. w.cursor) \cup Positions = 1 .. cursor
    BY <1>3, <1>4
  <2>2. QED BY <1>3, <1>4, <1>5, <2>1
<1> DEFINE after == [cursor |-> cursor, scan |-> <<>>, told |-> told, hidden |-> hidden]
<1>7. observer' = [observer EXCEPT ![o] = after]
  <2>1. PICK x : x = [w EXCEPT !.scan = <<>>]
    OBVIOUS
  <2>2. x = [cursor |-> w.cursor, scan |-> <<>>, told |-> w.told, hidden |-> w.hidden]
    BY <1>3, <2>1
  <2>3. PICK y : y = [x EXCEPT !.cursor = cursor]
    OBVIOUS
  <2>4. y = [cursor |-> cursor, scan |-> <<>>, told |-> w.told, hidden |-> w.hidden]
    BY <2>2, <2>3
  <2>5. PICK z : z = [y EXCEPT !.told = told]
    OBVIOUS
  <2>6. z = [cursor |-> cursor, scan |-> <<>>, told |-> told, hidden |-> w.hidden]
    BY <2>4, <2>5
  <2>7. [z EXCEPT !.hidden = hidden] = after BY <2>6
  <2>8. QED BY <1>2, <1>5, <2>1, <2>3, <2>5, <2>7
<1>8. /\ observer'[o] = after
      /\ observer' = [x \in Observers |-> observer'[x]]
      /\ \A x \in Observers \ {o} : observer'[x] = observer[x]
  BY <1>3, <1>7
<1>9. ObserverIsSound(o)'
  <2>1. <<>> \in Seq(ObjectIds) /\ Len(<<>>) = 0 BY EmptySeq
  <2>2. cursor + Len(<<>>) <= Len(feed) BY <1>3, <1>4, <2>1
  <2>3. HeardSoundly(after, feed) BY <1>3, <1>6, <2>1, <2>2, SoundObserver
  <2>4. QED BY <1>2, <1>8, <2>3 DEF ObserverIsSound
<1>10. ObjectsTyped /\ ObjectsTyped' BY <1>2 DEF ObjectsInv, ObjectsTyped
<1>11. ObjectsMove BY <1>2, <1>10, NothingIsWritten
<1>12. \A x \in Observers : ObserverIsSound(x)'
  BY <1>8, <1>9, <1>11, ObserverStays DEF ObjectsInv
<1>13. \A c \in Callers : CallIsSound(c)'
  BY <1>2, <1>11, CallStays DEF ObjectsInv
<1>14. QED BY <1>2, <1>8, <1>10, <1>12, <1>13 DEF ObjectsInv

(* Neither the calls nor the observers move. *)
LEMMA ObjectsRest ==
  ASSUME ObjectsInv, UNCHANGED <<objects, feed, caller, observer>>,
         grants' \subseteq Grantable
  PROVE  ObjectsInv'
<1>1. ObjectsTyped /\ ObjectsTyped' BY DEF ObjectsInv, ObjectsTyped
<1>2. ObjectsMove BY <1>1, NothingIsWritten
<1>3. \A x \in Observers : ObserverIsSound(x)'
  BY <1>2, ObserverStays DEF ObjectsInv
<1>4. \A c \in Callers : CallIsSound(c)' BY <1>2, CallStays DEF ObjectsInv
<1>5. QED BY <1>1, <1>3, <1>4 DEF ObjectsInv

(* At first there is nothing. *)
LEMMA ObjectsBegin ==
  ASSUME ObjectsInit
  PROVE  ObjectsInv
<1>1. <<>> \in Seq(ObjectIds) /\ Len(<<>>) = 0 BY EmptySeq
<1>2. ObjectsTyped BY <1>1 DEF ObjectsInit, ObjectsTyped
<1>3. /\ caller = [c \in Callers |-> caller[c]] /\ \A c \in Callers : caller[c] = Idle
  BY DEF ObjectsInit
<1>4. \A c \in Callers : CallIsSound(c)
  BY <1>3 DEF Idle, CallIsSound, CallPlaces
<1> DEFINE begun == [cursor |-> 0, scan |-> <<>>, told |-> {}, hidden |-> {}]
<1>5. /\ observer = [o \in Observers |-> observer[o]]
      /\ \A o \in Observers : observer[o] = begun
      /\ feed = <<>>
  BY DEF ObjectsInit
<1>6. 1 .. 0 = {} OBVIOUS
<1>7. \A o \in Observers : ObserverIsSound(o)
  <2>1. {} \cup {} = 1 .. 0 /\ {} \cap {} = {} /\ 0 + Len(<<>>) <= Len(<<>>)
    BY <1>1
  <2>2. HeardSoundly(begun, <<>>) BY <1>1, <2>1, SoundObserver
  <2>3. QED BY <1>5, <2>2 DEF ObserverIsSound
<1>8. QED BY <1>2, <1>3, <1>4, <1>5, <1>7 DEF ObjectsInv

(* Every step keeps the invariant. *)
LEMMA ObjectsSteps ==
  ASSUME ObjectsInv, ObjectsNext
  PROVE  ObjectsInv'
<1>1. ASSUME NEW c \in Callers,
             \/ \E id \in ObjectIds : Reading(c, id)
             \/ ReadsRecord(c)
             \/ \E leaf \in Leaves, list \in IndexedLists : Mutating(c, leaf, list)
             \/ BuildsIndexed(c) \/ PutObjectAtExpectedVersion(c)
             \/ \E leaf \in Leaves, batch \in Batches : Creating(c, leaf, batch)
             \/ BuildsMember(c) \/ InsertsMinted(c)
      PROVE  ObjectsInv'
  BY <1>1, ReadingStep, ReadsRecordStep, MutatingStep, BuildsIndexedStep, PutObjectStep,
     CreatingStep, BuildsMemberStep, InsertsMintedStep
<1>2. ASSUME NEW o \in Observers, Scans(o) \/ Reports(o)
      PROVE  ObjectsInv'
  BY <1>2, ScansStep, ReportsStep
<1>3. ASSUME NEW grant \in Toggled, GrantChanges(grant[1], grant[2])
      PROVE  ObjectsInv'
  <2>1. UNCHANGED <<objects, feed, caller, observer>>
    BY <1>3 DEF GrantChanges, Store
  <2>2. grants' \subseteq Grantable
    <3>1. <<grant[1], grant[2]>> \in Grantable
      BY <1>3, ObjectsAssumption DEF Grantable
    <3>2. QED BY <1>3, <3>1 DEF GrantChanges, ObjectsInv, ObjectsTyped
  <2>3. QED BY <2>1, <2>2, ObjectsRest
<1>4. QED BY <1>1, <1>2, <1>3 DEF ObjectsNext

(* What calls and observers hold is sound, in every reachable state. *)
THEOREM ObjectsInvariance == ObjectsSpec => []ObjectsInv
<1>1. ObjectsInit => ObjectsInv BY ObjectsBegin
<1>2. ObjectsInv /\ UNCHANGED objectVars => ObjectsInv'
  <2> SUFFICES ASSUME ObjectsInv, UNCHANGED objectVars
               PROVE  ObjectsInv'
    OBVIOUS
  <2>1. UNCHANGED <<objects, feed, caller, observer>> /\ UNCHANGED grants
    BY DEF objectVars
  <2>2. QED BY <2>1, ObjectsRest DEF ObjectsInv, ObjectsTyped
<1>3. ObjectsInv /\ [ObjectsNext]_objectVars => ObjectsInv'
  BY <1>2, ObjectsSteps
<1>4. QED BY <1>1, <1>3, PTL DEF ObjectsSpec

(* The invariant of authorized objects gives their types. *)
LEMMA ObjectsAreTyped ==
  ASSUME ObjectsInv
  PROVE  ObjectsTypeOK
<1>1. \A o \in Observers : observer[o].cursor \in 0 .. Len(feed)
  <2> TAKE o \in Observers
  <2>1. /\ observer[o].cursor \in Nat /\ observer[o].scan \in Seq(ObjectIds)
        /\ observer[o].cursor + Len(observer[o].scan) <= Len(feed) /\ feed \in Seq(ObjectIds)
    BY DEF ObjectsInv, ObjectsTyped, ObserverIsSound, HeardSoundly
  <2>2. Len(observer[o].scan) \in Nat /\ Len(feed) \in Nat
    BY <2>1, LenProperties
  <2>3. QED BY <2>1, <2>2
<1>2. QED BY <1>1 DEF ObjectsInv, ObjectsTyped, CallIsSound, CallPlaces, ObjectsTypeOK

(* Objects, the history, the grants, the calls and the cursors have their  *)
(* types.                                                                  *)
THEOREM ObjectsTypeCorrect == ObjectsSpec => []ObjectsTypeOK
BY ObjectsInvariance, ObjectsAreTyped, PTL

(* The invariant says what observers are told. *)
LEMMA ObserversAreTold ==
  ASSUME ObjectsInv
  PROVE  ObserversMissNothing
BY DEF ObjectsInv, ObserverIsSound, HeardSoundly, ObserversMissNothing

(* An observer is told of, or refused, every put behind its cursor, once   *)
(* (image-observation-binding.js scanHistory).                             *)
THEOREM ObserversHearAll == ObjectsSpec => []ObserversMissNothing
BY ObjectsInvariance, ObserversAreTold, PTL

(* A list keeps what it has. *)
LEMMA ListsKeepThemselves ==
  ASSUME NEW list, IsFiniteSet(DOMAIN list)
  PROVE  Keeps(list, list)
<1> SUFFICES ASSUME NEW id \in ObjectIds
             PROVE  Times(list, id) >= Times(list, id)
  BY DEF Keeps
<1>1. IsFiniteSet({i \in DOMAIN list : list[i] = id}) BY FS_Subset
<1>2. Times(list, id) \in Nat BY <1>1, FS_CardinalityType DEF Times
<1>3. QED BY <1>2

(* No step takes a reference from an object. *)
LEMMA StepsKeepReferences ==
  ASSUME ObjectsInv, [ObjectsNext]_objectVars, NEW id \in ObjectIds, objects[id] # Unused
  PROVE  Keeps(objects'[id].indexed, objects[id].indexed)
<1>1. Keeps(objects[id].indexed, objects[id].indexed)
  BY ObjectVersions, ListsKeepThemselves DEF ObjectsInv
<1>2. CASE UNCHANGED objects
  BY <1>1, <1>2
<1>3. ASSUME NEW c \in Callers, PutObjectAtExpectedVersion(c)
      PROVE  Keeps(objects'[id].indexed, objects[id].indexed)
  <2>1. CASE objects[caller[c].id].version = caller[c].token
    <3>1. /\ objects'[caller[c].id].indexed = caller[c].list
          /\ Keeps(caller[c].list, objects[caller[c].id].indexed)
          /\ \A x \in ObjectIds \ {caller[c].id} : objects'[x] = objects[x]
      BY <1>3, <2>1, MutationPuts
    <3>2. CASE id = caller[c].id
      BY <3>1, <3>2
    <3>3. CASE id # caller[c].id
      BY <1>1, <3>1, <3>3
    <3>4. QED BY <3>2, <3>3
  <2>2. CASE objects[caller[c].id].version # caller[c].token
    BY <1>1, <1>3, <2>2 DEF PutObjectAtExpectedVersion, Store
  <2>3. QED BY <2>1, <2>2
<1>4. ASSUME NEW c \in Callers, InsertsMinted(c)
      PROVE  Keeps(objects'[id].indexed, objects[id].indexed)
  BY <1>1, <1>4, InsertsMintedStep
<1>5. ASSUME NEW c \in Callers,
             \/ \E x \in ObjectIds : Reading(c, x)
             \/ ReadsRecord(c)
             \/ \E leaf \in Leaves, list \in IndexedLists : Mutating(c, leaf, list)
             \/ BuildsIndexed(c)
             \/ \E leaf \in Leaves, batch \in Batches : Creating(c, leaf, batch)
             \/ BuildsMember(c)
      PROVE  UNCHANGED objects
  BY <1>5 DEF Reading, ReadsRecord, Mutating, BuildsIndexed, Creating, BuildsMember, CallBegins,
              Store
<1>6. ASSUME \/ \E o \in Observers : Scans(o) \/ Reports(o)
             \/ \E grant \in Toggled : GrantChanges(grant[1], grant[2])
      PROVE  UNCHANGED objects
  BY <1>6 DEF Scans, Reports, GrantChanges, Store
<1>7. QED BY <1>2, <1>3, <1>4, <1>5, <1>6 DEF ObjectsNext, objectVars

(* A mutation takes no reference away (buildNewIndexedPart,                *)
(* putObjectAtExpectedVersion).                                            *)
THEOREM ReferencesGrow == ObjectsSpec => ReferencesOnlyGrow
<1>1. ObjectsInv /\ [ObjectsNext]_objectVars =>
        [\A id \in ObjectIds : objects[id] # Unused =>
           Keeps(objects'[id].indexed, objects[id].indexed)]_objectVars
  BY StepsKeepReferences
<1>2. QED BY <1>1, ObjectsInvariance, PTL DEF ObjectsSpec, ReferencesOnlyGrow

----------------------------------------
(* Installations.  Records that are a copy of a release's graph. *)
CopyOf(t, r, copy) ==
  /\ copy \in [DOMAIN RecordsOf[r] -> DOMAIN t]
  /\ \A a, b \in DOMAIN RecordsOf[r] : copy[a] = copy[b] => a = b
  /\ \A l \in DOMAIN RecordsOf[r] :
       t[copy[l]].kind = "graph" /\ t[copy[l]].refs = {copy[y] : y \in RecordsOf[r][l]}

RootsIn(r, copy) == [k \in DOMAIN RootsOf[r] |-> copy[RootsOf[r][k]]]

(* A head, its snapshot and its members that name the roots of a copy. *)
LinkedTo(t, r, copy) ==
  LET s == t[HeadId].snapshot IN
  /\ HeadId \in DOMAIN t /\ t[HeadId].kind = "head"
  /\ s \in DOMAIN t /\ t[s].kind = "snapshot" /\ t[s].release = r
  /\ t[s].members \subseteq DOMAIN t
  /\ \A m \in t[s].members :
       /\ t[m].kind = "member" /\ t[m].key \in DOMAIN RootsOf[r]
       /\ t[m].refersTo = copy[RootsOf[r][t[m].key]]
  /\ \A k \in DOMAIN RootsOf[r] : \E m \in t[s].members : t[m].key = k

MemberRoots(t, s) ==
  [k \in {t[m].key : m \in t[s].members} |->
     (CHOOSE m \in {t[x] : x \in t[s].members} : m.key = k).refersTo]

ManagedGraph(t) == {id \in DOMAIN t : t[id].kind = "graph" /\ t[id].managed}

(* The release in the head is there, and no other managed graph is. *)
HeadRelease(t) == t[t[HeadId].snapshot].release
HeadIsWhole(t) ==
  IF HeadId \in DOMAIN t
  THEN /\ HeadRelease(t) \in Releases
       /\ \E copy \in [DOMAIN RecordsOf[HeadRelease(t)] -> DOMAIN t] :
            /\ CopyOf(t, HeadRelease(t), copy) /\ LinkedTo(t, HeadRelease(t), copy)
            /\ ManagedGraph(t) = {copy[l] : l \in DOMAIN RecordsOf[HeadRelease(t)]}
  ELSE ManagedGraph(t) = {}

RecordKinds == {"graph", "member", "snapshot", "head"}
TargetIsSound(t, n) ==
  /\ n \in Nat /\ DOMAIN t \subseteq 0 .. n
  /\ \A id \in DOMAIN t : t[id].kind \in RecordKinds
  /\ HeadIsWhole(t)

(* What an installer is about to publish. *)
PreparedAs(w, ids) ==
  /\ CopyOf(w.graph, w.release, ids)
  /\ DOMAIN w.graph = {ids[l] : l \in DOMAIN RecordsOf[w.release]}
  /\ \A id \in DOMAIN w.graph : w.graph[id].managed = w.managed
  /\ w.roots = RootsIn(w.release, ids)
  /\ IF w.managed
     THEN /\ LinkedTo(w.state, w.release, ids)
          /\ \A id \in DOMAIN w.state : w.state[id].kind \in {"member", "snapshot", "head"}
     ELSE DOMAIN w.state = {}
  /\ HeadId \notin DOMAIN w.graph /\ DOMAIN w.graph \cap DOMAIN w.state = {}
Prepared(w) ==
  \E ids \in [DOMAIN RecordsOf[w.release] -> DOMAIN w.graph] : PreparedAs(w, ids)
ClaimedIds(w) == (DOMAIN w.graph \cup DOMAIN w.state) \ {HeadId}

InstallerPlaces ==
  {"rest", "head", "winner", "snapshot", "members", "prepare", "publish", "installed", "refused"}

SoundInstaller(w, t, n) ==
  /\ w.at \in InstallerPlaces
  /\ w.at \in {"head", "winner", "snapshot", "members", "prepare", "publish", "installed"} =>
       w.release \in Releases
  /\ w.at \in {"head", "winner", "snapshot", "prepare"} =>
       w = [at |-> w.at, release |-> w.release, managed |-> w.managed]
  /\ w.at \in {"head", "winner", "snapshot", "prepare", "publish"} => w.managed \in BOOLEAN
  /\ w.at \in {"snapshot", "members"} => HeadId \in DOMAIN t
  /\ w.at = "members" => w.snapshot = t[HeadId].snapshot
  /\ w.at = "publish" =>
       /\ Prepared(w) /\ ClaimedIds(w) \subseteq 1 .. n /\ ClaimedIds(w) \cap DOMAIN t = {}
  /\ w.at = "installed" =>
       \E copy \in [DOMAIN RecordsOf[w.release] -> DOMAIN t] :
         CopyOf(t, w.release, copy) /\ w.roots = RootsIn(w.release, copy)
InstallerIsSound(i) == SoundInstaller(installer[i], target, minted)

ClaimsAreApart ==
  \A i, j \in Installers :
    i # j /\ installer[i].at = "publish" /\ installer[j].at = "publish" =>
      ClaimedIds(installer[i]) \cap ClaimedIds(installer[j]) = {}

InstallInv ==
  /\ TargetIsSound(target, minted)
  /\ installer = [i \in Installers |-> installer[i]]
  /\ \A i \in Installers : InstallerIsSound(i)
  /\ ClaimsAreApart

Grown(t, u) == DOMAIN t \subseteq DOMAIN u /\ \A x \in DOMAIN t : u[x] = t[x]

(* A copy stays one while records are added, and so does what links to it. *)
LEMMA CopiesStay ==
  ASSUME NEW t, NEW u, Grown(t, u), NEW r \in Releases, NEW copy, CopyOf(t, r, copy)
  PROVE  CopyOf(u, r, copy)
<1>1. copy \in [DOMAIN RecordsOf[r] -> DOMAIN t] BY DEF CopyOf
<1>2. \A l \in DOMAIN RecordsOf[r] : copy[l] \in DOMAIN t /\ u[copy[l]] = t[copy[l]]
  BY <1>1 DEF Grown
<1>3. copy \in [DOMAIN RecordsOf[r] -> DOMAIN u] BY <1>1 DEF Grown
<1>4. QED BY <1>2, <1>3 DEF CopyOf

(* A head that links to a release's copy still does in a larger store. *)
LEMMA LinksToCopiesStay ==
  ASSUME NEW t, NEW u, Grown(t, u), NEW r \in Releases, NEW copy, LinkedTo(t, r, copy)
  PROVE  /\ LinkedTo(u, r, copy)
         /\ HeadId \in DOMAIN t /\ u[HeadId].snapshot = t[HeadId].snapshot
         /\ HeadRelease(t) = r /\ HeadRelease(u) = r
<1>1. PICK s : s = t[HeadId].snapshot
  OBVIOUS
<1>2. /\ HeadId \in DOMAIN t /\ t[HeadId].kind = "head"
      /\ s \in DOMAIN t /\ t[s].kind = "snapshot" /\ t[s].release = r
      /\ t[s].members \subseteq DOMAIN t
      /\ \A m \in t[s].members :
           /\ t[m].kind = "member" /\ t[m].key \in DOMAIN RootsOf[r]
           /\ t[m].refersTo = copy[RootsOf[r][t[m].key]]
      /\ \A k \in DOMAIN RootsOf[r] : \E m \in t[s].members : t[m].key = k
  BY <1>1 DEF LinkedTo
<1>3. u[HeadId] = t[HeadId] /\ u[s] = t[s] /\ \A m \in t[s].members : u[m] = t[m]
  BY <1>2 DEF Grown
<1>4. /\ HeadId \in DOMAIN u /\ s \in DOMAIN u /\ u[s].members \subseteq DOMAIN u
  BY <1>2, <1>3 DEF Grown
<1>5. QED BY <1>1, <1>2, <1>3, <1>4 DEF LinkedTo, HeadRelease

(* Fresh ids exist: one for each. *)
LEMMA FreshIdsAreFresh ==
  ASSUME NEW locals, IsFiniteSet(locals), NEW from \in Nat
  PROVE  /\ FreshIds(locals, from) \in [locals -> from + 1 .. from + Cardinality(locals)]
         /\ \A a, b \in locals : FreshIds(locals, from)[a] = FreshIds(locals, from)[b] => a = b
         /\ Cardinality(locals) \in Nat
<1>1. Cardinality(locals) \in Nat BY FS_CardinalityType
<1>2. PICK n \in Nat : n = Cardinality(locals)
  BY <1>1
<1>3. IsFiniteSet(from + 1 .. from + n) /\ Cardinality(from + 1 .. from + n) = n
  <2>1. from + 1 \in Int /\ from + n \in Int OBVIOUS
  <2>2. /\ IsFiniteSet(from + 1 .. from + n)
        /\ Cardinality(from + 1 .. from + n) =
             IF from + 1 > from + n THEN 0 ELSE from + n - (from + 1) + 1
    BY <2>1, FS_Interval
  <2>3. QED BY <2>2
<1>4. ExistsBijection(locals, from + 1 .. from + n)
  BY <1>2, <1>3, FS_SameCardinalityBij
<1>5. \E f \in [locals -> from + 1 .. from + n] : \A a, b \in locals : f[a] = f[b] => a = b
  BY <1>4 DEF ExistsBijection, Bijection, Injection, IsInjective
<1>6. QED BY <1>2, <1>5 DEF FreshIds

(* The graph's records under their ids. *)
LEMMA RewrittenIsACopy ==
  ASSUME NEW r \in Releases, NEW S, NEW ids \in [DOMAIN RecordsOf[r] -> S], NEW managed,
         \A a, b \in DOMAIN RecordsOf[r] : ids[a] = ids[b] => a = b
  PROVE  /\ CopyOf(Rewritten(r, ids, managed), r, ids)
         /\ DOMAIN Rewritten(r, ids, managed) = {ids[l] : l \in DOMAIN RecordsOf[r]}
         /\ \A id \in DOMAIN Rewritten(r, ids, managed) :
              Rewritten(r, ids, managed)[id].managed = managed
<1>1. PICK g : g = Rewritten(r, ids, managed)
  OBVIOUS
<1>2. /\ DOMAIN ids = DOMAIN RecordsOf[r]
      /\ DOMAIN g = {ids[l] : l \in DOMAIN RecordsOf[r]}
  BY <1>1 DEF Rewritten
<1>3. ASSUME NEW l \in DOMAIN RecordsOf[r]
      PROVE  /\ g[ids[l]].kind = "graph" /\ g[ids[l]].managed = managed
             /\ g[ids[l]].refs = {ids[y] : y \in RecordsOf[r][l]}
  <2>1. PICK x : x = CHOOSE y \in DOMAIN ids : ids[y] = ids[l]
    OBVIOUS
  <2>2. x = l BY <1>2, <2>1
  <2>3. ids[l] \in {ids[y] : y \in DOMAIN ids} BY <1>2
  <2>4. g[ids[l]] = [kind |-> "graph", managed |-> managed,
                     refs |-> {ids[y] : y \in RecordsOf[r][x]}]
    BY <1>1, <2>1, <2>3 DEF Rewritten
  <2>5. QED BY <2>2, <2>4
<1>4. \A l \in DOMAIN RecordsOf[r] :
        /\ ids[l] \in DOMAIN g
        /\ g[ids[l]].kind = "graph" /\ g[ids[l]].managed = managed
        /\ g[ids[l]].refs = {ids[y] : y \in RecordsOf[r][l]}
  BY <1>2, <1>3
<1>5. CopyOf(g, r, ids) BY <1>2, <1>4 DEF CopyOf
<1>6. QED BY <1>1, <1>2, <1>4, <1>5

(* The head, the snapshot and the members of an installation. *)
LEMMA RecordsOfAnInstallation ==
  ASSUME NEW r \in Releases, NEW ids, NEW from \in Nat
  PROVE  /\ LinkedTo(InstallationRecords(r, ids, from), r, ids)
         /\ Cardinality(DOMAIN RootsOf[r]) \in Nat
         /\ DOMAIN InstallationRecords(r, ids, from) \subseteq
              {HeadId} \cup (from + 1 .. from + Cardinality(DOMAIN RootsOf[r]) + 1)
         /\ \A id \in DOMAIN InstallationRecords(r, ids, from) :
              InstallationRecords(r, ids, from)[id].kind \in {"member", "snapshot", "head"}
<1>1. PICK keys : keys = DOMAIN RootsOf[r]
  OBVIOUS
<1>2. PICK memberIds : memberIds = FreshIds(keys, from)
  OBVIOUS
<1>3. PICK n \in Nat : n = Cardinality(keys)
  BY <1>1, InstallAssumption, FS_CardinalityType
<1>4. /\ memberIds \in [keys -> from + 1 .. from + n]
      /\ \A a, b \in keys : memberIds[a] = memberIds[b] => a = b
  BY <1>1, <1>2, <1>3, InstallAssumption, FreshIdsAreFresh
<1>5. PICK members : members = {memberIds[k] : k \in keys}
  OBVIOUS
<1>6. PICK s : s = from + n + 1
  OBVIOUS
<1>7. PICK st : st = InstallationRecords(r, ids, from)
  OBVIOUS
<1>8. st = [id \in members \cup {s, HeadId} |->
              IF id = HeadId THEN [kind |-> "head", snapshot |-> s]
              ELSE IF id = s THEN [kind |-> "snapshot", release |-> r, members |-> members]
              ELSE LET k == CHOOSE x \in keys : memberIds[x] = id
                   IN [kind |-> "member", key |-> k, refersTo |-> ids[RootsOf[r][k]]]]
  BY <1>1, <1>2, <1>3, <1>5, <1>6, <1>7 DEF InstallationRecords
<1>9. members \subseteq from + 1 .. from + n /\ s \notin members /\ s # HeadId /\ HeadId \notin members
  BY <1>4, <1>5, <1>6 DEF HeadId
<1>10. /\ DOMAIN st = members \cup {s, HeadId}
       /\ st[HeadId] = [kind |-> "head", snapshot |-> s]
       /\ st[s] = [kind |-> "snapshot", release |-> r, members |-> members]
  BY <1>8, <1>9
<1>11. ASSUME NEW k \in keys
       PROVE  /\ st[memberIds[k]].kind = "member" /\ st[memberIds[k]].key = k
              /\ st[memberIds[k]].refersTo = ids[RootsOf[r][k]]
  <2>1. PICK x : x = CHOOSE y \in keys : memberIds[y] = memberIds[k]
    OBVIOUS
  <2>2. x = k BY <1>4, <2>1
  <2>3. memberIds[k] \in members BY <1>5
  <2>4. memberIds[k] # HeadId /\ memberIds[k] # s BY <1>9, <2>3
  <2>5. st[memberIds[k]] = [kind |-> "member", key |-> x, refersTo |-> ids[RootsOf[r][x]]]
    BY <1>8, <2>1, <2>3, <2>4
  <2>6. QED BY <2>2, <2>5
<1>12. \A m \in members :
         /\ st[m].kind = "member" /\ st[m].key \in keys
         /\ st[m].refersTo = ids[RootsOf[r][st[m].key]]
  BY <1>5, <1>11
<1>13. \A k \in keys : \E m \in members : st[m].key = k BY <1>5, <1>11
<1>14. st[HeadId].snapshot = s /\ st[HeadId].kind = "head" /\ st[s].kind = "snapshot"
       /\ st[s].release = r /\ st[s].members = members
  BY <1>10
<1>15. LinkedTo(st, r, ids) BY <1>1, <1>10, <1>12, <1>13, <1>14 DEF LinkedTo
<1>16. \A id \in DOMAIN st : st[id].kind \in {"member", "snapshot", "head"}
  BY <1>10, <1>12, <1>14
<1>17. DOMAIN st \subseteq {HeadId} \cup (from + 1 .. from + n + 1)
  BY <1>6, <1>9, <1>10
<1>18. QED BY <1>1, <1>3, <1>7, <1>15, <1>16, <1>17

(* What an installer holds stays sound while records are added. *)
LEMMA InstallerStays ==
  ASSUME NEW w, NEW t, NEW n \in Nat, SoundInstaller(w, t, n),
         NEW u, NEW m \in Nat, Grown(t, u), n <= m,
         w.at = "publish" => ClaimedIds(w) \cap DOMAIN u = {}
  PROVE  SoundInstaller(w, u, m)
<1>1. w.at \in {"snapshot", "members"} =>
        HeadId \in DOMAIN u /\ u[HeadId] = t[HeadId]
  BY DEF SoundInstaller, Grown
<1>2. w.at = "publish" => ClaimedIds(w) \subseteq 1 .. m BY DEF SoundInstaller
<1>3. ASSUME w.at = "installed"
      PROVE  \E copy \in [DOMAIN RecordsOf[w.release] -> DOMAIN u] :
               CopyOf(u, w.release, copy) /\ w.roots = RootsIn(w.release, copy)
  <2>1. PICK copy \in [DOMAIN RecordsOf[w.release] -> DOMAIN t] :
          CopyOf(t, w.release, copy) /\ w.roots = RootsIn(w.release, copy)
    BY <1>3 DEF SoundInstaller
  <2>2. w.release \in Releases BY <1>3 DEF SoundInstaller
  <2>3. CopyOf(u, w.release, copy) BY <2>1, <2>2, CopiesStay
  <2>4. copy \in [DOMAIN RecordsOf[w.release] -> DOMAIN u] BY <2>3 DEF CopyOf
  <2>5. QED BY <2>1, <2>3, <2>4
<1>4. QED BY <1>1, <1>2, <1>3 DEF SoundInstaller

(* An installer moves and the image stays as it is. *)
LEMMA InstallerMoves ==
  ASSUME InstallInv, NEW i \in Installers, NEW w,
         installer' = [installer EXCEPT ![i] = w], target' = target,
         minted' \in Nat, minted <= minted',
         SoundInstaller(w, target, minted'),
         w.at = "publish" => \A id \in ClaimedIds(w) : id > minted
  PROVE  InstallInv'
<1>1. installer'[i] = w /\ \A j \in Installers \ {i} : installer'[j] = installer[j]
  BY DEF InstallInv
<1>2. minted \in Nat /\ TargetIsSound(target, minted)
  BY DEF InstallInv, TargetIsSound
<1>3. TargetIsSound(target, minted') BY <1>2 DEF TargetIsSound
<1>4. ASSUME NEW j \in Installers \ {i}
      PROVE  SoundInstaller(installer[j], target, minted')
  <2>1. SoundInstaller(installer[j], target, minted)
    BY DEF InstallInv, InstallerIsSound
  <2>2. Grown(target, target) BY DEF Grown
  <2>3. installer[j].at = "publish" => ClaimedIds(installer[j]) \cap DOMAIN target = {}
    BY <2>1 DEF SoundInstaller
  <2>4. QED BY <1>2, <2>1, <2>2, <2>3, InstallerStays
<1>5. \A j \in Installers : SoundInstaller(installer'[j], target', minted')
  BY <1>1, <1>4
<1>6. \A j \in Installers : InstallerIsSound(j)' BY <1>5 DEF InstallerIsSound
<1>7. \A j \in Installers : installer[j].at = "publish" => \A id \in ClaimedIds(installer[j]) : id <= minted
  BY <1>2 DEF InstallInv, InstallerIsSound, SoundInstaller
<1>8. \A j \in Installers \ {i} :
        w.at = "publish" /\ installer[j].at = "publish" => ClaimedIds(w) \cap ClaimedIds(installer[j]) = {}
  <2>1. SUFFICES ASSUME NEW j \in Installers \ {i}, w.at = "publish", installer[j].at = "publish",
                        NEW id \in ClaimedIds(w) \cap ClaimedIds(installer[j])
                 PROVE  FALSE
    OBVIOUS
  <2>2. id <= minted /\ id > minted BY <1>7, <2>1
  <2>3. id \in 1 .. minted
    BY <2>1 DEF InstallInv, InstallerIsSound, SoundInstaller
  <2>4. QED BY <1>2, <2>2, <2>3
<1>9. ClaimsAreApart' BY <1>1, <1>8 DEF InstallInv, ClaimsAreApart
<1>10. installer' = [j \in Installers |-> installer'[j]] BY DEF InstallInv
<1>11. TargetIsSound(target, minted)' BY <1>3
<1>12. QED BY <1>6, <1>9, <1>10, <1>11 DEF InstallInv

(* A call of an installer. *)
LEMMA AskedStep ==
  ASSUME InstallInv, NEW i \in Installers, NEW r \in Releases, NEW managed \in BOOLEAN,
         Asked(i, r, managed)
  PROVE  InstallInv'
<1>1. PICK w : w = [at |-> IF managed THEN "head" ELSE "prepare",
                    release |-> r, managed |-> managed]
  OBVIOUS
<1>2. /\ installer' = [installer EXCEPT ![i] = w] /\ target' = target /\ minted' = minted
      /\ minted \in Nat
  BY <1>1 DEF Asked, InstallerGoes, Unpublished, InstallInv, TargetIsSound
<1>3. /\ w.at \in {"head", "prepare"} /\ w.release = r /\ w.managed = managed
      /\ w = [at |-> w.at, release |-> w.release, managed |-> w.managed]
  BY <1>1
<1>4. SoundInstaller(w, target, minted')
  BY <1>2, <1>3 DEF SoundInstaller, InstallerPlaces
<1>5. minted' \in Nat /\ minted <= minted' /\ w.at # "publish" BY <1>2, <1>3
<1>6. QED BY <1>2, <1>4, <1>5, InstallerMoves

(* The head is read. *)
LEMMA ReadsHeadStep ==
  ASSUME InstallInv, NEW i \in Installers, ReadsHead(i)
  PROVE  InstallInv'
<1>1. PICK v : v = installer[i]
  OBVIOUS
<1>2. PICK place : place = IF HeadId \in DOMAIN target THEN "snapshot"
                           ELSE IF In(i, "winner") THEN "refused" ELSE "prepare"
  OBVIOUS
<1>3. PICK w : w = [v EXCEPT !.at = place]
  OBVIOUS
<1>4. /\ installer' = [installer EXCEPT ![i] = w] /\ target' = target /\ minted' = minted
      /\ minted \in Nat /\ v.at \in {"head", "winner"} /\ SoundInstaller(v, target, minted)
  BY <1>1, <1>2, <1>3 DEF ReadsHead, In, InstallerGoes, Unpublished, InstallInv, TargetIsSound,
     InstallerIsSound
<1>5. /\ v = [at |-> v.at, release |-> v.release, managed |-> v.managed]
      /\ v.release \in Releases /\ v.managed \in BOOLEAN
  BY <1>4 DEF SoundInstaller
<1>6. w = [at |-> place, release |-> v.release, managed |-> v.managed]
  BY <1>3, <1>5
<1>7. /\ w.at = place /\ w.release = v.release /\ w.managed = v.managed
      /\ w = [at |-> w.at, release |-> w.release, managed |-> w.managed]
      /\ place \in {"snapshot", "refused", "prepare"}
      /\ place = "snapshot" => HeadId \in DOMAIN target
  BY <1>2, <1>6
<1>8. SoundInstaller(w, target, minted')
  BY <1>4, <1>5, <1>7 DEF SoundInstaller, InstallerPlaces
<1>9. minted' \in Nat /\ minted <= minted' /\ w.at # "publish" BY <1>4, <1>7
<1>10. QED BY <1>4, <1>8, <1>9, InstallerMoves

(* The snapshot it names is read. *)
LEMMA ReadsSnapshotStep ==
  ASSUME InstallInv, NEW i \in Installers, ReadsSnapshot(i)
  PROVE  InstallInv'
<1>1. PICK v : v = installer[i]
  OBVIOUS
<1>2. PICK s : s = target[HeadId].snapshot
  OBVIOUS
<1>3. PICK w : w = IF s \notin DOMAIN target THEN [at |-> "refused"]
                   ELSE [at |-> "members", release |-> v.release, managed |-> TRUE, snapshot |-> s]
  OBVIOUS
<1>4. /\ installer' = [installer EXCEPT ![i] = w] /\ target' = target /\ minted' = minted
      /\ minted \in Nat /\ v.at = "snapshot" /\ SoundInstaller(v, target, minted)
  BY <1>1, <1>2, <1>3 DEF ReadsSnapshot, In, InstallerGoes, Unpublished, InstallInv,
     TargetIsSound, InstallerIsSound
<1>5. v.release \in Releases /\ HeadId \in DOMAIN target
  BY <1>4 DEF SoundInstaller
<1>6. \/ w.at = "refused"
      \/ w.at = "members" /\ w.release = v.release /\ w.snapshot = s
  BY <1>3
<1>7. SoundInstaller(w, target, minted')
  BY <1>2, <1>4, <1>5, <1>6 DEF SoundInstaller, InstallerPlaces
<1>8. minted' \in Nat /\ minted <= minted' /\ w.at # "publish" BY <1>4, <1>6
<1>9. QED BY <1>4, <1>7, <1>8, InstallerMoves

(* The members it links are read: they name the roots of the copy. *)
LEMMA MembersNameTheRoots ==
  ASSUME NEW t, NEW r \in Releases, NEW copy, LinkedTo(t, r, copy),
         NEW s, s = t[HeadId].snapshot
  PROVE  MemberRoots(t, s) = RootsIn(r, copy)
<1>1. /\ \A m \in t[s].members :
           t[m].key \in DOMAIN RootsOf[r] /\ t[m].refersTo = copy[RootsOf[r][t[m].key]]
      /\ \A k \in DOMAIN RootsOf[r] : \E m \in t[s].members : t[m].key = k
  BY DEF LinkedTo
<1>2. {t[m].key : m \in t[s].members} = DOMAIN RootsOf[r] BY <1>1
<1>3. ASSUME NEW k \in DOMAIN RootsOf[r]
      PROVE  (CHOOSE m \in {t[x] : x \in t[s].members} : m.key = k).refersTo = copy[RootsOf[r][k]]
  <2>1. PICK all : all = {t[x] : x \in t[s].members}
    OBVIOUS
  <2>2. \E m \in all : m.key = k BY <1>1, <2>1
  <2>3. PICK chosen : chosen = CHOOSE m \in all : m.key = k
    OBVIOUS
  <2>4. chosen \in all /\ chosen.key = k BY <2>2, <2>3
  <2>5. chosen.refersTo = copy[RootsOf[r][k]] BY <1>1, <2>1, <2>4
  <2>6. QED BY <2>1, <2>3, <2>5
<1> DEFINE Root(k) == (CHOOSE m \in {t[x] : x \in t[s].members} : m.key = k).refersTo
<1>4. \A k \in DOMAIN RootsOf[r] : Root(k) = copy[RootsOf[r][k]] BY <1>3
<1> HIDE DEF Root
<1>5. [k \in {t[m].key : m \in t[s].members} |-> Root(k)] = RootsIn(r, copy)
  BY <1>2, <1>4 DEF RootsIn
<1>6. QED BY <1>5 DEF Root, MemberRoots

(* An installer reads the members the head names. *)
LEMMA ReadsMembersStep ==
  ASSUME InstallInv, NEW i \in Installers, ReadsMembers(i)
  PROVE  InstallInv'
<1>1. PICK v : v = installer[i]
  OBVIOUS
<1>2. PICK s : s = v.snapshot
  OBVIOUS
<1>3. PICK roots : roots = MemberRoots(target, s)
  OBVIOUS
<1>4. PICK w : w = IF target[s].members \subseteq DOMAIN target /\ target[s].release = v.release
                   THEN [at |-> "installed", managed |-> TRUE, release |-> v.release,
                         roots |-> roots]
                   ELSE [at |-> "refused"]
  OBVIOUS
<1>5. /\ v.at = "members" /\ target' = target /\ minted' = minted
      /\ minted \in Nat /\ TargetIsSound(target, minted) /\ SoundInstaller(v, target, minted)
  BY <1>1 DEF ReadsMembers, In, Unpublished, InstallInv, TargetIsSound, InstallerIsSound
<1>6. installer' = [installer EXCEPT ![i] = w]
  <2>1. PICK winner : winner = [release |-> target[s].release, roots |-> roots]
    OBVIOUS
  <2>2. installer' = [installer EXCEPT ![i] =
          IF target[s].members \subseteq DOMAIN target THEN Decided(i, winner)
          ELSE [at |-> "refused"]]
    BY <1>1, <1>2, <1>3, <2>1 DEF ReadsMembers, InstallerGoes, MemberRoots
  <2>3. winner.release = target[s].release /\ winner.roots = roots BY <2>1
  <2>4. Decided(i, winner) = IF target[s].release = v.release
          THEN [at |-> "installed", managed |-> TRUE, release |-> target[s].release,
                roots |-> roots]
          ELSE [at |-> "refused"]
    BY <1>1, <2>3 DEF Decided
  <2>5. QED BY <1>4, <2>2, <2>4
<1>7. v.release \in Releases /\ HeadId \in DOMAIN target /\ s = target[HeadId].snapshot
  BY <1>2, <1>5 DEF SoundInstaller
<1>8. \/ w.at = "refused"
      \/ /\ w.at = "installed" /\ w.release = v.release /\ w.roots = roots
         /\ target[s].release = v.release
  BY <1>4
<1>9. ASSUME w.at = "installed"
      PROVE  \E copy \in [DOMAIN RecordsOf[w.release] -> DOMAIN target] :
               CopyOf(target, w.release, copy) /\ w.roots = RootsIn(w.release, copy)
  <2>1. HeadRelease(target) = w.release BY <1>7, <1>8, <1>9 DEF HeadRelease
  <2>2. HeadIsWhole(target) BY <1>5 DEF TargetIsSound
  <2>3. PICK copy \in [DOMAIN RecordsOf[w.release] -> DOMAIN target] :
          CopyOf(target, w.release, copy) /\ LinkedTo(target, w.release, copy)
    BY <1>7, <2>1, <2>2 DEF HeadIsWhole
  <2>4. roots = RootsIn(w.release, copy)
    <3>1. w.release \in Releases /\ LinkedTo(target, w.release, copy)
      BY <1>7, <1>8, <1>9, <2>3
    <3>2. MemberRoots(target, s) = RootsIn(w.release, copy)
      BY <1>7, <3>1, MembersNameTheRoots
    <3>3. QED BY <1>3, <3>2
  <2>5. QED BY <1>8, <1>9, <2>3, <2>4
<1>10. SoundInstaller(w, target, minted')
  BY <1>7, <1>8, <1>9 DEF SoundInstaller, InstallerPlaces
<1>11. minted' \in Nat /\ minted <= minted' /\ w.at # "publish" BY <1>5, <1>8
<1>12. QED BY <1>5, <1>6, <1>10, <1>11, InstallerMoves

(* An installer dies. *)
LEMMA InstallerDiesStep ==
  ASSUME InstallInv, NEW i \in Installers, InstallerDies(i)
  PROVE  InstallInv'
<1>1. PICK w : w = NotInstalling
  OBVIOUS
<1>2. /\ installer' = [installer EXCEPT ![i] = w] /\ target' = target /\ minted' = minted
      /\ minted \in Nat /\ w.at = "rest"
  BY <1>1 DEF InstallerDies, InstallerGoes, Unpublished, InstallInv, TargetIsSound, NotInstalling
<1>3. SoundInstaller(w, target, minted')
  BY <1>2 DEF SoundInstaller, InstallerPlaces
<1>4. minted' \in Nat /\ minted <= minted' /\ w.at # "publish" BY <1>2
<1>5. QED BY <1>2, <1>3, <1>4, InstallerMoves

(* The records are prepared, under ids nobody has. *)
LEMMA PreparesStep ==
  ASSUME InstallInv, NEW i \in Installers, Prepares(i)
  PROVE  InstallInv'
<1>1. PICK v : v = installer[i]
  OBVIOUS
<1>2. PICK r : r = v.release
  OBVIOUS
<1>3. PICK ids : ids = FreshIds(DOMAIN RecordsOf[r], minted)
  OBVIOUS
<1>4. PICK last : last = minted + Cardinality(DOMAIN RecordsOf[r])
  OBVIOUS
<1>5. PICK n : n = Cardinality(DOMAIN RootsOf[r])
  OBVIOUS
<1>6. PICK graph : graph = Rewritten(r, ids, v.managed)
  OBVIOUS
<1>7. PICK state : state = IF v.managed THEN InstallationRecords(r, ids, last) ELSE << >>
  OBVIOUS
<1>8. PICK w : w = [at |-> "publish", release |-> r, managed |-> v.managed,
                    roots |-> [k \in DOMAIN RootsOf[r] |-> ids[RootsOf[r][k]]],
                    graph |-> graph, state |-> state]
  OBVIOUS
<1>9. /\ v.at = "prepare" /\ target' = target /\ installer' = [installer EXCEPT ![i] = w]
      /\ minted' = last + IF v.managed THEN n + 1 ELSE 0
      /\ minted \in Nat /\ SoundInstaller(v, target, minted) /\ TargetIsSound(target, minted)
  BY <1>1, <1>2, <1>3, <1>4, <1>5, <1>6, <1>7, <1>8 DEF Prepares, In, InstallerGoes, InstallInv,
     TargetIsSound, InstallerIsSound
<1>10. r \in Releases /\ v.managed \in BOOLEAN BY <1>2, <1>9 DEF SoundInstaller
<1>11. /\ ids \in [DOMAIN RecordsOf[r] -> minted + 1 .. last] /\ last \in Nat /\ minted <= last
       /\ \A a, b \in DOMAIN RecordsOf[r] : ids[a] = ids[b] => a = b
  <2>1. IsFiniteSet(DOMAIN RecordsOf[r]) BY <1>10, InstallAssumption
  <2>2. /\ FreshIds(DOMAIN RecordsOf[r], minted)
             \in [DOMAIN RecordsOf[r] -> minted + 1 .. minted + Cardinality(DOMAIN RecordsOf[r])]
        /\ \A a, b \in DOMAIN RecordsOf[r] :
             FreshIds(DOMAIN RecordsOf[r], minted)[a] = FreshIds(DOMAIN RecordsOf[r], minted)[b]
             => a = b
        /\ Cardinality(DOMAIN RecordsOf[r]) \in Nat
    BY <1>9, <2>1, FreshIdsAreFresh
  <2>3. QED BY <1>3, <1>4, <1>9, <2>2
<1>12. /\ CopyOf(graph, r, ids)
       /\ DOMAIN graph = {ids[l] : l \in DOMAIN RecordsOf[r]}
       /\ \A id \in DOMAIN graph : graph[id].managed = v.managed
  <2>1. PICK S : S = minted + 1 .. last
    OBVIOUS
  <2>2. r \in Releases /\ ids \in [DOMAIN RecordsOf[r] -> S]
    BY <1>10, <1>11, <2>1
  <2>3. \A a, b \in DOMAIN RecordsOf[r] : ids[a] = ids[b] => a = b BY <1>11
  <2>4. PICK m : m = v.managed
    OBVIOUS
  <2>5. /\ CopyOf(Rewritten(r, ids, m), r, ids)
        /\ DOMAIN Rewritten(r, ids, m) = {ids[l] : l \in DOMAIN RecordsOf[r]}
        /\ \A id \in DOMAIN Rewritten(r, ids, m) : Rewritten(r, ids, m)[id].managed = m
    BY <2>2, <2>3, RewrittenIsACopy
  <2>6. QED BY <1>6, <2>4, <2>5
<1>13. DOMAIN graph \subseteq minted + 1 .. last BY <1>11, <1>12
<1>14. v.managed =>
         /\ LinkedTo(state, r, ids) /\ n \in Nat
         /\ DOMAIN state \subseteq {HeadId} \cup (last + 1 .. last + n + 1)
         /\ \A id \in DOMAIN state : state[id].kind \in {"member", "snapshot", "head"}
  BY <1>5, <1>7, <1>10, <1>11, RecordsOfAnInstallation
<1>15. ~v.managed => DOMAIN state = {} BY <1>7
<1>16. /\ w.at = "publish" /\ w.release = r /\ w.managed = v.managed /\ w.graph = graph
       /\ w.state = state /\ w.roots = RootsIn(r, ids)
  BY <1>8 DEF RootsIn
<1>17. minted' \in Nat /\ minted <= minted' /\ last <= minted'
  BY <1>9, <1>10, <1>11, <1>14
<1>18. DOMAIN graph \subseteq minted + 1 .. minted' /\ DOMAIN state \ {HeadId} \subseteq last + 1 .. minted'
  <2>1. CASE v.managed
    BY <1>9, <1>11, <1>13, <1>14, <1>17, <2>1
  <2>2. CASE ~v.managed
    BY <1>9, <1>11, <1>13, <1>15, <1>17, <2>2
  <2>3. QED BY <2>1, <2>2
<1>19. HeadId \notin DOMAIN graph /\ DOMAIN graph \cap DOMAIN state = {}
  <2>1. HeadId \notin DOMAIN graph BY <1>9, <1>13 DEF HeadId
  <2>2. \A id \in DOMAIN graph : id \notin DOMAIN state \ {HeadId}
    BY <1>9, <1>11, <1>13, <1>18
  <2>3. QED BY <2>1, <2>2
<1>20. PreparedAs(w, ids)
  BY <1>10, <1>12, <1>14, <1>15, <1>16, <1>19 DEF PreparedAs
<1>21. Prepared(w)
  <2>1. ids \in [DOMAIN RecordsOf[w.release] -> DOMAIN w.graph]
    BY <1>12, <1>16 DEF CopyOf
  <2>2. QED BY <1>20, <2>1 DEF Prepared
<1>22. /\ ClaimedIds(w) \subseteq minted + 1 .. minted'
       /\ \A id \in ClaimedIds(w) : id > minted
       /\ ClaimedIds(w) \subseteq 1 .. minted' /\ ClaimedIds(w) \cap DOMAIN target = {}
  <2>1. ClaimedIds(w) \subseteq minted + 1 .. minted'
    BY <1>9, <1>11, <1>16, <1>17, <1>18 DEF ClaimedIds
  <2>2. \A id \in ClaimedIds(w) : id > minted /\ id \in 1 .. minted'
    BY <1>9, <1>17, <2>1
  <2>3. DOMAIN target \subseteq 0 .. minted BY <1>9 DEF TargetIsSound
  <2>4. QED BY <1>9, <2>1, <2>2, <2>3
<1>23. SoundInstaller(w, target, minted')
  BY <1>10, <1>16, <1>21, <1>22 DEF SoundInstaller, InstallerPlaces
<1>24. QED BY <1>9, <1>17, <1>22, <1>23, InstallerMoves

(* What is published is added, and nothing that is there changes. *)
AllApart(t, g, st) ==
  DOMAIN g \cap DOMAIN t = {} /\ DOMAIN st \cap DOMAIN t = {} /\ DOMAIN g \cap DOMAIN st = {}

Published(t, g, st) == With(With(t, g), st)
JoinedIn(z, t, g, st) ==
  /\ Grown(t, z) /\ Grown(g, z) /\ Grown(st, z)
  /\ DOMAIN z = DOMAIN t \cup DOMAIN g \cup DOMAIN st

(* Publishing a graph into a store joins the two. *)
LEMMA WithGrows ==
  ASSUME NEW t, NEW g, NEW st, AllApart(t, g, st), NEW z, z = Published(t, g, st)
  PROVE  JoinedIn(z, t, g, st)
<1>1. PICK u : u = With(t, g)
  OBVIOUS
<1>2. /\ DOMAIN u = DOMAIN t \cup DOMAIN g
      /\ \A x \in DOMAIN g : u[x] = g[x]
      /\ \A x \in DOMAIN t : u[x] = t[x]
  BY <1>1 DEF With, AllApart
<1>3. z = With(u, st) BY <1>1 DEF Published
<1>4. /\ DOMAIN z = DOMAIN u \cup DOMAIN st
      /\ \A x \in DOMAIN st : z[x] = st[x]
      /\ \A x \in DOMAIN u : x \notin DOMAIN st => z[x] = u[x]
  BY <1>3 DEF With
<1>5. Grown(t, z) /\ Grown(g, z) /\ Grown(st, z)
  BY <1>2, <1>4 DEF Grown, AllApart
<1>6. QED BY <1>2, <1>4, <1>5 DEF JoinedIn

(* The managed graph after a publication. *)
LEMMA ManagedGraphGrows ==
  ASSUME NEW w, NEW ids, PreparedAs(w, ids), w.release \in Releases, NEW t, NEW u,
         Grown(t, u), Grown(w.graph, u), Grown(w.state, u),
         DOMAIN u = DOMAIN t \cup DOMAIN w.graph \cup DOMAIN w.state
  PROVE  ManagedGraph(u) = ManagedGraph(t) \cup {id \in DOMAIN w.graph : w.managed}
<1>1. \A x \in DOMAIN t : x \in ManagedGraph(u) <=> x \in ManagedGraph(t)
  BY DEF ManagedGraph, Grown
<1>2. \A x \in DOMAIN w.graph : u[x].kind = "graph" /\ u[x].managed = w.managed
  <2>1. \A x \in DOMAIN w.graph : w.graph[x].kind = "graph" /\ w.graph[x].managed = w.managed
    BY DEF PreparedAs, CopyOf
  <2>2. QED BY <2>1 DEF Grown
<1>3. \A x \in DOMAIN w.state : u[x].kind # "graph"
  <2>1. \A x \in DOMAIN w.state : w.state[x].kind # "graph" BY DEF PreparedAs
  <2>2. QED BY <2>1 DEF Grown
<1>4. ManagedGraph(u) \subseteq DOMAIN u /\ ManagedGraph(t) \subseteq DOMAIN t
  BY DEF ManagedGraph
<1>5. \A x \in DOMAIN w.graph : x \in DOMAIN u /\ (x \in ManagedGraph(u) <=> w.managed)
  BY <1>2 DEF ManagedGraph
<1>6. \A x \in DOMAIN w.state : x \notin ManagedGraph(u)
  BY <1>3 DEF ManagedGraph
<1>7. QED BY <1>1, <1>4, <1>5, <1>6

(* With a publication the head, if there is one, stays whole. *)
LEMMA PublicationIsWhole ==
  ASSUME NEW w, NEW ids, PreparedAs(w, ids), w.release \in Releases, w.managed \in BOOLEAN,
         NEW t, HeadIsWhole(t), NEW u,
         Grown(t, u), Grown(w.graph, u), Grown(w.state, u),
         DOMAIN u = DOMAIN t \cup DOMAIN w.graph \cup DOMAIN w.state,
         w.managed => HeadId \notin DOMAIN t
  PROVE  HeadIsWhole(u) /\ CopyOf(u, w.release, ids)
<1>1. PICK r \in Releases : r = w.release
  OBVIOUS
<1>2. CopyOf(u, r, ids) /\ ids \in [DOMAIN RecordsOf[r] -> DOMAIN u]
  <2>1. CopyOf(w.graph, r, ids) BY <1>1 DEF PreparedAs
  <2>2. CopyOf(u, r, ids) BY <2>1, CopiesStay
  <2>3. QED BY <2>2 DEF CopyOf
<1>3. ManagedGraph(u) = ManagedGraph(t) \cup {id \in DOMAIN w.graph : w.managed}
  BY ManagedGraphGrows
<1>4. CASE w.managed
  <2>1. ManagedGraph(t) = {} BY <1>4 DEF HeadIsWhole
  <2>2. ManagedGraph(u) = {ids[l] : l \in DOMAIN RecordsOf[r]}
    BY <1>1, <1>3, <1>4, <2>1 DEF PreparedAs
  <2>3. LinkedTo(w.state, r, ids) BY <1>1, <1>4 DEF PreparedAs
  <2>4. LinkedTo(u, r, ids) /\ HeadRelease(u) = r /\ HeadId \in DOMAIN u
    BY <2>3, LinksToCopiesStay DEF Grown
  <2>5. HeadIsWhole(u) BY <1>2, <2>2, <2>4 DEF HeadIsWhole
  <2>6. QED BY <1>1, <1>2, <2>5
<1>5. CASE ~w.managed
  <2>1. ManagedGraph(u) = ManagedGraph(t) /\ DOMAIN w.state = {} /\ HeadId \notin DOMAIN w.graph
    BY <1>3, <1>5 DEF PreparedAs
  <2>2. CASE HeadId \notin DOMAIN t
    <3>1. HeadId \notin DOMAIN u BY <2>1, <2>2
    <3>2. QED BY <1>1, <1>2, <2>1, <2>2, <3>1 DEF HeadIsWhole
  <2>3. CASE HeadId \in DOMAIN t
    <3>1. PICK q \in Releases : q = HeadRelease(t)
      BY <2>3 DEF HeadIsWhole
    <3>2. PICK copy \in [DOMAIN RecordsOf[q] -> DOMAIN t] :
            /\ CopyOf(t, q, copy) /\ LinkedTo(t, q, copy)
            /\ ManagedGraph(t) = {copy[l] : l \in DOMAIN RecordsOf[q]}
      BY <2>3, <3>1 DEF HeadIsWhole
    <3>3. CopyOf(u, q, copy) BY <3>2, CopiesStay
    <3>4. LinkedTo(u, q, copy) /\ HeadRelease(u) = q /\ HeadId \in DOMAIN u
      BY <2>3, <3>2, LinksToCopiesStay DEF Grown
    <3>5. copy \in [DOMAIN RecordsOf[q] -> DOMAIN u] BY <3>3 DEF CopyOf
    <3>6. HeadIsWhole(u) BY <2>1, <3>2, <3>3, <3>4, <3>5 DEF HeadIsWhole
    <3>7. QED BY <1>1, <1>2, <3>6
  <2>4. QED BY <2>2, <2>3
<1>6. QED BY <1>4, <1>5


(* The records are published together, or the winner is looked up. *)
LEMMA PublishesStep ==
  ASSUME InstallInv, NEW i \in Installers, Publishes(i)
  PROVE  InstallInv'
<1>1. PICK w : w = installer[i]
  OBVIOUS
<1>2. /\ w.at = "publish" /\ minted' = minted /\ minted \in Nat
      /\ TargetIsSound(target, minted) /\ SoundInstaller(w, target, minted)
  BY <1>1 DEF Publishes, In, InstallInv, TargetIsSound, InstallerIsSound
<1>3. /\ w.release \in Releases /\ w.managed \in BOOLEAN /\ Prepared(w)
      /\ ClaimedIds(w) \subseteq 1 .. minted /\ ClaimedIds(w) \cap DOMAIN target = {}
  BY <1>2 DEF SoundInstaller
<1>4. CASE DOMAIN w.state \cap DOMAIN target # {}
  <2>1. PICK v : v = [at |-> "winner", release |-> w.release, managed |-> TRUE]
    OBVIOUS
  <2>2. installer' = [installer EXCEPT ![i] = v] /\ target' = target
    BY <1>1, <1>4, <2>1 DEF Publishes, InstallerGoes
  <2>3. /\ v.at = "winner" /\ v.release = w.release /\ v.managed = TRUE
        /\ v = [at |-> v.at, release |-> v.release, managed |-> v.managed]
    BY <2>1
  <2>4. SoundInstaller(v, target, minted')
    BY <1>3, <2>3 DEF SoundInstaller, InstallerPlaces
  <2>5. minted' \in Nat /\ minted <= minted' /\ v.at # "publish" BY <1>2, <2>3
  <2>6. QED BY <2>2, <2>4, <2>5, InstallerMoves
<1>5. CASE DOMAIN w.state \cap DOMAIN target = {}
  <2>1. PICK v : v = [at |-> "installed", managed |-> w.managed, release |-> w.release,
                      roots |-> w.roots]
    OBVIOUS
  <2>2. PICK u : u = With(With(target, w.graph), w.state)
    OBVIOUS
  <2>3. installer' = [installer EXCEPT ![i] = v] /\ target' = u
    BY <1>1, <1>5, <2>1, <2>2 DEF Publishes, InstallerGoes
  <2>4. PICK ids \in [DOMAIN RecordsOf[w.release] -> DOMAIN w.graph] : PreparedAs(w, ids)
    BY <1>3 DEF Prepared
  <2>5. /\ DOMAIN w.graph \cap DOMAIN target = {} /\ DOMAIN w.graph \cap DOMAIN w.state = {}
    <3>1. HeadId \notin DOMAIN w.graph /\ DOMAIN w.graph \cap DOMAIN w.state = {}
      BY <2>4 DEF PreparedAs
    <3>2. DOMAIN w.graph \subseteq ClaimedIds(w) BY <3>1 DEF ClaimedIds
    <3>3. QED BY <1>3, <3>1, <3>2
  <2>6. /\ Grown(target, u) /\ Grown(w.graph, u) /\ Grown(w.state, u)
        /\ DOMAIN u = DOMAIN target \cup DOMAIN w.graph \cup DOMAIN w.state
    <3>1. AllApart(target, w.graph, w.state) BY <1>5, <2>5 DEF AllApart
    <3>2. u = Published(target, w.graph, w.state) BY <2>2 DEF Published
    <3>3. JoinedIn(u, target, w.graph, w.state) BY <3>1, <3>2, WithGrows
    <3>4. QED BY <3>3 DEF JoinedIn
  <2>7. w.managed => HeadId \notin DOMAIN target
    BY <1>5, <2>4 DEF PreparedAs, LinkedTo
  <2>8. HeadIsWhole(u) /\ CopyOf(u, w.release, ids)
    BY <1>2, <1>3, <2>4, <2>6, <2>7, PublicationIsWhole DEF TargetIsSound
  <2>9. DOMAIN w.graph \cup DOMAIN w.state \subseteq 0 .. minted
    <3>1. \A x \in DOMAIN w.graph \cup DOMAIN w.state : x = HeadId \/ x \in 1 .. minted
      BY <1>3 DEF ClaimedIds
    <3>2. QED BY <1>2, <3>1 DEF HeadId
  <2>10. \A id \in DOMAIN u : u[id].kind \in RecordKinds
    <3>1. \A id \in DOMAIN target : u[id].kind \in RecordKinds
      BY <1>2, <2>6 DEF TargetIsSound, Grown
    <3>2. \A id \in DOMAIN w.graph : u[id].kind \in RecordKinds
      <4>1. \A id \in DOMAIN w.graph : w.graph[id].kind = "graph"
        BY <2>4 DEF PreparedAs, CopyOf
      <4>2. QED BY <2>6, <4>1 DEF Grown, RecordKinds
    <3>3. \A id \in DOMAIN w.state : u[id].kind \in RecordKinds
      <4>1. \A id \in DOMAIN w.state : w.state[id].kind \in {"member", "snapshot", "head"}
        BY <2>4 DEF PreparedAs
      <4>2. QED BY <2>6, <4>1 DEF Grown, RecordKinds
    <3>4. QED BY <2>6, <3>1, <3>2, <3>3
  <2>11. TargetIsSound(u, minted)
    BY <1>2, <2>6, <2>8, <2>9, <2>10 DEF TargetIsSound
  <2>12. \A j \in Installers \ {i} : SoundInstaller(installer[j], u, minted)
    <3>1. SUFFICES ASSUME NEW j \in Installers \ {i}
                   PROVE  SoundInstaller(installer[j], u, minted)
      OBVIOUS
    <3>2. SoundInstaller(installer[j], target, minted)
      BY DEF InstallInv, InstallerIsSound
    <3>3. installer[j].at = "publish" => ClaimedIds(installer[j]) \cap DOMAIN u = {}
      <4>1. SUFFICES ASSUME installer[j].at = "publish", NEW x \in ClaimedIds(installer[j]),
                            x \in DOMAIN u
                     PROVE  FALSE
        OBVIOUS
      <4>2. x \notin DOMAIN target /\ x # HeadId
        BY <3>2, <4>1 DEF SoundInstaller, ClaimedIds
      <4>3. x \in ClaimedIds(w) BY <2>6, <4>1, <4>2 DEF ClaimedIds
      <4>4. QED BY <1>1, <1>2, <4>1, <4>3 DEF InstallInv, ClaimsAreApart
    <3>4. QED BY <1>2, <2>6, <3>2, <3>3, InstallerStays
  <2>13. SoundInstaller(v, u, minted)
    <3>1. /\ v.at = "installed" /\ v.release = w.release /\ v.roots = w.roots
      BY <2>1
    <3>2. v.roots = RootsIn(v.release, ids) /\ CopyOf(u, v.release, ids)
      BY <2>4, <2>8, <3>1 DEF PreparedAs
    <3>3. ids \in [DOMAIN RecordsOf[v.release] -> DOMAIN u] BY <3>2 DEF CopyOf
    <3>4. QED BY <1>3, <3>1, <3>2, <3>3 DEF SoundInstaller, InstallerPlaces
  <2>14. installer'[i] = v /\ \A j \in Installers \ {i} : installer'[j] = installer[j]
    BY <2>3 DEF InstallInv
  <2>15. \A j \in Installers : SoundInstaller(installer'[j], target', minted')
    BY <1>2, <2>3, <2>12, <2>13, <2>14
  <2>16. \A j \in Installers : InstallerIsSound(j)'
    BY <2>15 DEF InstallerIsSound
  <2>17. ClaimsAreApart'
    <3>1. v.at # "publish" BY <2>1
    <3>2. QED BY <2>14, <3>1 DEF InstallInv, ClaimsAreApart
  <2>18. installer' = [j \in Installers |-> installer'[j]]
    BY <2>3 DEF InstallInv
  <2>19. TargetIsSound(target, minted)' BY <1>2, <2>3, <2>11
  <2>20. QED BY <2>16, <2>17, <2>18, <2>19 DEF InstallInv
<1>6. QED BY <1>4, <1>5

(* It holds at the start, and every step keeps it. *)
LEMMA InstallStarts == InstallInit => InstallInv
<1> SUFFICES ASSUME InstallInit
             PROVE  InstallInv
  OBVIOUS
<1>1. /\ DOMAIN target = {} /\ minted = 0
      /\ installer = [i \in Installers |-> NotInstalling]
  BY DEF InstallInit
<1>2. TargetIsSound(target, minted)
  BY <1>1 DEF TargetIsSound, HeadIsWhole, ManagedGraph
<1>3. ASSUME NEW i \in Installers
      PROVE  installer[i].at = "rest" /\ InstallerIsSound(i)
  <2>1. installer[i].at = "rest" BY <1>1 DEF NotInstalling
  <2>2. QED BY <2>1 DEF InstallerIsSound, SoundInstaller, InstallerPlaces
<1>4. ClaimsAreApart BY <1>3 DEF ClaimsAreApart
<1>5. QED BY <1>1, <1>2, <1>3, <1>4 DEF InstallInv

(* Every step of an installation keeps the invariant. *)
LEMMA InstallSteps == InstallInv /\ [InstallNext]_installVars => InstallInv'
<1> SUFFICES ASSUME InstallInv, [InstallNext]_installVars
             PROVE  InstallInv'
  OBVIOUS
<1>1. CASE UNCHANGED installVars
  BY <1>1 DEF installVars, InstallInv, TargetIsSound, InstallerIsSound, ClaimsAreApart
<1>2. CASE InstallNext
  <2>1. PICK i \in Installers :
          \/ \E r \in Releases, managed \in BOOLEAN : Asked(i, r, managed)
          \/ ReadsHead(i) \/ ReadsSnapshot(i) \/ ReadsMembers(i)
          \/ Prepares(i) \/ Publishes(i) \/ InstallerDies(i)
    BY <1>2 DEF InstallNext
  <2>2. CASE \E r \in Releases, managed \in BOOLEAN : Asked(i, r, managed)
    BY <2>2, AskedStep
  <2>3. CASE ReadsHead(i)
    BY <2>3, ReadsHeadStep
  <2>4. CASE ReadsSnapshot(i)
    BY <2>4, ReadsSnapshotStep
  <2>5. CASE ReadsMembers(i)
    BY <2>5, ReadsMembersStep
  <2>6. CASE Prepares(i)
    BY <2>6, PreparesStep
  <2>7. CASE Publishes(i)
    BY <2>7, PublishesStep
  <2>8. CASE InstallerDies(i)
    BY <2>8, InstallerDiesStep
  <2>9. QED BY <2>1, <2>2, <2>3, <2>4, <2>5, <2>6, <2>7, <2>8
<1>3. QED BY <1>1, <1>2

(* The image holds what its head names, whole, and every installer holds   *)
(* only what it read or what nobody else can claim.                        *)
THEOREM InstallInvariance == InstallSpec => []InstallInv
<1>1. QED BY InstallStarts, InstallSteps, PTL DEF InstallSpec

(* The invariant contains the types. *)
LEMMA InstallTyped == InstallInv => InstallTypeOK
<1> SUFFICES ASSUME InstallInv
             PROVE  InstallTypeOK
  OBVIOUS
<1>1. /\ minted \in Nat /\ DOMAIN target \subseteq 0 .. minted
      /\ \A id \in DOMAIN target : target[id].kind \in RecordKinds
  BY DEF InstallInv, TargetIsSound
<1>2. \A i \in Installers : installer[i].at \in InstallerPlaces
  BY DEF InstallInv, InstallerIsSound, SoundInstaller
<1>3. QED BY <1>1, <1>2 DEF InstallTypeOK, RecordKinds, InstallerPlaces

(* The places an installer can be at, the kinds of record in the image. *)
THEOREM InstallTypeCorrect == InstallSpec => []InstallTypeOK
<1>1. QED BY InstallInvariance, InstallTyped, PTL

(* Who has installed has a copy of the whole release. *)
LEMMA SoundInstallersCopied == InstallInv => InstalledMeansCopied
<1> SUFFICES ASSUME InstallInv, NEW i \in Installers, In(i, "installed")
             PROVE  /\ DOMAIN installer[i].roots = DOMAIN RootsOf[installer[i].release]
                    /\ IsACopy(installer[i].release, installer[i].roots)
  BY DEF InstalledMeansCopied
<1>1. PICK w : w = installer[i]
  OBVIOUS
<1>2. w.at = "installed" /\ SoundInstaller(w, target, minted)
  BY <1>1 DEF In, InstallInv, InstallerIsSound
<1>3. w.release \in Releases BY <1>2 DEF SoundInstaller
<1>4. PICK copy \in [DOMAIN RecordsOf[w.release] -> DOMAIN target] :
        CopyOf(target, w.release, copy) /\ w.roots = RootsIn(w.release, copy)
  BY <1>2 DEF SoundInstaller
<1>5. /\ DOMAIN w.roots = DOMAIN RootsOf[w.release]
      /\ \A k \in DOMAIN RootsOf[w.release] : copy[RootsOf[w.release][k]] = w.roots[k]
  BY <1>4 DEF RootsIn
<1>6. IsACopy(w.release, w.roots) BY <1>4, <1>5 DEF IsACopy, CopyOf
<1>7. QED BY <1>1, <1>5, <1>6

(* InstalledMeansCopied for every set of installers and releases: a call   *)
(* that succeeds holds a whole copy of the release it asked for, the loser *)
(* of the race for the head included (decideExisting).                     *)
THEOREM InstallationsAreCopies == InstallSpec => []InstalledMeansCopied
<1>1. QED BY InstallInvariance, SoundInstallersCopied, PTL

(* The head being whole, losers left nothing. *)
LEMMA WholeHeadsCount == InstallInv => LosersLeaveNothing
<1> SUFFICES ASSUME InstallInv
             PROVE  LosersLeaveNothing
  OBVIOUS
<1>1. HeadIsWhole(target) BY DEF InstallInv, TargetIsSound
<1>2. CASE HeadId \notin DOMAIN target
  <2>1. ManagedGraph(target) = {} BY <1>1, <1>2 DEF HeadIsWhole
  <2>2. Cardinality(ManagedGraph(target)) = 0 BY <2>1, FS_EmptySet
  <2>3. QED BY <1>2, <2>2 DEF LosersLeaveNothing, ManagedGraph
<1>3. CASE HeadId \in DOMAIN target
  <2>1. PICK r \in Releases : r = HeadRelease(target)
    BY <1>1, <1>3 DEF HeadIsWhole
  <2>2. PICK copy \in [DOMAIN RecordsOf[r] -> DOMAIN target] :
          /\ CopyOf(target, r, copy)
          /\ ManagedGraph(target) = {copy[l] : l \in DOMAIN RecordsOf[r]}
    BY <1>1, <1>3, <2>1 DEF HeadIsWhole
  <2>3. PICK S, T : S = DOMAIN RecordsOf[r] /\ T = ManagedGraph(target)
    OBVIOUS
  <2>4. IsFiniteSet(S) BY <2>1, <2>3, InstallAssumption
  <2>5. copy \in [S -> T] /\ (\A y \in T : \E x \in S : copy[x] = y)
        /\ \A a, b \in S : copy[a] = copy[b] => a = b
    BY <2>2, <2>3 DEF CopyOf
  <2>6. copy \in Bijection(S, T)
    BY <2>5 DEF Bijection, Injection, Surjection, IsInjective
  <2>7. Cardinality(T) = Cardinality(S)
    BY <2>4, <2>6, FS_Bijection DEF ExistsBijection
  <2>8. QED BY <1>3, <2>1, <2>3, <2>7 DEF LosersLeaveNothing, ManagedGraph, HeadRelease
<1>4. QED BY <1>2, <1>3

(* LosersLeaveNothing for every set of installers and releases: the graph  *)
(* records of managed installations are those of the release in the head,  *)
(* one each, and none before there is a head (createRecords).              *)
THEOREM LosersAreClean == InstallSpec => []LosersLeaveNothing
<1>1. QED BY InstallInvariance, WholeHeadsCount, PTL

----------------------------------------
(* Derivations.  The artifacts that are stored: an output of a tool is the *)
(* only one of its run with its number.                                    *)
ArtifactIsSound(id) ==
  /\ artifacts[id].key \in Keys \cup ToolKeys
  /\ artifacts[id].key \in ToolKeys =>
       /\ artifacts[id].run \in 1 .. drawn /\ artifacts[id].output \in Outputs
       /\ \A other \in DOMAIN artifacts :
            (/\ artifacts[other].key \in ToolKeys
             /\ artifacts[other].run = artifacts[id].run
             /\ artifacts[other].output = artifacts[id].output)
            => other = id

KnownIds == (1 .. drawn) \cup ChosenIds

ArtifactsAreSound ==
  /\ drawn \in Nat
  /\ artifacts = [id \in DOMAIN artifacts |-> artifacts[id]]
  /\ DOMAIN artifacts \subseteq KnownIds
  /\ \A id \in DOMAIN artifacts : ArtifactIsSound(id)

(* The index names artifacts, by keys of compilers. *)
IndexIsSound ==
  index = NoIndex
  \/ /\ DOMAIN index \subseteq Keys
     /\ \A k \in DOMAIN index : index[k] # 0

BuilderPlaces ==
  {"rest", "find", "list", "listed", "compile", "stored", "search", "check", "recheck",
   "putting", "answered", "failed"}

(* What a request holds.  A listing is of the artifacts as they were; a run *)
(* has put as many outputs as it has ids, and no other run has its number.  *)
SoundBuilder(w) ==
  /\ w.at \in BuilderPlaces
  /\ w.at \in {"find", "list", "listed", "compile", "stored"} => w.key \in Keys \ ToolKeys
  /\ w.at \in {"search", "check", "recheck", "putting"} => w.key \in ToolKeys
  /\ w.at \in {"find", "list", "listed", "compile", "search", "check", "recheck", "putting"} =>
       w.names \in Wanted
  /\ w.at \in {"list", "listed"} => index # NoIndex
  /\ w.at \in {"find", "list"} => w = [at |-> w.at, key |-> w.key, names |-> w.names]
  /\ w.at \in {"check", "recheck"} =>
       w = [at |-> w.at, key |-> w.key, names |-> w.names, left |-> w.left]
  /\ w.at \in {"recheck", "putting"} => IsInjective(w.names)
  /\ w.at = "listed" => DOMAIN w.stored \subseteq KnownIds
  /\ w.at = "stored" => w.id \in KnownIds
  /\ w.at = "putting" =>
       /\ w = [at |-> "putting", key |-> w.key, names |-> w.names, run |-> w.run, ids |-> w.ids]
       /\ w.run \in 1 .. drawn
       /\ w.ids \subseteq KnownIds /\ IsFiniteSet(w.ids)
       /\ \A n \in DOMAIN w.names : n > Cardinality(w.ids) => w.names[n] \notin w.ids
       /\ \A id \in DOMAIN artifacts :
            artifacts[id].key \in ToolKeys /\ artifacts[id].run = w.run
            => artifacts[id].output <= Cardinality(w.ids)

BuilderIsSound(b) == SoundBuilder(builder[b])

RunsAreApart ==
  \A b, d \in Builders :
    builder[b].at = "putting" /\ builder[d].at = "putting" /\ builder[b].run = builder[d].run
    => b = d

(* An artifact a later request would miss is one that a listing, or its    *)
(* maker, is about to report.                                              *)
Reported(id) ==
  \/ artifacts[id].key \in DOMAIN index
  \/ artifacts[id].key \in ToolKeys
  \/ \E b \in Builders :
       \/ /\ builder[b].at = "stored"
          /\ builder[b].id = id /\ builder[b].key = artifacts[id].key
       \/ builder[b].at = "list"
       \/ /\ builder[b].at = "listed"
          /\ id \in DOMAIN builder[b].stored /\ builder[b].stored[id].key = artifacts[id].key
AllReported == index # NoIndex /\ ~unlisted => \A id \in DOMAIN artifacts : Reported(id)

DerivationInv ==
  /\ ArtifactsAreSound /\ IndexIsSound
  /\ builder = [b \in Builders |-> builder[b]] /\ \A b \in Builders : BuilderIsSound(b)
  /\ RunsAreApart /\ AllReported

(* Artifacts come under new ids, and the others are what they were or are  *)
(* gone; a new output of a tool is of the run of the builder that moves.   *)
ArtifactsMove(b) ==
  /\ drawn \in Nat /\ drawn' \in Nat /\ drawn <= drawn'
  /\ \A id \in DOMAIN artifacts \cap DOMAIN artifacts' : artifacts'[id] = artifacts[id]
  /\ \A id \in DOMAIN artifacts' \ DOMAIN artifacts :
       artifacts'[id].key \in ToolKeys =>
         builder[b].at = "putting" /\ artifacts'[id].run = builder[b].run
  /\ index # NoIndex => index' # NoIndex

(* What another builder holds stays sound. *)
LEMMA BuilderStays ==
  ASSUME DerivationInv, NEW b \in Builders, ArtifactsMove(b),
         NEW d \in Builders \ {b}, builder'[d] = builder[d]
  PROVE  BuilderIsSound(d)'
<1>1. PICK w : w = builder[d]
  OBVIOUS
<1>2. builder'[d] = w /\ SoundBuilder(w)
  BY <1>1 DEF DerivationInv, BuilderIsSound
<1>3. KnownIds \subseteq KnownIds' /\ 1 .. drawn \subseteq 1 .. drawn'
  BY DEF ArtifactsMove, KnownIds
<1>4. /\ w.at = "listed" => DOMAIN w.stored \subseteq KnownIds'
      /\ w.at = "stored" => w.id \in KnownIds'
  BY <1>2, <1>3 DEF SoundBuilder
<1>5. w.at = "putting" =>
        /\ w.run \in 1 .. drawn' /\ w.ids \subseteq KnownIds'
        /\ \A id \in DOMAIN artifacts' :
             artifacts'[id].key \in ToolKeys /\ artifacts'[id].run = w.run
             => artifacts'[id].output <= Cardinality(w.ids)
  <2>1. CASE w.at = "putting"
    <3>1. builder[b].at = "putting" => builder[b].run # w.run
      BY <1>1, <2>1 DEF DerivationInv, RunsAreApart
    <3>2. w.run \in 1 .. drawn' /\ w.ids \subseteq KnownIds'
      BY <1>2, <1>3, <2>1 DEF SoundBuilder
    <3>3. QED BY <1>2, <2>1, <3>1, <3>2 DEF ArtifactsMove, SoundBuilder
  <2>2. QED BY <2>1
<1>6. w.at \in {"list", "listed"} => index' # NoIndex
  BY <1>2 DEF ArtifactsMove, SoundBuilder
<1>7. SoundBuilder(w)' BY <1>2, <1>4, <1>5, <1>6 DEF SoundBuilder
<1>8. QED BY <1>2, <1>7 DEF BuilderIsSound

(* A builder moves, and everything stays sound. *)
LEMMA BuilderMoves ==
  ASSUME DerivationInv, NEW b \in Builders, NEW state, ArtifactsMove(b),
         builder' = [builder EXCEPT ![b] = state],
         ArtifactsAreSound', IndexIsSound', AllReported',
         SoundBuilder(state)',
         state.at = "putting" =>
           state.run > drawn \/ (builder[b].at = "putting" /\ state.run = builder[b].run)
  PROVE  DerivationInv'
<1>1. /\ builder'[b] = state /\ builder' = [d \in Builders |-> builder'[d]]
      /\ \A d \in Builders \ {b} : builder'[d] = builder[d]
  BY DEF DerivationInv
<1>3. \A d \in Builders \ {b} : BuilderIsSound(d)' BY <1>1, BuilderStays
<1>4. BuilderIsSound(b)' BY <1>1 DEF BuilderIsSound
<1>5. RunsAreApart'
  <2>1. SUFFICES ASSUME NEW c \in Builders, NEW d \in Builders,
                        builder'[c].at = "putting", builder'[d].at = "putting",
                        builder'[c].run = builder'[d].run, c # d
                 PROVE  FALSE
    BY DEF RunsAreApart
  <2>2. \A x \in Builders : builder[x].at = "putting" => builder[x].run \in 1 .. drawn
    BY DEF DerivationInv, BuilderIsSound, SoundBuilder
  <2>3. CASE c = b
    BY <1>1, <2>1, <2>2, <2>3 DEF DerivationInv, RunsAreApart, ArtifactsMove
  <2>4. CASE d = b
    BY <1>1, <2>1, <2>2, <2>4 DEF DerivationInv, RunsAreApart, ArtifactsMove
  <2>5. CASE c # b /\ d # b
    BY <1>1, <2>1, <2>5 DEF DerivationInv, RunsAreApart
  <2>6. QED BY <2>3, <2>4, <2>5
<1>6. QED BY <1>1, <1>3, <1>4, <1>5 DEF DerivationInv

(* What was reported, or about to be, is so still when a builder moves that *)
(* had nothing to report, or leaves what it had to the index.               *)
LEMMA StillReported ==
  ASSUME DerivationInv, NEW b \in Builders, NEW state,
         builder' = [builder EXCEPT ![b] = state],
         index' # NoIndex /\ ~unlisted' =>
           index # NoIndex /\ ~unlisted /\ DOMAIN index \subseteq DOMAIN index',
         \A id \in DOMAIN artifacts \cap DOMAIN artifacts' : artifacts'[id] = artifacts[id],
         \A id \in DOMAIN artifacts \cap DOMAIN artifacts' :
           \/ builder[b].at \notin {"stored", "list", "listed"}
           \/ builder[b].at = "stored" /\ ~ (builder[b].id = id /\ builder[b].key = artifacts[id].key)
           \/ /\ builder[b].at = "listed"
              /\ ~ (/\ id \in DOMAIN builder[b].stored
                    /\ builder[b].stored[id].key = artifacts[id].key)
           \/ Reported(id)',
         \A id \in DOMAIN artifacts' \ DOMAIN artifacts : Reported(id)'
  PROVE  AllReported'
<1>1. SUFFICES ASSUME index' # NoIndex, ~unlisted', NEW id \in DOMAIN artifacts \cap DOMAIN artifacts'
               PROVE  Reported(id)'
  BY DEF AllReported
<1>2. Reported(id) /\ artifacts'[id] = artifacts[id] /\ DOMAIN index \subseteq DOMAIN index'
  BY <1>1 DEF DerivationInv, AllReported
<1>3. \A d \in Builders \ {b} : builder'[d] = builder[d] BY DEF DerivationInv
<1>4. CASE artifacts[id].key \in DOMAIN index \/ artifacts[id].key \in ToolKeys
  BY <1>2, <1>4 DEF Reported
<1> DEFINE By(d) ==
             \/ /\ builder[d].at = "stored"
                /\ builder[d].id = id /\ builder[d].key = artifacts[id].key
             \/ builder[d].at = "list"
             \/ /\ builder[d].at = "listed"
                /\ id \in DOMAIN builder[d].stored /\ builder[d].stored[id].key = artifacts[id].key
<1>5. CASE \E d \in Builders : By(d)
  <2>1. PICK d \in Builders : By(d)
    BY <1>5
  <2>2. CASE d = b
    BY <2>1, <2>2
  <2>3. CASE d # b
    BY <1>2, <1>3, <2>1, <2>3 DEF Reported
  <2>4. QED BY <2>2, <2>3
<1>6. QED BY <1>2, <1>4, <1>5 DEF Reported

(* Nothing is stored, drawn or reported. *)
LEMMA QuietBuilderStep ==
  ASSUME DerivationInv, NEW b \in Builders, NEW state,
         builder' = [builder EXCEPT ![b] = state],
         UNCHANGED <<artifacts, index, unlisted, drawn>>,
         builder[b].at \notin {"stored", "list", "listed"},
         state.at # "putting", SoundBuilder(state)
  PROVE  DerivationInv'
<1>1. ArtifactsMove(b) BY DEF ArtifactsMove, DerivationInv, ArtifactsAreSound
<1>2. ArtifactsAreSound' /\ IndexIsSound'
  BY DEF DerivationInv, KnownIds, ArtifactsAreSound, ArtifactIsSound, IndexIsSound
<1>3. AllReported' BY StillReported
<1>4. SoundBuilder(state)' BY DEF SoundBuilder, KnownIds
<1>5. QED BY <1>1, <1>2, <1>3, <1>4, BuilderMoves

(* A request. *)
LEMMA RequestsStep ==
  ASSUME DerivationInv, NEW b \in Builders, NEW key \in Keys \cup ToolKeys, NEW names \in Wanted,
         NEW reuse \in BOOLEAN, Requests(b, key, names, reuse)
  PROVE  DerivationInv'
<1>1. PICK state :
        state = IF key \in ToolKeys /\ ~ reuse THEN Checks("check", key, names)
                ELSE [at |-> IF key \in ToolKeys THEN "search"
                             ELSE IF reuse THEN "find" ELSE "compile",
                      key |-> key, names |-> names]
  OBVIOUS
<1>2. SoundBuilder(state) /\ state.at # "putting"
  BY <1>1 DEF SoundBuilder, BuilderPlaces, Checks
<1>3. QED BY <1>1, <1>2, QuietBuilderStep DEF Requests, Moves

(* A request that finds the index. *)
LEMMA FindsStep ==
  ASSUME DerivationInv, NEW b \in Builders, Finds(b)
  PROVE  DerivationInv'
<1>1. PICK state : state = Found(b, index)
  OBVIOUS
<1>2. SoundBuilder(builder[b]) /\ builder[b].at = "find"
  BY DEF DerivationInv, BuilderIsSound, Finds, BuilderAt
<1>3. SoundBuilder(state) /\ state.at # "putting"
  BY <1>1, <1>2 DEF SoundBuilder, BuilderPlaces, Found
<1>4. QED BY <1>1, <1>2, <1>3, QuietBuilderStep DEF Finds, Moves, OnlyMoves

(* The first request of an image installs the empty index. *)
LEMMA SeedsStep ==
  ASSUME DerivationInv, NEW b \in Builders, Seeds(b)
  PROVE  DerivationInv'
<1>1. PICK state : state = [builder[b] EXCEPT !.at = "list"]
  OBVIOUS
<1>2. PICK w : w = builder[b]
  OBVIOUS
<1>3. /\ SoundBuilder(w) /\ w.at = "find"
      /\ builder' = [builder EXCEPT ![b] = state] /\ index' = <<>>
      /\ UNCHANGED <<artifacts, unlisted, drawn>>
  BY <1>1, <1>2 DEF DerivationInv, BuilderIsSound, Seeds, BuilderAt, Moves
<1>4. /\ state = [at |-> "list", key |-> w.key, names |-> w.names]
      /\ w.key \in Keys \ ToolKeys /\ w.names \in Wanted
  BY <1>1, <1>2, <1>3 DEF SoundBuilder, DerivationInv
<1>5. index' # NoIndex
  <2>1. DOMAIN NoIndex = {"none"} /\ DOMAIN << >> = {} BY DEF NoIndex
  <2>2. QED BY <1>3, <2>1
<1>6. ArtifactsMove(b)
  BY <1>3, <1>5 DEF ArtifactsMove, DerivationInv, ArtifactsAreSound
<1>7. ArtifactsAreSound' /\ IndexIsSound'
  BY <1>3 DEF DerivationInv, KnownIds, ArtifactsAreSound, ArtifactIsSound, IndexIsSound
<1>8. AllReported'
  <2>1. builder'[b].at = "list" BY <1>3, <1>4 DEF DerivationInv
  <2>2. QED BY <2>1 DEF AllReported, Reported
<1>9. SoundBuilder(state)' BY <1>4, <1>5 DEF SoundBuilder, BuilderPlaces
<1>10. QED BY <1>3, <1>4, <1>6, <1>7, <1>8, <1>9, BuilderMoves

(* No artifact has the id 0. *)
LEMMA NoZero == ASSUME drawn \in Nat PROVE 0 \notin KnownIds
BY WantedAssumption DEF KnownIds

(* The image is listed. *)
LEMMA ListsStoredStep ==
  ASSUME DerivationInv, NEW b \in Builders, ListsStored(b)
  PROVE  DerivationInv'
<1>1. PICK state : state = [at |-> "listed", key |-> builder[b].key, names |-> builder[b].names,
                            stored |-> artifacts]
  OBVIOUS
<1>2. PICK w : w = builder[b]
  OBVIOUS
<1>3. /\ SoundBuilder(w) /\ w.at = "list"
      /\ builder' = [builder EXCEPT ![b] = state]
      /\ UNCHANGED <<artifacts, index, unlisted, drawn>>
  BY <1>1, <1>2 DEF DerivationInv, BuilderIsSound, ListsStored, BuilderAt, Moves, OnlyMoves
<1>4. ArtifactsMove(b)
  BY <1>3 DEF ArtifactsMove, DerivationInv, ArtifactsAreSound
<1>5. ArtifactsAreSound' /\ IndexIsSound'
  BY <1>3 DEF DerivationInv, KnownIds, ArtifactsAreSound, ArtifactIsSound, IndexIsSound
<1>6. builder'[b] = state BY <1>3 DEF DerivationInv
<1>7. \A id \in DOMAIN artifacts' : Reported(id)'
  BY <1>1, <1>3, <1>6 DEF Reported
<1>8. AllReported' BY <1>7 DEF AllReported
<1>9. SoundBuilder(state)'
  BY <1>1, <1>2, <1>3 DEF SoundBuilder, BuilderPlaces, DerivationInv, ArtifactsAreSound, KnownIds
<1>10. QED BY <1>1, <1>3, <1>4, <1>5, <1>8, <1>9, BuilderMoves

(* The listing fails: what it was to report is not, until a restart. *)
LEMMA ListFailsStep ==
  ASSUME DerivationInv, NEW b \in Builders, ListFails(b)
  PROVE  DerivationInv'
<1>1. PICK state : state = [at |-> "failed"]
  OBVIOUS
<1>2. /\ builder' = [builder EXCEPT ![b] = state] /\ unlisted'
      /\ UNCHANGED <<artifacts, index, drawn>>
  BY <1>1 DEF ListFails, Moves, Failed
<1>3. ArtifactsMove(b)
  BY <1>2 DEF ArtifactsMove, DerivationInv, ArtifactsAreSound
<1>4. ArtifactsAreSound' /\ IndexIsSound' /\ AllReported'
  BY <1>2 DEF DerivationInv, KnownIds, ArtifactsAreSound, ArtifactIsSound, IndexIsSound, AllReported
<1>5. SoundBuilder(state)' /\ state.at # "putting"
  BY <1>1 DEF SoundBuilder, BuilderPlaces
<1>6. QED BY <1>2, <1>3, <1>4, <1>5, BuilderMoves

(* The listing is entered into the index. *)
LEMMA IndexedGrows ==
  ASSUME NEW entries, NEW stored, entries # NoIndex,
         DOMAIN entries \subseteq Keys, \A k \in DOMAIN entries : entries[k] # 0,
         0 \notin DOMAIN stored
  PROVE  /\ DOMAIN Indexed(entries, stored) \subseteq Keys
         /\ DOMAIN entries \subseteq DOMAIN Indexed(entries, stored)
         /\ \A k \in DOMAIN Indexed(entries, stored) : Indexed(entries, stored)[k] # 0
         /\ \A id \in DOMAIN stored :
              stored[id].key \in Keys => stored[id].key \in DOMAIN Indexed(entries, stored)
<1> DEFINE keys == {k \in Keys : DerivationsOf(k, stored) # {}}
<1>1. PICK all : all = Indexed(entries, stored)
  OBVIOUS
<1>2. /\ DOMAIN all = DOMAIN entries \cup keys
      /\ \A k \in DOMAIN entries \cup keys :
           all[k] = IF k \in DOMAIN entries THEN entries[k]
                    ELSE CHOOSE id \in DerivationsOf(k, stored) : TRUE
  BY <1>1 DEF Indexed
<1>3. \A k \in keys : (CHOOSE id \in DerivationsOf(k, stored) : TRUE) \in DerivationsOf(k, stored)
  OBVIOUS
<1>4. \A k \in keys : DerivationsOf(k, stored) \subseteq DOMAIN stored
  BY DEF DerivationsOf
<1>5. \A k \in DOMAIN all : all[k] # 0 BY <1>2, <1>3, <1>4
<1>6. \A id \in DOMAIN stored : stored[id].key \in Keys => stored[id].key \in keys
  BY DEF DerivationsOf
<1>7. QED BY <1>1, <1>2, <1>5, <1>6

(* A builder that starts seeds its index from what is stored. *)
LEMMA SeededStep ==
  ASSUME DerivationInv, NEW b \in Builders, Seeded(b)
  PROVE  DerivationInv'
<1>1. PICK w : w = builder[b]
  OBVIOUS
<1>2. PICK entries : entries = Indexed(index, w.stored)
  OBVIOUS
<1>3. PICK state : state = Found(b, entries)
  OBVIOUS
<1>4. /\ SoundBuilder(w) /\ w.at = "listed" /\ index' = entries
      /\ builder' = [builder EXCEPT ![b] = state]
      /\ UNCHANGED <<artifacts, unlisted, drawn>>
  BY <1>1, <1>2, <1>3 DEF DerivationInv, BuilderIsSound, Seeded, BuilderAt, Moves, Found
<1>5. /\ index # NoIndex /\ 0 \notin DOMAIN w.stored /\ w.key \in Keys \ ToolKeys
      /\ w.names \in Wanted
  BY <1>4, NoZero DEF SoundBuilder, DerivationInv, ArtifactsAreSound
<1>6. DOMAIN index \subseteq Keys /\ \A k \in DOMAIN index : index[k] # 0
  BY <1>5 DEF DerivationInv, IndexIsSound
<1>7. /\ DOMAIN entries \subseteq Keys /\ DOMAIN index \subseteq DOMAIN entries
      /\ \A k \in DOMAIN entries : entries[k] # 0
      /\ \A id \in DOMAIN w.stored :
           w.stored[id].key \in Keys => w.stored[id].key \in DOMAIN entries
  BY <1>2, <1>5, <1>6, IndexedGrows
<1>8. entries # NoIndex
  <2>1. DOMAIN NoIndex = {"none"} /\ NoIndex["none"] = 0 BY DEF NoIndex
  <2>2. QED BY <1>7, <2>1
<1>9. ArtifactsMove(b)
  BY <1>4, <1>8 DEF ArtifactsMove, DerivationInv, ArtifactsAreSound
<1>10. ArtifactsAreSound' /\ IndexIsSound'
  BY <1>4, <1>7 DEF DerivationInv, KnownIds, ArtifactsAreSound, ArtifactIsSound, IndexIsSound
<1>11. AllReported'
  <2>1. ASSUME NEW id \in DOMAIN w.stored \cap DOMAIN artifacts,
               w.stored[id].key = artifacts[id].key
        PROVE  Reported(id)'
    <3>1. artifacts[id].key \in Keys \cup ToolKeys
      BY DEF DerivationInv, KnownIds, ArtifactsAreSound, ArtifactIsSound
    <3>2. QED BY <1>4, <1>7, <2>1, <3>1 DEF Reported
  <2>2. \A id \in DOMAIN artifacts \cap DOMAIN artifacts' :
          \/ /\ builder[b].at = "listed"
             /\ ~ (/\ id \in DOMAIN builder[b].stored
                   /\ builder[b].stored[id].key = artifacts[id].key)
          \/ Reported(id)'
    BY <1>1, <1>4, <2>1
  <2>3. DOMAIN artifacts' \ DOMAIN artifacts = {} BY <1>4
  <2>4. QED BY <1>4, <1>5, <1>7, <2>2, <2>3, StillReported
<1>12. SoundBuilder(state)' /\ state.at # "putting"
  BY <1>1, <1>3, <1>5 DEF SoundBuilder, BuilderPlaces, Found
<1>13. QED BY <1>4, <1>9, <1>10, <1>11, <1>12, BuilderMoves

(* The id of what is made next is fresh or one a caller chose. *)
LEMMA IdsAreKnown ==
  ASSUME DerivationInv, NEW b \in Builders, NEW n \in Outputs, builder[b].names \in Wanted
  PROVE  /\ drawn + 1 \notin KnownIds
         /\ IdOf(b, n) \in (1 .. drawn + 1) \cup ChosenIds
         /\ n \in DOMAIN builder[b].names =>
              IdOf(b, n) = builder[b].names[n] /\ IdOf(b, n) \in ChosenIds
         /\ n \notin DOMAIN builder[b].names => IdOf(b, n) = drawn + 1
<1>1. drawn \in Nat BY DEF DerivationInv, ArtifactsAreSound
<1>2. n \in DOMAIN builder[b].names => builder[b].names[n] \in ChosenIds
  BY WantedAssumption
<1>3. QED BY <1>1, <1>2, WantedAssumption DEF KnownIds, IdOf

(* An artifact of a compiler is ensured. *)
LEMMA CompilesStep ==
  ASSUME DerivationInv, NEW b \in Builders, Compiles(b)
  PROVE  DerivationInv'
<1>1. PICK w : w = builder[b]
  OBVIOUS
<1>2. PICK id : id = IdOf(b, 1)
  OBVIOUS
<1>3. PICK state : state = IF id \in DOMAIN artifacts /\ artifacts[id].key # w.key THEN Failed
                           ELSE [at |-> "stored", key |-> w.key, id |-> id]
  OBVIOUS
<1>4. /\ SoundBuilder(w) /\ w.at = "compile" /\ drawn' = drawn + 1 /\ drawn \in Nat
      /\ artifacts' = IF id \in DOMAIN artifacts THEN artifacts ELSE Put(id, [key |-> w.key])
      /\ builder' = [builder EXCEPT ![b] = state] /\ UNCHANGED <<index, unlisted>>
  BY <1>1, <1>2, <1>3 DEF DerivationInv, BuilderIsSound, ArtifactsAreSound, Compiles, BuilderAt,
     Moves
<1>5. w.key \in Keys \ ToolKeys /\ w.names \in Wanted BY <1>4 DEF SoundBuilder
<1>6. id \in KnownIds' /\ KnownIds \subseteq KnownIds' /\ 1 .. drawn \subseteq 1 .. drawn'
  <2>1. 1 \in Outputs BY OutputsAssumption, FS_CardinalityType, FS_EmptySet
  <2>2. QED BY <1>1, <1>2, <1>4, <1>5, <2>1, IdsAreKnown DEF KnownIds
<1>7. /\ DOMAIN artifacts' = DOMAIN artifacts \cup {id}
      /\ artifacts' = [x \in DOMAIN artifacts' |-> artifacts'[x]]
      /\ \A x \in DOMAIN artifacts : artifacts'[x] = artifacts[x]
      /\ id \notin DOMAIN artifacts => artifacts'[id].key = w.key
      /\ DOMAIN artifacts \subseteq KnownIds
  BY <1>4 DEF DerivationInv, ArtifactsAreSound, Put
<1>8. ArtifactsMove(b) BY <1>4, <1>5, <1>7 DEF ArtifactsMove
<1>9. ArtifactsAreSound'
  <2>1. ASSUME NEW x \in DOMAIN artifacts'
        PROVE  ArtifactIsSound(x)'
    <3>1. CASE x \in DOMAIN artifacts
      <4>1. ArtifactIsSound(x) BY <3>1 DEF DerivationInv, ArtifactsAreSound
      <4>2. \A other \in DOMAIN artifacts' \ DOMAIN artifacts : artifacts'[other].key \notin ToolKeys
        BY <1>5, <1>7
      <4>3. QED BY <1>6, <1>7, <3>1, <4>1, <4>2 DEF ArtifactIsSound
    <3>2. CASE x \notin DOMAIN artifacts
      BY <1>5, <1>7, <3>2 DEF ArtifactIsSound
    <3>3. QED BY <3>1, <3>2
  <2>2. QED BY <1>4, <1>6, <1>7, <2>1 DEF ArtifactsAreSound
<1>10. IndexIsSound' BY <1>4 DEF DerivationInv, IndexIsSound
<1>11. AllReported'
  <2>1. ASSUME NEW x \in DOMAIN artifacts' \ DOMAIN artifacts
        PROVE  Reported(x)'
    <3>1. x = id /\ id \notin DOMAIN artifacts BY <1>7
    <3>2. builder'[b] = [at |-> "stored", key |-> w.key, id |-> id]
      BY <1>3, <1>4, <3>1 DEF DerivationInv
    <3>3. QED BY <1>7, <3>1, <3>2 DEF Reported
  <2>2. builder[b].at \notin {"stored", "list", "listed"} BY <1>1, <1>4
  <2>3. QED BY <1>4, <1>7, <2>1, <2>2, StillReported
<1>12. SoundBuilder(state)' /\ state.at # "putting"
  BY <1>3, <1>5, <1>6 DEF SoundBuilder, BuilderPlaces, Failed
<1>13. QED BY <1>4, <1>8, <1>9, <1>10, <1>11, <1>12, BuilderMoves

(* Its maker enters it into the index, if there is one. *)
LEMMA RegistersStep ==
  ASSUME DerivationInv, NEW b \in Builders, Registers(b)
  PROVE  DerivationInv'
<1>1. PICK w : w = builder[b]
  OBVIOUS
<1>2. PICK state : state = [at |-> "answered", key |-> w.key, ids |-> {w.id}]
  OBVIOUS
<1>3. /\ SoundBuilder(w) /\ w.at = "stored"
      /\ index' = IF index = NoIndex \/ w.key \in DOMAIN index THEN index
                  ELSE [k \in DOMAIN index \cup {w.key} |->
                          IF k = w.key THEN w.id ELSE index[k]]
      /\ builder' = [builder EXCEPT ![b] = state] /\ UNCHANGED <<artifacts, unlisted, drawn>>
  BY <1>1, <1>2 DEF DerivationInv, BuilderIsSound, Registers, BuilderAt, Moves
<1>4. w.key \in Keys \ ToolKeys /\ w.id # 0
  BY <1>3, NoZero DEF SoundBuilder, DerivationInv, ArtifactsAreSound
<1>5. ASSUME index # NoIndex
      PROVE  /\ DOMAIN index' = DOMAIN index \cup {w.key} /\ DOMAIN index' \subseteq Keys
             /\ \A k \in DOMAIN index' : index'[k] # 0
  BY <1>3, <1>4, <1>5 DEF DerivationInv, IndexIsSound
<1>6. index # NoIndex => index' # NoIndex
  <2>1. DOMAIN NoIndex = {"none"} /\ NoIndex["none"] = 0 BY DEF NoIndex
  <2>2. QED BY <1>5, <2>1
<1>7. index' # NoIndex => index # NoIndex BY <1>3
<1>8. ArtifactsMove(b)
  BY <1>3, <1>6 DEF ArtifactsMove, DerivationInv, ArtifactsAreSound
<1>9. ArtifactsAreSound' /\ IndexIsSound'
  <2>1. ArtifactsAreSound'
    BY <1>3 DEF DerivationInv, KnownIds, ArtifactsAreSound, ArtifactIsSound
  <2>2. CASE index = NoIndex
    BY <1>3, <2>1, <2>2 DEF IndexIsSound
  <2>3. CASE index # NoIndex
    BY <1>5, <2>1, <2>3 DEF IndexIsSound
  <2>4. QED BY <2>2, <2>3
<1>10. AllReported'
  <2>1. CASE index = NoIndex
    BY <1>7, <2>1 DEF AllReported
  <2>2. CASE index # NoIndex
    <3>1. \A id \in DOMAIN artifacts \cap DOMAIN artifacts' :
            \/ /\ builder[b].at = "stored"
               /\ ~ (builder[b].id = id /\ builder[b].key = artifacts[id].key)
            \/ Reported(id)'
      BY <1>1, <1>3, <1>4, <1>5, <2>2 DEF Reported
    <3>2. DOMAIN artifacts' \ DOMAIN artifacts = {} BY <1>3
    <3>3. QED BY <1>3, <1>5, <2>2, <3>1, <3>2, StillReported
  <2>3. QED BY <2>1, <2>2
<1>11. SoundBuilder(state)' /\ state.at # "putting"
  BY <1>2 DEF SoundBuilder, BuilderPlaces
<1>12. QED BY <1>3, <1>8, <1>9, <1>10, <1>11, BuilderMoves

(* An id that was asked for is read. *)
LEMMA ChecksIdStep ==
  ASSUME DerivationInv, NEW b \in Builders, NEW n \in Outputs, ChecksId(b, n)
  PROVE  DerivationInv'
<1>1. PICK w : w = builder[b]
  OBVIOUS
<1>2. PICK rest : rest = w.left \ {n}
  OBVIOUS
<1>3. PICK state : /\ state \in {Failed, [w EXCEPT !.left = rest]}
                   /\ builder' = [builder EXCEPT ![b] = state]
  BY <1>1, <1>2, Zenon DEF ChecksId, Moves
<1>4. /\ SoundBuilder(w) /\ w.at \in {"check", "recheck"}
      /\ UNCHANGED <<artifacts, index, unlisted, drawn>>
  BY <1>1 DEF DerivationInv, BuilderIsSound, ChecksId, OnlyMoves
<1>5. w = [at |-> w.at, key |-> w.key, names |-> w.names, left |-> w.left]
  BY <1>4 DEF SoundBuilder
<1>6. [w EXCEPT !.left = rest] = [at |-> w.at, key |-> w.key, names |-> w.names, left |-> rest]
  BY <1>5
<1>7. SoundBuilder(state) /\ state.at # "putting"
  <2>1. CASE state = Failed
    BY <2>1 DEF SoundBuilder, BuilderPlaces, Failed
  <2>2. CASE state = [at |-> w.at, key |-> w.key, names |-> w.names, left |-> rest]
    BY <1>4, <2>2 DEF SoundBuilder, BuilderPlaces
  <2>3. QED BY <1>3, <1>6, <2>1, <2>2
<1>8. QED BY <1>1, <1>3, <1>4, <1>7, QuietBuilderStep

(* A provider runs. *)
LEMMA RunsToolStep ==
  ASSUME DerivationInv, NEW b \in Builders, RunsTool(b)
  PROVE  DerivationInv'
<1>1. PICK w : w = builder[b]
  OBVIOUS
<1>2. PICK state : state = IF IsInjective(w.names) THEN Checks("recheck", w.key, w.names) ELSE Failed
  OBVIOUS
<1>3. /\ SoundBuilder(w) /\ w.at = "check"
      /\ builder' = [builder EXCEPT ![b] = state]
      /\ UNCHANGED <<artifacts, index, unlisted, drawn>>
  BY <1>1, <1>2 DEF DerivationInv, BuilderIsSound, RunsTool, BuilderAt, Moves, OnlyMoves
<1>4. w.key \in ToolKeys /\ w.names \in Wanted BY <1>3 DEF SoundBuilder
<1>5. SoundBuilder(state) /\ state.at # "putting"
  BY <1>2, <1>4 DEF SoundBuilder, BuilderPlaces, Checks, Failed
<1>6. QED BY <1>1, <1>3, <1>5, QuietBuilderStep

(* A run's result gets a number nothing else has. *)
LEMMA DrawsResultIdStep ==
  ASSUME DerivationInv, NEW b \in Builders, DrawsResultId(b)
  PROVE  DerivationInv'
<1>1. PICK w : w = builder[b]
  OBVIOUS
<1>2. PICK state : state = [at |-> "putting", key |-> w.key, names |-> w.names, run |-> drawn + 1,
                            ids |-> {}]
  OBVIOUS
<1>3. /\ SoundBuilder(w) /\ w.at = "recheck" /\ drawn' = drawn + 1 /\ drawn \in Nat
      /\ builder' = [builder EXCEPT ![b] = state] /\ UNCHANGED <<artifacts, index, unlisted>>
  BY <1>1, <1>2 DEF DerivationInv, ArtifactsAreSound, BuilderIsSound, DrawsResultId, BuilderAt, Moves
<1>4. w.key \in ToolKeys /\ w.names \in Wanted /\ IsInjective(w.names)
  BY <1>3 DEF SoundBuilder
<1>5. ArtifactsMove(b) BY <1>3 DEF ArtifactsMove
<1>6. ArtifactsAreSound' /\ IndexIsSound'
  BY <1>3 DEF DerivationInv, KnownIds, ArtifactsAreSound, ArtifactIsSound, IndexIsSound
<1>7. AllReported' BY <1>1, <1>3, StillReported
<1>8. SoundBuilder(state)' /\ state.run > drawn
  <2>1. IsFiniteSet({}) /\ Cardinality({}) = 0 BY FS_EmptySet
  <2>2. \A id \in DOMAIN artifacts :
          artifacts[id].key \in ToolKeys => artifacts[id].run # drawn + 1
    BY <1>3 DEF DerivationInv, KnownIds, ArtifactsAreSound, ArtifactIsSound
  <2>3. QED BY <1>2, <1>3, <1>4, <2>1, <2>2 DEF SoundBuilder, BuilderPlaces
<1>9. QED BY <1>3, <1>5, <1>6, <1>7, <1>8, BuilderMoves

(* An output is stored, the next of its run, or its id is taken. *)
LEMMA PutsOutputStep ==
  ASSUME DerivationInv, NEW b \in Builders, PutsOutput(b)
  PROVE  /\ DerivationInv'
         /\ builder'[b].at = "answered" => Cardinality(builder'[b].ids) = Cardinality(Outputs)
<1>1. PICK w : w = builder[b]
  OBVIOUS
<1>2. PICK n : n = Cardinality(w.ids) + 1
  OBVIOUS
<1>3. PICK id : id = IdOf(b, n)
  OBVIOUS
<1>4. PICK ids : ids = w.ids \cup {id}
  OBVIOUS
<1>5. PICK a : a = [key |-> w.key, run |-> w.run, output |-> n]
  OBVIOUS
<1>6. PICK state : state = IF id \in DOMAIN artifacts THEN Failed
                           ELSE IF n + 1 \in Outputs THEN [w EXCEPT !.ids = ids]
                           ELSE [at |-> "answered", key |-> w.key, ids |-> ids]
  OBVIOUS
<1>7. /\ SoundBuilder(w) /\ w.at = "putting" /\ drawn' = drawn + 1 /\ drawn \in Nat
      /\ n \in Outputs
      /\ artifacts' = IF id \in DOMAIN artifacts THEN artifacts ELSE Put(id, a)
      /\ builder' = [builder EXCEPT ![b] = state] /\ UNCHANGED <<index, unlisted>>
  BY <1>1, <1>2, <1>3, <1>4, <1>5, <1>6 DEF DerivationInv, BuilderIsSound, ArtifactsAreSound,
     PutsOutput, BuilderAt, Moves
<1>8. /\ w.key \in ToolKeys /\ w.run \in 1 .. drawn
      /\ w.names \in Wanted /\ IsInjective(w.names)
      /\ w.ids \subseteq KnownIds /\ IsFiniteSet(w.ids)
      /\ \A m \in DOMAIN w.names : m > Cardinality(w.ids) => w.names[m] \notin w.ids
      /\ \A x \in DOMAIN artifacts :
           artifacts[x].key \in ToolKeys /\ artifacts[x].run = w.run
           => artifacts[x].output <= Cardinality(w.ids)
      /\ w = [at |-> "putting", key |-> w.key, names |-> w.names, run |-> w.run, ids |-> w.ids]
  BY <1>7 DEF SoundBuilder
<1>9. Outputs \subseteq Nat /\ Cardinality(Outputs) \in Nat /\ Cardinality(w.ids) \in Nat
  BY <1>8, OutputsAssumption, FS_CardinalityType
<1>10. \A x \in DOMAIN artifacts :
         artifacts[x].key \in ToolKeys /\ artifacts[x].run = w.run
         => artifacts[x].output \in Nat /\ artifacts[x].output < n
  <2>1. \A x \in DOMAIN artifacts : artifacts[x].key \in ToolKeys => artifacts[x].output \in Outputs
    BY DEF DerivationInv, KnownIds, ArtifactsAreSound, ArtifactIsSound
  <2>2. QED BY <1>2, <1>8, <1>9, <2>1
<1>11. /\ drawn + 1 \notin KnownIds
       /\ id \in (1 .. drawn + 1) \cup ChosenIds
       /\ n \in DOMAIN w.names => id = w.names[n] /\ id \in ChosenIds
       /\ n \notin DOMAIN w.names => id = drawn + 1
  BY <1>1, <1>3, <1>7, <1>8, IdsAreKnown
<1>12. id \in KnownIds' /\ KnownIds \subseteq KnownIds' /\ 1 .. drawn \subseteq 1 .. drawn'
  BY <1>7, <1>11 DEF KnownIds
<1>13. /\ DOMAIN artifacts' = DOMAIN artifacts \cup {id}
       /\ artifacts' = [x \in DOMAIN artifacts' |-> artifacts'[x]]
       /\ \A x \in DOMAIN artifacts : artifacts'[x] = artifacts[x]
       /\ id \notin DOMAIN artifacts => artifacts'[id] = a
       /\ DOMAIN artifacts \subseteq KnownIds
  BY <1>7 DEF DerivationInv, ArtifactsAreSound, Put
<1>14. a.key = w.key /\ a.run = w.run /\ a.output = n BY <1>5
<1>15. ArtifactsMove(b) BY <1>1, <1>7, <1>13, <1>14 DEF ArtifactsMove
<1>16. ArtifactsAreSound'
  <2>1. ASSUME NEW x \in DOMAIN artifacts
        PROVE  ArtifactIsSound(x)'
    <3>1. artifacts[x].key \in ToolKeys /\ artifacts[x].run = w.run
          => artifacts[x].output # n
      BY <1>2, <1>9, <1>10
    <3>2. ArtifactIsSound(x) BY DEF DerivationInv, ArtifactsAreSound
    <3>3. \A other \in DOMAIN artifacts' \ DOMAIN artifacts : artifacts'[other] = a
      BY <1>13
    <3>4. QED BY <1>12, <1>13, <1>14, <3>1, <3>2, <3>3 DEF ArtifactIsSound
  <2>2. ASSUME id \notin DOMAIN artifacts
        PROVE  ArtifactIsSound(id)'
    <3>1. \A x \in DOMAIN artifacts :
            artifacts[x].key \in ToolKeys /\ artifacts[x].run = w.run
            => artifacts[x].output # n
      BY <1>2, <1>9, <1>10
    <3>2. w.run \in 1 .. drawn' BY <1>8, <1>12
    <3>3. QED BY <1>7, <1>8, <1>13, <1>14, <2>2, <3>1, <3>2 DEF ArtifactIsSound
  <2>3. QED BY <1>7, <1>12, <1>13, <2>1, <2>2 DEF ArtifactsAreSound
<1>17. IndexIsSound' BY <1>7 DEF DerivationInv, IndexIsSound
<1>18. AllReported'
  <2>1. \A x \in DOMAIN artifacts' \ DOMAIN artifacts : Reported(x)'
    BY <1>8, <1>13, <1>14 DEF Reported
  <2>2. builder[b].at \notin {"stored", "list", "listed"} BY <1>1, <1>7
  <2>3. QED BY <1>7, <1>13, <2>1, <2>2, StillReported
<1>19. id \notin w.ids
  <2>1. CASE n \in DOMAIN w.names
    <3>1. n > Cardinality(w.ids) BY <1>2, <1>9
    <3>2. QED BY <1>8, <1>11, <2>1, <3>1
  <2>2. CASE n \notin DOMAIN w.names
    BY <1>8, <1>11, <2>2
  <2>3. QED BY <2>1, <2>2
<1>20. IsFiniteSet(ids) /\ Cardinality(ids) = n
  BY <1>2, <1>4, <1>8, <1>19, FS_AddElement
<1>21. \A m \in DOMAIN w.names : m > n => w.names[m] \notin ids
  <2> TAKE m \in DOMAIN w.names
  <2>1. SUFFICES ASSUME m > n PROVE w.names[m] \notin ids
    OBVIOUS
  <2>2. m \in Nat /\ n \in Nat /\ w.names[m] \in ChosenIds
    BY <1>8, <1>9, <1>7, WantedAssumption
  <2>3. w.names[m] \notin w.ids BY <1>2, <1>8, <1>9, <2>1, <2>2
  <2>4. w.names[m] # id
    <3>1. CASE n \in DOMAIN w.names
      <4>1. w.names[m] # w.names[n] BY <1>8, <2>1, <2>2, <3>1 DEF IsInjective
      <4>2. QED BY <1>11, <3>1, <4>1
    <3>2. CASE n \notin DOMAIN w.names
      BY <1>7, <1>11, <2>2, <3>2, WantedAssumption
    <3>3. QED BY <3>1, <3>2
  <2>5. QED BY <1>4, <2>3, <2>4
<1>22. /\ state.at = "putting" =>
            state = [at |-> "putting", key |-> w.key, names |-> w.names, run |-> w.run, ids |-> ids]
       /\ state.at \in {"putting", "answered", "failed"}
       /\ state.at = "answered" => state.ids = ids /\ n + 1 \notin Outputs
       /\ state.at # "failed" => id \notin DOMAIN artifacts
  BY <1>6, <1>7, <1>8 DEF Failed
<1>23. SoundBuilder(state)'
  <2>1. CASE state.at = "putting"
    <3>1. \A x \in DOMAIN artifacts' :
            artifacts'[x].key \in ToolKeys /\ artifacts'[x].run = w.run
            => artifacts'[x].output <= n
      BY <1>2, <1>7, <1>9, <1>10, <1>13, <1>14, <1>22, <2>1
    <3>2. ids \subseteq KnownIds' /\ w.run \in 1 .. drawn' BY <1>4, <1>8, <1>12
    <3>3. /\ state.key = w.key /\ state.run = w.run /\ state.ids = ids /\ state.names = w.names
          /\ state = [at |-> "putting", key |-> state.key, names |-> state.names,
                      run |-> state.run, ids |-> state.ids]
      BY <1>22, <2>1
    <3>4. QED BY <1>8, <1>20, <1>21, <2>1, <3>1, <3>2, <3>3 DEF SoundBuilder, BuilderPlaces
  <2>2. CASE state.at \in {"answered", "failed"}
    BY <2>2 DEF SoundBuilder, BuilderPlaces
  <2>3. QED BY <1>22, <2>1, <2>2
<1>24. state.at = "putting" => builder[b].at = "putting" /\ state.run = builder[b].run
  BY <1>1, <1>7, <1>22
<1>25. DerivationInv'
  BY <1>7, <1>15, <1>16, <1>17, <1>18, <1>23, <1>24, BuilderMoves
<1>26. state.at = "answered" => n = Cardinality(Outputs)
  <2>1. Outputs = 1 .. Cardinality(Outputs) BY OutputsAssumption
  <2>2. QED BY <1>7, <1>9, <1>22, <2>1
<1>27. builder'[b] = state BY <1>7 DEF DerivationInv
<1>28. QED BY <1>20, <1>22, <1>25, <1>26, <1>27

(* A whole group has as many artifacts as a run has outputs. *)
LEMMA WholeGroups ==
  ASSUME ArtifactsAreSound, NEW key \in ToolKeys, NEW run,
         CompleteCachedResult(GroupOf(key, run))
  PROVE  Cardinality(GroupOf(key, run)) = Cardinality(Outputs)
<1>1. PICK group : group = GroupOf(key, run)
  OBVIOUS
<1>2. PICK f : f = [id \in group |-> artifacts[id].output]
  OBVIOUS
<1>3. {f[id] : id \in group} = Outputs BY <1>1, <1>2 DEF CompleteCachedResult
<1>4. \A id \in group : /\ id \in DOMAIN artifacts /\ artifacts[id].key = key
                        /\ artifacts[id].run = run
  BY <1>1 DEF GroupOf, DerivationsOf
<1>5. \A x, y \in group : f[x] = f[y] => x = y
  BY <1>2, <1>4 DEF ArtifactsAreSound, ArtifactIsSound
<1>6. f \in Bijection(group, Outputs)
  BY <1>2, <1>3, <1>5 DEF Bijection, Injection, Surjection, IsInjective
<1>7. f \in Injection(group, Outputs) /\ f \in Surjection(group, Outputs)
  BY <1>6 DEF Bijection
<1>8. Cardinality(group) = Cardinality(Outputs)
  BY <1>7, OutputsAssumption, FS_Injection
<1>9. QED BY <1>1, <1>8

(* A request for a tool's outputs looks for a whole group of them. *)
LEMMA SearchesToolsStep ==
  ASSUME DerivationInv, NEW b \in Builders, SearchesTools(b)
  PROVE  /\ DerivationInv'
         /\ builder'[b].at = "answered" =>
              /\ builder'[b].ids \subseteq DOMAIN artifacts
              /\ Cardinality(builder'[b].ids) = Cardinality(Outputs)
<1>1. PICK key : key = builder[b].key
  OBVIOUS
<1>2. PICK complete :
        complete = {r \in RunsOf(key) : /\ CompleteCachedResult(GroupOf(key, r))
                                        /\ OutputIdsMatch(GroupOf(key, r), builder[b].names)}
  OBVIOUS
<1>3. PICK r : r = CHOOSE x \in complete : \A y \in complete : x <= y
  OBVIOUS
<1>4. PICK state : state = IF complete = {} THEN Checks("check", key, builder[b].names)
                           ELSE [at |-> "answered", key |-> key, ids |-> GroupOf(key, r)]
  OBVIOUS
<1>5. /\ builder[b].at = "search" /\ SoundBuilder(builder[b])
      /\ builder' = [builder EXCEPT ![b] = state]
      /\ UNCHANGED <<artifacts, index, unlisted, drawn>>
  BY <1>1, <1>2, <1>3, <1>4 DEF DerivationInv, BuilderIsSound, SearchesTools, BuilderAt, Moves,
     OnlyMoves
<1>6. key \in ToolKeys /\ builder[b].names \in Wanted
  BY <1>1, <1>5 DEF SoundBuilder
<1>7. SoundBuilder(state) /\ state.at # "putting"
  BY <1>4, <1>6 DEF SoundBuilder, BuilderPlaces, Checks
<1>8. DerivationInv' BY <1>5, <1>7, QuietBuilderStep, Zenon
<1>9. builder'[b] = state BY <1>5 DEF DerivationInv
<1>10. CASE state.at = "answered"
  <2>1. complete # {} /\ state.ids = GroupOf(key, r) BY <1>4, <1>10 DEF Checks
  <2>2. complete \subseteq Nat
    <3>1. RunsOf(key) \subseteq Nat
      BY <1>6 DEF RunsOf, DerivationsOf, DerivationInv, ArtifactsAreSound, ArtifactIsSound
    <3>2. QED BY <1>2, <3>1
  <2>3. r \in complete
    <3>1. \E x \in complete : \A y \in complete : x <= y BY <2>1, <2>2, LeastId
    <3>2. QED BY <1>3, <3>1
  <2>4. CompleteCachedResult(GroupOf(key, r)) BY <1>2, <2>3
  <2>5. Cardinality(GroupOf(key, r)) = Cardinality(Outputs)
    BY <1>6, <2>4, WholeGroups DEF DerivationInv
  <2>6. GroupOf(key, r) \subseteq DOMAIN artifacts BY DEF GroupOf, DerivationsOf
  <2>7. QED BY <1>8, <1>9, <2>1, <2>5, <2>6
<1>11. QED BY <1>8, <1>9, <1>10

(* The process restarts: the index and the requests are gone. *)
LEMMA RestartsStep ==
  ASSUME DerivationInv, Restarts
  PROVE  DerivationInv'
<1>1. /\ index' = NoIndex /\ builder' = [b \in Builders |-> NoBuild]
      /\ UNCHANGED <<artifacts, drawn>>
  BY DEF Restarts
<1>2. \A b \in Builders : builder'[b].at = "rest" /\ BuilderIsSound(b)'
  BY <1>1 DEF BuilderIsSound, SoundBuilder, BuilderPlaces, NoBuild
<1>3. ArtifactsAreSound'
  BY <1>1 DEF DerivationInv, KnownIds, ArtifactsAreSound, ArtifactIsSound
<1>4. IndexIsSound' /\ AllReported' /\ RunsAreApart'
  BY <1>1, <1>2 DEF IndexIsSound, AllReported, RunsAreApart
<1>5. builder' = [b \in Builders |-> builder'[b]] BY <1>1
<1>6. QED BY <1>2, <1>3, <1>4, <1>5 DEF DerivationInv

(* An artifact is swept. *)
LEMMA SweepsStep ==
  ASSUME DerivationInv, NEW id \in DOMAIN artifacts, Sweeps(id)
  PROVE  DerivationInv'
<1>1. /\ artifacts' = [x \in DOMAIN artifacts \ {id} |-> artifacts[x]]
      /\ UNCHANGED <<index, builder, unlisted, drawn>>
  BY DEF Sweeps
<1>2. /\ DOMAIN artifacts' = DOMAIN artifacts \ {id}
      /\ \A x \in DOMAIN artifacts' : artifacts'[x] = artifacts[x]
  BY <1>1
<1>3. \A x \in DOMAIN artifacts' : ArtifactIsSound(x)'
  BY <1>1, <1>2 DEF DerivationInv, KnownIds, ArtifactsAreSound, ArtifactIsSound
<1>4. ArtifactsAreSound'
  BY <1>1, <1>2, <1>3 DEF DerivationInv, ArtifactsAreSound, KnownIds
<1>5. IndexIsSound' /\ RunsAreApart'
  BY <1>1 DEF DerivationInv, IndexIsSound, RunsAreApart
<1>6. AllReported' BY <1>1, <1>2 DEF DerivationInv, AllReported, Reported
<1>7. \A b \in Builders : BuilderIsSound(b)'
  BY <1>1, <1>2 DEF DerivationInv, BuilderIsSound, SoundBuilder, KnownIds
<1>8. QED BY <1>1, <1>4, <1>5, <1>6, <1>7 DEF DerivationInv

(* At first nothing is stored and nobody asks. *)
LEMMA DerivationStarts ==
  ASSUME DerivationInit
  PROVE  DerivationInv
<1>1. /\ DOMAIN artifacts = {} /\ artifacts = << >> /\ index = NoIndex /\ drawn = 0
      /\ builder = [b \in Builders |-> NoBuild]
  BY DEF DerivationInit
<1>2. \A b \in Builders : builder[b].at = "rest" /\ BuilderIsSound(b)
  BY <1>1 DEF BuilderIsSound, SoundBuilder, BuilderPlaces, NoBuild
<1>3. ArtifactsAreSound BY <1>1 DEF ArtifactsAreSound
<1>4. QED BY <1>1, <1>2, <1>3 DEF DerivationInv, IndexIsSound, RunsAreApart, AllReported

(* Every step keeps what the requests and the index rest on. *)
LEMMA DerivationSteps ==
  ASSUME DerivationInv, [DerivationNext]_derivationVars
  PROVE  DerivationInv'
<1>1. CASE DerivationNext
  <2>1. ASSUME NEW b \in Builders, NEW key \in Keys \cup ToolKeys, NEW names \in Wanted,
               NEW reuse \in BOOLEAN, Requests(b, key, names, reuse)
        PROVE  DerivationInv'
    BY <2>1, RequestsStep
  <2>2. ASSUME NEW b \in Builders, \/ Finds(b) \/ Seeds(b) \/ ListsStored(b) \/ ListFails(b)
                                   \/ Seeded(b)
        PROVE  DerivationInv'
    BY <2>2, FindsStep, SeedsStep, ListsStoredStep, ListFailsStep, SeededStep
  <2>3. ASSUME NEW b \in Builders, \/ Compiles(b) \/ Registers(b) \/ SearchesTools(b)
                                   \/ RunsTool(b) \/ DrawsResultId(b) \/ PutsOutput(b)
                                   \/ \E n \in Outputs : ChecksId(b, n)
        PROVE  DerivationInv'
    BY <2>3, CompilesStep, RegistersStep, SearchesToolsStep, RunsToolStep, DrawsResultIdStep,
       PutsOutputStep, ChecksIdStep
  <2>4. QED BY <1>1, <2>1, <2>2, <2>3, RestartsStep, SweepsStep DEF DerivationNext
<1>2. CASE UNCHANGED derivationVars
  <2>1. UNCHANGED <<artifacts, index, builder, unlisted, drawn>>
    BY <1>2 DEF derivationVars
  <2>2. QED
    BY <2>1 DEF DerivationInv, KnownIds, ArtifactsAreSound, ArtifactIsSound, IndexIsSound, BuilderIsSound,
       SoundBuilder, RunsAreApart, AllReported, Reported
<1>3. QED BY <1>1, <1>2

(* The index, the listings, the makers and the runs are sound together     *)
(* (compilation-service.js, toolchain-service.js).                         *)
THEOREM DerivationInvariance == DerivationSpec => []DerivationInv
<1>1. DerivationInit => DerivationInv BY DerivationStarts
<1>2. DerivationInv /\ [DerivationNext]_derivationVars => DerivationInv'
  BY DerivationSteps
<1>3. QED BY <1>1, <1>2, PTL DEF DerivationSpec

(* The types of Derivations. *)
THEOREM DerivationTypeCorrect == DerivationSpec => []DerivationTypeOK
<1>1. DerivationInv => DerivationTypeOK
  BY DEF DerivationInv, KnownIds, ArtifactsAreSound, ArtifactIsSound, IndexIsSound, BuilderIsSound,
     SoundBuilder, BuilderPlaces, DerivationTypeOK
<1>2. QED BY <1>1, DerivationInvariance, PTL

(* An artifact whose maker has returned is found by the next request: when *)
(* no listing is on its way the index has every key that has one           *)
(* (findReusableArtifact, #indexReusableArtifact).                         *)
THEOREM DerivationsAreFound == DerivationSpec => []NoDerivationIsForgotten
<1>1. DerivationInv => NoDerivationIsForgotten
  BY DEF DerivationInv, AllReported, Reported, NoDerivationIsForgotten, BuilderAt
<1>2. QED BY <1>1, DerivationInvariance, PTL

(* What a step of a builder answers with is whole. *)
LEMMA AnswersAreWhole ==
  ASSUME DerivationInv, [DerivationNext]_derivationVars, NEW b \in Builders,
         builder[b].at \in {"search", "putting"}, builder'[b].at = "answered"
  PROVE  /\ builder[b].at = "putting" \/ builder'[b].ids \subseteq DOMAIN artifacts
         /\ Cardinality(builder'[b].ids) = Cardinality(Outputs)
<1>1. builder'[b] # builder[b] OBVIOUS
<1>2. ASSUME NEW d \in Builders, NEW state, Moves(d, state)
      PROVE  d = b
  BY <1>1, <1>2 DEF Moves, DerivationInv
<1>3. DerivationNext BY <1>1 DEF derivationVars
<1>4. ~Restarts
  <2>1. Restarts => builder'[b].at = "rest" BY DEF Restarts, NoBuild
  <2>2. QED BY <2>1
<1>5. \A id \in DOMAIN artifacts : ~Sweeps(id) BY <1>1 DEF Sweeps
<1>6. ASSUME NEW d \in Builders, NEW key \in Keys \cup ToolKeys, NEW names \in Wanted,
             NEW reuse \in BOOLEAN, Requests(d, key, names, reuse)
      PROVE  FALSE
  <2>1. d = b BY <1>2, <1>6 DEF Requests
  <2>2. QED BY <1>6, <2>1 DEF Requests
<1>7. ASSUME NEW d \in Builders, \/ Finds(d) \/ Seeds(d) \/ ListsStored(d) \/ ListFails(d)
                                 \/ Seeded(d) \/ Compiles(d) \/ Registers(d) \/ RunsTool(d)
                                 \/ DrawsResultId(d) \/ \E n \in Outputs : ChecksId(d, n)
      PROVE  FALSE
  <2>1. d = b
    BY <1>2, <1>7 DEF Finds, Seeds, ListsStored, ListFails, Seeded, Compiles, Registers, RunsTool,
       DrawsResultId, ChecksId
  <2>2. builder[d].at \in {"find", "list", "listed", "compile", "stored", "check", "recheck"}
    BY <1>7 DEF Finds, Seeds, ListsStored, ListFails, Seeded, Compiles, Registers, RunsTool,
       DrawsResultId, ChecksId, BuilderAt
  <2>3. QED BY <2>1, <2>2
<1>8. PICK d \in Builders : SearchesTools(d) \/ PutsOutput(d)
  BY <1>3, <1>4, <1>5, <1>6, <1>7 DEF DerivationNext
<1>9. d = b /\ (PutsOutput(d) => builder[d].at = "putting")
  BY <1>2, <1>8 DEF SearchesTools, PutsOutput, BuilderAt
<1>10. QED BY <1>8, <1>9, SearchesToolsStep, PutsOutputStep

(* A result of a tool that is handed out, its own or one to reuse, is all  *)
(* the outputs of one run (completeCachedResult, storeOutputs).            *)
THEOREM ToolResultsStayWhole == DerivationSpec => ToolResultsAreWhole
<1>1. DerivationInv /\ [DerivationNext]_derivationVars =>
        [\A b \in Builders :
           (builder[b].at \in {"search", "putting"} /\ builder'[b].at = "answered") =>
             /\ builder[b].at = "putting" \/ builder'[b].ids \subseteq DOMAIN artifacts
             /\ Cardinality(builder'[b].ids) = Cardinality(Outputs)]_derivationVars
  BY AnswersAreWhole
<1>2. QED BY <1>1, DerivationInvariance, PTL DEF DerivationSpec, ToolResultsAreWhole

----------------------------------------
(* Migrations.  An object has the slots of its shape. *)
IsMovable(x) ==
  /\ x = [shape |-> x.shape, slots |-> x.slots, indexed |-> x.indexed, version |-> x.version]
  /\ x.shape \in DOMAIN Shapes
  /\ x.slots \in [IdsOf(x.shape) -> Values]
  /\ x.version \in Nat \ {0}

(* A listing is of the objects as they were: one that is at the version it *)
(* was listed with is what was listed.                                     *)
ListingOf(w, objectsNow) ==
  \A o \in Movables :
    /\ IsMovable(w.listed[o])
    /\ w.listed[o].version <= objectsNow[o].version
    /\ w.listed[o].version = objectsNow[o].version => objectsNow[o] = w.listed[o]

SoundRun(w) ==
  \/ w = [at |-> "rest"]
  \/ /\ w = [at |-> "puts", request |-> w.request, listed |-> w.listed, left |-> w.left]
     /\ w.request \in MigrationRequests /\ Plannable(w.request)
     /\ w.left \subseteq Movables
     /\ \A o \in w.left : w.listed[o].shape = w.request.from
     /\ ListingOf(w, movable)

RunIsSound(r) == SoundRun(runner[r])

MigrationInv ==
  /\ movable = [o \in Movables |-> movable[o]] /\ \A o \in Movables : IsMovable(movable[o])
  /\ runner = [r \in Runners |-> runner[r]] /\ \A r \in Runners : RunIsSound(r)

(* Objects move on: a version goes up with every write. *)
ObjectsMigrate ==
  \A o \in Movables :
    /\ movable[o].version \in Nat /\ movable'[o].version \in Nat
    /\ movable'[o] = movable[o] \/ movable[o].version < movable'[o].version

(* A run stays sound while objects are written. *)
LEMMA RunStays ==
  ASSUME NEW w, SoundRun(w), ObjectsMigrate
  PROVE  SoundRun(w)'
<1>1. CASE w = [at |-> "rest"]
  BY <1>1 DEF SoundRun
<1>2. CASE /\ w = [at |-> "puts", request |-> w.request, listed |-> w.listed, left |-> w.left]
           /\ w.request \in MigrationRequests /\ Plannable(w.request)
           /\ w.left \subseteq Movables
           /\ \A o \in w.left : w.listed[o].shape = w.request.from
           /\ ListingOf(w, movable)
  <2>1. ASSUME NEW o \in Movables
        PROVE  /\ w.listed[o].version <= movable'[o].version
               /\ w.listed[o].version = movable'[o].version => movable'[o] = w.listed[o]
    <3>1. /\ w.listed[o].version \in Nat /\ w.listed[o].version <= movable[o].version
          /\ w.listed[o].version = movable[o].version => movable[o] = w.listed[o]
      BY <1>2 DEF ListingOf, IsMovable
    <3>2. /\ movable[o].version \in Nat /\ movable'[o].version \in Nat
          /\ movable'[o] = movable[o] \/ movable[o].version < movable'[o].version
      BY DEF ObjectsMigrate
    <3>3. QED BY <3>1, <3>2
  <2>2. ListingOf(w, movable)' BY <1>2, <2>1 DEF ListingOf
  <2>3. QED BY <1>2, <2>2 DEF SoundRun
<1>3. QED BY <1>1, <1>2 DEF SoundRun

(* A slot that the plan fills has a place to come from, in the old record. *)
LEMMA SourcesAreSlots ==
  ASSUME NEW request \in MigrationRequests, NEW slot, SourceOf(request, slot) # {}
  PROVE  (CHOOSE s \in SourceOf(request, slot) : TRUE).id \in IdsOf(request.from)
<1>1. SourceOf(request, slot) \subseteq Shapes[request.from].slots
  BY DEF SourceOf, SlotNamed
<1>2. QED BY <1>1 DEF IdsOf

(* A slot is found by its identity. *)
LEMMA SlotsAreFound ==
  ASSUME NEW shape \in DOMAIN Shapes, NEW slot \in Shapes[shape].slots
  PROVE  (CHOOSE s \in Shapes[shape].slots : s.id = slot.id) = slot
<1>1. (CHOOSE s \in Shapes[shape].slots : s.id = slot.id) \in Shapes[shape].slots
  OBVIOUS
<1>2. (CHOOSE s \in Shapes[shape].slots : s.id = slot.id).id = slot.id OBVIOUS
<1>3. QED BY <1>1, <1>2, ShapesAssumption

(* A migrated record has the slots of the target, and what was not mapped  *)
(* and is in both shapes has kept its value.                               *)
LEMMA MigratedSlots ==
  ASSUME NEW request \in MigrationRequests, Plannable(request),
         NEW object, IsMovable(object), object.shape = request.from
  PROVE  /\ Migrated(request, object).shape = request.to
         /\ Migrated(request, object).slots \in [IdsOf(request.to) -> Values]
         /\ \A slot \in Shapes[request.to].slots :
              ~MapsExplicitly(request, slot) /\ slot.id \in DOMAIN object.slots
              => Migrated(request, object).slots[slot.id] = object.slots[slot.id]
<1> DEFINE Filled(id) ==
             LET slot == CHOOSE s \in Shapes[request.to].slots : s.id = id
                 source == SourceOf(request, slot)
             IN IF source = {} THEN request.default
                ELSE object.slots[(CHOOSE s \in source : TRUE).id]
<1>1. /\ Migrated(request, object).shape = request.to
      /\ Migrated(request, object).slots = [id \in IdsOf(request.to) |-> Filled(id)]
  BY DEF Migrated
<1>2. /\ request.from \in DOMAIN Shapes /\ request.to \in DOMAIN Shapes
      /\ request.default \in Values \cup {NoDefault}
      /\ object.slots \in [IdsOf(request.from) -> Values]
  BY ShapesAssumption DEF IsMovable
<1>3. ASSUME NEW slot \in Shapes[request.to].slots
      PROVE  /\ slot.id \in IdsOf(request.to)
             /\ Filled(slot.id) =
                  IF SourceOf(request, slot) = {} THEN request.default
                  ELSE object.slots[(CHOOSE s \in SourceOf(request, slot) : TRUE).id]
  <2>1. PICK found : found = CHOOSE s \in Shapes[request.to].slots : s.id = slot.id
    OBVIOUS
  <2>2. Filled(slot.id) = IF SourceOf(request, found) = {} THEN request.default
                          ELSE object.slots[(CHOOSE s \in SourceOf(request, found) : TRUE).id]
    BY <2>1
  <2>3. found = slot BY <1>2, <2>1, SlotsAreFound
  <2>4. slot.id \in IdsOf(request.to) BY DEF IdsOf
  <2> HIDE DEF Filled
  <2>5. QED BY <2>2, <2>3, <2>4
<1> HIDE DEF Filled
<1>4. ASSUME NEW slot \in Shapes[request.to].slots
      PROVE  Filled(slot.id) \in Values
  <2>1. CASE SourceOf(request, slot) = {}
    BY <1>2, <1>3, <2>1 DEF Plannable
  <2>2. CASE SourceOf(request, slot) # {}
    BY <1>2, <1>3, <2>2, SourcesAreSlots
  <2>3. QED BY <2>1, <2>2
<1>5. \A id \in IdsOf(request.to) : Filled(id) \in Values BY <1>4 DEF IdsOf
<1>6. ASSUME NEW slot \in Shapes[request.to].slots,
             ~MapsExplicitly(request, slot), slot.id \in DOMAIN object.slots
      PROVE  Filled(slot.id) = object.slots[slot.id]
  <2>1. PICK s \in Shapes[request.from].slots : s.id = slot.id
    BY <1>2, <1>6 DEF IdsOf
  <2>2. SourceOf(request, slot) = {x \in Shapes[request.from].slots : x.id = slot.id}
    BY <1>6, <2>1 DEF SourceOf, MapsExplicitly
  <2>3. SourceOf(request, slot) # {} BY <2>1, <2>2
  <2>4. (CHOOSE x \in SourceOf(request, slot) : TRUE) \in SourceOf(request, slot)
    BY <2>3
  <2>5. (CHOOSE x \in SourceOf(request, slot) : TRUE).id = slot.id BY <2>2, <2>4
  <2>6. QED BY <1>3, <2>3, <2>5
<1>7. QED BY <1>1, <1>3, <1>5, <1>6

(* The object a run puts next. *)
LEMMA NextToPut ==
  ASSUME NEW S, S \subseteq Movables, S # {}
  PROVE  (CHOOSE x \in S : \A y \in S : x <= y) \in S
<1>1. S \subseteq Nat BY ShapesAssumption
<1>2. \E x \in S : \A y \in S : x <= y BY <1>1, LeastId
<1>3. QED BY <1>2

(* Every run stays sound when one of them moves and objects are written. *)
LEMMA RunMoves ==
  ASSUME MigrationInv, NEW r \in Runners, NEW run, ObjectsMigrate,
         runner' = [runner EXCEPT ![r] = run], SoundRun(run)',
         movable' = [o \in Movables |-> movable'[o]],
         \A o \in Movables : IsMovable(movable'[o])
  PROVE  MigrationInv'
<1>1. runner'[r] = run /\ \A q \in Runners \ {r} : runner'[q] = runner[q]
  BY DEF MigrationInv
<1>2. ASSUME NEW q \in Runners \ {r}
      PROVE  RunIsSound(q)'
  <2>1. PICK w : w = runner[q]
    OBVIOUS
  <2>2. SoundRun(w)' BY <2>1, RunStays DEF MigrationInv, RunIsSound
  <2>3. runner'[q] = w BY <1>1, <2>1
  <2>4. QED BY <2>2, <2>3 DEF RunIsSound
<1>3. \A q \in Runners : RunIsSound(q)'
  <2>1. RunIsSound(r)' BY <1>1 DEF RunIsSound
  <2>2. QED BY <1>2, <2>1
<1>4. runner' = [q \in Runners |-> runner'[q]] BY DEF MigrationInv
<1>5. \A o \in Movables : IsMovable(movable[o])' BY DEF IsMovable
<1>6. QED BY <1>3, <1>4, <1>5 DEF MigrationInv

(* A migration is planned: one listing. *)
LEMMA PlansStep ==
  ASSUME MigrationInv, NEW r \in Runners, NEW request \in MigrationRequests, Plans(r, request)
  PROVE  MigrationInv'
<1>1. PICK left : left = IF request.from = request.to THEN {}
                         ELSE {o \in Movables : movable[o].shape = request.from}
  OBVIOUS
<1>2. PICK listed : listed = movable
  OBVIOUS
<1>3. PICK run : run = [at |-> "puts", request |-> request, listed |-> listed, left |-> left]
  OBVIOUS
<1>4. runner' = [runner EXCEPT ![r] = run] /\ UNCHANGED movable /\ Plannable(request)
  BY <1>1, <1>2, <1>3 DEF Plans
<1>5. \A o \in Movables : IsMovable(movable[o]) /\ movable[o].version \in Nat
  BY DEF MigrationInv, IsMovable
<1>6. ListingOf(run, movable) BY <1>2, <1>3, <1>5 DEF ListingOf
<1>7. SoundRun(run) BY <1>1, <1>2, <1>3, <1>4, <1>6 DEF SoundRun
<1>8. SoundRun(run)' BY <1>4, <1>7 DEF SoundRun
<1>9. ObjectsMigrate BY <1>4, <1>5 DEF ObjectsMigrate
<1>10. QED BY <1>4, <1>5, <1>8, <1>9, RunMoves DEF MigrationInv

(* A run puts the record of one object. *)
LEMMA PutsMigratedStep ==
  ASSUME MigrationInv, NEW r \in Runners, PutsMigrated(r)
  PROVE  /\ MigrationInv'
         /\ \A q \in Runners : q # r => runner'[q] = runner[q]
         /\ \A o \in Movables :
              /\ runner[r].left \ runner'[r].left = {o}
              /\ runner[r].listed[o].version = movable[o].version
              => \A slot \in Shapes[movable'[o].shape].slots :
                   /\ ~MapsExplicitly(runner[r].request, slot)
                   /\ slot.id \in DOMAIN movable[o].slots
                   => movable'[o].slots[slot.id] = movable[o].slots[slot.id]
<1>1. PICK w : w = runner[r]
  OBVIOUS
<1>2. PICK o : o = CHOOSE x \in w.left : \A y \in w.left : x <= y
  OBVIOUS
<1>3. PICK record : record = Migrated(w.request, w.listed[o])
  OBVIOUS
<1>4. PICK new : new = [shape |-> record.shape, slots |-> record.slots,
                        indexed |-> record.indexed, version |-> movable[o].version + 1]
  OBVIOUS
<1>5. PICK left : left = w.left \ {o}
  OBVIOUS
<1>6. /\ w.at = "puts" /\ w.left # {} /\ SoundRun(w)
      /\ movable' = [movable EXCEPT ![o] = new]
      /\ runner' = [runner EXCEPT ![r].left = left]
  BY <1>1, <1>2, <1>3, <1>4, <1>5 DEF PutsMigrated, MigrationInv, RunIsSound
<1>7. /\ w = [at |-> "puts", request |-> w.request, listed |-> w.listed, left |-> w.left]
      /\ w.request \in MigrationRequests /\ Plannable(w.request)
      /\ w.left \subseteq Movables
      /\ \A x \in w.left : w.listed[x].shape = w.request.from
      /\ ListingOf(w, movable)
  BY <1>6 DEF SoundRun
<1>8. o \in w.left /\ o \in Movables BY <1>2, <1>6, <1>7, NextToPut
<1>9. IsMovable(w.listed[o]) /\ w.listed[o].shape = w.request.from
  BY <1>7, <1>8 DEF ListingOf
<1>10. /\ record.shape = w.request.to
       /\ record.slots \in [IdsOf(w.request.to) -> Values]
       /\ \A slot \in Shapes[w.request.to].slots :
            ~MapsExplicitly(w.request, slot) /\ slot.id \in DOMAIN w.listed[o].slots
            => record.slots[slot.id] = w.listed[o].slots[slot.id]
  BY <1>3, <1>7, <1>9, MigratedSlots
<1>11. /\ movable[o].version \in Nat \ {0} /\ w.request.to \in DOMAIN Shapes
       /\ \A x \in Movables : IsMovable(movable[x]) /\ movable[x].version \in Nat
  BY <1>7, <1>8, ShapesAssumption DEF MigrationInv, IsMovable
<1>12. IsMovable(new) /\ new.version = movable[o].version + 1
  BY <1>4, <1>10, <1>11 DEF IsMovable
<1>13. /\ movable' = [x \in Movables |-> movable'[x]]
       /\ movable'[o] = new /\ \A x \in Movables \ {o} : movable'[x] = movable[x]
  BY <1>6, <1>8 DEF MigrationInv
<1>14. \A x \in Movables : IsMovable(movable'[x]) BY <1>11, <1>12, <1>13
<1>15. ObjectsMigrate
  <2>1. movable[o].version < new.version /\ new.version \in Nat BY <1>11, <1>12
  <2>2. QED BY <1>11, <1>13, <2>1 DEF ObjectsMigrate
<1>16. PICK run : run = [at |-> "puts", request |-> w.request, listed |-> w.listed, left |-> left]
  OBVIOUS
<1>17. runner' = [runner EXCEPT ![r] = run]
  <2>1. runner' = [runner EXCEPT ![r] = [w EXCEPT !.left = left]] BY <1>1, <1>6
  <2>2. [w EXCEPT !.left = left] = run BY <1>7, <1>16
  <2>3. QED BY <2>1, <2>2
<1>18. SoundRun(run)'
  <2>1. SoundRun(w)' BY <1>6, <1>15, RunStays
  <2>2. ListingOf(w, movable)' BY <1>6, <2>1 DEF SoundRun
  <2>3. run.listed = w.listed /\ run.left = left /\ run.request = w.request
    BY <1>16
  <2>4. ListingOf(run, movable)' BY <2>2, <2>3 DEF ListingOf
  <2>5. QED BY <1>5, <1>7, <1>16, <2>3, <2>4 DEF SoundRun
<1>19. MigrationInv' BY <1>13, <1>14, <1>15, <1>17, <1>18, RunMoves
<1>20. \A q \in Runners : q # r => runner'[q] = runner[q]
  BY <1>17 DEF MigrationInv
<1>21. runner'[r].left = left BY <1>16, <1>17 DEF MigrationInv
<1>22. ASSUME NEW x \in Movables, runner[r].left \ runner'[r].left = {x},
              runner[r].listed[x].version = movable[x].version,
              NEW slot \in Shapes[movable'[x].shape].slots,
              ~MapsExplicitly(runner[r].request, slot), slot.id \in DOMAIN movable[x].slots
       PROVE  movable'[x].slots[slot.id] = movable[x].slots[slot.id]
  <2>1. x = o BY <1>1, <1>5, <1>8, <1>21, <1>22
  <2>2. movable[o] = w.listed[o] BY <1>1, <1>7, <1>8, <1>22, <2>1 DEF ListingOf
  <2>3. movable'[o].shape = w.request.to /\ movable'[o].slots = record.slots
    BY <1>4, <1>10, <1>13
  <2>4. QED BY <1>1, <1>10, <1>22, <2>1, <2>2, <2>3
<1>23. QED BY <1>19, <1>20, <1>22

(* A run ends, or is cut short. *)
LEMMA RunEnds ==
  ASSUME MigrationInv, NEW r \in Runners, Receipt(r) \/ CutShort(r)
  PROVE  MigrationInv'
<1>1. PICK run : run = [at |-> "rest"]
  OBVIOUS
<1>2. runner' = [runner EXCEPT ![r] = run] /\ UNCHANGED movable
  BY <1>1 DEF Receipt, CutShort
<1>3. \A o \in Movables : IsMovable(movable[o]) /\ movable[o].version \in Nat
  BY DEF MigrationInv, IsMovable
<1>4. SoundRun(run)' BY <1>1 DEF SoundRun
<1>5. ObjectsMigrate BY <1>2, <1>3 DEF ObjectsMigrate
<1>6. QED BY <1>2, <1>3, <1>4, <1>5, RunMoves DEF MigrationInv

(* Another client writes a slot. *)
LEMMA SetsSlotStep ==
  ASSUME MigrationInv, NEW o \in Movables, NEW id \in DOMAIN movable[o].slots,
         NEW value \in Values, SetsSlot(o, id, value)
  PROVE  MigrationInv'
<1>1. PICK x : x = movable[o]
  OBVIOUS
<1>2. /\ IsMovable(x)
      /\ x = [shape |-> x.shape, slots |-> x.slots, indexed |-> x.indexed, version |-> x.version]
      /\ x.shape \in DOMAIN Shapes /\ x.slots \in [IdsOf(x.shape) -> Values]
      /\ x.version \in Nat \ {0}
  BY <1>1 DEF MigrationInv, IsMovable
<1>3. PICK slots : slots = [x.slots EXCEPT ![id] = value]
  OBVIOUS
<1>4. PICK new : new = [shape |-> x.shape, slots |-> slots, indexed |-> x.indexed,
                        version |-> x.version + 1]
  OBVIOUS
<1>5. movable' = [movable EXCEPT ![o] = new] /\ UNCHANGED runner
  <2>1. /\ movable' = [movable EXCEPT ![o].slots[id] = value, ![o].version = @ + 1]
        /\ UNCHANGED runner
    BY DEF SetsSlot
  <2>2. PICK one : one = [movable EXCEPT ![o].slots[id] = value]
    OBVIOUS
  <2>3. one = [movable EXCEPT ![o] = [x EXCEPT !.slots = slots]]
    BY <1>1, <1>3, <2>2
  <2>4. movable' = [one EXCEPT ![o].version = @ + 1] BY <2>1, <2>2
  <2>5. [x EXCEPT !.slots = slots] =
          [shape |-> x.shape, slots |-> slots, indexed |-> x.indexed, version |-> x.version]
    BY <1>2
  <2>6. PICK y : y = [shape |-> x.shape, slots |-> slots, indexed |-> x.indexed,
                      version |-> x.version]
    OBVIOUS
  <2>7. one = [movable EXCEPT ![o] = y] /\ one[o] = y
    BY <2>3, <2>5, <2>6 DEF MigrationInv
  <2>8. movable' = [one EXCEPT ![o] = [y EXCEPT !.version = y.version + 1]]
    BY <2>4, <2>7
  <2>9. [y EXCEPT !.version = y.version + 1] = new BY <1>4, <2>6
  <2>10. movable' = [movable EXCEPT ![o] = new]
    BY <2>7, <2>8, <2>9 DEF MigrationInv
  <2>11. QED BY <2>1, <2>10
<1>6. IsMovable(new) /\ new.version = x.version + 1
  BY <1>1, <1>2, <1>3, <1>4 DEF IsMovable
<1>7. \A p \in Movables : IsMovable(movable[p]) /\ movable[p].version \in Nat
  BY DEF MigrationInv, IsMovable
<1>8. /\ movable' = [p \in Movables |-> movable'[p]]
      /\ movable'[o] = new /\ \A p \in Movables \ {o} : movable'[p] = movable[p]
  BY <1>5 DEF MigrationInv
<1>9. \A p \in Movables : IsMovable(movable'[p]) BY <1>6, <1>7, <1>8
<1>10. ObjectsMigrate
  <2>1. x.version < new.version /\ new.version \in Nat BY <1>2, <1>6
  <2>2. QED BY <1>1, <1>7, <1>8, <2>1 DEF ObjectsMigrate
<1>11. \A p \in Movables : IsMovable(movable[p])' BY <1>9 DEF IsMovable
<1>12. ASSUME NEW r \in Runners
       PROVE  RunIsSound(r)'
  <2>1. PICK w : w = runner[r]
    OBVIOUS
  <2>2. SoundRun(w)' BY <1>10, <2>1, RunStays DEF MigrationInv, RunIsSound
  <2>3. QED BY <1>5, <2>1, <2>2 DEF RunIsSound
<1>13. QED BY <1>5, <1>8, <1>11, <1>12 DEF MigrationInv

(* At first every object has the first shape, and nobody migrates. *)
LEMMA MigrationStarts ==
  ASSUME MigrationInit
  PROVE  MigrationInv
<1> DEFINE Fresh == {[shape |-> FirstShape, slots |-> slots, version |-> 1,
                      indexed |-> IF Shapes[FirstShape].indexed THEN Values ELSE {}] :
                       slots \in [IdsOf(FirstShape) -> Values]}
<1>1. movable \in [Movables -> Fresh] /\ runner = [r \in Runners |-> [at |-> "rest"]]
  BY DEF MigrationInit
<1>2. ASSUME NEW x \in Fresh
      PROVE  IsMovable(x)
  <2>1. PICK slots \in [IdsOf(FirstShape) -> Values] :
          x = [shape |-> FirstShape, slots |-> slots, version |-> 1,
               indexed |-> IF Shapes[FirstShape].indexed THEN Values ELSE {}]
    OBVIOUS
  <2>2. QED BY <2>1, ShapesAssumption DEF IsMovable
<1> HIDE DEF Fresh
<1>3. QED BY <1>1, <1>2 DEF MigrationInv, RunIsSound, SoundRun

(* Every step keeps the objects and the runs sound. *)
LEMMA MigrationSteps ==
  ASSUME MigrationInv, [MigrationNext]_migrationVars
  PROVE  MigrationInv'
<1>1. CASE MigrationNext
  BY <1>1, PlansStep, PutsMigratedStep, RunEnds, SetsSlotStep DEF MigrationNext
<1>2. CASE UNCHANGED migrationVars
  <2>1. UNCHANGED <<movable, runner>> BY <1>2 DEF migrationVars
  <2>2. \A o \in Movables : IsMovable(movable[o])'
    BY <2>1 DEF MigrationInv, IsMovable
  <2>3. \A r \in Runners : RunIsSound(r)'
    BY <2>1 DEF MigrationInv, RunIsSound, SoundRun, ListingOf, IsMovable
  <2>4. QED BY <2>1, <2>2, <2>3 DEF MigrationInv
<1>3. QED BY <1>1, <1>2

(* Objects, listings and plans are sound together (object/migration.js). *)
THEOREM MigrationInvariance == MigrationSpec => []MigrationInv
<1>1. MigrationInit => MigrationInv BY MigrationStarts
<1>2. MigrationInv /\ [MigrationNext]_migrationVars => MigrationInv'
  BY MigrationSteps
<1>3. QED BY <1>1, <1>2, PTL DEF MigrationSpec

(* The types of ShapeMigration. *)
THEOREM MigrationTypeCorrect == MigrationSpec => []MigrationTypeOK
<1>1. ASSUME MigrationInv
      PROVE  MigrationTypeOK
  <2>1. \A o \in Movables : IsMovable(movable[o]) BY <1>1 DEF MigrationInv
  <2>2. ASSUME NEW r \in Runners, runner[r].at = "puts"
        PROVE  runner[r].left \subseteq Movables
    <3>1. SoundRun(runner[r]) BY <1>1 DEF MigrationInv, RunIsSound
    <3>2. runner[r] # [at |-> "rest"] BY <2>2
    <3>3. QED BY <3>1, <3>2 DEF SoundRun
  <2>3. QED BY <2>1, <2>2 DEF IsMovable, MigrationTypeOK
<1>2. QED BY <1>1, MigrationInvariance, PTL

(* A step that takes an object off a run's list is that run's put. *)
LEMMA QuietPutsKeepSlots ==
  ASSUME MigrationInv, [MigrationNext]_migrationVars, NEW r \in Runners, NEW o \in Movables,
         runner[r].at = "puts", runner'[r].at = "puts",
         runner[r].left \ runner'[r].left = {o},
         runner[r].listed[o].version = movable[o].version
  PROVE  \A slot \in Shapes[movable'[o].shape].slots :
           /\ ~MapsExplicitly(runner[r].request, slot)
           /\ slot.id \in DOMAIN movable[o].slots
           => movable'[o].slots[slot.id] = movable[o].slots[slot.id]
<1>1. runner'[r] # runner[r] OBVIOUS
<1>2. MigrationNext BY <1>1 DEF migrationVars
<1>3. ASSUME NEW q \in Runners, NEW request \in MigrationRequests, Plans(q, request)
      PROVE  FALSE
  <2>1. runner[q] = [at |-> "rest"] /\ \A p \in Runners : p # q => runner'[p] = runner[p]
    BY <1>3 DEF Plans, MigrationInv
  <2>2. r # q BY <2>1
  <2>3. QED BY <1>1, <2>1, <2>2
<1>4. ASSUME NEW q \in Runners, Receipt(q) \/ CutShort(q)
      PROVE  FALSE
  <2>1. runner'[q] = [at |-> "rest"] /\ \A p \in Runners : p # q => runner'[p] = runner[p]
    BY <1>4 DEF Receipt, CutShort, MigrationInv
  <2>2. r # q BY <2>1
  <2>3. QED BY <1>1, <2>1, <2>2
<1>5. ASSUME NEW p \in Movables, NEW id \in DOMAIN movable[p].slots, NEW value \in Values,
             SetsSlot(p, id, value)
      PROVE  FALSE
  BY <1>1, <1>5 DEF SetsSlot
<1>6. PICK q \in Runners : PutsMigrated(q)
  BY <1>2, <1>3, <1>4, <1>5 DEF MigrationNext
<1>7. q = r BY <1>1, <1>6, PutsMigratedStep
<1>8. QED BY <1>6, <1>7, PutsMigratedStep

(* A put whose object nobody wrote since the listing keeps the slots that  *)
(* are in both shapes and not mapped (buildShapeSlotMigrationPlan).        *)
THEOREM QuietPutsAreKind == MigrationSpec => QuietMigrationsKeepSlots
<1>1. MigrationInv /\ [MigrationNext]_migrationVars =>
        [\A r \in Runners : \A o \in Movables :
           /\ runner[r].at = "puts"
           /\ runner'[r].at = "puts" /\ runner[r].left \ runner'[r].left = {o}
           /\ runner[r].listed[o].version = movable[o].version
           => \A slot \in Shapes[movable'[o].shape].slots :
                /\ ~MapsExplicitly(runner[r].request, slot)
                /\ slot.id \in DOMAIN movable[o].slots
                => movable'[o].slots[slot.id] = movable[o].slots[slot.id]]_migrationVars
  BY QuietPutsKeepSlots
<1>2. QED BY <1>1, MigrationInvariance, PTL DEF MigrationSpec, QuietMigrationsKeepSlots

----------------------------------------
(* What rests beside it does not change a part: a behaviour of the         *)
(* workspace is one of each of its parts.                                  *)
WorkspaceVars ==
  <<part, mergeVars, branchVars, projectVars, installVars, derivationVars, objectVars,
    migrationVars>>

(* A behaviour of the whole is one of each part. *)
LEMMA PartsAreThemselves ==
  WorkspaceSpec => /\ BranchesSpec /\ ProjectSpec /\ InstallSpec
                   /\ DerivationSpec /\ ObjectsSpec /\ MigrationSpec
<1>1. WorkspaceInit => /\ BranchesInit /\ ProjectInit /\ InstallInit
                       /\ DerivationInit /\ ObjectsInit /\ MigrationInit
  BY DEF WorkspaceInit
<1>2. [WorkspaceNext]_WorkspaceVars => [BranchesNext]_branchVars
  BY DEF WorkspaceNext, WorkspaceVars
<1>3. [WorkspaceNext]_WorkspaceVars => [ProjectNext]_projectVars
  BY DEF WorkspaceNext, WorkspaceVars
<1>4. [WorkspaceNext]_WorkspaceVars => [InstallNext]_installVars
  BY DEF WorkspaceNext, WorkspaceVars
<1>5. [WorkspaceNext]_WorkspaceVars => [DerivationNext]_derivationVars
  BY DEF WorkspaceNext, WorkspaceVars
<1>6. [WorkspaceNext]_WorkspaceVars => [ObjectsNext]_objectVars
  BY DEF WorkspaceNext, WorkspaceVars
<1>7. [WorkspaceNext]_WorkspaceVars => [MigrationNext]_migrationVars
  BY DEF WorkspaceNext, WorkspaceVars
<1>8. WorkspaceSpec => WorkspaceInit /\ [][WorkspaceNext]_WorkspaceVars
  BY PTL DEF WorkspaceSpec, WorkspaceVars
<1>9. QED BY <1>1, <1>2, <1>3, <1>4, <1>5, <1>6, <1>7, <1>8, PTL
     DEF BranchesSpec, ProjectSpec, InstallSpec, DerivationSpec, ObjectsSpec, MigrationSpec

(* The variables of every part have their types, whichever part runs. *)
THEOREM WorkspaceTypeCorrect == WorkspaceSpec => []WorkspaceTypeOK
<1>1. BranchesTypeOK /\ ProjectTypeOK /\ InstallTypeOK /\ DerivationTypeOK /\ ObjectsTypeOK
        /\ MigrationTypeOK => WorkspaceTypeOK
  BY DEF WorkspaceTypeOK
<1>2. QED BY <1>1, PartsAreThemselves, BranchesTypeCorrect, ProjectTypeCorrect, InstallTypeCorrect,
     DerivationTypeCorrect, ObjectsTypeCorrect, MigrationTypeCorrect, PTL

(* ReleasesAreWhole for any Projects and releases: a captured release is   *)
(* one moment of every image it drew on, an installed one is all there and *)
(* there once (release-capture.js, managed-installation.js).               *)
THEOREM ReleasesStayWhole == WorkspaceSpec => []ReleasesAreWhole
<1>1. ReleasesAreMoments /\ InstalledMeansCopied /\ LosersLeaveNothing => ReleasesAreWhole
  BY DEF ReleasesAreWhole
<1>2. QED
  BY <1>1, PartsAreThemselves, ReleasesStayMoments, InstallationsAreCopies, LosersAreClean, PTL

(* NothingIsOverlooked for any keys, builders, objects and observers: what *)
(* was registered is found again, and an observer hears of every change    *)
(* before its cursor or was refused it (compilation-service.js,            *)
(* image-observation-binding.js).                                          *)
THEOREM NothingStaysOverlooked == WorkspaceSpec => []NothingIsOverlooked
<1>1. NoDerivationIsForgotten /\ ObserversMissNothing => NothingIsOverlooked
  BY DEF NothingIsOverlooked
<1>2. QED BY <1>1, PartsAreThemselves, DerivationsAreFound, ObserversHearAll, PTL

(* StepsKeepWhatIsThere: no step of the workspace undoes another's, on a   *)
(* branch, in a Project, in an object or among a tool's outputs            *)
(* (branches.js, working-state.js, migration.js, toolchain-service.js).    *)
THEOREM StepsStayKind == WorkspaceSpec => StepsKeepWhatIsThere
BY PartsAreThemselves, AdvancesKeepTheChain, MergesGiveTheirPlan, LinksStay, ReferencesGrow,
   QuietPutsAreKind, ToolResultsStayWhole, PTL DEF StepsKeepWhatIsThere
========================================
