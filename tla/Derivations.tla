------------------------------ MODULE Derivations ------------------------------
(* Reuse of what a compiler or an external toolchain already derived            *)
(* (compilation/compilation-service.js, toolchain/toolchain-service.js and      *)
(* their derivation-cache.js).  A derivation is named by its key: the identity  *)
(* of the compiler or provider and everything the result depends on, so two     *)
(* requests with one key want the same artifacts.  A caller may choose the ids  *)
(* of some of them; an id that is taken by something else is refused.           *)
(* The compilation service keeps an index of one image's derivations in memory, *)
(* seeded by one listing of the image; the toolchain service lists the image at *)
(* every request and stores the outputs of a run one put after the other.       *)
(* Every await is a step, also between the moment a listing is read and the     *)
(* moment its reader goes on; the process may restart (the index and the calls  *)
(* are gone), a listing may fail, a collection may sweep an artifact.           *)
EXTENDS Naturals, FiniteSets, Functions, TLC

CONSTANTS
  Keys,            \* derivation keys of cacheable compilers
  ToolKeys,        \* derivation keys of cacheable providers
  Outputs,         \* 1 .. the number of outputs a provider's run has
  ChosenIds,       \* ids callers choose, apart from the drawn ones
  Wanted,          \* [some of Outputs -> ChosenIds]: the ids a request may ask for
  Builders,
  MaxBuilds, MaxRestarts, MaxListFailures, MaxSweeps   \* bounds of the instance

ASSUME OutputsAssumption ==
  IsFiniteSet(Outputs) /\ Outputs # {} /\ Outputs = 1 .. Cardinality(Outputs)

ASSUME WantedAssumption ==
  /\ ChosenIds \cap Nat = {}
  /\ \A names \in Wanted : DOMAIN names \subseteq Outputs /\ names \in [DOMAIN names -> ChosenIds]

VARIABLES
  artifacts,       \* [ids -> stored artifact]
  index,           \* the reuse index: NoIndex, or [keys -> the artifact's id]
  builder,         \* [builders -> where its request is]
  unlisted,        \* whether the listing that was to seed the index failed
  drawn,           \* the last fresh id
  builds, restarts, listFailures, sweeps
derivationVars == <<artifacts, index, builder, unlisted, drawn, builds, restarts,
                    listFailures, sweeps>>

NoIndex == [none |-> 0]
NoBuild == [at |-> "rest"]
Put(id, a) == [x \in DOMAIN artifacts \cup {id} |-> IF x = id THEN a ELSE artifacts[x]]
Moves(b, state) == builder' = [builder EXCEPT ![b] = state]
BuilderAt(b, at) == builder[b].at = at
Unbounded == UNCHANGED <<builds, restarts, listFailures, sweeps>>
OnlyMoves == UNCHANGED <<artifacts, index, unlisted, drawn>> /\ Unbounded
Failed == [at |-> "failed"]
IdOf(b, n) == IF n \in DOMAIN builder[b].names THEN builder[b].names[n] ELSE drawn + 1
Checks(at, key, names) == [at |-> at, key |-> key, names |-> names, left |-> DOMAIN names]

Requests(b, key, names, reuse) ==
  /\ builder[b].at \in {"rest", "answered", "failed"}
  /\ builds < MaxBuilds
  /\ builds' = builds + 1
  /\ Moves(b, IF key \in ToolKeys /\ ~ reuse THEN Checks("check", key, names)
              ELSE [at |-> IF key \in ToolKeys THEN "search" ELSE IF reuse THEN "find" ELSE "compile",
                    key |-> key, names |-> names])
  /\ UNCHANGED <<artifacts, index, unlisted, drawn, restarts, listFailures, sweeps>>

----------------------------------------
(* findReusableArtifact: the first request of an image installs the empty      *)
(* index and then lists the image; a request that finds an index looks no      *)
(* further.  #indexReusableArtifact keeps the entry that is there.             *)
DerivationsOf(key, stored) == {id \in DOMAIN stored : stored[id].key = key}

Indexed(entries, stored) ==
  LET keys == {k \in Keys : DerivationsOf(k, stored) # {}}
  IN [k \in DOMAIN entries \cup keys |->
        IF k \in DOMAIN entries THEN entries[k]
        ELSE CHOOSE id \in DerivationsOf(k, stored) : TRUE]

Found(b, entries) ==
  IF builder[b].key \in DOMAIN entries
    THEN [at |-> "answered", key |-> builder[b].key, ids |-> {entries[builder[b].key]}]
    ELSE [at |-> "compile", key |-> builder[b].key, names |-> builder[b].names]

Finds(b) ==
  /\ BuilderAt(b, "find")
  /\ index # NoIndex
  /\ Moves(b, Found(b, index))
  /\ OnlyMoves

Seeds(b) ==
  /\ BuilderAt(b, "find")
  /\ index = NoIndex
  /\ index' = <<>>
  /\ Moves(b, [builder[b] EXCEPT !.at = "list"])
  /\ UNCHANGED <<artifacts, unlisted, drawn>> /\ Unbounded

ListsStored(b) ==
  /\ BuilderAt(b, "list")
  /\ Moves(b, [at |-> "listed", key |-> builder[b].key, names |-> builder[b].names,
                 stored |-> artifacts])
  /\ OnlyMoves

ListFails(b) ==
  /\ BuilderAt(b, "list")
  /\ listFailures < MaxListFailures
  /\ listFailures' = listFailures + 1
  /\ unlisted' = TRUE
  /\ Moves(b, Failed)
  /\ UNCHANGED <<artifacts, index, drawn, builds, restarts, sweeps>>

Seeded(b) ==
  /\ BuilderAt(b, "listed")
  /\ index' = Indexed(index, builder[b].stored)
  /\ Moves(b, Found(b, index'))
  /\ UNCHANGED <<artifacts, unlisted, drawn>> /\ Unbounded

(* compileArtifact, compileGroup: the compiler's result is ensured at a fresh  *)
(* id or the caller's (ensureCodeArtifact, here with its outcome alone: what   *)
(* is there is taken if it is the same and refused if not) and, when that has  *)
(* returned, indexed if there is an index.                                     *)
Compiles(b) ==
  LET w == builder[b]
      id == IdOf(b, 1)
      taken == id \in DOMAIN artifacts
  IN /\ BuilderAt(b, "compile")
     /\ drawn' = drawn + 1
     /\ artifacts' = IF taken THEN artifacts ELSE Put(id, [key |-> w.key])
     /\ Moves(b, IF taken /\ artifacts[id].key # w.key THEN Failed
                 ELSE [at |-> "stored", key |-> w.key, id |-> id])
     /\ UNCHANGED <<index, unlisted>> /\ Unbounded

RegistersNothing(b) ==
  LET w == builder[b]
  IN /\ BuilderAt(b, "stored")
     /\ Moves(b, [at |-> "answered", key |-> w.key, ids |-> {w.id}])
     /\ OnlyMoves

Registers(b) ==
  LET w == builder[b]
  IN /\ BuilderAt(b, "stored")
     /\ index' = IF index = NoIndex \/ w.key \in DOMAIN index THEN index
                 ELSE [k \in DOMAIN index \cup {w.key} |->
                         IF k = w.key THEN w.id ELSE index[k]]
     /\ Moves(b, [at |-> "answered", key |-> w.key, ids |-> {w.id}])
     /\ UNCHANGED <<artifacts, unlisted, drawn>> /\ Unbounded

----------------------------------------
(* findReusableToolchainResult: the stored outputs of the key, grouped by the  *)
(* run that made them; a group is reusable when it has an output for every     *)
(* index of its count and has them at the ids asked for.                       *)
RunsOf(key) == {artifacts[id].run : id \in DerivationsOf(key, artifacts)}
GroupOf(key, run) == {id \in DerivationsOf(key, artifacts) : artifacts[id].run = run}

CompleteCachedResult(group) == {artifacts[id].output : id \in group} = Outputs
OutputIdsMatch(group, names) ==
  \A n \in DOMAIN names : names[n] \in group /\ artifacts[names[n]].output = n

SearchesTools(b) ==
  LET key == builder[b].key
      names == builder[b].names
      complete == {r \in RunsOf(key) : /\ CompleteCachedResult(GroupOf(key, r))
                                       /\ OutputIdsMatch(GroupOf(key, r), names)}
  IN /\ BuilderAt(b, "search")
     /\ Moves(b,
          IF complete = {} THEN Checks("check", key, names)
          ELSE LET r == CHOOSE x \in complete : \A y \in complete : x <= y
               IN [at |-> "answered", key |-> key, ids |-> GroupOf(key, r)])
     /\ OnlyMoves

(* run: the ids asked for are read one by one, before the provider runs and    *)
(* again after it; then a result id is drawn, and the outputs are put in their *)
(* order, each insert-only: an id taken since leaves the outputs before it.    *)
ChecksId(b, n) ==
  LET w == builder[b]
  IN /\ w.at \in {"check", "recheck"}
     /\ n \in w.left
     /\ Moves(b, IF w.names[n] \in DOMAIN artifacts THEN Failed ELSE [w EXCEPT !.left = @ \ {n}])
     /\ OnlyMoves

RunsTool(b) ==
  LET w == builder[b]
  IN /\ BuilderAt(b, "check")
     /\ w.left = {}
     /\ Moves(b, IF IsInjective(w.names) THEN Checks("recheck", w.key, w.names) ELSE Failed)
     /\ OnlyMoves

DrawsResultId(b) ==
  LET w == builder[b]
  IN /\ BuilderAt(b, "recheck")
     /\ w.left = {}
     /\ drawn' = drawn + 1
     /\ Moves(b, [at |-> "putting", key |-> w.key, names |-> w.names, run |-> drawn + 1,
                  ids |-> {}])
     /\ UNCHANGED <<artifacts, index, unlisted>> /\ Unbounded

PutsOutput(b) ==
  LET w == builder[b]
      n == Cardinality(w.ids) + 1
      id == IdOf(b, n)
      ids == w.ids \cup {id}
  IN /\ BuilderAt(b, "putting")
     /\ n \in Outputs
     /\ drawn' = drawn + 1
     /\ IF id \in DOMAIN artifacts
          THEN UNCHANGED artifacts /\ Moves(b, Failed)
          ELSE /\ artifacts' = Put(id, [key |-> w.key, run |-> w.run, output |-> n])
               /\ Moves(b, IF n + 1 \in Outputs THEN [w EXCEPT !.ids = ids]
                           ELSE [at |-> "answered", key |-> w.key, ids |-> ids])
     /\ UNCHANGED <<index, unlisted>> /\ Unbounded

----------------------------------------
Restarts ==
  /\ restarts < MaxRestarts
  /\ restarts' = restarts + 1
  /\ index' = NoIndex
  /\ unlisted' = FALSE
  /\ builder' = [b \in Builders |-> NoBuild]
  /\ UNCHANGED <<artifacts, drawn, builds, listFailures, sweeps>>

Sweeps(id) ==
  /\ sweeps < MaxSweeps
  /\ sweeps' = sweeps + 1
  /\ artifacts' = [x \in DOMAIN artifacts \ {id} |-> artifacts[x]]
  /\ UNCHANGED <<index, builder, unlisted, drawn, builds, restarts, listFailures>>

DerivationInit ==
  /\ artifacts = <<>>
  /\ index = NoIndex
  /\ builder = [b \in Builders |-> NoBuild]
  /\ unlisted = FALSE
  /\ drawn = 0
  /\ builds = 0 /\ restarts = 0 /\ listFailures = 0 /\ sweeps = 0

DerivationNext ==
  \/ \E b \in Builders :
       \/ \E key \in Keys \cup ToolKeys, names \in Wanted, reuse \in BOOLEAN :
            Requests(b, key, names, reuse)
       \/ Finds(b) \/ Seeds(b) \/ ListsStored(b) \/ ListFails(b) \/ Seeded(b)
       \/ Compiles(b) \/ Registers(b)
       \/ SearchesTools(b) \/ RunsTool(b) \/ DrawsResultId(b) \/ PutsOutput(b)
       \/ \E n \in Outputs : ChecksId(b, n)
  \/ Restarts
  \/ \E id \in DOMAIN artifacts : Sweeps(id)

DerivationSpec == DerivationInit /\ [][DerivationNext]_derivationVars

----------------------------------------
DerivationTypeOK ==
  /\ DOMAIN artifacts \subseteq (1 .. drawn) \cup ChosenIds
  /\ \A id \in DOMAIN artifacts : artifacts[id].key \in Keys \cup ToolKeys
  /\ index = NoIndex \/ DOMAIN index \subseteq Keys
  /\ \A b \in Builders : builder[b].at \in
       {"rest", "find", "list", "listed", "compile", "stored", "search", "check",
        "recheck", "putting", "answered", "failed"}

(* A result handed out for reuse by the toolchain service is whole: when a     *)
(* request is answered it has every output of one and the same run, though the *)
(* process died between two puts of a run or an output of one was swept        *)
(* (completeCachedResult).                                                     *)
ToolResultsAreWhole ==
  [][\A b \in Builders :
       (builder[b].at \in {"search", "putting"} /\ builder'[b].at = "answered") =>
         /\ builder[b].at = "putting" \/ builder'[b].ids \subseteq DOMAIN artifacts
         /\ Cardinality(builder'[b].ids) = Cardinality(Outputs)]_derivationVars

(* Once its seeding listing is over, the reuse index lacks no derivation whose *)
(* maker has returned: an artifact stored while the listing was on its way is  *)
(* found by the next request, from the listing or from its maker, and is not   *)
(* derived again (findReusableArtifact, #indexReusableArtifact).               *)
NoDerivationIsForgotten ==
  (/\ index # NoIndex /\ ~unlisted
   /\ \A b \in Builders : builder[b].at \notin {"list", "listed"})
  => \A id \in DOMAIN artifacts :
       artifacts[id].key \in DOMAIN index
         \/ artifacts[id].key \in ToolKeys
         \/ \E b \in Builders : BuilderAt(b, "stored") /\ builder[b].id = id
========================================
