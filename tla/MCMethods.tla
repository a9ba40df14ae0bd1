----------------------------- MODULE MCMethods ------------------------------
(***************************************************************************)
(* A class with two selectors.  Parts "calls" and "sealing" have two       *)
(* callers: one caller's batch touches both selectors, another's only one, *)
(* so that a lost compare-and-set may or may not concern the position a    *)
(* call names; in "sealing" a migrator seals the table under them.  Part   *)
(* "migration" has one caller, two migrators that race and die, and a      *)
(* sender.  No class evolves in these; the evolution run has one evolution *)
(* beside one migration and one new method.                                *)
(***************************************************************************)
EXTENDS MethodDictionary

CONSTANTS Parts, c1, c2, m1, m2, x1

VARIABLE part

A == [program |-> "A", source |-> "a"]
B == [program |-> "B", source |-> "b"]
N == [program |-> "N", source |-> NoSource]

SmallDefinitions == {A, B, N}
SmallFounding == [s \in {"foo", "bar"} |-> IF s = "foo" THEN A ELSE Nothing]
Call(kind, names, d) == [kind |-> kind, want |-> [s \in names |-> d]]
SmallRequests ==
  {Call("guarded", {"foo"}, B), Call("reconcile", {"foo"}, B),
   Call("define", {"foo", "bar"}, A), Call("reconcile", {"bar"}, B),
   Call("define", {"bar"}, N)}

(* Who acts in a part, and how many calls are made in it.                  *)
Acting ==
  [calls     |-> [callers |-> {c1, c2}, migrators |-> {}, senders |-> {}, calls |-> 3],
   sealing   |-> [callers |-> {c1, c2}, migrators |-> {m1}, senders |-> {}, calls |-> 2],
   migration |-> [callers |-> {c1}, migrators |-> {m1, m2}, senders |-> {x1}, calls |-> 2]]

MethodsInit == part \in Parts /\ EvolvingInit

MethodsNext ==
  /\ UNCHANGED <<part, evolution, evolutions>>
  /\ \/ \E c \in Acting[part].callers : CallStep(c)
     \/ \E m \in Acting[part].migrators : MigrationStep(m) \/ CrashMigration(m)
     \/ \E x \in Acting[part].senders : LookBehavior(x) \/ LookMethod(x)
  /\ calls' <= Acting[part].calls

(* A migrator goes on and retries, as MethodDictionary's Fairness says.    *)
MethodsFairness ==
  \A m \in Migrators : WF_vars(m \in Acting[part].migrators /\ MigrationStep(m))

MethodsSpec == MethodsInit /\ [][MethodsNext]_<<part, evolvingVars>> /\ MethodsFairness

(* One migration, one evolution and one new method of the class.           *)
DefineBar == {Call("define", {"bar"}, A)}
OneDefinition == {A}

EvolutionSpec ==
  /\ part = "evolution" /\ EvolvingInit
  /\ [][EvolvingNext /\ UNCHANGED part]_<<part, evolvingVars>>

(* The stall a seal causes ends: a migration that is retried swaps the     *)
(* edge, whatever crashes and lost races came before, and the class stays  *)
(* hashed (migrateMethodDictionary: every step finds its own output).      *)
MigrationConverges == part # "calls" => <>[](behavior.edge = "hashed")
========================================
