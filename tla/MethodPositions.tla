---------------------------- MODULE MethodPositions ----------------------------
(***************************************************************************)
(* What the method table of one Smalltalk Behavior promises, whatever      *)
(* dictionary records hold it (docs/decisions/0049, 0086): a map from      *)
(* selectors to methods that every defineMethods / reconcileMethods call   *)
(* changes at once or not at all, and whose answers are true of the table  *)
(* at the moment they are decided.  A migration between representations    *)
(* is invisible here.                                                      *)
(***************************************************************************)
EXTENDS Naturals

CONSTANTS
  Selectors,
  Definitions,
  Unsourced,   \* the definitions that have no source text
  Callers

VARIABLES
  bound,   \* selector -> the method bound to it
  asked,   \* caller -> its call in progress
  answer   \* caller -> how its last call ended

vars == <<bound, asked, answer>>

(* A method is a definition, held under the selector's first identity or   *)
(* under the identity of that revision.                                    *)
Bindings == [identity : {"first", "revision"}, definition : Definitions]
Unbound  == [identity |-> "none"]
NoCall   == [kind |-> "none"]

Means(s, d) == bound[s] # Unbound /\ bound[s].definition = d
(* A method without source text under the first identity may not be known  *)
(* again: a call that never came to bind the selector can have left the    *)
(* source of its own method there (isSameInstalledMethod).                 *)
Mistakable(s, d) == d \in Unsourced /\ bound[s].identity = "first"

Named(c)    == DOMAIN asked[c].want
Calling(c)  == asked[c] # NoCall
Untouched(c) == \A s \in Named(c) : bound[s] = asked[c].expected[s]

Init ==
  /\ bound \in [Selectors -> Bindings \cup {Unbound}]
  /\ asked = [c \in Callers |-> NoCall]
  /\ answer = [c \in Callers |-> "none"]

(* A call names some selectors and what each should mean.  A guarded one   *)
(* also holds what it saw bound there.  A call that dies never answers.    *)
Ask(c) ==
  /\ ~Calling(c)
  /\ UNCHANGED bound
  /\ answer' = [answer EXCEPT ![c] = "none"]
  /\ asked'[c] # NoCall
  /\ \E kind \in {"define", "reconcile", "guarded"} :
     \E names \in (SUBSET Selectors) \ {{}} :
     \E want \in [names -> Definitions] :
        /\ kind = "guarded" => \A s \in names : bound[s] # Unbound
        /\ asked' = [asked EXCEPT ![c] =
             [kind |-> kind, want |-> want,
              expected |-> IF kind = "guarded" THEN [s \in names |-> bound[s]] ELSE <<>>]]

Close(c, how) ==
  /\ asked' = [asked EXCEPT ![c] = NoCall]
  /\ answer' = [answer EXCEPT ![c] = how]

(* The one effect a call can have: every selector it names now means what  *)
(* it asked for.  A definition overwrites nothing, a guarded replacement   *)
(* overwrites only what its caller saw, and nobody else's selector moves.  *)
Install(c) ==
  /\ Calling(c)
  /\ asked[c].kind = "define" =>
       \A s \in Named(c) : bound[s] = Unbound \/ Means(s, asked[c].want[s])
  /\ asked[c].kind = "guarded" => Untouched(c)
  /\ bound' \in [Selectors -> Bindings \cup {Unbound}]
  /\ \A s \in Named(c) :
        /\ bound'[s] # Unbound
        /\ bound'[s].definition = asked[c].want[s]
  /\ \A s \in Selectors \ Named(c) : bound'[s] = bound[s]
  /\ Close(c, "ok")

(* A call ends without an effect, for a reason that holds at that moment.  *)
Decline(c) ==
  /\ Calling(c)
  /\ UNCHANGED bound
  /\ \/ /\ \A s \in Named(c) : Means(s, asked[c].want[s])
        /\ Close(c, "ok")
     \/ /\ asked[c].kind # "guarded"
        /\ \E s \in Named(c) :
             /\ bound[s] # Unbound
             /\ Means(s, asked[c].want[s]) => Mistakable(s, asked[c].want[s])
        /\ Close(c, "redefinition")
     \/ /\ asked[c].kind = "guarded"
        /\ ~Untouched(c)
        /\ Close(c, "stale")
     \/ /\ asked[c].kind = "guarded"
        /\ Untouched(c)
        /\ Close(c, "contention")
     \/ \E how \in {"conflict", "sealed"} : Close(c, how)

Next == \E c \in Callers : Ask(c) \/ Install(c) \/ Decline(c)

Spec == Init /\ [][Next]_vars
========================================
