---------------------------- MODULE UndoableGrant ----------------------------
(***************************************************************************)
(* What a bulk grant promises, whatever its loops, failures and overlaps   *)
(* do: credits are given while it is under way; once it is recorded, what  *)
(* is taken back is taken from those who were given, all of them before it *)
(* counts as undone; a grant that was never recorded stays given.          *)
(***************************************************************************)
CONSTANTS Tenants, Ids

VARIABLES
  stage,      \* per grant
  given,      \* per grant: tenants that were credited
  taken       \* per grant: tenants that were debited

vars == <<stage, given, taken>>

Init ==
  /\ stage = [g \in Ids |-> "new"]
  /\ given = [g \in Ids |-> {}]
  /\ taken = [g \in Ids |-> {}]

Move(g, from, to) ==
  /\ stage[g] = from
  /\ stage' = [stage EXCEPT ![g] = to]

Start(g) == Move(g, "new", "granting") /\ UNCHANGED <<given, taken>>

Give(g, t) ==
  /\ stage[g] = "granting"
  /\ t \notin given[g]
  /\ given' = [given EXCEPT ![g] = @ \cup {t}]
  /\ UNCHANGED <<stage, taken>>

Record(g) == Move(g, "granting", "recorded") /\ UNCHANGED <<given, taken>>

Take(g, t) ==
  /\ stage[g] = "recorded"
  /\ t \in given[g] \ taken[g]
  /\ taken' = [taken EXCEPT ![g] = @ \cup {t}]
  /\ UNCHANGED <<stage, given>>

Finish(g) ==
  /\ taken[g] = given[g]
  /\ Move(g, "recorded", "undone")
  /\ UNCHANGED <<given, taken>>

\* A crash abandons every grant under way; a failing record abandons one.
Abandon(gs) ==
  /\ gs # {}
  /\ \A g \in gs : stage[g] = "granting"
  /\ stage' = [g \in Ids |-> IF g \in gs THEN "abandoned" ELSE stage[g]]
  /\ UNCHANGED <<given, taken>>

Next ==
  \/ \E g \in Ids :
       \/ Start(g)
       \/ Record(g)
       \/ Finish(g)
       \/ \E t \in Tenants : Give(g, t) \/ Take(g, t)
  \/ \E gs \in SUBSET Ids : Abandon(gs)

Spec == Init /\ [][Next]_vars
=============================================================================
