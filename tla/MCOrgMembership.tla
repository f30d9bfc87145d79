---------------------------- MODULE MCOrgMembership ----------------------------
(* A small instance of OrgMembership: the founder and two other users, so   *)
(* that ownership can move and a third user can lose or gain a role, and two *)
(* requests that may overlap.                                                *)
EXTENDS OrgMembership, TLC

CONSTANTS u1, u2, u3, h1, h2

MCUsers == {u1, u2, u3}
MCHandlers == {h1, h2}
MCSymmetry == Permutations({u2, u3}) \cup Permutations(MCHandlers)
=============================================================================
