---------------------------- MODULE MCOAuthStates ----------------------------
(* A small instance of OAuthStates: two flows, two users, two redirects and *)
(* two polls, so that redirects and polls of one flow may overlap.          *)
EXTENDS OAuthStates, TLC

CONSTANTS s1, s2, u1, u2, k1, k2, q1, q2

MCStates == {s1, s2}
MCUsers == {u1, u2}
MCCallbacks == {k1, k2}
MCPolls == {q1, q2}
MCSymmetry == Permutations(MCStates) \cup Permutations(MCUsers)
              \cup Permutations(MCCallbacks) \cup Permutations(MCPolls)
=============================================================================
