------------------------------ MODULE ServerLoad ------------------------------
(***************************************************************************)
(* How much a small instance lets happen: how often things of each kind    *)
(* are begun, and which numbers may come together.  The chat sessions are  *)
(* those of chat and of setup alike.                                       *)
(***************************************************************************)
EXTENDS Naturals

CONSTANTS
  Chats,        \* chat sessions, by the id the client has made up
  Kinds,        \* kinds of things that are begun
  Loads         \* bound: how many of each kind come together

ASSUME LoadAssumption == Loads \subseteq [Kinds -> Nat]

VARIABLES
  budget        \* how many of each kind may still be begun

LoadInit == budget \in Loads

LoadTypeOK == budget \in [Kinds -> Nat]

Begin(kind) ==
  /\ budget[kind] > 0
  /\ budget' = [budget EXCEPT ![kind] = @ - 1]
=============================================================================
