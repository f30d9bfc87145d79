---------------------------- MODULE AccountLedger ----------------------------
(***************************************************************************)
(* Bulk grants and account deletion on the same ledgers, in one server     *)
(* process that may crash: credits and debits arrive while a tenant is     *)
(* being erased, and an erased tenant may be credited again.               *)
(***************************************************************************)
EXTENDS BulkGrant, AccountDeletion

vars == <<baseVars, grantVars, deletionVars>>

Init == BaseInit /\ GrantInit /\ DeletionInit

\* Requests and the sweep are gone; what they have stored stays.
Crash ==
  /\ \/ \E h \in Handlers : req[h] # Idle
     \/ sweep # NoSweep
  /\ Fault
  /\ req' = [h \in Handlers |-> Idle]
  /\ UNCHANGED started
  /\ GrantsCutOff
  /\ SweepCutOff

Next ==
  \/ GrantNext /\ UNCHANGED deletionVars
  \/ DeletionNext /\ UNCHANGED grantVars
  \/ Crash

Spec == Init /\ [][Next]_vars

\* Every variable keeps its type.
TypeOK == BaseTypeOK /\ GrantTypeOK /\ DeletionTypeOK
=============================================================================
