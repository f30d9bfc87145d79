--------------------------- MODULE MCAccountLedger ---------------------------
(* A small instance: one tenant that may be deleted, one that only receives *)
(* grants, two concurrent requests of every kind beside the sweep.          *)
EXTENDS AccountLedger

CONSTANTS t1, t2

MCTenants == {t1, t2}
MCDeletable == {t1}
MCHandlers == 1..2
MCIds == 1..2
\* Four calls about grants, three about deletions, or one of each.
MCLoads == {[grant |-> 4, deletion |-> 0], [grant |-> 1, deletion |-> 1],
            [grant |-> 0, deletion |-> 3]}
\* A second fault, where no more than two calls about deletions, or none, come.
FewWithFaults ==
  \/ faults <= 1
  \/ started["deletion"] = 0
  \/ started["grant"] = 0 /\ started["deletion"] <= 2
MCBatches == {MCTenants}
=============================================================================
