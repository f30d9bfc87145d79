---------------------------- MODULE MCTenantStatus ----------------------------
(* A small instance of TenantStatus: one tenant that uses its account, one  *)
(* that is only there for the bulk procedures, two concurrent procedures.   *)
EXTENDS TenantStatus, TLC

CONSTANTS t1, t2, h1, h2

MCTenants == {t1, t2}
MCSpenders == {t1}
MCHandlers == {h1, h2}
MCSymmetry == Permutations(MCHandlers)
MCKinds == SingleKinds \cup BulkKinds \cup {"expire", "grace"}
MCAdminKinds == {"suspend", "ban"}
=============================================================================
