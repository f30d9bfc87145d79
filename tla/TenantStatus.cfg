SPECIFICATION Spec
CONSTANTS
  t1 = t1
  t2 = t2
  h1 = h1
  h2 = h2
  Tenants <- MCTenants
  Spenders <- MCSpenders
  Handlers <- MCHandlers
  NoTenant = NoTenant
  Kinds <- MCKinds
  MaxBalance = 2
  MaxRequests = 2
SYMMETRY MCSymmetry
CHECK_DEADLOCK FALSE
INVARIANTS
  TypeOK
  RowAgrees
PROPERTIES
  OnlyOverlapsLiftBans
  BanLeavesNothing
