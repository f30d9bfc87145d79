SPECIFICATION Spec
CONSTANTS
  t1 = t1
  t2 = t2
  Tenants <- MCTenants
  Deletable <- MCDeletable
  Handlers <- MCHandlers
  Ids <- MCIds
  Batches <- MCBatches
  Loads <- MCLoads
  MaxFaults = 2
CONSTRAINT FewWithFaults
CHECK_DEADLOCK FALSE
INVARIANTS
  TypeOK
  UndoneOnce
  OnlyLateEntriesAreLost
  CancelledInTimeIsKept
PROPERTIES
  GrantKeepsPromise
  OnlyFailuresAreLeft
