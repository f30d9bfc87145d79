SPECIFICATION Spec
CONSTANTS
  u1 = u1
  u2 = u2
  u3 = u3
  h1 = h1
  h2 = h2
  Users <- MCUsers
  Handlers <- MCHandlers
  Founder = u1
  NoUser = NoUser
  MaxRequests = 2
SYMMETRY MCSymmetry
CHECK_DEADLOCK FALSE
PROPERTY
  OwnerKeepsRole
