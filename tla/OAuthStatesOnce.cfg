SPECIFICATION Spec
CONSTANTS
  s1 = s1
  s2 = s2
  u1 = u1
  u2 = u2
  k1 = k1
  k2 = k2
  q1 = q1
  q2 = q2
  States <- MCStates
  Users <- MCUsers
  Callbacks <- MCCallbacks
  Polls <- MCPolls
  NoUser = NoUser
  NoRow = NoRow
  NoToken = NoToken
SYMMETRY MCSymmetry
CHECK_DEADLOCK FALSE
INVARIANT TokenReturnedOnce
