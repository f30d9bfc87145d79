SPECIFICATION Spec
CONSTANTS
  s1 = s1
  u1 = u1
  u2 = u2
  n1 = n1
  c1 = c1
  c2 = c2
  p1 = p1
  p2 = p2
  v1 = v1
  v2 = v2
  none = none
  Chats <- MCChats
  Users <- MCUsers
  Streams = {1}
  Messages = {1}
  Nodes <- MCNodes
  Sockets = {1}
  Setups = {1}
  SaveSlots = {1}
  Bots = {1}
  FleetSlots = {1}
  PaymentIds = {1}
  Cards <- MCCards
  CardSlots = {1}
  AdminCalls = {}
  Wired <- MCWired
  Configs <- MCConfigs
  EmptyConfig = v1
  NoConfig = none
  DaemonSlots = {}
  Logins <- MCLogins
  Limits = {1, 2}
  Shots = {}
  CheckSlots = {}
  Lines = 0
  Width = 3
  NewUsers = {}
  Jobs <- MCJobs
  Period <- MCPeriod
  Day = 2
  Kinds <- MCKinds
  Loads <- MCLoads
CHECK_DEADLOCK FALSE
INVARIANTS
  RestoredTierIsPrevious
