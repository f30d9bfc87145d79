SPECIFICATION Spec
CONSTANTS
  s1 = s1
  u1 = u1
  u2 = u2
  n1 = n1
  c1 = c1
  c2 = c2
  p1 = p1
  p2 = p2
  v1 = v1
  v2 = v2
  none = none
  Chats <- MCChats
  Users <- MCUsers
  Streams = {1, 2, 3}
  Messages = {1, 2}
  Nodes <- MCNodes
  Sockets = {1, 2, 3}
  Setups = {1, 2}
  SaveSlots = {1}
  Bots = {1}
  FleetSlots = {1, 2}
  PaymentIds = {1, 2}
  Cards <- MCCards
  CardSlots = {1, 2}
  AdminCalls = {1, 2}
  Wired <- MCWired
  Configs <- MCConfigs
  EmptyConfig = v1
  NoConfig = none
  DaemonSlots = {1, 2}
  Logins <- MCLogins
  Limits = {1, 2}
  Shots = {1, 2, 3}
  CheckSlots = {1, 2}
  Lines = 3
  Width = 3
  NewUsers = {1, 2}
  Jobs <- MCJobs
  Period <- MCPeriod
  Day = 2
  Kinds <- MCKinds
  Loads <- MCLoads
CHECK_DEADLOCK FALSE
INVARIANTS
  TypeOK
  OwnerHoldsOpenStreams
  AnswerReachesAsker
  ConnectedIsRegistered
  RolledBackIsUnconfigured
  BotsAndKeysSurvive
  AcknowledgedIsHandled
  OnlyUnawaitedMislead
  DaemonIsInTouch
  OmissionsHaveReasons
PROPERTIES
  StreamsEnd
  FirstStaleSettles
  PaymentsGetThrough
  ChecksFailOnlyWhenOvertaken
