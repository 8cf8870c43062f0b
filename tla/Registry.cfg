\* Six classes, registering in any order; two early or late requests.
SPECIFICATION Spec
CONSTANTS
  UserSignIn = UserSignIn
  UserLogin = UserLogin
  NotifyLoadedScene = NotifyLoadedScene
  MoveState = MoveState
  EnterScene = EnterScene
  CreatePlayerPawn = CreatePlayerPawn
  TypeCount = 5
  ServiceName <- MCServiceName
  Methods <- MCMethods
  Linked <- MCLinked
  MaxCalls = 2
INVARIANTS
  RegistryTypeOK
  EarlyRequestServed
  RequestLeadsToDeclarer
  EveryRequestKnown
CHECK_DEADLOCK FALSE
