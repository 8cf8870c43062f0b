\* Whether an error reply ends the call.
SPECIFICATION Spec
CONSTANTS
  SignIn = SignIn
  NotifyLoadedScene = NotifyLoadedScene
  EnterScene = EnterScene
  Query = Query
  Request <- MCRequest
  OneWay <- MCOneWay
  ServiceRequest <- MCNone
  Silent <- MCNone
  MaxId = 1
  MaxPeerId = 0
  MaxAnswers = 1
  MaxConnections = 1
PROPERTY
  ErrorEndsCall
CHECK_DEADLOCK FALSE
