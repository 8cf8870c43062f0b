\* Calls both ways: faults, delayed answers, liveness of an answer.
SPECIFICATION Spec
CONSTANTS
  SignIn = SignIn
  NotifyLoadedScene = NotifyLoadedScene
  EnterScene = EnterScene
  Query = Query
  Request <- MCRequest
  OneWay <- MCOneWay
  ServiceRequest <- MCServiceRequest
  Silent <- MCSilent
  MaxId = 2
  MaxPeerId = 2
  MaxAnswers = 1
  MaxConnections = 2
INVARIANTS
  RpcTypeOK
  ReplyConservation
PROPERTIES
  AnswerEndsCall
CHECK_DEADLOCK FALSE
