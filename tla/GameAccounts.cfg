\* Accounts and calls: two clicks, answers late, repeated, lost, two connections.
SPECIFICATION GameSpec
CONSTANTS
  Account = {0, 1}
  Request <- MCRequest
  OneWay <- Notices
  ServiceRequest <- MCServiceRequest
  Silent <- MCServiceRequest
  MaxId = 5
  MaxPeerId = 2
  MaxAnswers = 2
  MaxConnections = 2
INVARIANTS
  GameTypeOK
  AccidIsOfLastClickOrLateAnswer
  SignInUnderItsAccount
  CallbackForItsRequest
  OutstandingExact
CHECK_DEADLOCK FALSE
