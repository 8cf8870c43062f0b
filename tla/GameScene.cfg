\* Scenes: EnterScenes and pawns over three connections.
SPECIFICATION GameSpec
CONSTANTS
  Account = {1}
  Request <- MCRequest
  OneWay <- Notices
  ServiceRequest <- MCServiceRequest
  Silent <- MCServiceRequest
  MaxId = 5
  MaxPeerId = 4
  MaxAnswers = 0
  MaxConnections = 3
INVARIANT
  PawnOutlivesTravel
PROPERTY
  EnterSceneNotifies
CHECK_DEADLOCK FALSE
