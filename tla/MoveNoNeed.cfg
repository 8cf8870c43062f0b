\* What isNeedSyncMove answers, against what the backend has.
SPECIFICATION Spec
CONSTANTS
  Yaw <- MCYaw
  Pitch <- MCPitch
  Location <- MCLocation
  Speed <- MCSpeed
  Modulus = 8
INVARIANT
  NoNeedMeansKnown
