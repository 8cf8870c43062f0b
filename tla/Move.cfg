\* Walks, turns, gaits, levels and connections, unbounded.
SPECIFICATION Spec
CONSTANTS
  Yaw <- MCYaw
  Pitch <- MCPitch
  Location <- MCLocation
  Speed <- MCSpeed
  Modulus = 8
INVARIANTS
  MoveTypeOK
  TickSettles
  HeldIsGiven
  BackendWithinTolerance
