SPECIFICATION Spec
CONSTANTS
  Socket = {s1, s2, s3, s4}
  Device = {d1, d2, d3}
  NoSocket = NoSocket
  NoDevice = NoDevice
  Moved = Moved
  Redial = FALSE
  Resets = TRUE
  Rude = FALSE
CHECK_DEADLOCK FALSE
SYMMETRY Symmetry
INVARIANT CommandsReachTarget
PROPERTIES ActiveDisconnectClears ImplementsDirectory
