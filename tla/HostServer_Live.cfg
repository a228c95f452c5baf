SPECIFICATION FairSpec
CONSTANTS
  Socket = {s1, s2, s3}
  Device = {d1, d2}
  NoSocket = NoSocket
  NoDevice = NoDevice
  Moved = Moved
  Redial = TRUE
  Resets = FALSE
  Rude = FALSE
CHECK_DEADLOCK FALSE
INVARIANTS TypeOK ListsAgree
PROPERTIES AnnouncedIsListed DisconnectDetected QuietCloseCompletes
