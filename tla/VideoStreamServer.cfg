SPECIFICATION FairSpec
CONSTANTS
  Conn = {c1, c2}
  NoConn = NoConn
  MaxStarts = 2
  MaxInFlight = 1
  HighWaterMark = 0
CHECK_DEADLOCK FALSE
INVARIANTS HeaderExactlyOnce PendingExact
PROPERTIES ClosedIsReleased AcceptedIsStreamed
