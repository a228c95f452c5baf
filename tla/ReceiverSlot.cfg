SPECIFICATION FairSpec
CONSTANTS
  Receiver = {r1, r2}
  NoReceiver = NoReceiver
  Kinds = {"rtsp", "raw"}
  RawStalls = FALSE
CHECK_DEADLOCK FALSE
INVARIANTS TornDownCleanly OneDecoder NoOrphan
PROPERTIES CallsReturn TriesAgain
