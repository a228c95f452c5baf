SPECIFICATION UsbSpec
CONSTANTS
    MaxPlugs = 2
    MaxPicks = 3
INVARIANT AfterPoll
PROPERTIES KillReturns ClientAnswered
CHECK_DEADLOCK FALSE
