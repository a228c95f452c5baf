SPECIFICATION AndroidSpec
CONSTANTS
    MaxLoad = 2
    MaxSent = 3
    MaxMain = 3
    MaxActs = 4
INVARIANT AsCommanded
PROPERTY CloseNoticed
CHECK_DEADLOCK FALSE
