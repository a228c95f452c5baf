SPECIFICATION AndroidSpec
CONSTANTS
    MaxLoad = 2
    MaxSent = 2
    MaxMain = 3
    MaxActs = 3
INVARIANT ActivationHonoured
CHECK_DEADLOCK FALSE
