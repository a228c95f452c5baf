SPECIFICATION Spec
CONSTANTS
    Phones = {1, 2}
    MissedMax = 2
    MaxMoves = 1
    MaxChanges = 2
INVARIANTS RowsAreTrue KnownIsTrue
PROPERTY ListFollowsAir
CHECK_DEADLOCK FALSE
