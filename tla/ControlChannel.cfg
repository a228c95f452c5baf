SPECIFICATION FairSpec
CONSTANTS
  MaxConnects = 2
  MaxSends = 2
CHECK_DEADLOCK FALSE
INVARIANTS InOrder OwnFault RestingStateIsTrue
PROPERTIES SentIsHandled
