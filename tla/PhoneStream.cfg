SPECIFICATION FairSpec
CONSTANTS
  Default <- Still
  Commands <- MCCommands
CHECK_DEADLOCK FALSE
INVARIANTS TypeOK HeaderTellsCodec EncoderAsBelieved AbrWithinPolicy
PROPERTIES Recovers
