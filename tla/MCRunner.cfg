CONSTANTS
  Calls <- AllCalls
  DefaultTimeout = 1
  MaxWallClock = 2
  MaxOutput = 1
  MaxWritten = 3
  MaxEdits = 1
SPECIFICATION Spec
INVARIANTS AnswerIsWhole RefutationExact PinnedRan
PROPERTY RunEnds
CHECK_DEADLOCK FALSE
