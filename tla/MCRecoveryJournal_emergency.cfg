SPECIFICATION JournalSpec
CHECK_DEADLOCK FALSE
CONSTANTS
  Stages = 4
  Switch = 2
  MaxRuns = 3
INVARIANT AtMostOnce
INVARIANT InOrder
INVARIANT DecidedIsKnown
