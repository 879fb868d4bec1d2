SPECIFICATION RoundsSpec
CONSTANTS
  Rounds = 2
INVARIANTS WaitMeansAnswer
CHECK_DEADLOCK FALSE
