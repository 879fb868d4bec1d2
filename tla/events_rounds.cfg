SPECIFICATION FairRoundsSpec
CONSTANTS
  Rounds = 4
INVARIANTS FirstWakeIsReal AtMostTwoWakes
PROPERTIES AllRoundsEnd
CHECK_DEADLOCK FALSE
