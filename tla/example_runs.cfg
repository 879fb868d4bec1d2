SPECIFICATION FairSpec
CONSTANTS
  MaxRuns = 2
  ImageWords = 2
INVARIANTS EndsClean RunsWholeImage
PROPERTIES ImplementsRendezvous RunsEnd
CHECK_DEADLOCK FALSE
