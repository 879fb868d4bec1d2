SPECIFICATION FairSpec
CONSTANTS
  Irqs = {0, 1}
  FirstFd = 3
  MaxOpens = 3
  MaxOwn = 1
INVARIANTS StaysMapped
PROPERTIES ExitClosesItsOwn ExitWaitsForInterrupts
CHECK_DEADLOCK FALSE
