SPECIFICATION Spec
CONSTANTS
  None = None
  WORD_BITS = 4
  MAXTERM = 4
  Terms = {3, 6, None}
  Ops = {"*", "/", "-", "<<", "&", "^", "|"}
  ShiftMasks = TRUE
  MaxOps = 4
INVARIANTS StepsKeepMeaning
CHECK_DEADLOCK FALSE
