SPECIFICATION FairSpec
CONSTANTS
  A = A
  B = B
  L = L
  None = None
  MacroNames = {A, B}
  LabelNames = {L}
  MACRO_MAX_ARGS = 1
  MACRO_MAX_LINES = 2
  MACRO_MAX_LABELS = 1
  MAX_ERRORS = 4
  Programs <- AllPrograms
INVARIANTS InUseWhileUsed LocalLabels
PROPERTIES Terminates
CHECK_DEADLOCK FALSE
