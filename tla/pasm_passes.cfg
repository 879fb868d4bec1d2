SPECIFICATION FairSpec
CONSTANTS
  A = A
  B = B
  NoSym = NoSym
  Names = {A, B}
  Programs <- AllPrograms
  LayoutLen = 4
  CallLen = 3
  MAX_PROGRAM = 16
  QB_REACH = 3
  MAX_ERRORS = 2
INVARIANTS TypeOK PassesAgree
PROPERTIES NeverOverwrites ImplementsAssembly Terminates
CHECK_DEADLOCK FALSE
