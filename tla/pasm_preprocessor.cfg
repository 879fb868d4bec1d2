SPECIFICATION FairSpec
CONSTANTS
  A = A
  B = B
  Names = {A, B}
  Num = Num
  Main = Main
  Inc = Inc
  Absent = Absent
  Files = {Main, Inc}
  CommandLine = {B}
  CC_MAX_DEPTH = 2
  MAX_OPEN = 3
  SOURCEFILE_MAX = 4
  MAX_ERRORS = 3
  CondLen = 4
  NameLen = 4
  FileLen = 3
  IncLen = 2
  Sources <- AllSources
INVARIANTS SelectedByAll SameText
PROPERTIES RecordsReused Terminates
CHECK_DEADLOCK FALSE
