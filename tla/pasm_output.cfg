SPECIFICATION OutputSpec
CONSTANTS
  Files = {main, inc}
  Main = main
  Commands <- CommandLines
  MaxLines = 2
  MaxWords = 3
  MaxOpen = 2
  Origins = {0, 2}
  MAX_PROGRAM = 10
  MAX_CMD_EQUATE = 1
INVARIANTS WholeOrOld DebugFileReads ListsEveryWord
CHECK_DEADLOCK FALSE
