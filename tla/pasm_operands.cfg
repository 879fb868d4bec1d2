SPECIFICATION Spec
CONSTANTS
  LAST_REG = 31
  StartRegs = {0, 30, 31}
  Structures <- SmallStructures
  RetReg <- CallReg
  Moves = {"LBBO", "SBCO"}
  Insts <- AllInsts
  Peers <- SomeInsts
INVARIANTS InMemoryOrder ReferencesAgree MovesElements OneReading ClearsItsRange LoadsTheNumber NamesAgree
CHECK_DEADLOCK FALSE
