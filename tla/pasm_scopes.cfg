SPECIFICATION ScopesSpec
CONSTANTS
  S = S
  T = T
  X = X
  Symbols = {S, T, X}
  Root = Root
  Register = Register
  NoStruct = NoStruct
  Freed = Freed
  Macros = {}
  STRUCT_MAX_ELEM = 2
  ScopeLen = 5
  StructLen = 4
  Programs <- AllPrograms
  Included = {0, 2}
INVARIANTS ScopeChain SameMeaning
CHECK_DEADLOCK FALSE
