SPECIFICATION Spec
CHECK_DEADLOCK FALSE
CONSTANTS
  PermSize = 5
  MaxBits = 4
  RuleBits = 192
  Cases <- AllCases
  BitXor <- MCXor
  TableSizes = {4, 6, 8, 1024}
INVARIANTS
  EveryBitOnce
  FoldsParity
  HashInTable
PROPERTIES
  Terminates
