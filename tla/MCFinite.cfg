SPECIFICATION MCSpec
CONSTANTS
  Operand = {o0, o1, o2, o3, o4}
  Result = {r1, r2}
  ZeroOps = o0
  Capacity = 3
INVARIANT TypeOK
INVARIANT TableInRing
INVARIANT BoundedTable
INVARIANT ExactUntilFlush
PROPERTY EvictsOldest
