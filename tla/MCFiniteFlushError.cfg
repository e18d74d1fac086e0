SPECIFICATION MCSpec
CONSTANTS
  Operand = {o0, o1, o2, o3}
  Result = {r1, r2}
  ZeroOps = o0
  Capacity = 2
INVARIANT NoInternalError
