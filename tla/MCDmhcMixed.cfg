SPECIFICATION Spec
CONSTANTS
  K = 2
  Capacity = 4
  Operand <- MixedMask
  Outcome <- MCOutcome
  NoResults <- MCNoResults
  Hash <- MCHash
  Word <- MCWord
  BitXor <- MCXor
CHECK_DEADLOCK FALSE
INVARIANTS
  LookupSound
