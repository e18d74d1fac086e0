SPECIFICATION Spec
CONSTANTS
  clean = clean
  taint = taint
  mixed = mixed
  None = None
  MetaSet = {clean, taint, mixed}
  EmptySet = clean
  Address = {0, 4, 8, 12}
  Soc <- MCSoc
  Reg = {0, 1}
  Csr = {5}
  Insn <- MCInsn
  Pc = {0}
  AddrFixer <- MCAddrFixer
  PolicyEval <- MCPolicyEval
  RegDefault <- MCRegDefault
  CsrDefault <- MCCsrDefault
  EnvDefault = clean
  CellDefault <- MCCellDefault
  InitSets <- MCInitSets
  RuleCacheKind = "none"
  Capacity = 2
  EntryPoints = {"validate", "validate_cached"}
  HostFlushes = FALSE
  Watchable <- NoWatch
  CountMax = 0
CHECK_DEADLOCK FALSE
INVARIANT AddressAsAsked
