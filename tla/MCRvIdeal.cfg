SPECIFICATION Spec
CONSTANTS
  clean = clean
  taint = taint
  mixed = taint
  None = None
  MetaSet = {clean, taint}
  EmptySet = clean
  Address = {0, 4, 8, 12}
  Soc <- MCSoc
  Reg = {0, 1}
  Csr = {5}
  Insn <- MemInsn
  Pc = {0}
  AddrFixer <- MCAddrFixer
  PolicyEval <- MCPolicyEvalFewCached
  RegDefault <- MCRegDefault
  CsrDefault <- MCCsrDefault
  EnvDefault = clean
  CellDefault <- MCCellDefault
  InitSets <- MCInitSets
  RuleCacheKind = "ideal"
  Capacity = 2
  EntryPoints = {"validate_cached"}
  HostFlushes = FALSE
  Watchable <- AllWatch
  CountMax = 0
CHECK_DEADLOCK FALSE
INVARIANT CacheInv
INVARIANT ReportMatchesDenial
PROPERTY ImplementsMonitor
PROPERTY WatchReported
