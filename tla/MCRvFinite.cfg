SPECIFICATION Spec
CONSTANTS
  clean = clean
  taint = taint
  mixed = mixed
  None = None
  MetaSet = {clean, taint, mixed}
  EmptySet = clean
  Address = {0, 4}
  Soc <- MCSoc
  Reg = {0, 1}
  Csr = {5}
  Insn <- MCInsn
  Pc = {0}
  AddrFixer <- MCAddrFixer
  PolicyEval <- MCPolicyEval
  RegDefault <- MCRegDefault
  CsrDefault <- MCCsrDefault
  EnvDefault = clean
  CellDefault <- MCCellDefault
  InitSets <- MCInitSets
  RuleCacheKind = "finite"
  Capacity = 2
  EntryPoints = {"validate"}
  HostFlushes = TRUE
  Watchable <- NoWatch
  CountMax = 0
CHECK_DEADLOCK FALSE
INVARIANT TypeOK
INVARIANT CanonicalTags
INVARIANT CacheSound
INVARIANT ReportMatchesDenial
PROPERTY ImplementsMonitor
