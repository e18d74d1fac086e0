SPECIFICATION TaggingSpec
CONSTANTS
  Inputs <- AtZeroInput
  ObjdumpTexts <- Texts
  NameOrder <- Names
  Soc <- SocSet
  Address <- Addresses_
  WordAddrs <- Words32
  Configs <- OneConfig
  Pcs = {0, 16, 5000}
  Accesses = {16}
  StartTags = {"pc", "reg"}
  AddrSpace = 65536
  Pow32 = 4096
  IntMax = 2047
  MaxRuns = 1
INVARIANT OverlapsKept
CHECK_DEADLOCK FALSE
