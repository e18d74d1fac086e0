SPECIFICATION TaggingSpec
CONSTANTS
  Inputs <- AllInputs
  ObjdumpTexts <- Texts
  NameOrder <- Names
  Soc <- SocSet
  Address <- Addresses_
  WordAddrs <- Words32
  Configs <- AllConfigs
  Pcs = {16, 5000}
  Accesses = {36, 68, 72}
  StartTags = {"pc", "reg"}
  AddrSpace = 65536
  Pow32 = 4096
  IntMax = 2047
  MaxRuns = 2
INVARIANTS
  TypeOK
  MapHoldsAdded
  ListingRuns
  LoadsWhatWasWritten
  FirmwareReadsBack
  HeaderCovers
  
  TaggedWhole
  CrashOnlyUntagged
CHECK_DEADLOCK FALSE
