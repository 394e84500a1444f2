\* Every input of the bounded sets; two cores, two calls, a counter that wraps twice.
SPECIFICATION TaskSpec
CONSTANTS
  Cores = {a, b}
  Calls = {k1, k2}
  NoCall = NoCall
  M = 3
  MaxCount = 6
  ObjectLists <- PerfInputs
  Directories <- TextInputs
  Metrics <- TextMetrics
  NoValue = ""
  Fields = {"f", "g"}
  Unset = 0
  Null = 7
  Missing = 8
  Bad = 9
  Deliveries <- MiDeliveries
  MaxDeliveries = 3
  CommandLines <- ConfInputs
  Files <- ConfFiles
  FlagDefaults <- ConfFlags
  ConfigFile <- ConfigFileFlag
  SuffixTexts <- ConfSuffixed
  NoFile = ""
INVARIANTS
  ObjectsExact
  TextfileExact
  PdhRowsOwn
  RegistryRowsFresh
  MiRowsOwn
  SettingsExact
  TotalExact
PROPERTY TotalGrows
CHECK_DEADLOCK FALSE
