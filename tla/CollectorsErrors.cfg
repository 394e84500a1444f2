\* Does Build return all errors?
SPECIFICATION Spec
CONSTANTS
  Collectors <- AllCollectors
  Program <- ProgramOf
  MaxConds = 3
  MaxFaults = 2
  Large <- LargeOnes
  LeavesOpen <- LeavesOpenKnown
  StopsEarly <- StopsEarlyKnown
  Unready <- UnreadyKnown
  Waits <- WaitsKnown
  Unclosable <- UnclosableKnown
CHECK_DEADLOCK FALSE
INVARIANT BuildReturnsAllErrors
