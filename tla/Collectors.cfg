\* All collectors, with up to three of their sub-collectors and conditions and up to two failing calls.
SPECIFICATION Spec
CONSTANTS
  Collectors <- AllCollectors
  Program <- ProgramOf
  MaxConds = 3
  MaxFaults = 2
  Large <- LargeOnes
  LeavesOpen <- LeavesOpenKnown
  StopsEarly <- StopsEarlyKnown
  Unready <- UnreadyKnown
  Waits <- WaitsKnown
  Unclosable <- UnclosableKnown
CHECK_DEADLOCK FALSE
INVARIANTS NoPanic CloseReleases ReadsAll CollectNeverStuck
