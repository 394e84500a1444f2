\* The comment on duplicates across files against what Collect returns.
SPECIFICATION TextSpec
CONSTANTS
  Directories <- TextInputs
  Metrics <- TextMetrics
  NoValue = ""
INVARIANT DuplicatesReturned
CHECK_DEADLOCK FALSE
