\* The comment of deduplicateIISNames against what it does.
SPECIFICATION IisSpec
CONSTANT RowLists <- IisInputs
INVARIANT HighestSuffixKept
CHECK_DEADLOCK FALSE
