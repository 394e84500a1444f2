\* Three requests; the flags leave two collectors, or name one that does not exist.
CONSTANTS
  Requests = {r1, r2, r3}
  Names = {cpu, process, dns}
  Flags = {{cpu, process, dns}, {cpu, nosuch}}
  Off = {dns}
  NoRequest = NoRequest
SPECIFICATION Spec
CHECK_DEADLOCK FALSE
INVARIANTS OverlapOnlyAfterTimeout FilterExact BuiltBeforeServed
PROPERTY EveryRequestAnswered
