\* A scrape gives up on a collector and the next one starts it again.
CONSTANTS
  Requests = {r1, r2}
  Names = {cpu}
  Flags = {{cpu}}
  Off = {}
  NoRequest = NoRequest
SPECIFICATION Safety
CHECK_DEADLOCK FALSE
INVARIANT OneRequestAtATime
