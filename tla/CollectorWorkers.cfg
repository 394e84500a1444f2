\* process: two calls of up to three processes, two workers, a channel of one place.
\* service: two calls, two services, a buffer that at first holds one.
SPECIFICATION WorkersSpec
CONSTANTS
  Calls = {k1, k2}
  Collects = {c1, c2}
  Workers = {w1, w2}
  Cap = 1
  MaxRows = 3
  Services = {"s1", "s2"}
  Present = {{"s1"}}
  Included = {"s1", "s2"}
  InitialSize = 1
  MaxChanges = 2
INVARIANTS WaitGroupExact EveryProcessOnce ServiceRowsOwn
PROPERTIES CollectReturns EnumerationEnds
CHECK_DEADLOCK FALSE
