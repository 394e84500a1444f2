\* service: two control requests.  PDH: a builder and two overlapping scrapes.
\* bitlocker: three calls, two volumes.  update: two calls.  container: three containers.
SPECIFICATION LiveSpec
CONSTANTS
  MaxControls = 2
  new = new
  s1 = s1
  s2 = s2
  initial = initial
  shared = shared
  NoCaller = NoCaller
  Callers = {new, s1, s2}
  Builder = new
  Buffers = {initial, shared}
  DstOf <- MCDstOf
  Calls = {k1, k2, k3}
  UpdateCalls = {k1, k2}
  C = C
  D = D
  Volumes <- TwoVolumes
  Gens = 3
  c1 = c1
  c2 = c2
  j1 = j1
  Containers <- ThreeContainers
  Jobs <- OneJob
  Pause <- OnePause
INVARIANTS EndsInOrder AnswerMatchesRequest NoUseAfterClose RowsStable
INVARIANTS SwappedOnlyOnOverlap NothingLeftOver NoStaleMetrics AnnotationsOwn
PROPERTIES ProcessEnds CallsReturn CollectReturns SchedulerAnswers LabelsStable
CHECK_DEADLOCK FALSE
