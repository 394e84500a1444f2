\* Three containers; bitlocker and update are there as in LongLived.
SPECIFICATION StateSpec
CONSTANTS
  Calls = {k1, k2, k3}
  UpdateCalls = {k1, k2}
  C = C
  D = D
  Volumes <- TwoVolumes
  Gens = 3
  c1 = c1
  c2 = c2
  j1 = j1
  Containers <- ThreeContainers
  Jobs <- OneJob
  Pause <- OnePause
CHECK_DEADLOCK FALSE
PROPERTY StoppedRemoved
