CONSTANTS
  j1 = j1
  j2 = j2
  j3 = j3
  Jobs = {j1, j2, j3}
  QueueMax = 2
  MaxConcurrent = 1
  Reconfigures = TRUE
  MaxSemaphores = 4
SPECIFICATION Spec
INVARIANTS RunnerOwnsJob ResultKept
PROPERTIES EveryJobFinishes ImplementsLifecycle
