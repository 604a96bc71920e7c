CONSTANTS
  s1 = s1
  s2 = s2
  s3 = s3
  k1 = k1
  k2 = k2
  STOP = STOP
  Streams = {s1, s2, s3}
  Keys = {k1, k2}
  MaxBatch = 2
  MaxSteps = 2
SPECIFICATION Spec
INVARIANTS StreamsKeepTheirState
PROPERTIES BatchesAreSound NoOvertaking EveryRequestAnswered SchedulerEnds
CHECK_DEADLOCK FALSE
