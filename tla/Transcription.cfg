CONSTANTS
    MaxSegments = 3
    Concurrency = 2
SPECIFICATION Spec
INVARIANTS ResultIsComplete FailureIsIsolated
PROPERTIES TranscriptionEnds
CHECK_DEADLOCK FALSE
