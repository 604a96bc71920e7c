CONSTANTS
    RequestMax = 2
    IdleKeep = 1
    MaxSegment = 2
    Chunks = {2, 1}
    MaxSamples = 3
    MaxPartials = 2
SPECIFICATION Spec
INVARIANTS SpansAndIdsAdvance PartialsAreReplaced
PROPERTIES EndsOrJams
CHECK_DEADLOCK FALSE
