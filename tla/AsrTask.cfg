CONSTANTS
    MaxSpeakers = 2
    Magic = 1
    Markers = {2, 3}
    SizeField = 1
    ScanLimit = 1
    Bytes = 5
    MaxSegments = 2
    SegmentLength = 4
    TurnSets <- MCTurnSets
    Minimums = {0, 2}
    MinSilence = 1
    GateFrames = 1
    PreFrames = 1
    TailFrames = 1
SPECIFICATION Spec
INVARIANTS  PartsPartition  RolesCanBeRead
PROPERTIES EnrollmentFlagIsHonest
CHECK_DEADLOCK FALSE
