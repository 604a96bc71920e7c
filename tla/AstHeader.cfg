CONSTANTS
    MaxSpeakers = 2
    Magic = 1
    Markers = {2, 3}
    SizeField = 4
    ScanLimit = 4
    Bytes = 8
    MaxSegments = 1
    SegmentLength = 4
    TurnSets <- MCTurnSets
    Minimums = {0, 2}
    MinSilence = 1
    GateFrames = 1
    PreFrames = 0
    TailFrames = 1
SPECIFICATION Spec
INVARIANTS HeaderIsStripped
CHECK_DEADLOCK FALSE
