CONSTANTS
    a = a
    b = b
    c = c
    Ids <- MCIds
    Scores <- MCScores
    TTL = 1
    MaxEntries = 2
    Threshold = 1
    Margin = 1
    MaxTime = 3
SYMMETRY Symmetry
SPECIFICATION StoresSpec
INVARIANTS DeletedStaysGone
PROPERTIES EvictsTheRightOnes
CHECK_DEADLOCK FALSE
