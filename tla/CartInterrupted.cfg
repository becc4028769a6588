SPECIFICATION Spec
CONSTANTS
    a1 = a1
    a2 = a2
    none = none
    Asins <- MCAsins
    NoAsin <- none
    MaxJobs = 1
    MaxMoves = 2
SYMMETRY Symmetry
INVARIANT InterruptionCanBeUndone
