SPECIFICATION Spec
CONSTANTS
    a1 = a1
    a2 = a2
    none = none
    Asins <- MCAsins
    NoAsin <- none
    MaxJobs = 2
    MaxMoves = 2
SYMMETRY Symmetry
INVARIANTS
    OnlyTheItemIsOrdered
    SetAsideIsOnRecord
PROPERTY PreparationPutsBack
