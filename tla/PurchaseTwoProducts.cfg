SPECIFICATION Spec
CONSTANTS
    Products = {p1, p2}
    NoProduct = none
    Totals = {1}
    MaxJobs = 2
SYMMETRY ProductSymmetry
INVARIANTS
    AskedOnce
    OneHolder
    TaskIsCurrent
    WorkIsCarriedOn
PROPERTIES
    OrderMatchesReview
    NeedsUserIsKept
    SecondOrderOnlyWhenSettled
    KeepsPromise
