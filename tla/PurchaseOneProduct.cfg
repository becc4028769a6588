SPECIFICATION Spec
CONSTANTS
    Products = {p1}
    NoProduct = none
    Totals = {1, 2}
    MaxJobs = 2
INVARIANTS
    TypeOK
    OneOrderPerJob
    SubmissionNeverForgotten
    ConfirmedIsInHistory
PROPERTIES
    OrderMatchesReview
    LegalMoves
    OnlyTheUserResolves
