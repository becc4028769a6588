SPECIFICATION Spec
CONSTANTS
    Products = {p1}
    NoProduct = none
    Totals = {1}
    MaxJobs = 1
INVARIANT
    DeclineStopsThePurchase
