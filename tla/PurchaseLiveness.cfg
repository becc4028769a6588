SPECIFICATION FairSpec
CONSTANTS
    Products = {p1}
    NoProduct = none
    Totals = {1}
    MaxJobs = 2
PROPERTIES
    EventuallyRests
    KeepsSlots
