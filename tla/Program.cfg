SPECIFICATION ProgramSpec
CONSTANTS
    w1 = w1
    p1 = p1
    Watches = {w1}
    Products = {p1}
    Ending = {w1}
    ProductOf <- OneProduct
    Interval = 1
    Delays = {1}
    Throttle = 1
    Gap = 1
    MaxJobsPerTick = 3
    Actions = {"buy"}
    Pages <- BuyOrNot
    Errors = {"rate_limited", "verification_required"}
    MaxOrders = 2
    MaxTasks = 2
    NoText = NoText
    Norm <- NormOf
    Code <- CodeOf
    NonAscii = {}
    AmazonRetail = {"amazon.com"}
    Storefront = {}
    NotASeller = {"Learn more"}
    SoldBy <- SoldByOf
    Asin = "item"
    Facts <- Offers
    ShownFacts <- FirstOffers
    Missable <- OfferParts
    Render <- OfferPage
    DefaultRules <- DefaultTerms
    Orders <- OrderSet
    Display <- OrderPage
    Unreadable <- OrderParts
    OrderRules <- OrderTerms
    OrderProduct <- OrderedProduct
    Headings = {"Ship to"}
    AddonTitles = {"Plan"}
    Histories <- OldOrders
    v1 = v1
    v2 = v2
    WatchRows = {v1, v2}
    RuleTexts = {"strict", "loose"}
    Looks <- Seen
    MaxRules = 2
    MaxPurchases = 1
    MaxReports = 2
    Patience = 2
    MaxAccountJobs = 1
    News <- TheNews
    Title <- OneTitle
    Window = 2
    MaxVersion = 2
    MaxRows = 2
    BackupRetention = 1
    MaxRestores = 1
    Copies = {"a", "b"}
INVARIANTS
    OneOrderPerWatch
    InFlightIsOutstanding
    StoppedIsQuiet
    WhatPassesIsWhatWasShown
    ChargedIsApproved
    AnswerIsAboutTheOrder
    ChallengeIsNeverRead
    ClearedStaysCleared
    SchemaMatchesVersion
    RestoreKeepsTheOldFile
    OneCopyAtWork
    HiddenIsReachable
PROPERTIES
    PassedOrderIsTheOrder
    ConnectedIsSignedIn
    StrangersAreLeftAlone
    SilencedOnlyIfTold
    NotToldTwice
    OneAlertPerReturn
    PurchasesKeepTheirRules
    WatchKeepsSlots
CHECK_DEADLOCK FALSE
