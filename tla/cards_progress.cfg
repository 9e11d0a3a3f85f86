CONSTANTS
    p1 = p1
    p2 = p2
    kemore = kemore
    w1 = w1
    w2 = w2
    c1 = c1
    c2 = c2
    c3 = c3
    k1 = k1
    k2 = k2
    e1 = e1
    e2 = e2
    s1 = s1
    s2 = s2
    SupplyPools <- OnePool
    Account <- NamedPool
    Named <- NamedAccounts
    RefillWorkers <- TwoWorkers
    NoWorker = NoWorker
    MaxRefills = 1
    MaxNow = 1
    MaxMishaps = 2
    Cases <- ThreeCases
    Codes <- TwoCodes
    Emails <- TwoEmails
    Pools <- TwoPools
    FirstEmail <- ThreeEmails
    CasePool <- ThreeInTwoPools
    CodePool <- CodesInTwoPools
    Age <- ThreeAges
    Sessions <- TwoSessions
    ResumeLimit = 3
    MaxAborts = 1
SPECIFICATION FairCardsSpec
PROPERTIES
    NamedBatchIsFound
    StockReachesTheWaiting
CHECK_DEADLOCK FALSE
