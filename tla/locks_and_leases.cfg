CONSTANTS
    c1 = c1
    c2 = c2
    c3 = c3
    c4 = c4
    k1 = k1
    k2 = k2
    e1 = e1
    e2 = e2
    p1 = p1
    s1 = s1
    s2 = s2
    Cases <- FourCases
    Codes <- TwoCodes
    Emails <- TwoEmails
    Pools <- OnePool
    FirstEmail <- FourEmails
    CasePool <- FourInOnePool
    CodePool <- BothCodesInOnePool
    Age <- FourAges
    Sessions <- TwoSessions
    ResumeLimit = 2
    MaxAborts = 1
    x1 = x1
    x2 = x2
    partner = partner
    weekly = weekly
    monthly = monthly
    Exporters <- TwoExporters
    Addresses <- OneAddress
    Settings <- TwoSettings
    SharedKey = FALSE
    MaxReports = 2
    MaxRevisions = 2
    MaxHitches = 1
SPECIFICATION LocksSpec
INVARIANTS
    StagedIsCompatible
    IssuedHasItsCard
    ActiveIsValidated
    
PROPERTIES
    KeepsAllocation
SYMMETRY Symmetry
CHECK_DEADLOCK FALSE
