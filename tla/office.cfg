CONSTANTS
    r1 = r1
    r2 = r2
    Runs <- TwoRuns
    LastMonth = 2
    Outlives = FALSE
    MaxChanges = 2
    MaxMishaps = 2
    b1 = b1
    b2 = b2
    b3 = b3
    Tabs <- ThreeTabs
    MaxTokens = 3
    MaxTroubles = 2
    TabsOutlive = FALSE
    LateCreates = FALSE
SPECIFICATION OfficeSpec
INVARIANTS
    YtdAgrees
    OnePayableSession
PROPERTIES
    StubsSettle
CHECK_DEADLOCK FALSE
