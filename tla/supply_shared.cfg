CONSTANTS
    p1 = p1
    p2 = p2
    sunzee = sunzee
    w1 = w1
    w2 = w2
    SupplyPools <- TwoPools
    Account <- SharedAccount
    Named = {}
    RefillWorkers <- TwoWorkers
    NoWorker = NoWorker
    MaxRefills = 2
    MaxNow = 1
    MaxMishaps = 2
SPECIFICATION SupplySpec
INVARIANTS
    SupplyTypeOK
    BatchesAreAccountedFor
    OneCreationPerAccount
PROPERTIES
    UncertainEndsWithImport
SYMMETRY Symmetry
CHECK_DEADLOCK FALSE
