\* The same instance when people may look at Nayax while a call is under way.
SPECIFICATION Spec
CONSTANTS
    Cases = {c1}
    Workers = {w1, w2}
    Nobody = Nobody
    MaxGen = 3
    Fits = 2
    MaxFaults = 2
    SettledBeforeLooking = FALSE
    EvidenceTime = "looked"
SYMMETRY WorkerSymmetry
INVARIANTS
    TypeOK
    CompletedIsPaid
    CaseMatchesAttempt
    QueuedIsUntouched
    SendsOnce
    ApprovalNeedsAcceptance
    NoRequestAfterAcceptance
PROPERTIES
    FinalStays
CHECK_DEADLOCK FALSE
