\* One refund, two overlapping sweeps, two continuations, a partial refund that
\* fits twice in the purchase, two mishaps anywhere; people wait for calls to end.
SPECIFICATION Spec
CONSTANTS
    Cases = {c1}
    Workers = {w1, w2}
    Nobody = Nobody
    MaxGen = 3
    Fits = 2
    MaxFaults = 2
    SettledBeforeLooking = TRUE
    EvidenceTime = "looked"
SYMMETRY WorkerSymmetry
INVARIANTS
    MoneyOnce
PROPERTIES
    ContinuesUnpaid
    KeepsPromise
CHECK_DEADLOCK FALSE
