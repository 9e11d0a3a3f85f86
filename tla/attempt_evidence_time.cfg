\* People enter the time of the refund that Nayax shows, as the form asks.
SPECIFICATION StaffedSpec
CONSTANTS
    Cases = {c1}
    Workers = {w1}
    Nobody = Nobody
    MaxGen = 1
    Fits = 1
    MaxFaults = 0
    SettledBeforeLooking = FALSE
    EvidenceTime = "refunded"
PROPERTIES
    PaidIsConfirmed
CHECK_DEADLOCK FALSE
