CONSTANTS
    c1 = c1
    c2 = c2
    w1 = w1
    w2 = w2
    Cases <- OneCase
    Workers <- TwoWorkers
    EventKinds = {2, 5}
    MaxChanges = 2
    MaxFaults = 2
SPECIFICATION FairOutboxSpec
INVARIANTS
    OutboxTypeOK
    OneMail
    UnattemptedIsUnsent
    SentWasSent
    EventsDecide
PROPERTIES
    MessagesEnd
CHECK_DEADLOCK FALSE
