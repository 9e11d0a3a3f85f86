CONSTANTS
    c1 = c1
    c2 = c2
    w1 = w1
    w2 = w2
    Cases <- TwoCases
    Workers <- OneWorker
    EventKinds = {5}
    MaxChanges = 1
    MaxFaults = 0
SPECIFICATION FairOutboxSpec
PROPERTY PausedLaneBlocksNobody
CHECK_DEADLOCK FALSE
