CONSTANTS
    r1 = r1
    r2 = r2
    daily = daily
    Runs <- TwoRuns
    Slots <- OneSlot
    DailySlot = daily
    Facts = {0, 1}
    MaxChanges = 2
    MaxMishaps = 2
SPECIFICATION FairAlertSpec
INVARIANTS
    AlertTypeOK
    OneMailPerSlot
    ManagerDigestOnce
    JobsTellTheTruth
    MailsWereCurrent
    BatchFollowsJob
PROPERTIES
    DueSlotsGoOut
CHECK_DEADLOCK FALSE
