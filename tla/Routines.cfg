CONSTANTS
    Routines = {1}
    Plans <- MCPlans
    Deliveries = {d1}
    Cards = {q1}
    Target = 1
    Every = 1
    EndsAt = 2
    CatchUp = 1
    Timeout = 1
    Retain = 1
    RetryWindow = 1
    MaxReceipts = 2
    MaxPending = 1
    Slots = 2
    MaxRuns = 2
    MaxTime = 3
    MaxTrouble = 1
    MaxCrashes = 1
SPECIFICATION FairSpec
INVARIANTS TypeOK NothingTwice RunsAreTrue
PROPERTIES RepeatsAndLateEventsAreIgnored EveryRunEnds
CHECK_DEADLOCK FALSE
