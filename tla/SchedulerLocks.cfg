SPECIFICATION FairSpec
CONSTANTS
    Instances = {s1, s2}
    Jobs <- TheJobs
    Keys <- TheJobs
    KeyOf <- SharedKeys
    NoHolder = NoHolder
    MaxFired = 3
    MaxLost = 1
    MaxStops = 1
    MaxDbFailures = 1
INVARIANTS
    LeadersLocked
    HistoryAccounts
PROPERTIES
    LockComesFree
CHECK_DEADLOCK FALSE
