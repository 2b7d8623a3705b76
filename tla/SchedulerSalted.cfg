SPECIFICATION Spec
CONSTANTS
    Instances = {s1, s2}
    Jobs <- TheJobs
    Keys <- AllSaltedKeys
    KeyOf <- SaltedKeys
    NoHolder = NoHolder
    MaxFired = 2
    MaxLost = 0
    MaxStops = 0
    MaxDbFailures = 0
INVARIANTS
    OneLeader
CHECK_DEADLOCK FALSE
