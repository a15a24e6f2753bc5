SPECIFICATION FairSpec
CONSTANTS
    m1 = m1  m2 = m2  a1 = a1
    Msgs = {m1, m2}
    Adapters = {a1, a2}
    Matches <- MCApart
    Restricted = {m2}
    Syncs = {s1, s2}
    Batch = 1
    Window = 1
    Threshold <- MCThreshold
    CoolDown = 1
    MaxEvents = 2
    MaxCaptures = 1
    MaxFaults = 1
CHECK_DEADLOCK FALSE
PROPERTIES QueueDrains
