SPECIFICATION Spec
CONSTANTS
    m1 = m1  m2 = m2  a1 = a1
    Msgs = {m1, m2}
    Adapters = {a1}
    Matches <- MCMatches
    Restricted = {}
    Syncs = {s1, s2}
    Batch = 2
    Window = 2
    Threshold <- MCThreshold
    CoolDown = 1
    MaxEvents = 2
    MaxCaptures = 2
    MaxFaults = 1
CHECK_DEADLOCK FALSE
SYMMETRY Symmetry
INVARIANT NoDocumentLost
PROPERTIES QueueDurable
