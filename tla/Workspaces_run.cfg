SPECIFICATION Spec
CONSTANTS
    u1 = u1  u2 = u2  c1 = c1  c2 = c2  c3 = c3  r1 = r1  r2 = r2  r3 = r3
    Users = {u1, u2}
    NoUser = NoUser
    Codes = {c1, c2, c3}
    NoCode = NoCode
    Requests = {r1, r2, r3}
    Operations <- MCOperations
    MaxId = 4
    MaxFaults = 1
    Seed <- MCSeed
CHECK_DEADLOCK FALSE
INVARIANTS TypeOK FailedCloneLeavesNothing
PROPERTIES OwnerOnly PersonalKept EffectiveComplete
