SPECIFICATION FairSpec
CONSTANTS
    r1 = r1  r2 = r2  r3 = r3  u1 = u1  u2 = u2
    Requests = {r1, r2, r3}
    Operations <- MCOperations
    Users <- MCUsers
    Owner = u1
    MaxDoc = 2
    MaxFaults = 1
    Configs <- MCConfigs
CHECK_DEADLOCK FALSE
INVARIANTS TypeOK UploadedIsReadable SettledOnceAcknowledged AcceptedIsQueued
PROPERTIES ConversionEnds
