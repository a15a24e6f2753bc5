SPECIFICATION FairSpec
CONSTANTS
    r1 = r1  r2 = r2  r3 = r3  m1 = m1  m2 = m2  a1 = a1  a2 = a2  k1 = k1
    Requests = {r1, r2, r3}
    Messages = {m1, m2}
    Actors = {a1, a2}
    Keys = {k1}
    NoKey = NoKey
    MsgOf <- MCMsgOf
    KeyOf <- MCKeyOf
    ActorOf <- MCActorOf
    Incidents = {m2}
    Exempt = {m2}
    Ttl = 0
    MaxTime = 1
CHECK_DEADLOCK FALSE
INVARIANTS ProcessedOnce AnsweredIsQueued
PROPERTIES QueuedIsTaken SubmissionIsIntake
