SPECIFICATION Spec
CONSTANTS
    m1 = m1  m2 = m2  o1 = o1  o2 = o2
    Msgs = {m1, m2}
    NoMsg = NoMsg
    Offices = {o1, o2}
    Worker = worker
    Handlers = {h1}
    Dest <- MCDest
    RouteTable <- MCRouteTable
    LawAcks <- MCLawAcks
    Blueprints = {m2}
    PbftGated = {m2}
    MaxRequests = 2
    Faulty <- MCAnyCall
    MaxFaults = 1
    MaxCrashes = 1
CHECK_DEADLOCK FALSE
INVARIANTS AuthorizedIsSealed AuthorizedIsApproved LinksFollowRows
PROPERTIES WritersAreSerial OnlyFailuresForget DocketIsIntake
