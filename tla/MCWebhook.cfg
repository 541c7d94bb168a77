SPECIFICATION FairSpec
CONSTANTS
    Nil = Nil
    e1 = e1
    e2 = e2
    e3 = e3
    p1 = p1
    o1 = o1
    Subscription = {1, 2, 3}
    Event = {e1, e2, e3}
    Publication = {p1}
    Changes <- TwoChanges
    Selects <- OneSelective
    Operation = {o1}
    Page = 1
    MaxSubscriptions = 2
    Lag = 1
    MaxVersion <- Versions
    MaxTime = 1
    MaxSources = 1
    MaxInFlight = 1
    MaxRequests = 9
    Enabled = {1, 2}
INVARIANTS
    ConfirmedIsServed
    NothingIsBackfilled
    OneDeliveryPerOperation
    UnsettledKeepsItsKey
PROPERTIES
    RetiredIsSilent
    SourcesDrain
CHECK_DEADLOCK FALSE
