SPECIFICATION FairSpec
CONSTANTS
    r1 = r1
    r2 = r2
    r3 = r3
    p1 = p1
    p2 = p2
    Run = {r1}
    NoRun = NoRun
    Attempt = {a1, a2}
    NoAttempt = NoAttempt
    Policy = {p1}
    PolicyOf <- RunsOfP1
    Kind <- CollectionScripts
    Frequency <- EveryTrigger
    Lease = 1
    Lifetime = 2
    MaxDelay = 0
    EndsAt = 3
    MaxActive = 2
    Changes <- Authority
    Rebinding = TRUE
    MaxTime = 3
    MaxGeneration = 2
    MaxVersion = 1
INVARIANTS TypeOK AtMostOneEffect PermitIsCurrent OpenCollectionIsCurrent StaleRunsAreFenced EventsTellTheVerdict
PROPERTIES EveryRunSettles EndedDeliveryIsFinal SealedStaysSealed KeepsPromise
