SPECIFICATION Spec
CONSTANTS
    r1 = r1
    r2 = r2
    r3 = r3
    p1 = p1
    p2 = p2
    Run = {r1, r2}
    NoRun = NoRun
    Attempt = {a1, a2}
    NoAttempt = NoAttempt
    Policy = {p1}
    PolicyOf <- RunsOfP1
    Kind <- Scripts
    Frequency <- EveryTrigger
    Lease = 1
    Lifetime = 2
    MaxDelay = 0
    EndsAt = 3
    MaxActive = 2
    Changes <- Nothing
    Rebinding = TRUE
    MaxTime = 3
    MaxGeneration = 2
    MaxVersion = 1
CHECK_DEADLOCK FALSE
PROPERTIES UnknownBlocksStart
