SPECIFICATION Spec
CONSTANTS
    r1 = r1
    r2 = r2
    r3 = r3
    p1 = p1
    p2 = p2
    Run = {r1}
    NoRun = NoRun
    Attempt = {a1}
    NoAttempt = NoAttempt
    Policy = {p1}
    PolicyOf <- RunsOfP1
    Kind <- Collections
    Frequency <- EveryTrigger
    Lease = 1
    Lifetime = 3
    MaxDelay = 0
    EndsAt = 4
    MaxActive = 2
    Changes <- Authority
    Rebinding = FALSE
    MaxTime = 3
    MaxGeneration = 2
    MaxVersion = 1
PROPERTIES TerminalStays
