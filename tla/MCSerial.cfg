SPECIFICATION Spec
CONSTANTS
    r1 = r1
    r2 = r2
    r3 = r3
    p1 = p1
    p2 = p2
    Run = {r1, r2, r3}
    NoRun = NoRun
    Attempt = {a1}
    NoAttempt = NoAttempt
    Policy = {p1, p2}
    PolicyOf <- TwoOfP1
    Kind <- ScriptAndCollection
    Frequency <- Mixed
    Lease = 1
    Lifetime = 2
    MaxDelay = 0
    EndsAt = 4
    MaxActive = 1
    Changes <- VersionOrRequirements
    Rebinding = FALSE
    MaxTime = 3
    MaxGeneration = 1
    MaxVersion = 2
SYMMETRY TwinSymmetry
INVARIANTS ActiveRunsBounded OnePendingRun
