SPECIFICATION Spec
CONSTANTS
    Attempt = {a1, a2, a3}
    NoAttempt = NoAttempt
    Lease = 2
    MaxTime = 7
    Deadline = 5
INVARIANTS Coherent RequestedIsAddressed
PROPERTIES NeverRerun VerdictIsFinal
