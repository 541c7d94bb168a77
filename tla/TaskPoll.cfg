SPECIFICATION FairSpec
CONSTANTS
    Runs = 3
    Policies = 3
    CancellationPage = 1
    PolicyPage = 2
INVARIANTS
    ListedInTime
    ConsideredInTime
PROPERTIES
    ToldEventually
