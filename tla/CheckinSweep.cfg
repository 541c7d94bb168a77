SPECIFICATION FairSpec
CONSTANTS
    Policies = 3
    MaxEvents = 3
INVARIANTS
    SweepCovers
    LatestIsKept
    EventIsScheduled
PROPERTIES
    CheckinIsSwept
