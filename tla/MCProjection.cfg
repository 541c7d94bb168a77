SPECIFICATION Spec
CONSTANTS
    Devices = 2
    ObjectPage = 1
    DevicePage = 1
    Result <- Moving
    MaxRevision = 2
    MaxRun = 2
    MaxGeneration <- LastTwice
    MaxJobs = 1
INVARIANTS
    AssignedIsWoken
    RowsFollowScope
CHECK_DEADLOCK FALSE
