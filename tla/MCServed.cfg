SPECIFICATION FairSpec
CONSTANTS
    Devices = 2
    ObjectPage = 1
    DevicePage = 1
    Result <- EveryDevice
    MaxRevision = 2
    MaxRun = 2
    MaxGeneration <- Once
    MaxJobs = 1
PROPERTIES
    MemberIsServed
CHECK_DEADLOCK FALSE
