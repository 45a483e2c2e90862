CONSTANTS
    memory = memory
    speech = speech
    all = all
    Capability = {memory, all}
    Policy = {memory}
    Expiry <- WholeSession
    SortedPolicy <- OneCapability
    AllCapabilities = all
    Configurations <- StaticOnly
    MaxSession = 1
    MaxClock = 0
    MaxRequest = 3
    MaxAsks = 3
    Disturbances = {}
SPECIFICATION FairSpec
PROPERTIES RefusalIsNeverADeadEnd
CHECK_DEADLOCK FALSE
