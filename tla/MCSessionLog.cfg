CONSTANTS
    memory = memory
    oddName = oddName
    all = all
    Capability = {memory, oddName, all}
    Policy = {memory}
    Tokens = {memory, all}
    Expiry <- Expiries
    SortedPolicy <- OneCapability
    AllCapabilities = all
    Configurations <- EveryCondition
    MaxSession = 2
    MaxPublished = 7
    MaxUnderWay = 3
    MaxForeign = 1
    MaxLoggerRun = 2
SPECIFICATION Spec
INVARIANTS LogTypeOK NoHoles LogAgreesWithStatus
PROPERTIES NothingLoggedLate
CHECK_DEADLOCK FALSE
