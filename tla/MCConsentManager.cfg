CONSTANTS
    memory = memory
    speech = speech
    all = all
    Capability = {memory, speech, all}
    Policy = {memory, speech}
    Expiry <- Expiries
    SortedPolicy <- TwoCapabilities
    AllCapabilities = all
    Configurations <- EverySetup
    MaxSession = 2
    MaxClock = 1
    MaxRequest = 2
SPECIFICATION ManagerSpec
INVARIANTS RecordsBelongToActiveSession StaticDecidedTogether
PROPERTIES NoRepromptOutsideDynamic EveryChangeIsAnnounced
