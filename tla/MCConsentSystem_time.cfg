CONSTANTS
    memory = memory
    speech = speech
    all = all
    Capability = {memory, all}
    Policy = {memory}
    Expiry <- Timed
    SortedPolicy <- OneCapability
    AllCapabilities = all
    Configurations <- DynamicOnly
    MaxSession = 1
    MaxClock = 2
    MaxRequest = 6
    MaxAsks = 5
    Disturbances = {"revocation", "time passes"}
SPECIFICATION FairSpec
INVARIANTS SystemTypeOK NoLostWakeUp OpenQuestionIsInHand
PROPERTIES AuthorizedOnLiveConsent EveryRequestIsAnswered
CHECK_DEADLOCK FALSE
