CONSTANTS
    memory = memory
    speech = speech
    all = all
    Capability = {memory, speech, all}
    Policy = {memory, speech}
    Expiry <- WholeSessionBoth
    SortedPolicy <- TwoCapabilities
    AllCapabilities = all
    Configurations <- Both
    MaxSession = 2
    MaxClock = 0
    MaxRequest = 2
    MaxAsks = 2
    Disturbances = {"revocation", "reset", "crash", "input closes"}
SPECIFICATION Spec
PROPERTIES AuthorizedOnLiveConsent
CHECK_DEADLOCK FALSE
