CONSTANTS
    memory = memory
    undefined = undefined
    Capability = {memory, undefined}
    Policy = {memory}
    Expiry <- Expiries
    MaxSession = 1
    MaxClock = 3
    MaxRequest = 2
SPECIFICATION StoreSpec
INVARIANTS AllowedOnlyOnLiveConsent DecidedAtMostOnce
PROPERTIES OverMeansOver ImplementsLifecycle
