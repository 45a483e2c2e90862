CONSTANTS
    memory = memory
    speech = speech
    undefined = undefined
    Capability = {memory, speech, undefined}
    Policy = {memory, speech}
    Expiry <- NoExpiry
    Configurations <- Setups
    MaxGateSession = 3
SYMMETRY Capabilities
SPECIFICATION Spec
INVARIANTS InFlightIsCurrent
PROPERTIES OneCallAtATime NeverDropped
