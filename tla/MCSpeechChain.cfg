CONSTANTS
    speech = speech
    other = other
    Microphone = speech
    OtherCapability = other
    QueueSize = 2
    ChunksPerTick = 2
    MaxCapture = 2
    AudioDepth = 2
    MaxStatus = 3
SPECIFICATION FairSpec
INVARIANTS ChainTypeOK NoUnknownRecording
PROPERTIES OnlyCurrentAudio SilentOnceWithdrawn CaptureEnds ListeningEnds
CHECK_DEADLOCK FALSE
