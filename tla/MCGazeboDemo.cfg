CONSTANTS
    pose = pose
    remote = remote
    Stages <- Tasks
    Number <- Numbers
    SensorStages = {pose}
    SensorDemo = TRUE
    ConditionKnown = TRUE
    MotionEnabled = TRUE
    MaxSession = 2
    MaxReset = 1
    MaxRestart = 1
    MaxAdrift = 1
    MaxBacklog = 1
SPECIFICATION FairSpec
INVARIANTS NeverFurtherThanAllowed EveryAllowedStageAdvances WaitsStanding ResetInOrder
PROPERTIES EveryResetEnds
CHECK_DEADLOCK FALSE
