CONSTANTS
    person = person
    pose = pose
    none = none
    Vision = {person}
    NotVision = none
    Stages <- Tasks
    SensorStages = {person}
    SensorDemo = TRUE
    ConditionKnown = TRUE
    MaxSession = 1
    MaxRevocation = 0
SPECIFICATION FairSpec
PROPERTIES EveryStageEnds
CHECK_DEADLOCK FALSE
