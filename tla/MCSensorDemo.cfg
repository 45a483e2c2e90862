CONSTANTS
    person = person
    pose = pose
    none = none
    Vision = {person}
    NotVision = none
    Stages <- Tasks
    SensorStages = {person}
    SensorDemo = TRUE
    ConditionKnown = TRUE
    MaxSession = 2
    MaxRevocation = 1
SPECIFICATION Spec
INVARIANTS NoForgottenWindow OneOutcomePerStage
PROPERTIES ExecutedOnlyIfSeen SeenOnlyWhileEntitled
CHECK_DEADLOCK FALSE
