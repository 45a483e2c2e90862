CONSTANTS
    person = person
    speech = speech
    all = all
    Stages <- Tasks
    Asked <- Tasks
    StageNumber <- Numbers
    HighPrivacy = {person}
    AllTogether = all
    SensorStages = {}
    SensorDemo = FALSE
    ConditionKnown = TRUE
    Modes = {"static", "dynamic"}
    MaxSession = 2
SPECIFICATION FairSpec
INVARIANTS SummaryTellsTheTrial StrategyIsExercised OneSummary
PROPERTIES EveryTrialIsSummarised
CHECK_DEADLOCK FALSE
