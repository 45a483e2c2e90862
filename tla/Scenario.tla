------------------------------ MODULE Scenario ------------------------------
(***************************************************************************)
(* nodes/scenario_simulator_node.py: the tasks of a session, one after the *)
(* other.  A stage requests its capability and ends when it was executed   *)
(* or its fallback was; in the sensor demonstration, a stage that uses a   *)
(* sensor is authorized first and ends with the sensor's report.  Every    *)
(* status but "none" is published on /scenario/status.                     *)
(***************************************************************************)
EXTENDS Integers, Sequences

CONSTANTS
    Stages,        \* SCENARIO_STAGES: the capability of each, in order
    SensorStages,  \* the capabilities in SENSOR_ACTIONS
    SensorDemo,    \* the parameter sensor_demo
    ConditionKnown \* _condition is not 'invalid'

ASSUME ScenarioAssumption ==
    /\ Stages \in Seq({Stages[i] : i \in DOMAIN Stages})
    /\ SensorDemo \in BOOLEAN /\ ConditionKnown \in BOOLEAN

VARIABLES
    scenSession,   \* _session_id; 0: ''
    nextStage,     \* _next_stage_index
    current,       \* number of _current_stage; 0: None
    due,           \* _next_action_at: "none", "ahead" or "reached"
    complete,      \* _complete
    executing,     \* _waiting_for_execution
    scenOut        \* what the last step published

scenVars == <<scenSession, nextStage, current, due, complete, executing, scenOut>>

NoNews == [status |-> "none", stage |-> 0]
Silent == scenOut' = NoNews
Says(status, stage) == scenOut' = [status |-> status, stage |-> stage]

Still == /\ Silent
         /\ UNCHANGED <<scenSession, nextStage, current, due, complete, executing>>

\* _on_session
RestartInStage == nextStage' = 0 /\ UNCHANGED current    \* mutant: stage not cleared

Restart == nextStage' = 0 /\ current' = 0

ScenarioOnSession(s) ==
    IF s = scenSession THEN Still
    ELSE /\ scenSession' = s
         /\ Restart
         /\ complete' = FALSE /\ executing' = FALSE
         /\ due' = "ahead"
         /\ Says("ready", 0)

\* _tick, once the time of the next action has come
ScenarioTick ==
    /\ ConditionKnown /\ scenSession # 0 /\ ~complete /\ current = 0 /\ due = "reached"
    /\ due' = "none"
    /\ IF nextStage = Len(Stages)
       THEN /\ complete' = TRUE
            /\ Says("complete", 0)
            /\ UNCHANGED current
       ELSE /\ current' = nextStage + 1
            /\ Says("requested", nextStage + 1)
            /\ UNCHANGED complete
    /\ UNCHANGED <<scenSession, nextStage, executing>>

-----------------------------------------------------------------------------
ScenarioStatus ==
    {"ready", "requested", "started", "executed", "fallback", "complete"}

\* _matching_stage
Matches(c) == current # 0 /\ c = Stages[current]

\* _advance, after the outcome of the current stage was published
Advance(outcome) ==
    /\ nextStage' = nextStage + 1
    /\ current' = 0
    /\ executing' = FALSE
    /\ due' = "ahead"
    /\ Says(outcome, current)
    /\ UNCHANGED <<scenSession, complete>>

NeedsSensor(c) == SensorDemo /\ c \in SensorStages

ScenarioOnAuthorized(c) ==
    \/ ~Matches(c) /\ Still
    \/ /\ Matches(c) /\ NeedsSensor(c)
       /\ executing' = TRUE
       /\ Says("started", current)
       /\ UNCHANGED <<scenSession, nextStage, current, due, complete>>
    \/ Matches(c) /\ ~NeedsSensor(c) /\ Advance("executed")

ScenarioOnBlocked(c) == IF Matches(c) THEN Advance("fallback") ELSE Still

\* _on_execution_completed
Awaited(c) == SensorDemo /\ executing /\ Matches(c)

OutcomeOfReport(result) == "executed"               \* mutant: any report will do

Outcome(result) == IF result = "success" THEN "executed" ELSE "fallback"

OnExecutionCompleted(c, result) ==
    IF Awaited(c) THEN Advance(Outcome(result)) ELSE Still

\* The startup or the stage delay passes.
DelayPasses ==
    /\ due = "ahead" /\ due' = "reached"
    /\ Silent
    /\ UNCHANGED <<scenSession, nextStage, current, complete, executing>>

ScenarioInit ==
    /\ scenSession = 0 /\ nextStage = 0 /\ current = 0
    /\ due = "none" /\ complete = FALSE /\ executing = FALSE
    /\ scenOut = NoNews
=============================================================================
