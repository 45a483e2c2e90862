--------------------------- MODULE MotionAdapter ----------------------------
(***************************************************************************)
(* nodes/gazebo_motion_adapter_node.py with                                *)
(* simulation/gazebo_motion_logic.py: every status of the scenario is a    *)
(* plan of timed segments, or stops the robot.  A plan replaces the one in *)
(* progress; a timer goes from one segment to the next.                    *)
(*                                                                         *)
(* A segment is what it adds to the position and to the heading if it is   *)
(* driven to its end: forward in stage lengths of 0.4 m, turn in quarters  *)
(* of what turn_speed does in turn_duration.                               *)
(***************************************************************************)
EXTENDS Integers, Sequences

CONSTANTS
    Number,        \* ScenarioStage.number of each stage, in order
    MotionEnabled  \* _enabled: all parameters are valid

ASSUME MotionAssumption ==
    /\ Number \in Seq(1 .. 7)
    /\ MotionEnabled \in BOOLEAN

VARIABLES
    running,       \* the process is up, and its node spins
    segments,      \* _segments: those not begun
    deadline,      \* _segment_deadline: "none", "ahead" or "reached"
    command        \* the last velocity published

motionVars == <<running, segments, deadline, command>>

Turn(n) == [forward |-> 0, turn |-> n, timed |-> TRUE]
Pause   == Turn(0)
Forward == [forward |-> 1, turn |-> 0, timed |-> TRUE]
Halt    == [forward |-> 0, turn |-> 0, timed |-> FALSE]

Left  == Turn(4)
Right == Turn(-4)

Segment == [forward : {0, 1}, turn : -4 .. 4, timed : BOOLEAN]

-----------------------------------------------------------------------------
(***************************************************************************)
(* parse_scenario_status.  A message of the scenario has the form of a     *)
(* status by construction; what can be foreign to the parser is its kind,  *)
(* and the action of an executed stage: sensed says that it is the one of  *)
(* SENSOR_ACTIONS and not the stage's own.                                 *)
(***************************************************************************)
Recognised(m) ==
    /\ m.status \in {"ready", "complete", "requested", "executed", "fallback"}
    /\ m.status = "executed" => ~m.sensed

\* _allowed_gesture
Gesture(number) ==
    CASE number \in {1, 7} -> <<Left, Right>>
      [] number = 2 -> <<Pause>>
      [] number = 3 -> <<Turn(1), Turn(-1)>>
      [] number = 4 -> <<Turn(3), Turn(-3)>>
      [] OTHER -> <<>>

AllowedPlan(number) ==
    IF number = 7 THEN <<Forward>> \o Gesture(number) ELSE Gesture(number) \o <<Forward>>

FallbackPlan(number) == <<Left, Right>>

\* motion_plan_for_signal
PlanFor(m) ==
    CASE m.status = "executed" -> AllowedPlan(Number[m.stage])
      [] m.status = "fallback" -> FallbackPlan(Number[m.stage])
      [] OTHER -> <<Halt>>

-----------------------------------------------------------------------------
\* _start_next_segment, with rest as the segments left
DriveToEnd(rest) ==                 \* mutant: the last segment is not stopped
    IF rest = <<>>
    THEN deadline' = "none" /\ UNCHANGED <<segments, command>>
    ELSE /\ command' = Head(rest)
         /\ segments' = Tail(rest)
         /\ deadline' = "ahead"

Stop == segments' = <<>> /\ deadline' = "none" /\ command' = Halt

Drive(rest) ==
    IF rest = <<>> \/ ~Head(rest).timed THEN Stop
    ELSE /\ command' = Head(rest)
         /\ segments' = Tail(rest)
         /\ deadline' = "ahead"

\* _start_plan
StartPlanLater(plan) == Drive(segments \o plan)      \* mutant: queued, not replaced
StartPlan(plan) == Drive(plan)

\* _on_scenario_status
MotionOnStatus(m) ==
    /\ running /\ UNCHANGED running
    /\ IF MotionEnabled /\ Recognised(m) THEN StartPlan(PlanFor(m)) ELSE Stop

\* _tick
MotionTick ==
    /\ running /\ UNCHANGED running
    /\ deadline = "reached" /\ Drive(segments)

(***************************************************************************)
(* The end of the process, and the start of the next: nothing starts it by *)
(* itself.  destroy_node publishes a stop only while the context is valid, *)
(* which the signal that ends the process may have seen to, and lets a     *)
(* publish fail; a process that is killed does not come to it at all.      *)
(* Whatever way it ends, its plan is gone, and the velocity it last        *)
(* published stands if no stop was.  __init__ publishes one.               *)
(***************************************************************************)
MotionEnds ==
    /\ running /\ running' = FALSE
    /\ segments' = <<>> /\ deadline' = "none"
    /\ command' \in {Halt, command}

MotionStartsSilently ==                  \* mutant: __init__ publishes no stop
    ~running /\ running' = TRUE /\ UNCHANGED <<segments, deadline, command>>

MotionStarts == ~running /\ running' = TRUE /\ Stop

MotionInit == running = TRUE /\ segments = <<>> /\ deadline = "none" /\ command = Halt

-----------------------------------------------------------------------------
(***************************************************************************)
(* The robot in Gazebo keeps the velocity it was last given, beyond the    *)
(* end of a plan, or of the adapter, if nothing stops it.  The time of a   *)
(* segment is over when the robot has done what it commands; one that is   *)
(* replaced before that adds nothing.                                      *)
(***************************************************************************)
VARIABLES position, heading

robot == <<position, heading>>

RobotDrives ==
    /\ \/ deadline = "ahead"
       \/ deadline = "none" /\ command # Halt
    /\ position' = position + command.forward
    /\ heading' = heading + command.turn
    /\ deadline' = IF deadline = "ahead" THEN "reached" ELSE deadline
    /\ UNCHANGED <<running, segments, command>>

RobotInit == position = 0 /\ heading = 0
=============================================================================
