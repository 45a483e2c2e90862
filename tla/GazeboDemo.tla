----------------------------- MODULE GazeboDemo -----------------------------
(***************************************************************************)
(* The demonstration in Gazebo: scenario, motion adapter, robot and reset  *)
(* controller.  Manager and gate are reduced to what ConsentSystem shows   *)
(* of them: a request is authorized or blocked, sessions are announced.    *)
(* A topic delivers in order; nothing orders two topics or two readers.    *)
(***************************************************************************)
EXTENDS Scenario, MotionAdapter, ExperimentController, FiniteSets

CONSTANTS
    MaxSession,       \* bound: sessions of a run
    MaxReset,         \* bound: resets accepted
    MaxRestart,       \* bound: ends of the adapter
    MaxAdrift,        \* bound: moves of the robot while no adapter runs
    MaxBacklog        \* bound: statuses not yet taken when a delay passes

ASSUME GazeboAssumption ==
    /\ Len(Number) = Len(Stages)
    /\ MaxSession \in Nat \ {0} /\ MaxReset \in Nat /\ MaxRestart \in Nat
    /\ MaxAdrift \in Nat /\ MaxBacklog \in Nat

VARIABLES
    session,        \* the active session of the manager
    requests,       \* /capability/requested, not yet answered by the gate
    authorized,     \* /capability/authorized, to the scenario
    blocked,        \* /capability/blocked, to the scenario
    announced,      \* /consent/session, to each reader: depth 1, 0 if taken
    statuses,       \* /scenario/status, to the adapter
    resets,         \* resets accepted so far
    restarts,       \* ends of the adapter so far
    adrift,         \* moves of the robot so far while no adapter ran
    allowance,      \* history: stages the robot may have advanced
    unattended,     \* history: stage lengths it advanced while no adapter ran
    disturbed,      \* history: a reset, an end of the adapter, or a delay shorter than a plan
    cycle           \* history of the last reset: session before it, world reset

channels == <<requests, authorized, blocked, announced, statuses>>
counters == <<resets, restarts, adrift>>
history == <<allowance, unattended, disturbed, cycle>>
vars == <<scenVars, motionVars, robot, controllerVars, session, channels,
          counters, history>>

Reader == {"scenario", "controller"}

Init ==
    /\ ScenarioInit /\ MotionInit /\ RobotInit /\ ControllerInit
    /\ session = 1
    /\ requests = <<>> /\ authorized = <<>> /\ blocked = <<>> /\ statuses = <<>>
    /\ announced = [r \in Reader |-> 1]
    /\ resets = 0 /\ restarts = 0 /\ adrift = 0
    /\ allowance = 0 /\ unattended = 0 /\ disturbed = FALSE
    /\ cycle = [session |-> 0, world |-> FALSE]

-----------------------------------------------------------------------------
(***************************************************************************)
(* The gate, and the session of the manager.                               *)
(***************************************************************************)
Answers ==
    /\ requests # <<>> /\ requests' = Tail(requests)
    /\ \/ authorized' = Append(authorized, Head(requests)) /\ UNCHANGED blocked
       \/ blocked' = Append(blocked, Head(requests)) /\ UNCHANGED authorized
    /\ UNCHANGED <<scenVars, motionVars, robot, controllerVars, session, announced,
                   statuses, counters, history>>

\* The gate forgets what it was asked in the session that ends.
OpensSession ==
    /\ session < MaxSession /\ session' = session + 1
    /\ announced' = [r \in Reader |-> session']
    /\ requests' \in {requests, <<>>}
    /\ disturbed' = TRUE

\* Somebody else calls /consent/reset_session.
OtherReset ==
    /\ OpensSession
    /\ UNCHANGED <<scenVars, motionVars, robot, controllerVars, authorized, blocked,
                   statuses, counters, allowance, unattended, cycle>>

-----------------------------------------------------------------------------
(***************************************************************************)
(* The two services the controller calls.  Either may refuse, or fail.     *)
(***************************************************************************)
\* An outcome that moves the robot, and those on their way to be driven.
Executed(m) == m.status = "executed" /\ Recognised(m)

Outstanding == {i \in DOMAIN statuses : Executed(statuses[i])}

Advances == {i \in DOMAIN segments : segments[i].forward = 1}

Underway ==
    Cardinality(Outstanding) + Cardinality(Advances)
    + IF deadline = "ahead" THEN command.forward ELSE 0

\* Whether the velocity commanded survives is up to the simulator.
WorldServes ==
    /\ phase = "world" /\ call = "sent"
    /\ \/ /\ Answered("succeeded")
          /\ position' = 0 /\ heading' = 0
          /\ command' \in {command, Halt}
          /\ allowance' = Underway /\ unattended' = 0 /\ disturbed' = TRUE
          /\ cycle' = [cycle EXCEPT !.world = TRUE]
       \/ /\ Answered("failed")
          /\ UNCHANGED <<robot, command, history>>
    /\ UNCHANGED <<scenVars, running, segments, deadline, session, channels, counters>>

ManagerServes ==
    /\ phase = "consent" /\ call = "sent"
    /\ \/ /\ resetOf = session /\ OpensSession
          /\ Answered("succeeded")
       \/ /\ Answered("failed")
          /\ UNCHANGED <<session, announced, requests, disturbed>>
    /\ UNCHANGED <<scenVars, motionVars, robot, authorized, blocked, statuses,
                   counters, allowance, unattended, cycle>>

ControllerTakesSession ==
    /\ announced["controller"] # 0
    /\ announced' = [announced EXCEPT !["controller"] = 0]
    /\ ControllerOnSession(announced["controller"])
    /\ UNCHANGED <<resets, cycle>>

StudyReset ==
    /\ resets < MaxReset /\ resets' = resets + 1
    /\ AcceptsReset
    /\ cycle' = [session |-> session, world |-> FALSE]
    /\ UNCHANGED announced

ControllerHears == (OnWorldReset \/ OnConsentReset) /\ UNCHANGED <<announced, resets, cycle>>

ControllerSteps(A) ==
    A /\ UNCHANGED <<scenVars, motionVars, robot, session, requests, authorized,
                     blocked, statuses, restarts, adrift, allowance, unattended,
                     disturbed>>

-----------------------------------------------------------------------------
(***************************************************************************)
(* The scenario.                                                           *)
(***************************************************************************)
Status ==
    [status |-> scenOut'.status, stage |-> scenOut'.stage,
     sensed |-> scenOut'.status = "executed" /\ NeedsSensor(Stages[scenOut'.stage])]

\* A status is lost on an adapter that does not run: the topic keeps none.
ScenarioPublishes ==
    /\ requests' = IF scenOut'.status = "requested"
                   THEN Append(requests, Stages[scenOut'.stage]) ELSE requests
    /\ statuses' = IF scenOut'.status = "none" \/ ~running THEN statuses
                   ELSE Append(statuses, Status)
    /\ allowance' = IF Executed(Status) THEN allowance + 1 ELSE allowance

ScenarioAuthorized ==
    /\ authorized # <<>> /\ authorized' = Tail(authorized)
    /\ ScenarioOnAuthorized(Head(authorized))
    /\ UNCHANGED <<blocked, announced, disturbed>>

ScenarioBlocked ==
    /\ blocked # <<>> /\ blocked' = Tail(blocked)
    /\ ScenarioOnBlocked(Head(blocked))
    /\ UNCHANGED <<authorized, announced, disturbed>>

ScenarioSession ==
    /\ announced["scenario"] # 0
    /\ announced' = [announced EXCEPT !["scenario"] = 0]
    /\ ScenarioOnSession(announced["scenario"])
    /\ UNCHANGED <<authorized, blocked, disturbed>>

\* The camera and microphone report at any time, once or not.
ScenarioCompleted ==
    /\ executing
    /\ \E result \in {"success", "failed"} : OnExecutionCompleted(Stages[current], result)
    /\ UNCHANGED <<authorized, blocked, announced, disturbed>>

Quiet == statuses = <<>> /\ deadline = "none"

ScenarioTimer ==
    /\ \/ ScenarioTick /\ UNCHANGED disturbed
       \/ DelayPasses /\ Len(statuses) <= MaxBacklog /\ disturbed' = (disturbed \/ ~Quiet)
    /\ UNCHANGED <<authorized, blocked, announced>>

ScenarioSteps(A) ==
    A /\ ScenarioPublishes
      /\ UNCHANGED <<motionVars, robot, controllerVars, session, counters, unattended,
                   cycle>>

-----------------------------------------------------------------------------
(***************************************************************************)
(* The adapter and the robot.                                              *)
(***************************************************************************)
AdapterTakesStatus ==
    /\ statuses # <<>> /\ statuses' = Tail(statuses)
    /\ MotionOnStatus(Head(statuses))
    /\ UNCHANGED <<robot, restarts, adrift, unattended, disturbed>>

AdapterTicks ==
    MotionTick /\ UNCHANGED <<robot, statuses, restarts, adrift, unattended, disturbed>>

\* What the robot drives with no adapter is driven on nobody's word.
RobotMoves ==
    /\ RobotDrives
    /\ IF running THEN UNCHANGED <<adrift, unattended>>
       ELSE /\ adrift < MaxAdrift /\ adrift' = adrift + 1
            /\ unattended' = unattended + command.forward
    /\ UNCHANGED <<statuses, restarts, disturbed>>

AdapterEnds ==
    /\ restarts < MaxRestart /\ restarts' = restarts + 1
    /\ MotionEnds
    /\ statuses' = <<>>
    /\ disturbed' = TRUE
    /\ UNCHANGED <<robot, adrift, unattended>>

AdapterStarts ==
    MotionStarts /\ UNCHANGED <<robot, statuses, restarts, adrift, unattended, disturbed>>

AdapterSteps(A) ==
    A /\ UNCHANGED <<scenVars, controllerVars, session, requests, authorized, blocked,
                     announced, resets, allowance, cycle>>

-----------------------------------------------------------------------------
Next ==
    \/ Answers \/ OtherReset \/ WorldServes \/ ManagerServes
    \/ ControllerSteps(ControllerTakesSession) \/ ControllerSteps(StudyReset)
    \/ ControllerSteps(ControllerHears)
    \/ ScenarioSteps(ScenarioAuthorized) \/ ScenarioSteps(ScenarioBlocked)
    \/ ScenarioSteps(ScenarioSession) \/ ScenarioSteps(ScenarioCompleted)
    \/ ScenarioSteps(ScenarioTimer)
    \/ AdapterSteps(AdapterTakesStatus) \/ AdapterSteps(AdapterTicks)
    \/ AdapterSteps(RobotMoves) \/ AdapterSteps(AdapterEnds)
    \/ AdapterSteps(AdapterStarts)

Spec == Init /\ [][Next]_vars

(***************************************************************************)
(* Services answer (or fail) and their answers are heard.                  *)
(***************************************************************************)
Fairness ==
    /\ WF_vars(WorldServes) /\ WF_vars(ManagerServes)
    /\ WF_vars(ControllerSteps(ControllerHears))

FairSpec == Spec /\ Fairness

-----------------------------------------------------------------------------
(***************************************************************************)
(* Every variable has its type.                                            *)
(***************************************************************************)
StatusMessage ==
    [status : ScenarioStatus, stage : 0 .. Len(Stages), sensed : BOOLEAN]

Capabilities == {Stages[i] : i \in DOMAIN Stages}

ScenarioTypeOK ==
    /\ scenSession \in 0 .. MaxSession
    /\ nextStage \in 0 .. Len(Stages) /\ current \in 0 .. Len(Stages)
    /\ due \in {"none", "ahead", "reached"}
    /\ complete \in BOOLEAN /\ executing \in BOOLEAN
    /\ scenOut \in [status : ScenarioStatus \cup {"none"}, stage : 0 .. Len(Stages)]

MotionTypeOK ==
    /\ running \in BOOLEAN
    /\ segments \in Seq(Segment) /\ Len(segments) <= 2
    /\ deadline \in {"none", "ahead", "reached"} /\ command \in Segment
    /\ position \in Nat /\ heading \in Int

ControllerTypeOK ==
    /\ known \in 0 .. MaxSession /\ resetOf \in 0 .. MaxSession
    /\ phase \in {"idle", "world", "consent"}
    /\ call \in {"none", "sent", "succeeded", "failed"}
    /\ controlStatus \in {"none", "reset_requested", "gazebo_reset_complete",
                          "reset_complete", "reset_failed"}

ChannelTypeOK ==
    /\ requests \in Seq(Capabilities)
    /\ authorized \in Seq(Capabilities) /\ blocked \in Seq(Capabilities)
    /\ announced \in [Reader -> 0 .. MaxSession]
    /\ statuses \in Seq(StatusMessage)

GazeboTypeOK ==
    /\ ScenarioTypeOK /\ MotionTypeOK /\ ControllerTypeOK /\ ChannelTypeOK
    /\ session \in 1 .. MaxSession
    /\ resets \in 0 .. MaxReset /\ restarts \in 0 .. MaxRestart
    /\ adrift \in 0 .. MaxAdrift
    /\ allowance \in Nat /\ unattended \in Nat /\ disturbed \in BOOLEAN
    /\ cycle \in [session : 0 .. MaxSession, world : BOOLEAN]

(***************************************************************************)
(* docs/phase6: granting stage 6 moves the robot across the red line; a    *)
(* refusal waits outside.  Since the world was reset the robot has never   *)
(* advanced by more stages than were executed (and were under way then),   *)
(* whatever a plan was replaced by.  Beyond that it stands only by what it *)
(* drove between the end of one adapter and the start of the next, on the  *)
(* velocity that the first could not take back: the next one stops it, and *)
(* neither drives on what the first was told nor a status sent meanwhile.  *)
(***************************************************************************)
NeverFurtherThanAllowed == position <= allowance + unattended

(***************************************************************************)
(* docs/phase7: every allowed stage advances the same 0.4 m, and gestures  *)
(* return to the original heading.  As long as no stage delay ends before  *)
(* the plan does, nobody resets anything and the adapter does not end, a   *)
(* robot at rest stands where the outcomes put it.  An outcome of a sensor *)
(* moves nothing: the adapter does not recognise its action.               *)
(***************************************************************************)
EveryAllowedStageAdvances ==
    ~disturbed /\ Quiet => position = allowance /\ heading = 0

(***************************************************************************)
(* study_status_logic.py, yellow: the robot is stopped until an explicit   *)
(* choice is made.  It stands by the time an adapter that runs has caught  *)
(* up with a stage that waits, whatever it or the one before it did, and   *)
(* however short the delay; also where it heard of none of this stage.     *)
(***************************************************************************)
WaitsStanding ==
    running /\ current # 0 /\ statuses = <<>> => command = Halt /\ deadline = "none"

(***************************************************************************)
(* docs/phase7 and phase8: the session is reset only after the world was,  *)
(* and reset_complete means that both were since the reset was requested.  *)
(***************************************************************************)
ResetInOrder ==
    /\ controlStatus = "reset_complete" => cycle.world /\ session > cycle.session
    /\ phase = "consent" => cycle.world

(***************************************************************************)
(* A reset that was accepted ends, so that another can be asked for.       *)
(***************************************************************************)
EveryResetEnds == phase # "idle" ~> phase = "idle"
=============================================================================
