----------------------------- MODULE SensorDemo -----------------------------
(***************************************************************************)
(* The scenario and the camera guard, driven by the topics they share.     *)
(* Manager and gate are reduced to what ConsentSystem shows of them: every *)
(* request is authorized or blocked, and sessions, revocations and         *)
(* decisions are announced.  A topic delivers in order to each reader;     *)
(* nothing orders two topics or two readers.                               *)
(***************************************************************************)
EXTENDS CameraGuard, Scenario

CONSTANTS
    MaxSession,     \* bound: sessions of a run
    MaxRevocation   \* bound: revocations of a run

ASSUME DemoAssumption == MaxSession \in Nat \ {0} /\ MaxRevocation \in Nat

VARIABLES
    session,        \* the active session of the manager
    revocations,    \* how many there were
    requests,       \* /capability/requested, not yet answered by the gate
    authorized,     \* /capability/authorized, to each reader
    blocked,        \* /capability/blocked, to each reader
    announced,      \* /consent/session, to each reader: depth 1, 0 if taken
    events,         \* /consent/event, to the camera guard
    completed,      \* /capability/execution_completed, to the scenario
    entitled,       \* history: capabilities authorized, and not stopped since
    seen,           \* history: the target was seen in this session
    outcomes        \* history: the stages of this session that had an outcome

channels == <<requests, authorized, blocked, announced, events, completed>>
history == <<entitled, seen, outcomes>>
vars == <<camVars, scenVars, session, revocations, channels, history>>

Reader == {"scenario", "camera"}
Capabilities == {Stages[i] : i \in DOMAIN Stages}

ASSUME NoneAssumption == NotVision \notin Capabilities

Init ==
    /\ CameraInit /\ ScenarioInit
    /\ session = 1 /\ revocations = 0
    /\ requests = <<>> /\ events = <<>> /\ completed = <<>>
    /\ authorized = [r \in Reader |-> <<>>] /\ blocked = [r \in Reader |-> <<>>]
    /\ announced = [r \in Reader |-> 1]
    /\ entitled = {} /\ seen = FALSE /\ outcomes = <<>>

-----------------------------------------------------------------------------
(***************************************************************************)
(* Gate and manager.                                                       *)
(***************************************************************************)
ToAll(topic, x) == [r \in Reader |-> Append(topic[r], x)]

Answers ==
    /\ requests # <<>>
    /\ requests' = Tail(requests)
    /\ \/ /\ authorized' = ToAll(authorized, Head(requests))
          /\ UNCHANGED <<blocked, events>>
       \/ /\ blocked' = ToAll(blocked, Head(requests))
          /\ events' = Append(events, [type |-> "capability_blocked",
                                       capability |-> Head(requests)])
          /\ UNCHANGED authorized
    /\ UNCHANGED <<camVars, scenVars, session, revocations, announced, completed, history>>

Revokes(type, c) ==
    /\ revocations < MaxRevocation /\ revocations' = revocations + 1
    /\ events' = Append(events, [type |-> type, capability |-> c])
    /\ UNCHANGED <<camVars, scenVars, session, requests, authorized, blocked,
                   announced, completed, history>>

\* The gate forgets what it was asked in the session that ends.
NewSession ==
    /\ session < MaxSession /\ session' = session + 1
    /\ announced' = [r \in Reader |-> session']
    /\ events' = events \o <<[type |-> "session_reset", capability |-> NotVision],
                             [type |-> "session_started", capability |-> NotVision]>>
    /\ requests' \in {requests, <<>>}
    /\ UNCHANGED <<camVars, scenVars, revocations, authorized, blocked, completed, history>>

Environment ==
    \/ Answers \/ NewSession
    \/ \E c \in Capabilities, type \in {"consent_revoked", "consent_expired"} :
          Revokes(type, c)

-----------------------------------------------------------------------------
(***************************************************************************)
(* The camera guard: messages, images, its timer.                          *)
(***************************************************************************)
CameraTakes(topic) ==
    /\ topic["camera"] # <<>>
    /\ topic' = [topic EXCEPT !["camera"] = Tail(@)]

CameraPublishes ==
    /\ completed' = IF camOut'.completed = NotVision THEN completed
                    ELSE Append(completed, [capability |-> camOut'.completed,
                                            result |-> camOut'.result])
    /\ seen' = (seen \/ camOut'.presence = "present")

CameraAuthorized ==
    /\ CameraTakes(authorized)
    /\ CameraOnAuthorized(Head(authorized["camera"]))
    /\ entitled' = entitled \cup ({Head(authorized["camera"])} \cap Vision)
    /\ UNCHANGED <<blocked, announced, events>>

CameraBlocked ==
    /\ CameraTakes(blocked)
    /\ CameraOnBlocked(Head(blocked["camera"]))
    /\ entitled' = entitled \ {Head(blocked["camera"])}
    /\ UNCHANGED <<authorized, announced, events>>

CameraEvent ==
    /\ events # <<>>
    /\ events' = Tail(events)
    /\ CameraOnConsentEvent(Head(events).type, Head(events).capability)
    /\ entitled' = IF Head(events).capability = NotVision THEN {}
                   ELSE entitled \ {Head(events).capability}
    /\ UNCHANGED <<authorized, blocked, announced>>

CameraSession ==
    /\ announced["camera"] # 0
    /\ announced' = [announced EXCEPT !["camera"] = 0]
    /\ CameraOnSession
    /\ entitled' = {}
    /\ UNCHANGED <<authorized, blocked, events>>

CameraWorks ==
    /\ OnSensorMessage(TRUE) \/ OnSensorMessage(FALSE) \/ CameraTick
    /\ UNCHANGED <<authorized, blocked, announced, events, entitled>>

CameraWaits ==
    /\ CameraTimePasses
    /\ UNCHANGED <<authorized, blocked, announced, events, entitled>>

CameraSteps(A) ==
    A /\ CameraPublishes
      /\ UNCHANGED <<scenVars, session, revocations, requests, outcomes>>

-----------------------------------------------------------------------------
(***************************************************************************)
(* The scenario.                                                           *)
(***************************************************************************)
ScenarioTakes(topic) ==
    /\ topic["scenario"] # <<>>
    /\ topic' = [topic EXCEPT !["scenario"] = Tail(@)]

ScenarioPublishes ==
    /\ requests' = IF scenOut'.status = "requested"
                   THEN Append(requests, Stages[scenOut'.stage]) ELSE requests
    /\ outcomes' = IF scenSession' # scenSession THEN <<>>
                   ELSE IF scenOut'.status \in {"executed", "fallback"}
                   THEN Append(outcomes, scenOut'.stage) ELSE outcomes
    /\ IF scenSession' # scenSession THEN seen' = FALSE ELSE UNCHANGED seen

ScenarioAuthorized ==
    /\ ScenarioTakes(authorized)
    /\ ScenarioOnAuthorized(Head(authorized["scenario"]))
    /\ UNCHANGED <<blocked, announced, completed>>

ScenarioBlocked ==
    /\ ScenarioTakes(blocked)
    /\ ScenarioOnBlocked(Head(blocked["scenario"]))
    /\ UNCHANGED <<authorized, announced, completed>>

ScenarioCompleted ==
    /\ completed # <<>>
    /\ completed' = Tail(completed)
    /\ OnExecutionCompleted(Head(completed).capability, Head(completed).result)
    /\ UNCHANGED <<authorized, blocked, announced>>

ScenarioSession ==
    /\ announced["scenario"] # 0
    /\ announced' = [announced EXCEPT !["scenario"] = 0]
    /\ ScenarioOnSession(announced["scenario"])
    /\ UNCHANGED <<authorized, blocked, completed>>

ScenarioTimer ==
    (ScenarioTick \/ DelayPasses) /\ UNCHANGED <<authorized, blocked, announced, completed>>

ScenarioSteps(A) ==
    A /\ ScenarioPublishes
      /\ UNCHANGED <<camVars, session, revocations, events, entitled>>

CameraNext == \/ CameraSteps(CameraAuthorized) \/ CameraSteps(CameraBlocked)
              \/ CameraSteps(CameraEvent) \/ CameraSteps(CameraSession)
              \/ CameraSteps(CameraWorks) \/ CameraSteps(CameraWaits)

ScenarioNext == \/ ScenarioSteps(ScenarioAuthorized) \/ ScenarioSteps(ScenarioBlocked)
                \/ ScenarioSteps(ScenarioCompleted) \/ ScenarioSteps(ScenarioSession)
                \/ ScenarioSteps(ScenarioTimer)

Next == Environment \/ CameraNext \/ ScenarioNext

Spec == Init /\ [][Next]_vars

(***************************************************************************)
(* Messages arrive, timers fire, time passes and the gate answers.  No     *)
(* session need change, no revocation need happen, no image need come.     *)
(***************************************************************************)
Fairness ==
    /\ WF_vars(Answers)
    /\ WF_vars(CameraSteps(CameraAuthorized)) /\ WF_vars(CameraSteps(CameraBlocked))
    /\ WF_vars(CameraSteps(CameraEvent)) /\ WF_vars(CameraSteps(CameraSession))
    /\ WF_vars(CameraSteps(CameraTick /\ UNCHANGED <<authorized, blocked, announced,
                                                      events, entitled>>))
    /\ WF_vars(CameraSteps(CameraWaits))
    /\ WF_vars(ScenarioSteps(ScenarioAuthorized)) /\ WF_vars(ScenarioSteps(ScenarioBlocked))
    /\ WF_vars(ScenarioSteps(ScenarioCompleted)) /\ WF_vars(ScenarioSteps(ScenarioSession))
    /\ WF_vars(ScenarioSteps(ScenarioTimer))

FairSpec == Spec /\ Fairness

-----------------------------------------------------------------------------
(***************************************************************************)
(* Every variable has its type.                                            *)
(***************************************************************************)
Completion == [capability : Vision, result : {"success", "failed"}]

Announcement == [type : {"session_reset", "session_started"}, capability : {NotVision}]
                \cup [type : {"consent_revoked", "consent_expired", "capability_blocked"},
                      capability : Capabilities]

DemoTypeOK ==
    /\ windows \in [Vision -> Window]
    /\ active \in Vision \cup {NotVision}
    /\ observed \in BOOLEAN
    /\ camOut \in [presence : {"none", "present", "absent"},
                  completed : Vision \cup {NotVision},
                  result : {"none", "success", "failed"}]
    /\ scenSession \in 0 .. MaxSession /\ session \in 1 .. MaxSession
    /\ nextStage \in 0 .. Len(Stages) /\ current \in 0 .. Len(Stages)
    /\ due \in {"none", "ahead", "reached"}
    /\ complete \in BOOLEAN /\ executing \in BOOLEAN
    /\ requests \in Seq(Capabilities)
    /\ \A r \in Reader : /\ authorized[r] \in Seq(Capabilities)
                         /\ blocked[r] \in Seq(Capabilities)
                         /\ announced[r] \in 0 .. MaxSession
    /\ completed \in Seq(Completion)
    /\ events \in Seq(Announcement)
    /\ scenOut \in [status : ScenarioStatus \cup {"none"}, stage : 0 .. Len(Stages)]
    /\ revocations \in 0 .. MaxRevocation
    /\ entitled \subseteq Vision /\ seen \in BOOLEAN

(***************************************************************************)
(* A window of the camera that holds a grant belongs to the observation in *)
(* progress: no path through the guard leaves one behind that an event     *)
(* about it could later use to stop another observation.                   *)
(***************************************************************************)
NoForgottenWindow == \A c \in Vision : windows[c] # "closed" => active = c

(***************************************************************************)
(* The camera guard publishes what it sees only for a capability that was  *)
(* authorized and of which it was since told no revocation, no expiry, no  *)
(* block and no change of session.                                         *)
(***************************************************************************)
SeenOnlyWhileEntitled ==
    [][camOut'.presence # "none" => active \in entitled]_camVars

(***************************************************************************)
(* Late, repeated and unrequested messages never give a stage two outcomes *)
(* or take one out of turn: what the log says of a session is an initial   *)
(* part of the scenario.                                                   *)
(***************************************************************************)
OneOutcomePerStage == outcomes = [i \in 1 .. nextStage |-> i]

(***************************************************************************)
(* In the first session, where no message of an earlier one is about, a    *)
(* stage that uses the camera is executed only if the camera has seen the  *)
(* target; a missing observation ends in the fallback.                     *)
(***************************************************************************)
ExecutedOnlyIfSeen ==
    [][scenSession = 1 /\ current # 0 /\ NeedsSensor(Stages[current])
       /\ scenOut'.status = "executed" => seen]_vars

(***************************************************************************)
(* Every stage that was begun ends.  docs/phase9_guarded_sensors.md: the   *)
(* scenario waits for an explicit sensor-completion result, and a device   *)
(* error, missing observation or revocation leads to the fallback.         *)
(***************************************************************************)
EveryStageEnds == current # 0 ~> current = 0
=============================================================================
