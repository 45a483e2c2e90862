# Consent for a social robot: TLA+ specifications

This directory holds the formal model of the ROS 2 packages in this repository:
a robot that must ask before it uses a sensor or keeps a memory. TLC checks the
modules on small instances; TLAPS proves the central ones for every policy and
every bound. `PROJECT.json` lists runs, mutants, the map to the source, hazards
and theorems. `P/` below stands for `dynamic_consent_hri/dynamic_consent_hri/`.

## The system

Every node is an rclpy node spun by one thread: a callback runs to its end before
the next starts. So a callback is one action of a model, and what is concurrent is
the nodes and the messages between them.

| Component | State | Operations | Where |
|---|---|---|---|
| Consent store | one record per (session, capability): request id, status, times | check, get_record, create_request, record_decision, record_group_decision, revoke, reset_session, lazy expiry | `P/core/consent_state.py` |
| Policy | capabilities and their expiry | load, look up | `P/core/policy_loader.py` |
| Consent manager | the store, active session, static disclosure | callbacks for requests and decisions, services check, revoke and reset | `P/nodes/consent_manager_node.py` |
| Privacy gate | session, pending, queued, checks in flight | callbacks for requests, sessions, events and replies, a 0.25 s timer | `P/nodes/privacy_gate_node.py`, `P/core/gate_logic.py` |
| Terminal | answered requests, the prompt on screen | show a prompt and block for the answer | `P/nodes/consent_ui_node.py` |
| Microphone and camera guards | authorization window, capture thread | authorized, blocked, event, tick | `P/nodes/*_guard_node.py`, `P/sensors/` |
| Speech recognizer | the active window | authorized, audio, timeout | `P/nodes/offline_speech_recognizer_node.py` |
| Logger | open session file, sequence of events | session, event, session timeout | `P/nodes/consent_logger_node.py`, `P/core/event_log.py` |
| Scenario simulator | stage, waiting flags | session, tick, authorized, blocked, execution completed | `P/nodes/scenario_simulator_node.py` |
| Motion adapter | segments to drive, deadline of the one in progress | scenario status, tick, shutdown | `P/nodes/gazebo_motion_adapter_node.py`, `P/simulation/` |
| Experiment controller | phase of a reset, the session it is for | reset request, session, world reset answered, session reset answered | `P/nodes/experiment_controller_node.py` |
| Trial driver | session, one scheduled decision, what it will summarise | session, prompt, scenario status, timer | `P/research/trial_driver_node.py` |
| Dashboard, speech feedback, analysis, launch files | display or wiring | | `P/ui/`, `P/research/`, `launch/` |

How they interact: somebody publishes `/capability/requested`. The gate asks the
manager through the service `/consent/check` and, by the status it gets,
publishes `/capability/authorized` or `/capability/blocked`, or publishes
`/consent/request` and waits. The manager opens a request and publishes
`/consent/prompt`; the terminal answers on `/consent/decision`; the manager
records it and publishes `/consent/event`, on which the gate asks again.
`/consent/session` announces each new session to every node.

### What makes it hard, and what makes it correct

The hazards are listed one by one, with their lines, in `PROJECT.json`. In short:

- *Store*: expiry is lazy and reads a wall clock; identifiers must defeat replayed
  decisions; a group decision is atomic. Correct means: a check says yes only on
  the participant's yes to that very question, in time and not withdrawn.
- *Manager*: a reset, a crash or a clock that is set back must not leave records
  of another session, a half answered disclosure or a change nobody announced.
- *Gate*: the answer of an asynchronous call comes back into a node that may have
  changed session or waited for something else. Correct means: no request lost, no
  answer taken for another, no authorisation on a consent that was not there.
- *Composition*: topics overtake each other. A wake-up can pass the reply that
  makes it necessary; a consent request carries no session.
- *Logger, scenario, guards*: messages that carry no session arrive late. Correct
  means: one outcome per stage, nothing seen without a grant, a log without holes.
- *Adapter*: a status cuts a plan short while the robot keeps its last velocity.
  Correct means: never further than was allowed, and standing while a stage waits.
- *Driver*: a slot that holds one decision, a prompt that is published once, a flag
  that survives its session. Correct means: one truthful summary for every trial.
- *Controller*: two asynchronous calls with the world spinning between them. Correct
  means: a reset is complete only when both are done, and it always ends.

## Modules

| Module | Models | Extends or uses |
|---|---|---|
| `PrivacyPolicy` | what is used of a loaded policy, and what is assumed of it | |
| `Selection` | the elements of a sequence that belong to a set, in order | |
| `StudySetup` | condition, whether the policy loads, disclosure text: fixed at launch | `PrivacyPolicy` |
| `ConsentLifecycle` | abstract specification: the status transitions of a consent | |
| `ConsentStore` | `consent_state.py`, one action per method, and the clock | `PrivacyPolicy`, instance of `ConsentLifecycle` |
| `ConsentManager` | the manager node, one action per callback | `ConsentStore`, `StudySetup` |
| `PrivacyGate` | the gate node, one action per callback | `StudySetup` |
| `GateAlone` | the gate in an environment that promises nothing | `PrivacyGate` |
| `ConsentSystem` | manager, gate, terminal and the channels between them | `ConsentManager`, `PrivacyGate`, `Selection` |
| `AuthorizationWindow` | the bounded grant of a sensor guard, as operators | |
| `MicrophoneGuard` | the microphone guard: callbacks, tick, reader thread, arecord | `AuthorizationWindow` |
| `SpeechRecognizer` | the recognizer node | |
| `SpeechChain` | guard, recognizer and the topics between them | `MicrophoneGuard`, `SpeechRecognizer` |
| `CameraGuard` | the logical camera guard | `AuthorizationWindow` |
| `Scenario` | the stage machine of the scenario simulator | |
| `SensorDemo` | scenario and camera guard, with manager and gate reduced to what they announce | `CameraGuard`, `Scenario` |
| `MotionAdapter` | the motion adapter, its plans, and the robot that obeys it | |
| `ExperimentController` | the study reset in two calls | |
| `GazeboDemo` | scenario, adapter, robot and controller; manager and gate reduced as above | `Scenario`, `MotionAdapter`, `ExperimentController` |
| `TrialDriver` | the automated participant and its strategies | |
| `ResearchTrial` | a trial: scenario and driver around manager and gate, reduced to questions and answers | `Scenario`, `TrialDriver` |
| `ConsentLogger` | the logger node and the schema of its rows, with a disk that may fail | `StudySetup` |
| `SessionLog` | the logger and what is published to it; the manager reduced to statuses and events | `ConsentLogger`, `Selection` |
| `SelectionProofs` | what selection does to sequences, by induction over their length | `Selection`, TLAPS |
| `ConsentSystemProofs` | the store and the lifecycle it implements, the manager node, the system, and that nobody waits in vain | `ConsentSystem`, `SelectionProofs` |
| `GateAloneProofs` | the invariants of the gate in any environment | `GateAlone`, TLAPS |
| `SpeechChainProofs` | the invariants of the microphone guard and its threads | `SpeechChain`, TLAPS |
| `SensorDemoProofs` | the invariants of scenario and camera guard, and what is executed was seen | `SensorDemo`, TLAPS |
| `SessionLogProofs` | the types of the log, nothing late, no holes, and agreement with the manager | `SessionLog`, `SelectionProofs` |
| `GazeboDemoProofs` | the invariants of the demonstration in Gazebo, and where an undisturbed run ends | `GazeboDemo`, TLAPS |
| `ResearchTrialProofs` | the types of the trial, one summary per session, and that it is true | `ResearchTrial`, TLAPS |
| `MC*` | constants for TLC | |

### How state and actions correspond to the code

*ConsentStore.* `records` is `_records`; a missing key is `NoRecord`, with the
status `UNKNOWN` that `check()` reports for it. `_expire_if_lapsed` is `Settled`,
the record as the method that touches it leaves it; every action goes through it
where the code does. A request identifier (a uuid) is the serial number of the
call that made it, with its capability. `CreateRequests` takes a set of
capabilities because the manager creates the static requests in one callback;
`RecordDecision` takes a group, a single decision being a group of one. `verdicts`
and `withdrawn` are history: which decisions were applied, which requests were
revoked. `reply` is the answer of the last step, so that an invariant can speak of
what a check says at the moment it says it.

*ConsentManager.* `session`, `static` and `up` are the node's fields; `outbox` is
what a callback published, in order. An exception that leaves a callback ends
`rclpy.spin` and thereby the process (`main` catches only KeyboardInterrupt): that
is `Die`. It happens when `response_ms`, an unsigned field, would be negative
because the wall clock was set back (`ClockRanBack`). `Restart` is a second start
by hand; no launch file restarts the node.

*PrivacyGate.* `pending`, `queued` and `inFlight` are `_pending`, `_queued` and
`_checks_in_flight`; 0 stands for no session. The empty capability is a capability
outside the policy: it is blocked the same way. A batch of retries sends its calls
as a set, since capabilities do not affect each other.

*ConsentSystem.* One variable per channel. The event, request and decision topics
deliver in order; `/consent/session` and `/consent/prompt` have depth 1 and keep
the last message. Nothing orders two channels, nor a reply and an event. `showing`
is the terminal blocked in `readline`. Capability requests, revocations (by the
service), resets and crashes come from outside at any time; `Disturbances` names
which of them a run lets happen. `atCall` is history: what a check would have
found when it was sent, with which the properties compare an authorisation.

*AuthorizationWindow.* The deadline is only compared with a monotonic clock, so a
window is `closed`, `open` or `lapsed`; time is one step from `open` to `lapsed`.

*MicrophoneGuard.* The only node with a second thread. A callback that looks at the
clock, the process or the reader once is one action; `_tick` and `_stop_capture`
look several times and are several (`TickBegins`, `TickPublishes`, `TickEnds`;
`StopCapture`, `CaptureStopped`), between which the reader thread, arecord and time
move. A chunk is the number of the capture that recorded it. The time limits of the
joins and waits are not reached (the reader has at most a tenth of a second of work
once arecord is gone, and is given a second), so joining is waiting for it to end.

*SpeechChain.* The environment authorizes, blocks, revokes and announces sessions
at will. `withdrawn` is history: captures during which the guard was told that their
consent is over. Status and audio are two topics, unordered with each other.

*CameraGuard, Scenario, SensorDemo.* One action per callback and timer. A delay of
the scenario is `ahead` or `reached`; `scenOut` is the kind and stage of the status
a step publishes. `entitled` is history: the capabilities authorized to the camera
guard of which it has since heard nothing that ends them. Manager and gate are one action each
(`NewSession`, `Revokes`, `Answers`): every request is authorized or blocked, which
`system_time` shows, and the request of a session that ends may be forgotten.
Each reader of a topic has its own queue.

*MotionAdapter, GazeboDemo.* A plan is a sequence of segments; a segment is the
velocity it commands, written as what it adds to the position (in the 0.4 m of a
stage) and to the heading if it is driven to its end. `RobotDrives` is Gazebo: the
robot keeps the last velocity given, whether or not a deadline goes with it, or an
adapter still runs. `MotionEnds` is the end of the process: its plan is gone, and its
stop was published or not (`destroy_node` publishes one only while the context is valid,
and lets it fail; a signal or a kill leaves it no chance). No launch file starts it
again; `MotionStarts` is a start by hand. Statuses sent meanwhile are lost, and
`unattended` counts the stage lengths the robot drives meanwhile. The stop in
`__init__` is taken to be delivered: that the bridge to Gazebo may not have discovered
the new publisher yet is not modelled. A
segment that is replaced before its end adds nothing; a part of one would leave the
robot short of where it was allowed, never beyond. `Recognised` is where parser and scenario
can disagree: a `started` stage and an action of `SENSOR_ACTIONS` stop the robot.
`allowance` counts the executed stages, and at a world reset starts from what is
under way; `disturbed` says that a delay ended before the plan did (the launch files
keep the delays longer than the plans), that somebody reset something, or that the
adapter ended.

*ExperimentController.* `phase` and `call` are the reset in progress and the future
of the service call it waits for; a call may succeed, be refused or raise. What the
controller does between the calls (a session from somewhere else, another request)
is interleaved with them.

*TrialDriver, ResearchTrial.* `scheduled` is the one `_pending_decision`, `taken` the
requests it has answered. Event counters, odometry and times are copied into the
summary and left out. Manager and gate are the status of each question and the set of
capabilities that wait; the wake-up that `ConsentSystem` examines is taken to work.
`prompt` keeps the latest message only. `mixed` and `missed` are history: sessions
that took a message of another session, and those of which a prompt was dropped.
The scenario's startup delay of 2 s is taken to outlast the delivery of a session
to the driver.

*ConsentLogger, SessionLog.* `files` is what is on disk: each row is synchronised
before its callback ends, so it survives the process. Any open or append may fail,
and an append that fails may or may not leave its row; the node then keeps the
session and logs nothing more of it. A file is a sequence of rows without the
session and condition they share. `age` says whether the session's time is up.
`published` is history: all events of the manager, one per change of status, as
`EveryChangeIsAnnounced` shows of `ConsentManager`. Other nodes publish on the same
topic, with a session and a condition of their own (`TakesForeignEvent`). The
parameters of the logger other than the condition are taken to be valid.

## Runs

All bounds are constants (`MaxSession`, `MaxClock`, `MaxRequest`, `MaxAsks`,
`MaxGateSession`, `MaxPublished`, `MaxUnderWay`, `MaxForeign`, `MaxLoggerRun`,
`MaxReset`, `MaxRestart`, `MaxAdrift`, `MaxBacklog`, `MaxRevocation`, and those of the guards in
their modules).

| Run | Question | Bounds |
|---|---|---|
| `store` | Does lazy expiry ever let a lapsed, superseded or withdrawn grant through? Does the store implement `ConsentLifecycle`? | 1 session, 1 capability timed at 2 s, 1 undefined, clock 0..3 both ways, 2 requests |
| `manager` | Does the manager announce every change and forget ended sessions, across expiry, crashes and a clock set back? Is the static condition answered as a whole and final? | all 12 configurations, 2 sessions, 2 capabilities (one timed, 1 tick), clock 0..1 both ways, 2 requests |
| `gate_alone` | Does the gate's bookkeeping survive any environment? | 3 sessions, 2 capabilities (symmetric) and 1 undefined |
| `system_time` | Is an authorisation at most one check old, is no waiting capability forgotten, is every open question on its way to the participant, on the screen or answered, and is every request answered? | dynamic, 1 session, 5 asks, 6 requests, revocation, expiry after 1 tick, clock 0..2 |
| `system_sessions` | Is it still at most one check old across resets, crashes, restarts and a closed input, in both conditions? | 2 sessions, 2 capabilities, 2 asks, 2 requests |
| `session_log` | Is an open log without holes and in agreement with the manager? Is nothing written once the session's time is up? | 3 conditions, 2 sessions, 1 capability the logger accepts and 1 it rejects, 7 events, 3 under way, 1 of another node, 2 starts of the logger |
| `speech` | Does audio of another or a withdrawn capture get out? Does a capture end and get reported? | 2 captures, queue of 2, 2 chunks a tick, audio depth 2, 3 statuses |
| `demo` | One outcome per stage, in order? Executed only if seen, seen only under a standing grant? | 2 stages (one with a sensor), 2 sessions, 1 revocation |
| `motion` | Does the robot ever go further than it was allowed, or drive while a stage waits? Is every allowed stage driven in full? Does a reset keep its order, and end? | 2 stages (one with a sensor), 2 sessions, 1 study reset beside others, 1 end of the adapter and 1 move of the robot without it, delays that end while 1 status is not yet taken |
| `trial` | Does every trial get one summary, and does it tell what was decided and done, even if a prompt or a decision could be dropped? | both conditions, all strategies, 2 stages (one high-privacy), 2 sessions |
| `system_deadend`, `demo_stuck` | Findings, below | 3 asks; 1 session |

Why these bounds are enough to be interesting: two requests per key let a stale
identifier meet its successor; two sessions let a late message meet the next one;
three sessions let the gate skip one; three asks let one request be answered while
a second joins it and a third repeats it; a clock one tick longer than the expiry
reaches the boundary and both its sides, and lets a second grant start later. A
second capture can inherit what the first left behind; a queue of two can be full
with a third chunk in the reader's hand; two chunks a tick let the window lapse
between them. In `motion` a reset meets each point of a plan and a backlog of one
makes a plan be cut off by the status after it; the adapter may end at each point of a
plan, and one move is a whole segment, driven while nobody could stop it; in `trial` an odd and an even stage,
one of high privacy, tell the four strategies apart. What is bounded is the length of a run, never the shape of a message:
every identifier, session and capability that exists is offered to every callback.

`CHECK_DEADLOCK FALSE` is set in the system, log, speech, demonstration, motion and trial
runs: requests, events, captures, sessions and resets there are bounded, and when they are
used up the system is idle (or the guard shut down, the scenario complete, the summary
written), as it should be.

A type invariant that is proved for every value of the constants is not repeated in the
runs; `SystemTypeOK`, `ChainTypeOK` and `LogTypeOK` (the closed schema of the rows) are
checked there.

Every property of a passing run has a mutant: a definition just before the one it
replaces, marked `mutant`, that breaks the property the way a plausible slip would.

### Fairness

`FairSpec` of `ConsentSystem` assumes, weakly: a callback whose
message has arrived is run (each node spins and no callback blocks, the terminal's
excepted), DDS delivers on reliable topics, the gate's timer fires and discovery
settles, the terminal shows what is published, and the participant answers what is
on the screen. The last is an assumption about a person; without it the gate
rightly waits. Nothing is assumed of capability requests, revocations, resets,
crashes or the clock.

`FairSpec` of `SpeechChain` and of `SensorDemo` assume, weakly, that timers fire,
threads are scheduled, time passes, messages arrive and the gate answers; not that
anybody revokes, that a device fails, that an image comes or that a session ends.

`FairSpec` of `GazeboDemo` assumes, weakly, that the two services answer or fail and
that the controller hears it: its calls have no time limit, and a service that dies
with a call in flight would leave the reset for ever in progress. `FairSpec` of
`ResearchTrial` assumes, weakly, that nodes spin, timers fire and DDS delivers.
Nobody is obliged to reset anything.

### What the runs found

1. `system_deadend`: if `consent_decided` reaches the gate after the manager
   answered PENDING and before the gate handles that answer, nothing wakes the
   capability again. In the dynamic condition one session is free of this
   (`NoLostWakeUp`: PENDING is only answered for a request the gate itself made
   and is waiting for); in the static condition, where the manager opens the
   requests, a refusal can be a dead end.
2. `demo_stuck`: the camera's report can reach the scenario before the authorisation
   it answers; it is dropped, and the stage waits for ever. For the same reason a
   late session message that stops an observation without a report does harm.

Not findings, but seen:

- A capability request that arrives while a check is in flight joins it
  (`privacy_gate_node.py:115`), and the manager may have answered that check before a
  revocation: an authorisation is at most one check old (`AuthorizedOnLiveConsent`).
- A window of the microphone guard that lapses inside a tick, between its first look
  and a later one, is closed while arecord runs on. A revocation handled before the
  next tick finds nothing to close, and the capture is reported complete.
- A static session is published together with its only prompt. If the prompt
  overtakes the session, the driver drops it, no second one comes, and the trial has
  no summary (`missed` in `Excused`). In the dynamic condition no prompt is lost.
- Scenario statuses carry no session. A `scenario_complete` of the old session that
  arrives after the announcement of the new finalises the new one's summary before it
  began (`mixed` in `SummaryTellsTheTrial`).
- A world reset with a plan under way puts the robot at its mark and lets it drive on:
  the next session begins off the mark, and `allowance` counts what was under way.
- Speech comes on one topic and the status of its capture on another: a chunk may be heard
  in the utterance that follows. Both captures were authorised.
- Two capability identifiers that differ only in blanks are not duplicate keys; the
  later silently replaces the earlier (`policy_loader.py:68` compares the keys before
  line 209 stores them stripped).
- When two capabilities are asked about, the second prompt replaces a first that the
  terminal has not yet taken, and that request stays pending with nobody to answer it.
  `OpenQuestionIsInHand` is therefore stated where one is asked about.
- A manager that dies while it publishes the answer to the disclosure is modelled as
  publishing nothing of that callback; the loop could have published a first part of it,
  which no property tells apart.

And places where a document says more than the code does. Each is modelled as the code
has it, and no property claims what the document does:

- `docs/phase6_gazebo_demo.md:94`: "Requests, pending decisions, completion, and shutdown
  publish a stop". Shutdown does so only while the context is valid
  (`gazebo_motion_adapter_node.py:135`): after a signal that invalidated it the robot
  drives on with the velocity of its last segment until an adapter is started.
- `docs/phase7`: "Every allowed stage still advances the same nominal 0.4 m". In the sensor
  demonstration an executed stage names an action of `SENSOR_ACTIONS`
  (`scenario_simulator_node.py:146`), which the motion adapter does not recognise: the
  robot halts instead of advancing. `EveryAllowedStageAdvances` leaves those stages out.
- `docs/dynamic_consent_pattern.md:16`: PENDING means "Prompt shown", which the prompt
  that was replaced never is.

`ExecutedOnlyIfSeen` is stated of the first session, because
a report delayed past a reset and the startup delay carries no session and can stand
for the next one's; the recognizer does not know the status `blocked`
(`ListeningEnds`); and the camera guard serves `person_recognition` only
(`logical_camera_guard_node.py:18`), where `docs/phase9_guarded_sensors.md:25` names
`body_pose_tracking` too. `/consent/request` names no session, so a request the gate
sent before a reset opens a prompt in the session that follows
(`AuthorizedOnLiveConsent` holds all the same). The policy loader takes any name
that is not blank for a capability, the logger only `[a-z][a-z0-9_]{0,79}`:
decisions about others are never logged. A logger that is started again opens the
file of a running session a second time and writes a second `session_started`; what
was published before that is missing (`RowsSinceOpened`).

## Proofs

The first part of `ConsentSystemProofs`, about the store, assumes of the constants only
that the policy's capabilities are capabilities, that expiry times are natural numbers
and that the bounds are (`PolicyAssumption`, `ExpiryAssumption`, `BoundsAssumption`). The bounds are arbitrary, so they restrict nothing.

- `StoreTypeInvariant`: the types.
- `StoreInvariant`: `StoreInv`, which TLC has confirmed on the instance of
  the run `store`. The two properties that matter, `AllowedOnlyOnLiveConsent` and
  `DecidedAtMostOnce`, are not inductive alone. A check says yes because a record
  is GRANTED; that there is a matching yes, unrevoked and with the deadline the
  record has, is `GrantedMeansYes`. A decision preserves it because an open request
  has no verdict (`OpenMeansUndecided`) and no two records share a request
  (`IdsAreDistinct`), and a new request does because its number is larger than all
  in use (`IdsAreIssued`). These form `Core`, which does not mention the clock, so
  that expiry, a moving clock, resets and restarts are one lemma
  (`ClosingKeepsCore`); creating, deciding and revoking have one each.
- `AllowedOnlyOnLiveConsentAlways`, `DecidedAtMostOnceAlways`,
  `OverMeansOverAlways`: the properties the runs check, for all constants.
- `StoreRefinesLifecycle`: an expiry found by a method is `Lapse` or a stutter,
  creation is `Ask`, a decision `Allow` or `Refuse`, revocation `Withdraw`, reset
  and restart `Forget`.

`GateAloneProofs` is about the gate in an environment that promises nothing, from
`PolicyAssumption`, `ConfigurationsAssumption` and `MaxGateSessionAssumption`. That a
mark in `_checks_in_flight` has its future (`InFlightIsCurrent`) is not inductive
with the types alone: a future that completes clears the mark of its capability only
if they belong together, and a new call is made wherever there is no mark. So the
invariant `GateInv` adds the converse, `OutstandingIsMarked`: a future for the
session the gate is in has its mark. Each callback is a lemma that shows both that
`GateInv` is kept and that the step is `Good`, which is what the action properties
say of one step:

- `GateInvariant`, `GateTypeInvariant`: the invariant and the types.
- `InFlightIsCurrentAlways`, `OneCallAtATimeAlways`, `NeverDroppedAlways`: the
  properties of `gate_alone` for any number of sessions and capabilities.

The second part of `ConsentSystemProofs` carries the store's invariant through the node, from the
same assumptions with `ConfigurationsAssumption` and `FirstSessionAssumption` (there
is room for one session and one request). Each handler is first shown to be one of a
few kinds of step, by what it does to the records and what it publishes: `Quietly`,
`Asks`, `Decides`, `Withdraw`, `Looks`, or `Dies`, `Opens`, `ClockMoves`. The rest of
the argument is about kinds. `ManagerInv` adds to the store's invariant that records
belong to the active session, and `StaticAnswer`: while the disclosure is open all of
its requests are PENDING and none has a deadline, which is why an answer, all or
nothing, finds every one of them.

- `ManagerInvariant`, `ManagerTypeInvariant`, `ManagerAllowsOnlyLiveConsent`,
  `RecordsBelongToActiveSessionAlways`, `StaticDecidedTogetherAlways`,
  `NoRepromptOutsideDynamicAlways`, `EveryChangeIsAnnouncedAlways`: the properties of
  the run `manager`, and the guarantee of the store behind the node, for every policy, every sequence of messages and every crash.

The same module then takes the argument to the other side of the topics. `SystemInv`
adds to `ManagerInv`:

- `SessionsFollow`: the gate and the topic it hears of sessions from are behind the
  manager, never ahead of it. A yes the gate acts on is therefore of a session that
  was opened, and an answer of an earlier session is recognised by its number.
- `ChecksAreMarked`, `OneAnswer`: a call or an answer about the gate's session is marked
  in `inFlight`, and there is one for a capability at most. So what `atCall` remembers
  of the last call is what the answer being handled was asked with.
- `SentBefore`: since that call more may have been withdrawn and the clock may have
  advanced, never the reverse. A yes that counts when the manager answers counted
  already when the gate sent the check.
- `GrantsAreBacked`: a GRANTED on its way to the gate has such a yes.

Nothing is assumed of delays, crashes, retries or resets; `MaxAsksAssumption` is the
only assumption beside the manager's.

- `SystemInvariant`, `SystemTypeInvariant`: the invariant, and the types of manager,
  gate, terminal and topics.
- `AuthorizedOnLiveConsentAlways`: the gate authorises only on a yes of its session
  that was neither withdrawn nor past its deadline when it sent the check.

The last part proves `NoLostWakeUpAlways`: what the gate waits for always has something
under way that will make it check again. The argument is that a capability is in one
place at a time: asked about on `/consent/request`, open at the manager, decided in an
event that the gate has not taken, being checked, or queued for a check. `WakeInv` says
so for every capability (`OneWakeUp`), with the facts about topics that make it
inductive: a request or a decision about a capability is on its topic at most once
(`TopicsSayOnce`), and what is open was requested in the past (`RequestedInPast`). So no
check ever finds the request open with its news already taken. The hypothesis
`OneDynamicSession` (no reset, no crash, the dynamic condition, a policy that loads) is
that of the run `system_time`. It is needed: in the static condition, where the manager
opens the requests, a refusal can be a dead end (`system_deadend`), and a request sent
before a reset opens a prompt that the gate of the next session does not wait for.

`SensorDemoProofs` holds for any stages and vision capabilities (`VisionAssumption`,
`ScenarioAssumption`, `DemoAssumption`, `NoneAssumption`). That the guard sees only
what it is entitled to needs the converse of `NoForgottenWindow`: what is observed
has a window (`ObservedHasWindow`), so the event that ends the grant finds it and ends
the observation. One outcome per stage needs that the stage in progress is the next
one. Theorems: `DemoInvariant`, `DemoTypeInvariant`, `NoForgottenWindowAlways`,
`OneOutcomePerStageAlways`, `SeenOnlyWhileEntitledAlways`. For
`ExecutedOnlyIfSeenAlways` `SightingInv` follows the report back to the guard: in the
first session a success on its way to the scenario means that the target was seen, and
before that session nobody is asked for anything, so no report is about. Across resets it
does not hold, as said under the findings.

`SpeechChainProofs` (`MicrophoneAssumption`, `ChainAssumption`) holds for any queue,
any number of chunks a tick and any number of captures. What is published comes out of
the queue, so `OnlyCurrentAudio` needs to know whose the queue is. `JoinedFirst` says
it: except between the end of a capture and the join of its reader thread, the
threads, the queue and arecord belong to the capture that runs. And a capture that
runs on without consent (its window lapsed inside a tick) has that window closed
(`WithdrawnIsClosed`), so the tick publishes nothing of it. Theorems: `GuardInvariant`,
`ChainTypeInvariant`, `NoUnknownRecordingAlways`, `OnlyCurrentAudioAlways`,
`SilentOnceWithdrawnAlways`.

`SessionLogProofs` (`SessionLogAssumption`, `TokensAssumption`: `"none"` is no capability,
and `SortedPolicy` lists the policy). Whatever is published, a row that `Fits` has the
closed schema (`LogInv`). What the log says needs more:

- `LogComplete`: what was published is `p \o eventTopic`, what arrived and what is under
  way. An open file is older rows, one `session_started`, and then rows among which the
  manager's are exactly what was due of a last part of `p`. Rows of the other publisher
  come between, so the manager's are *selected* (`Selected` of `Selection`). A file only
  opens behind what has arrived, and an event that arrives is appended to both sides.
- `StatusKnown`: the status of a capability at the manager is what the last event
  published about it in its session says.

Together with an empty topic they give `LogAgreesWithStatus`: the last row about a
capability is the row of the last event about it. `SelectionProofs` has the facts about
`Selected` that this rests on (of a concatenation, of an appended element, where the
selected element was found). They are proved by induction over the length of the
sequence, and induction itself from the well-founded order of the natural numbers,
stated of sets where the library's theorem takes an operator. Theorems: `LogInvariant`,
`LogTypeInvariant`, `NothingLoggedLateAlways`, `LogIsComplete`, `NoHolesAlways`,
`StatusIsKnown`, `LogAgreesWithStatusAlways`.

`GazeboDemoProofs` (`ScenarioAssumption`, `MotionAssumption`, `GazeboAssumption`): the
position alone is not inductive. `OnlyAllowed` bounds it together with what is under
way (statuses not taken that will move the robot, segments not begun, the one being
driven), and a plan moves the robot on at most once (`AllowedPlanAdvancesOnce`). While
an adapter runs, a robot without a deadline has been told to halt; so it moves outside
a segment only when no adapter runs, and that is what `unattended` counts. An adapter
that has ended holds nothing (`NothingHeld`): the next one begins with no status, no
plan and, after its stop, no velocity. Theorems: `GazeboInvariant`,
`GazeboTypeInvariant`, `NeverFurtherThanAllowedAlways`, `WaitsStandingAlways`,
`ResetInOrderAlways`.

That an undisturbed run ends where the outcomes put it (`EveryAllowedStageAdvancesAlways`)
is a conservation law, `Smooth`: the position, what the current segment still drives,
what the segments after it drive and what the untaken statuses will make the robot drive
add up to `allowance`, and the turns add up to none. A status does not cut off a plan
because outcomes come one at a time, each after the plan of the last (`InTurn`). Its
hypothesis is `MotionEnabled`: an adapter with invalid parameters disables itself and
never moves.

`ResearchTrialProofs` (`TrialAssumption`, `DriverAssumption`, `ScenarioAssumption`): a
summary is written only for the driver's session, which only grows, and only if it is
not finalized. The types need only that the stage in progress is the next one.
Theorems: `TrialInvariant`, `OneSummaryAlways`, `TrialTypeInvariant`.

That a summary is true (`SummaryTellsTheTrialAlways`) and shows what its strategy wants
(`StrategyIsExercisedAlways`) rests on `TruthInv`, which follows the chain of evidence
through every channel. In a session that took no message of another one:

- `Asking`: what is asked about has its turn (`Reached`: the stages before it are
  decided; in the static condition, everything at once).
- `Answering`, `Permitting`, `Telling`: a decision on its way, a settled question, an
  authorization or a block, a status and a noted result each say what the driver has
  `Decided` about that capability.
- `InOrder`: so the decisions are one per stage, in order, each by the strategy.
- `Completing`: what the scenario has behind it is noted or on its way (`Noted`), before
  the `complete` that makes the driver write.

It holds of the driver's session only if nothing happens in a session before the driver
is told of it; that is `UntoldIsEmpty`, the reason why `Orderly` compares all sessions
with the driver's. TLC has confirmed the invariant with three stages and three sessions.
Both theorems have the hypothesis `Stages # <<>>`: `SCENARIO_STAGES` is a constant tuple
of seven, and a static trial of no stage would write a summary without a decision.

Only model-checked: what the recognizer makes of the audio, as far as it is not a
property of the guard; `OpenQuestionIsInHand`, which is stated of one dynamic session, one
capability and a terminal that stays; and all liveness (`EveryRequestIsAnswered`,
`CaptureEnds`, `ListeningEnds`, `EveryResetEnds`, `EveryTrialIsSummarised`): fairness and
ENABLED are beyond the prover. Every other property of a passing run is a theorem.

## Not modelled

The dashboard and study status, speech feedback, trial analysis, launch files and
worlds. They display, play or compute offline; nothing they do comes back. (The trial
driver looks for one word in the dashboard's text and copies the finding into its
summary.)

Partly modelled: the privacy policy. Its loader is a pure function that validates a
document; a specification of it would repeat its rules, so the modules start from a
policy that was loaded, or was not. The trial driver. Its telemetry is only copied, and its write of the
summary does not fail; a failing one would end the driver.

Also left out: the `session_id` parameter of manager and gate (it keeps its
default); message texts; `more information` and mistyped input at the terminal; a
crash of the gate, the terminal or the scenario; a service that dies with a call in flight; the
timing of the callbacks themselves.

What remains worth doing: the terminal as a module of
its own with two prompts in its topic of depth 1.
