--------------------------- MODULE ResearchTrial ----------------------------
(***************************************************************************)
(* A research trial: scenario and trial driver around the consent side.    *)
(* Manager and gate are reduced to the questions of the session and to the *)
(* requests that wait for an answer; how they get it from one another is   *)
(* the subject of ConsentSystem.  Each channel has a delay of its own:     *)
(*                                                                         *)
(*   /consent/session        to scenario and driver   keeps the latest     *)
(*   /consent/prompt         manager -> driver        keeps the latest     *)
(*   /consent/request        gate -> manager          in order             *)
(*   /consent/decision       driver -> manager        in order             *)
(*   /capability/requested   scenario -> gate         in order             *)
(*   /capability/authorized, /blocked  gate -> scenario, each in order     *)
(*   /scenario/status        scenario -> driver       in order             *)
(*                                                                         *)
(* A message carries the session it was published in where the model has   *)
(* to tell; only prompts and decisions have that field in the code.        *)
(***************************************************************************)
EXTENDS Scenario, TrialDriver

CONSTANTS
    Modes,          \* the conditions of the runs: subset of {"static", "dynamic"}
    MaxSession      \* bound: sessions of a run

ASSUME TrialAssumption ==
    /\ Modes \subseteq {"static", "dynamic"}
    /\ MaxSession \in Nat \ {0}
    /\ Asked = Stages

VARIABLES
    mode,           \* the condition
    session,        \* the active session
    question,       \* status of each capability's request in that session
    waiting,        \* the gate's requests without an answer
    announced,      \* /consent/session, to each reader; 0 if taken
    prompt,         \* /consent/prompt, or NoPrompt
    asks,           \* /consent/request
    answersSent,    \* /consent/decision
    requests,       \* /capability/requested
    authorized,     \* /capability/authorized
    blocked,        \* /capability/blocked
    statuses,       \* /scenario/status
    summaries,      \* the file of each session, or NoSummary
    missed,         \* history: sessions with a prompt dropped or overwritten
    mixed           \* history: sessions that took a message of another one

consentVars == <<mode, session, question, waiting>>
channels == <<announced, prompt, asks, answersSent, requests, authorized, blocked, statuses>>
history == <<missed, mixed>>
vars == <<scenVars, driverVars, consentVars, channels, summaries, history>>

Capability == {Stages[i] : i \in DOMAIN Stages}
Key == Capability \cup {AllTogether}
Reader == {"scenario", "driver"}

NoPrompt == [session |-> 0, key |-> AllTogether, request |-> <<0, AllTogether>>]
NoSummary == [decisions |-> <<>>, results |-> NoResults, written |-> 0]

\* A request is identified by its session and its key: none is opened twice.
PromptFor(s, key) == [session |-> s, key |-> key, request |-> <<s, key>>]

Mixes(own, other) == mixed' = IF own = other THEN mixed ELSE mixed \cup {own}

-----------------------------------------------------------------------------
(***************************************************************************)
(* The manager.  A static session opens with one question about all, a     *)
(* dynamic one with none.                                                  *)
(***************************************************************************)
Opened == [c \in Capability |-> IF mode = "static" THEN "open" ELSE "none"]

Init ==
    /\ ScenarioInit /\ DriverInit
    /\ mode \in Modes /\ session = 1
    /\ question = Opened /\ waiting = {}
    /\ announced = [r \in Reader |-> 1]
    /\ prompt = IF mode = "static" THEN PromptFor(1, AllTogether) ELSE NoPrompt
    /\ asks = <<>> /\ answersSent = <<>> /\ requests = <<>>
    /\ authorized = <<>> /\ blocked = <<>> /\ statuses = <<>>
    /\ summaries = [s \in 1 .. MaxSession |-> NoSummary]
    /\ missed = {} /\ mixed = {}

\* A reset; the gate forgets what waits.
Reset ==
    /\ session < MaxSession /\ session' = session + 1
    /\ question' = Opened /\ waiting' = {}
    /\ announced' = [r \in Reader |-> session']
    /\ prompt' = IF mode = "static" THEN PromptFor(session', AllTogether) ELSE prompt
    /\ UNCHANGED <<scenVars, driverVars, mode, asks, answersSent, requests, authorized,
                   blocked, statuses, summaries, history>>

\* The message names no session: what was asked in the last one counts in this.
ManagerTakesAsk ==
    /\ asks # <<>> /\ asks' = Tail(asks)
    /\ LET a == Head(asks) IN
       /\ question' = [question EXCEPT ![a.key] = IF @ = "none" THEN "open" ELSE @]
       /\ prompt' = IF question'[a.key] = "open" THEN PromptFor(session, a.key) ELSE prompt
       /\ Mixes(session, a.session)
    /\ missed' = IF prompt \in {prompt', NoPrompt} THEN missed
                 ELSE missed \cup ({prompt.session} \cap {session})
    /\ UNCHANGED <<scenVars, driverVars, mode, session, waiting, announced, answersSent,
                   requests, authorized, blocked, statuses, summaries>>

Settles(c, d) == d.key \in {c, AllTogether} /\ question[c] = "open"

ManagerTakesDecision ==
    /\ answersSent # <<>> /\ answersSent' = Tail(answersSent)
    /\ LET d == Head(answersSent) IN
       question' = [c \in Capability |->
                      IF d.session = session /\ Settles(c, d)
                      THEN IF d.granted THEN "granted" ELSE "refused"
                      ELSE question[c]]
    /\ UNCHANGED <<scenVars, driverVars, mode, session, waiting, announced, prompt,
                   asks, requests, authorized, blocked, statuses, summaries, history>>

-----------------------------------------------------------------------------
(***************************************************************************)
(* The gate: it asks the manager about a capability nobody asked about.    *)
(***************************************************************************)
GateTakesRequest ==
    /\ requests # <<>> /\ requests' = Tail(requests)
    /\ LET r == Head(requests) IN
       /\ waiting' = waiting \cup {r.key}
       /\ asks' = IF question[r.key] = "none" /\ r.key \notin waiting
                  THEN Append(asks, [key |-> r.key, session |-> session]) ELSE asks
       /\ Mixes(session, r.session)
    /\ UNCHANGED <<scenVars, driverVars, mode, session, question, announced, prompt,
                   answersSent, authorized, blocked, statuses, summaries, missed>>

GateAnswers == \E c \in waiting :
    /\ question[c] \in {"granted", "refused"}
    /\ waiting' = waiting \ {c}
    /\ LET a == [key |-> c, session |-> session] IN
       \/ question[c] = "granted" /\ authorized' = Append(authorized, a) /\ UNCHANGED blocked
       \/ question[c] = "refused" /\ blocked' = Append(blocked, a) /\ UNCHANGED authorized
    /\ UNCHANGED <<scenVars, driverVars, mode, session, question, announced, prompt, asks,
                   answersSent, requests, statuses, summaries, history>>

ConsentSide == ManagerTakesAsk \/ ManagerTakesDecision \/ GateTakesRequest \/ GateAnswers

-----------------------------------------------------------------------------
(***************************************************************************)
(* The scenario.                                                           *)
(***************************************************************************)
ScenarioPublishes ==
    /\ requests' = IF scenOut'.status = "requested"
                   THEN Append(requests, [key |-> Stages[scenOut'.stage],
                                          session |-> scenSession']) ELSE requests
    /\ statuses' = IF scenOut'.status = "none" THEN statuses
                   ELSE Append(statuses, [status |-> scenOut'.status, session |-> scenSession',
                                          stage |-> scenOut'.stage])

ScenarioSteps(A) ==
    /\ A /\ ScenarioPublishes
    /\ UNCHANGED <<driverVars, consentVars, prompt, asks, answersSent, summaries, missed>>

ScenarioSession ==
    /\ announced["scenario"] # 0
    /\ announced' = [announced EXCEPT !["scenario"] = 0]
    /\ ScenarioOnSession(announced["scenario"])
    /\ UNCHANGED <<authorized, blocked, mixed>>

ScenarioAuthorized ==
    /\ authorized # <<>> /\ authorized' = Tail(authorized)
    /\ ScenarioOnAuthorized(Head(authorized).key)
    /\ Mixes(scenSession, Head(authorized).session)
    /\ UNCHANGED <<blocked, announced>>

ScenarioBlocked ==
    /\ blocked # <<>> /\ blocked' = Tail(blocked)
    /\ ScenarioOnBlocked(Head(blocked).key)
    /\ Mixes(scenSession, Head(blocked).session)
    /\ UNCHANGED <<authorized, announced>>

\* The startup delay, 2 s, is longer than a session takes to reach the driver.
StartupDelay == nextStage = 0 /\ current = 0

ScenarioTimer ==
    /\ \/ ScenarioTick
       \/ DelayPasses /\ (StartupDelay => announced["driver"] = 0)
    /\ UNCHANGED <<authorized, blocked, announced, mixed>>

ScenarioMoves == \/ ScenarioSteps(ScenarioSession) \/ ScenarioSteps(ScenarioAuthorized)
                 \/ ScenarioSteps(ScenarioBlocked) \/ ScenarioSteps(ScenarioTimer)

-----------------------------------------------------------------------------
(***************************************************************************)
(* The driver.                                                             *)
(***************************************************************************)
DriverSteps(A) ==
    /\ A
    /\ answersSent' = IF drvOut' = Nothing THEN answersSent ELSE Append(answersSent, drvOut')
    /\ UNCHANGED <<scenVars, consentVars, asks, requests, authorized, blocked>>

DriverSession ==
    /\ announced["driver"] # 0
    /\ announced' = [announced EXCEPT !["driver"] = 0]
    /\ DriverOnSession(announced["driver"])
    /\ UNCHANGED <<prompt, statuses, summaries, history>>

DriverPrompt ==
    /\ prompt # NoPrompt /\ prompt' = NoPrompt
    /\ DriverOnPrompt(prompt)
    /\ missed' = missed \cup ({prompt.session} \ (0 .. drvSession))
    /\ UNCHANGED <<announced, statuses, summaries, mixed>>

DriverStatus ==
    /\ statuses # <<>> /\ statuses' = Tail(statuses)
    /\ DriverOnStatus(Head(statuses))
    /\ Mixes(drvSession, Head(statuses).session)
    /\ UNCHANGED <<announced, prompt, summaries, missed>>

DriverTimer ==
    /\ \/ DriverDecides /\ UNCHANGED summaries
       \/ /\ DriverWrites
          /\ summaries' = [summaries EXCEPT ![drvSession] =
                [decisions |-> decisions, results |-> results, written |-> @.written + 1]]
    /\ UNCHANGED <<announced, prompt, statuses, history>>

DriverMoves == \/ DriverSteps(DriverSession) \/ DriverSteps(DriverPrompt)
               \/ DriverSteps(DriverStatus) \/ DriverSteps(DriverTimer)

-----------------------------------------------------------------------------
Next == Reset \/ ConsentSide \/ ScenarioMoves \/ DriverMoves

Spec == Init /\ [][Next]_vars

(***************************************************************************)
(* Nodes spin, timers fire, DDS delivers; nothing obliges anyone to reset. *)
(***************************************************************************)
Fairness ==
    /\ WF_vars(ManagerTakesAsk) /\ WF_vars(ManagerTakesDecision)
    /\ WF_vars(GateTakesRequest) /\ WF_vars(GateAnswers)
    /\ WF_vars(ScenarioSteps(ScenarioSession)) /\ WF_vars(ScenarioSteps(ScenarioAuthorized))
    /\ WF_vars(ScenarioSteps(ScenarioBlocked)) /\ WF_vars(ScenarioSteps(ScenarioTimer))
    /\ WF_vars(DriverSteps(DriverSession)) /\ WF_vars(DriverSteps(DriverPrompt))
    /\ WF_vars(DriverSteps(DriverStatus)) /\ WF_vars(DriverSteps(DriverTimer))

FairSpec == Spec /\ Fairness

-----------------------------------------------------------------------------
(***************************************************************************)
(* Every variable has its type; each channel carries what its sender says. *)
(***************************************************************************)
Session == 0 .. MaxSession
Decision == [key : Key, granted : BOOLEAN]
Results == [DOMAIN Stages -> {"none", "success", "fallback"}]

Prompt == [session : Session, key : Key, request : Session \X Key]
Answer == [session : Session, key : Key, granted : BOOLEAN]
Note == [key : Capability, session : Session]
StatusMessage == [status : ScenarioStatus, session : Session, stage : 0 .. Len(Stages)]
Summary == [decisions : Seq(Decision), results : Results, written : Nat]

ScenarioTypeOK ==
    /\ scenSession \in Session
    /\ nextStage \in 0 .. Len(Stages) /\ current \in 0 .. Len(Stages)
    /\ due \in {"none", "ahead", "reached"}
    /\ complete \in BOOLEAN /\ executing \in BOOLEAN
    /\ scenOut \in [status : ScenarioStatus \cup {"none"}, stage : 0 .. Len(Stages)]

DriverTypeOK ==
    /\ strategy \in Strategy /\ drvSession \in Session
    /\ scheduled \in Answer /\ drvOut \in Answer
    /\ taken \subseteq Session \X Key
    /\ decisions \in Seq(Decision) /\ results \in Results
    /\ drvComplete \in BOOLEAN /\ finalized \in BOOLEAN

ConsentTypeOK ==
    /\ mode \in Modes /\ session \in 1 .. MaxSession
    /\ question \in [Capability -> {"none", "open", "granted", "refused"}]
    /\ waiting \subseteq Capability

ChannelTypeOK ==
    /\ announced \in [Reader -> Session]
    /\ prompt \in Prompt
    /\ answersSent \in Seq(Answer)
    /\ asks \in Seq(Note) /\ requests \in Seq(Note)
    /\ authorized \in Seq(Note) /\ blocked \in Seq(Note)
    /\ statuses \in Seq(StatusMessage)

TrialTypeOK ==
    /\ ScenarioTypeOK /\ DriverTypeOK /\ ConsentTypeOK /\ ChannelTypeOK
    /\ summaries \in [1 .. MaxSession -> Summary]
    /\ missed \subseteq Session /\ mixed \subseteq Session

(***************************************************************************)
(* A summary tells what happened.  If the session took no message of       *)
(* another one, each stage has its outcome, and it is the one decided: in  *)
(* the dynamic condition there is one decision per stage, in their order,  *)
(* in the static condition a single one for all.                           *)
(***************************************************************************)
Written == {s \in 1 .. MaxSession : summaries[s].written > 0}

OutcomeOf(granted) == IF granted THEN "success" ELSE "fallback"

DecidedFor(summary, i) ==
    IF mode = "static" THEN summary.decisions[1].granted ELSE summary.decisions[i].granted

SummaryTellsTheTrial ==
    \A s \in Written \ mixed :
        LET summary == summaries[s] IN
        /\ [i \in DOMAIN summary.decisions |-> summary.decisions[i].key]
              = IF mode = "static" THEN <<AllTogether>> ELSE Stages
        /\ \A i \in DOMAIN Stages :
              summary.results[i] = OutcomeOf(DecidedFor(summary, i))

(***************************************************************************)
(* docs/research_simulation: what the strategies are for.  grant_all       *)
(* exercises the authorised path, refuse_all every fallback, alternate     *)
(* mixes them, risk_weighted refuses the high-privacy capabilities; static *)
(* consent is one choice, which the mixed strategies refuse.               *)
(***************************************************************************)
StrategyIsExercised ==
    \A s \in Written \ mixed : LET outcome == summaries[s].results IN
        /\ strategy = "grant_all" => \A i \in DOMAIN Stages : outcome[i] = "success"
        /\ strategy = "refuse_all" \/ (mode = "static" /\ strategy # "grant_all")
              => \A i \in DOMAIN Stages : outcome[i] = "fallback"
        /\ mode = "dynamic" /\ strategy = "alternate"
              => \A i, j \in DOMAIN Stages :
                    outcome[i] = outcome[j] <=> StageNumber[i] % 2 = StageNumber[j] % 2
        /\ mode = "dynamic" /\ strategy = "risk_weighted"
              => \A i \in DOMAIN Stages :
                    outcome[i] = "fallback" <=> Stages[i] \in HighPrivacy

(***************************************************************************)
(* "writes one JSON summary": the file of a session is written once.       *)
(***************************************************************************)
OneSummary == \A s \in 1 .. MaxSession : summaries[s].written <= 1

(***************************************************************************)
(* "The driver automatically answers prompts and writes one JSON summary": *)
(* every trial gets its summary, unless its session is replaced or took a  *)
(* message of another one (a second question is then asked before the      *)
(* first is answered, and one of the two prompts or decisions is lost).    *)
(* So the driver's single place for a decision suffices, and in the        *)
(* dynamic condition no prompt is lost; a static session also fails if its *)
(* only prompt overtook it.                                                *)
(***************************************************************************)
Excused(s) == session # s \/ s \in mixed \/ (mode = "static" /\ s \in missed)

EveryTrialIsSummarised ==
    \A s \in 1 .. MaxSession : session = s ~> s \in Written \/ Excused(s)
=============================================================================
