-------------------------- MODULE SensorDemoProofs --------------------------
(***************************************************************************)
(* Theorems about the sensor demonstration, for any sequence of stages,    *)
(* any capabilities of the camera, and any number of sessions.             *)
(***************************************************************************)
EXTENDS SensorDemo, SequenceTheorems, TLAPS

USE DEF Window

-----------------------------------------------------------------------------
(***************************************************************************)
(* The inductive invariant.  A capability has an open or lapsed window if  *)
(* and only if it is the one observed, and then the guard is entitled to   *)
(* observe it.  The stage in progress is the next one, and it exists.      *)
(***************************************************************************)
ObservedHasWindow == active # NotVision => windows[active] # "closed"
ObservedIsEntitled == active # NotVision => active \in entitled
CurrentIsNext == current # 0 => current = nextStage + 1

CameraReport == [presence : {"none", "present", "absent"},
                 completed : Vision \cup {NotVision},
                 result : {"none", "success", "failed"}]

CameraTyped ==
    /\ windows \in [Vision -> Window]
    /\ active \in Vision \cup {NotVision}
    /\ observed \in BOOLEAN
    /\ camOut \in CameraReport
    /\ entitled \subseteq Vision

CameraInv == CameraTyped /\ NoForgottenWindow /\ ObservedHasWindow /\ ObservedIsEntitled

ScenarioTyped ==
    /\ scenSession \in 0 .. MaxSession
    /\ nextStage \in 0 .. Len(Stages) /\ current \in 0 .. Len(Stages)
    /\ due \in {"none", "ahead", "reached"}
    /\ complete \in BOOLEAN /\ executing \in BOOLEAN
    /\ scenOut \in [status : ScenarioStatus \cup {"none"}, stage : 0 .. Len(Stages)]

ScenarioInv == ScenarioTyped /\ CurrentIsNext /\ OneOutcomePerStage

\* What is on its way, and how often the environment has acted.
InTransit ==
    /\ session \in 1 .. MaxSession
    /\ requests \in Seq(Capabilities)
    /\ authorized \in [Reader -> Seq(Capabilities)]
    /\ blocked \in [Reader -> Seq(Capabilities)]
    /\ announced \in [Reader -> 0 .. MaxSession]
    /\ completed \in Seq(Completion)
    /\ events \in Seq(Announcement)
    /\ revocations \in 0 .. MaxRevocation
    /\ seen \in BOOLEAN

DemoInv == CameraInv /\ ScenarioInv /\ InTransit

-----------------------------------------------------------------------------
LEMMA StagesAreCapabilities ==
    /\ Len(Stages) \in Nat
    /\ \A i \in 1 .. Len(Stages) : Stages[i] \in Capabilities
BY ScenarioAssumption DEF Capabilities

LEMMA HeadAndTail ==
    ASSUME NEW T, NEW q \in Seq(T), q # <<>>
    PROVE  Head(q) \in T /\ Tail(q) \in Seq(T)
OBVIOUS

LEMMA Appended ==
    ASSUME NEW T, NEW q \in Seq(T), NEW x \in T PROVE Append(q, x) \in Seq(T)
OBVIOUS

LEMMA Taken ==
    ASSUME NEW T, NEW topic \in [Reader -> Seq(T)], NEW r \in Reader, topic[r] # <<>>
    PROVE  /\ Head(topic[r]) \in T
           /\ [topic EXCEPT ![r] = Tail(@)] \in [Reader -> Seq(T)]
<1>1. topic[r] \in Seq(T)
  OBVIOUS
<1> QED
  BY <1>1, HeadAndTail

LEMMA Delivered ==
    ASSUME NEW T, NEW topic \in [Reader -> Seq(T)], NEW x \in T
    PROVE  ToAll(topic, x) \in [Reader -> Seq(T)]
<1>1. \A r \in Reader : Append(topic[r], x) \in Seq(T)
  OBVIOUS
<1> QED
  BY <1>1 DEF ToAll

-----------------------------------------------------------------------------
(***************************************************************************)
(* Initially.                                                              *)
(***************************************************************************)
LEMMA DemoInit == Init => DemoInv
<1> SUFFICES ASSUME Init PROVE DemoInv
  OBVIOUS
<1>1. CameraInv
  BY VisionAssumption DEF Init, CameraInit, CameraInv, CameraTyped, NoForgottenWindow,
     ObservedHasWindow, ObservedIsEntitled, AllClosed, Blank, CameraReport
<1>2. ScenarioInv
  <2>1. <<>> = [i \in 1 .. 0 |-> i]
    OBVIOUS
  <2>2. OneOutcomePerStage
    BY <2>1 DEF Init, ScenarioInit, OneOutcomePerStage
  <2>3. complete \in BOOLEAN /\ executing \in BOOLEAN
    BY Zenon DEF Init, ScenarioInit
  <2>4. ScenarioTyped
    BY <2>3, StagesAreCapabilities, DemoAssumption
    DEF Init, ScenarioInit, ScenarioTyped, NoNews, ScenarioStatus
  <2> QED
    BY <2>2, <2>4 DEF Init, ScenarioInit, ScenarioInv, CurrentIsNext
<1>3. InTransit
  <2>1. authorized \in [Reader -> Seq(Capabilities)] /\ blocked \in [Reader -> Seq(Capabilities)]
    BY DEF Init
  <2>2. announced \in [Reader -> 0 .. MaxSession]
    BY DemoAssumption DEF Init
  <2>3. requests \in Seq(Capabilities) /\ completed \in Seq(Completion) /\ events \in Seq(Announcement)
    BY DEF Init
  <2>4. seen \in BOOLEAN
    BY Zenon DEF Init
  <2> QED
    BY <2>1, <2>2, <2>3, <2>4, DemoAssumption DEF Init, InTransit
<1> QED
  BY <1>1, <1>2, <1>3 DEF DemoInv

-----------------------------------------------------------------------------
(***************************************************************************)
(* The camera guard.  Besides the invariant, every callback is Honest:     *)
(* what it sees is seen under a grant, and a report has a result.          *)
(***************************************************************************)
SawUnderGrant == camOut'.presence # "none" => active \in entitled
ReportIsWhole == camOut'.completed # NotVision => camOut'.result # "none"
Honest == SawUnderGrant /\ ReportIsWhole

LEMMA Failure ==
    ASSUME NEW c \in Vision
    PROVE  LET r == [Blank EXCEPT !.completed = c, !.result = "failed"] IN
           r \in CameraReport /\ r.presence = "none" /\ r.result = "failed"
BY DEF Blank, CameraReport

LEMMA UnmovedKeeps ==
    ASSUME CameraInv, Unmoved, entitled' \subseteq Vision,
           active # NotVision => active \in entitled'
    PROVE  CameraInv' /\ Honest
<1>1. CameraTyped'
  BY Zenon DEF CameraInv, CameraTyped, Unmoved, NoReport, Blank, CameraReport
<1>2. (NoForgottenWindow /\ ObservedHasWindow)'
  BY DEF CameraInv, Unmoved, NoForgottenWindow, ObservedHasWindow
<1>3. ObservedIsEntitled' /\ Honest
  BY DEF Unmoved, NoReport, Blank, ObservedIsEntitled, Honest, SawUnderGrant, ReportIsWhole
<1> QED
  BY <1>1, <1>2, <1>3 DEF CameraInv

LEMMA AuthorizedKeepsCamera ==
    ASSUME CameraInv, NEW c, CameraOnAuthorized(c), entitled' = entitled \cup ({c} \cap Vision)
    PROVE  CameraInv' /\ Honest
<1>1. CASE c \notin Vision
  BY <1>1, UnmovedKeeps DEF CameraInv, CameraTyped, ObservedIsEntitled, CameraOnAuthorized
<1>2. CASE c \in Vision
  <2>1. /\ windows' = [AllClosed EXCEPT ![c] = "open"] /\ active' = c
        /\ observed' = FALSE /\ camOut' = Blank
    BY <1>2 DEF CameraOnAuthorized, NoReport
  <2>2. observed' \in BOOLEAN
    BY <2>1, Zenon
  <2>3. CameraTyped'
    BY <1>2, <2>1, <2>2 DEF CameraInv, CameraTyped, AllClosed, Blank, CameraReport
  <2> QED
    BY <1>2, <2>1, <2>3, VisionAssumption
    DEF CameraInv, NoForgottenWindow, ObservedHasWindow, ObservedIsEntitled, AllClosed,
        Honest, SawUnderGrant, ReportIsWhole, Blank
<1> QED
  BY <1>1, <1>2

\* The guard leaves an observation: the window it was for is the only one.
LEMMA ClosingKeepsCamera ==
    ASSUME CameraInv, NEW W \in [Vision -> Window], windows' = W, active' = NotVision,
           observed' \in BOOLEAN, entitled' \subseteq Vision,
           \A c \in Vision : W[c] = "closed",
           camOut' \in CameraReport
    PROVE  CameraInv'
<1>1. CameraTyped'
  BY DEF CameraInv, CameraTyped
<1> QED
  BY <1>1 DEF CameraInv, NoForgottenWindow, ObservedHasWindow, ObservedIsEntitled

LEMMA MessageKeepsCamera ==
    ASSUME CameraInv, NEW present \in BOOLEAN, OnSensorMessage(present), UNCHANGED entitled
    PROVE  CameraInv' /\ Honest
<1>1. CASE active = NotVision
  BY <1>1, UnmovedKeeps DEF CameraInv, CameraTyped, ObservedIsEntitled, OnSensorMessage
<1>2. CASE active # NotVision
  <2>1. active \in Vision /\ active \in entitled
    BY <1>2 DEF CameraInv, CameraTyped, ObservedIsEntitled
  <2>2. /\ windows' = Closed(active) /\ active' = NotVision
        /\ IF IsActive(windows[active]) THEN Observe(present)
           ELSE Report(active, "failed") /\ UNCHANGED observed
    BY <1>2 DEF OnSensorMessage
  <2>3. Closed(active) \in [Vision -> Window] /\ \A c \in Vision : Closed(active)[c] = "closed"
    BY <2>1 DEF CameraInv, CameraTyped, NoForgottenWindow, Closed
  <2>4. observed' \in BOOLEAN
    BY <2>2, Zenon DEF Observe, CameraInv, CameraTyped
  <2>5. /\ camOut' \in CameraReport
        /\ ReportIsWhole
    <3>1. CASE IsActive(windows[active])
      BY <2>1, <2>2, <3>1 DEF Observe, CameraReport, ReportIsWhole
    <3>2. CASE ~IsActive(windows[active])
      BY <2>1, <2>2, <3>2, Failure DEF Report, ReportIsWhole
    <3> QED
      BY <3>1, <3>2
  <2> QED
    BY <2>1, <2>2, <2>3, <2>4, <2>5, ClosingKeepsCamera
    DEF Honest, SawUnderGrant, CameraInv, CameraTyped
<1> QED
  BY <1>1, <1>2

LEMMA TickKeepsCamera ==
    ASSUME CameraInv, CameraTick, UNCHANGED entitled
    PROVE  CameraInv' /\ Honest
<1>1. CASE active = NotVision \/ IsActive(windows[active])
  BY <1>1, UnmovedKeeps DEF CameraInv, CameraTyped, ObservedIsEntitled, CameraTick
<1>2. CASE ~(active = NotVision \/ IsActive(windows[active]))
  <2>1. active \in Vision
    BY <1>2 DEF CameraInv, CameraTyped
  <2>2. /\ windows' = Closed(active) /\ active' = NotVision /\ UNCHANGED observed
        /\ camOut' = Blank \/ camOut' = [Blank EXCEPT !.completed = active, !.result = "failed"]
    BY <1>2 DEF CameraTick, NoReport, Report
  <2>3. Closed(active) \in [Vision -> Window] /\ \A c \in Vision : Closed(active)[c] = "closed"
    BY <2>1 DEF CameraInv, CameraTyped, NoForgottenWindow, Closed
  <2>4. observed' \in BOOLEAN
    BY <2>2, Zenon DEF CameraInv, CameraTyped
  <2>5. /\ camOut' \in CameraReport
        /\ Honest
    <3>1. CASE camOut' = Blank
      BY <3>1 DEF Blank, CameraReport, Honest, SawUnderGrant, ReportIsWhole
    <3>2. CASE camOut' = [Blank EXCEPT !.completed = active, !.result = "failed"]
      BY <2>1, <3>2, Failure DEF Honest, SawUnderGrant, ReportIsWhole
    <3> QED
      BY <2>2, <3>1, <3>2
  <2> QED
    BY <2>2, <2>3, <2>4, <2>5, ClosingKeepsCamera DEF CameraInv, CameraTyped
<1> QED
  BY <1>1, <1>2

LEMMA BlockedKeepsCamera ==
    ASSUME CameraInv, NEW c, CameraOnBlocked(c), entitled' = entitled \ {c}
    PROVE  CameraInv' /\ Honest
<1>1. CASE c \notin Vision
  BY <1>1, UnmovedKeeps DEF CameraInv, CameraTyped, ObservedIsEntitled, CameraOnBlocked
<1>2. CASE c \in Vision
  <2>1. /\ windows' = Closed(c) /\ active' = (IF active = c THEN NotVision ELSE active)
        /\ camOut' = Blank /\ UNCHANGED observed
    BY <1>2 DEF CameraOnBlocked, NoReport
  <2>2. observed' \in BOOLEAN
    BY <2>1, Zenon DEF CameraInv, CameraTyped
  <2>3. CameraTyped'
    BY <1>2, <2>1, <2>2 DEF CameraInv, CameraTyped, Closed, Blank, CameraReport
  <2>4. (NoForgottenWindow /\ ObservedHasWindow /\ ObservedIsEntitled)'
    BY <1>2, <2>1 DEF CameraInv, CameraTyped, Closed, NoForgottenWindow,
       ObservedHasWindow, ObservedIsEntitled
  <2> QED
    BY <2>1, <2>3, <2>4 DEF CameraInv, Honest, SawUnderGrant, ReportIsWhole, Blank
<1> QED
  BY <1>1, <1>2

\* Whatever ends the grant that is being used closes its window, and no other
\* window could be closed instead.
LEMMA EventKeepsCamera ==
    ASSUME CameraInv, NEW e \in Announcement, CameraOnConsentEvent(e.type, e.capability),
           entitled' = IF e.capability = NotVision THEN {} ELSE entitled \ {e.capability}
    PROVE  CameraInv' /\ Honest
<1> DEFINE changed == {v \in Vision : Changes(windows[v], e.type, e.capability, v)}
<1>1. entitled' \subseteq Vision
  BY DEF CameraInv, CameraTyped
<1>2. CASE changed = {}
  <2>1. Unmoved
    BY <1>2 DEF CameraOnConsentEvent
  <2>2. ASSUME active # NotVision PROVE active \in entitled'
    <3>1. active \in Vision /\ active \in entitled /\ windows[active] # "closed"
      BY <2>2 DEF CameraInv, CameraTyped, ObservedIsEntitled, ObservedHasWindow
    <3>2. ~Closes(e.type, e.capability, active)
      BY <1>2, <3>1 DEF Changes
    <3>3. e.capability # NotVision /\ e.capability # active
      BY <3>2, NoneAssumption DEF Announcement, Closes
    <3> QED
      BY <3>1, <3>3
  <2> QED
    BY <1>1, <2>1, <2>2, UnmovedKeeps
<1>3. CASE changed # {}
  <2> DEFINE W == [v \in Vision |-> IF v \in changed THEN "closed" ELSE windows[v]]
  <2>1. windows' = W /\ active' = NotVision /\ UNCHANGED observed
        /\ camOut' \in {Blank, [Blank EXCEPT !.completed = active, !.result = "failed"]}
        /\ (active = NotVision => camOut' = Blank)
    BY <1>3 DEF CameraOnConsentEvent, NoReport, Report
  <2>2. active \in Vision /\ \A v \in Vision : windows[v] # "closed" => v = active
    BY <1>3 DEF CameraInv, CameraTyped, NoForgottenWindow, Changes
  <2>3. changed = {active}
    BY <1>3, <2>2 DEF Changes
  <2>4. W \in [Vision -> Window] /\ \A v \in Vision : W[v] = "closed"
    BY <2>2, <2>3 DEF CameraInv, CameraTyped
  <2>5. observed' \in BOOLEAN
    BY <2>1, Zenon DEF CameraInv, CameraTyped
  <2>6. camOut' \in CameraReport /\ Honest
    <3>1. CASE camOut' = Blank
      BY <3>1 DEF Blank, CameraReport, Honest, SawUnderGrant, ReportIsWhole
    <3>2. CASE camOut' = [Blank EXCEPT !.completed = active, !.result = "failed"]
      BY <2>2, <3>2, Failure DEF Honest, SawUnderGrant, ReportIsWhole
    <3> QED
      BY <2>1, <3>1, <3>2
  <2> HIDE DEF W, changed
  <2> QED
    BY <1>1, <2>1, <2>4, <2>5, <2>6, ClosingKeepsCamera
<1> QED
  BY <1>2, <1>3

LEMMA SessionKeepsCamera ==
    ASSUME CameraInv, CameraOnSession, entitled' = {}
    PROVE  CameraInv' /\ Honest
<1>1. CASE active = NotVision
  BY <1>1, UnmovedKeeps DEF CameraOnSession
<1>2. CASE active # NotVision
  <2>1. windows' = AllClosed /\ active' = NotVision /\ camOut' = Blank /\ UNCHANGED observed
    BY <1>2 DEF CameraOnSession, SessionEnds, NoReport
  <2>2. observed' \in BOOLEAN
    BY <2>1, Zenon DEF CameraInv, CameraTyped
  <2>3. AllClosed \in [Vision -> Window] /\ \A c \in Vision : AllClosed[c] = "closed"
    BY DEF AllClosed
  <2>4. camOut' \in CameraReport /\ Honest
    BY <2>1 DEF Blank, CameraReport, Honest, SawUnderGrant, ReportIsWhole
  <2> QED
    BY <2>1, <2>2, <2>3, <2>4, ClosingKeepsCamera
<1> QED
  BY <1>1, <1>2

LEMMA TimeKeepsCamera ==
    ASSUME CameraInv, CameraTimePasses, UNCHANGED entitled
    PROVE  CameraInv' /\ Honest
<1>1. PICK c \in Vision : windows[c] = "open" /\ windows' = [windows EXCEPT ![c] = "lapsed"]
                          /\ camOut' = Blank /\ UNCHANGED <<active, observed>>
  BY DEF CameraTimePasses, NoReport
<1>2. observed' \in BOOLEAN
  BY <1>1, Zenon DEF CameraInv, CameraTyped
<1>3. CameraTyped'
  BY <1>1, <1>2 DEF CameraInv, CameraTyped, Blank, CameraReport
<1> QED
  BY <1>1, <1>3 DEF CameraInv, CameraTyped, NoForgottenWindow, ObservedHasWindow,
     ObservedIsEntitled, Honest, SawUnderGrant, ReportIsWhole, Blank

-----------------------------------------------------------------------------
(***************************************************************************)
(* The scenario.  A step says nothing of a stage (Quiet), or gives the     *)
(* stage in progress its outcome (Advance), or starts a session afresh.    *)
(***************************************************************************)
Quiet ==
    /\ UNCHANGED <<scenSession, nextStage>>
    /\ scenOut'.status \notin {"executed", "fallback"}
    /\ current' # 0 => current' = nextStage + 1

Told == scenOut'.status = "requested" => scenOut'.stage \in 1 .. Len(Stages)

LEMMA QuietKeepsScenario ==
    ASSUME ScenarioInv, ScenarioTyped', Quiet, Told, ScenarioPublishes
    PROVE  ScenarioInv' /\ Told
<1>1. outcomes' = outcomes /\ nextStage' = nextStage
  BY DEF Quiet, ScenarioPublishes
<1> QED
  BY <1>1 DEF ScenarioInv, Quiet, CurrentIsNext, OneOutcomePerStage

LEMMA StillKeepsScenario ==
    ASSUME ScenarioInv, Still, ScenarioPublishes
    PROVE  ScenarioInv' /\ Told
<1>1. complete' \in BOOLEAN /\ executing' \in BOOLEAN
  BY Zenon DEF Still, ScenarioInv, ScenarioTyped
<1>2. ScenarioTyped' /\ Quiet /\ Told
  BY <1>1, StagesAreCapabilities
  DEF ScenarioInv, ScenarioTyped, Still, Silent, NoNews, ScenarioStatus, Quiet, Told, CurrentIsNext
<1> QED
  BY <1>2, QuietKeepsScenario

LEMMA AdvanceKeepsScenario ==
    ASSUME ScenarioInv, NEW outcome \in {"executed", "fallback"}, current # 0,
           Advance(outcome), ScenarioPublishes
    PROVE  ScenarioInv' /\ Told
<1>1. complete' \in BOOLEAN /\ executing' \in BOOLEAN
  BY Zenon DEF Advance, ScenarioInv, ScenarioTyped
<1>2. current = nextStage + 1 /\ nextStage' = nextStage + 1 /\ nextStage \in Nat
      /\ current \in 0 .. Len(Stages) /\ Len(Stages) \in Nat
  BY StagesAreCapabilities DEF Advance, ScenarioInv, ScenarioTyped, CurrentIsNext
<1>3. ScenarioTyped'
  BY <1>1, <1>2 DEF ScenarioInv, ScenarioTyped, Advance, Says, ScenarioStatus
<1>4. outcomes' = Append(outcomes, current)
  BY DEF Advance, Says, ScenarioPublishes
<1>5. outcomes' = [i \in 1 .. nextStage' |-> i]
  BY <1>2, <1>4 DEF ScenarioInv, OneOutcomePerStage
<1> QED
  BY <1>3, <1>5 DEF ScenarioInv, CurrentIsNext, OneOutcomePerStage, Advance, Says, Told

LEMMA CallbackKeepsScenario ==
    ASSUME ScenarioInv, ScenarioPublishes, NEW c, NEW result,
           \/ ScenarioOnAuthorized(c)
           \/ ScenarioOnBlocked(c)
           \/ OnExecutionCompleted(c, result)
    PROVE  ScenarioInv' /\ Told
<1>1. CASE ScenarioOnAuthorized(c)
  <2>1. CASE ~Matches(c) /\ Still
    BY <2>1, StillKeepsScenario
  <2>2. CASE /\ Matches(c) /\ executing' = TRUE
             /\ Says("started", current)
             /\ UNCHANGED <<scenSession, nextStage, current, due, complete>>
    <3>1. complete' \in BOOLEAN /\ executing' \in BOOLEAN
      BY <2>2, Zenon DEF ScenarioInv, ScenarioTyped
    <3>2. ScenarioTyped' /\ Quiet /\ Told
      BY <2>2, <3>1 DEF ScenarioInv, ScenarioTyped, Says, ScenarioStatus, Quiet, Told, CurrentIsNext
    <3> QED
      BY <3>2, QuietKeepsScenario
  <2>3. CASE Matches(c) /\ Advance("executed")
    BY <2>3, AdvanceKeepsScenario DEF Matches
  <2> QED
    BY <1>1, <2>1, <2>2, <2>3 DEF ScenarioOnAuthorized
<1>2. CASE ScenarioOnBlocked(c)
  BY <1>2, StillKeepsScenario, AdvanceKeepsScenario DEF ScenarioOnBlocked, Matches
<1>3. CASE OnExecutionCompleted(c, result)
  BY <1>3, StillKeepsScenario, AdvanceKeepsScenario
  DEF OnExecutionCompleted, Awaited, Matches, Outcome
<1> QED
  BY <1>1, <1>2, <1>3

LEMMA SessionKeepsScenario ==
    ASSUME ScenarioInv, ScenarioPublishes, NEW s \in 0 .. MaxSession, ScenarioOnSession(s)
    PROVE  ScenarioInv' /\ Told
<1>1. CASE s = scenSession
  BY <1>1, StillKeepsScenario DEF ScenarioOnSession
<1>2. CASE s # scenSession
  <2>1. /\ scenSession' = s /\ nextStage' = 0 /\ current' = 0 /\ due' = "ahead"
        /\ complete' = FALSE /\ executing' = FALSE /\ scenOut' = [status |-> "ready", stage |-> 0]
    BY <1>2 DEF ScenarioOnSession, Restart, Says
  <2>2. complete' \in BOOLEAN /\ executing' \in BOOLEAN
    BY <2>1, Zenon
  <2>3. ScenarioTyped'
    BY <2>1, <2>2, StagesAreCapabilities DEF ScenarioTyped, ScenarioStatus
  <2>4. outcomes' = <<>> /\ <<>> = [i \in 1 .. 0 |-> i]
    BY <1>2, <2>1 DEF ScenarioPublishes
  <2> QED
    BY <2>1, <2>3, <2>4 DEF ScenarioInv, CurrentIsNext, OneOutcomePerStage, Told
<1> QED
  BY <1>1, <1>2

LEMMA TimerKeepsScenario ==
    ASSUME ScenarioInv, ScenarioPublishes, ScenarioTick \/ DelayPasses
    PROVE  ScenarioInv' /\ Told
<1>1. complete' \in BOOLEAN /\ executing' \in BOOLEAN
  BY Zenon DEF ScenarioTick, DelayPasses, ScenarioInv, ScenarioTyped
<1>2. Len(Stages) \in Nat /\ nextStage \in 0 .. Len(Stages)
  BY StagesAreCapabilities DEF ScenarioInv, ScenarioTyped
<1>3. CASE DelayPasses
  BY <1>1, <1>2, <1>3, QuietKeepsScenario
  DEF ScenarioInv, ScenarioTyped, DelayPasses, Silent, NoNews, ScenarioStatus, Quiet, Told,
      CurrentIsNext
<1>4. CASE ScenarioTick /\ nextStage = Len(Stages)
  BY <1>1, <1>2, <1>4, QuietKeepsScenario
  DEF ScenarioInv, ScenarioTyped, ScenarioTick, Says, ScenarioStatus, Quiet, Told
<1>5. CASE ScenarioTick /\ nextStage # Len(Stages)
  BY <1>1, <1>2, <1>5, QuietKeepsScenario
  DEF ScenarioInv, ScenarioTyped, ScenarioTick, Says, ScenarioStatus, Quiet, Told
<1> QED
  BY <1>3, <1>4, <1>5

-----------------------------------------------------------------------------
(***************************************************************************)
(* The whole demonstration, step by step.                                  *)
(***************************************************************************)
LEMMA CameraAtRest ==
    ASSUME CameraInv, UNCHANGED <<camVars, entitled>> PROVE CameraInv'
<1>1. observed' \in BOOLEAN
  BY Zenon DEF CameraInv, CameraTyped, camVars
<1> QED
  BY <1>1 DEF CameraInv, CameraTyped, NoForgottenWindow, ObservedHasWindow,
     ObservedIsEntitled, camVars

LEMMA ScenarioAtRest ==
    ASSUME ScenarioInv, UNCHANGED <<scenVars, outcomes>> PROVE ScenarioInv'
<1>1. complete' \in BOOLEAN /\ executing' \in BOOLEAN
  BY Zenon DEF ScenarioInv, ScenarioTyped, scenVars
<1> QED
  BY <1>1 DEF ScenarioInv, ScenarioTyped, CurrentIsNext, OneOutcomePerStage, scenVars

LEMMA EnvironmentKeeps ==
    ASSUME DemoInv, Environment
    PROVE  DemoInv' /\ UNCHANGED camVars
<1>1. UNCHANGED <<camVars, scenVars, entitled, seen, outcomes>>
  BY DEF Environment, Answers, NewSession, Revokes, history
<1>2. CameraInv' /\ ScenarioInv'
  BY <1>1, CameraAtRest, ScenarioAtRest DEF DemoInv
<1>3. seen' \in BOOLEAN
  BY <1>1, Zenon DEF DemoInv, InTransit
<1>4. CASE Answers
  <2>1. Head(requests) \in Capabilities /\ requests' \in Seq(Capabilities)
    BY <1>4, HeadAndTail DEF Answers, DemoInv, InTransit
  <2>2. UNCHANGED <<session, revocations, announced, completed>>
    BY <1>4 DEF Answers
  <2>3. authorized' \in [Reader -> Seq(Capabilities)] /\ blocked' \in [Reader -> Seq(Capabilities)]
    <3>1. authorized \in [Reader -> Seq(Capabilities)] /\ blocked \in [Reader -> Seq(Capabilities)]
      BY DEF DemoInv, InTransit
    <3>2. \/ authorized' = ToAll(authorized, Head(requests)) /\ blocked' = blocked
          \/ blocked' = ToAll(blocked, Head(requests)) /\ authorized' = authorized
      BY <1>4 DEF Answers
    <3> QED
      BY <2>1, <3>1, <3>2, Delivered
  <2>4. [type |-> "capability_blocked", capability |-> Head(requests)] \in Announcement
    BY <2>1 DEF Announcement
  <2>5. events' \in Seq(Announcement)
    <3>1. events \in Seq(Announcement)
      BY DEF DemoInv, InTransit
    <3>2. \/ UNCHANGED events
          \/ events' = Append(events, [type |-> "capability_blocked", capability |-> Head(requests)])
      BY <1>4 DEF Answers
    <3> QED
      BY <2>4, <3>1, <3>2, Appended
  <2> QED
    BY <1>1, <1>2, <1>3, <2>1, <2>2, <2>3, <2>5 DEF DemoInv, InTransit
<1>5. CASE NewSession
  <2>1. [type |-> "session_reset", capability |-> NotVision] \in Announcement
        /\ [type |-> "session_started", capability |-> NotVision] \in Announcement
    BY DEF Announcement
  <2>2. events' \in Seq(Announcement) /\ requests' \in Seq(Capabilities)
    <3> DEFINE two == <<[type |-> "session_reset", capability |-> NotVision],
                        [type |-> "session_started", capability |-> NotVision]>>
    <3>1. events \in Seq(Announcement) /\ requests \in Seq(Capabilities)
      BY DEF DemoInv, InTransit
    <3>2. events' = events \o two /\ requests' \in {requests, <<>>}
      BY <1>5 DEF NewSession
    <3>3. two \in Seq(Announcement)
      BY <2>1
    <3> HIDE DEF two
    <3>4. events \o two \in Seq(Announcement)
      BY <3>1, <3>3
    <3>5. requests' \in Seq(Capabilities)
      <4>1. <<>> \in Seq(Capabilities)
        OBVIOUS
      <4> QED
        BY <3>1, <3>2, <4>1, Zenon
    <3> QED
      BY <3>2, <3>4, <3>5
  <2>3. session' \in 1 .. MaxSession /\ announced' \in [Reader -> 0 .. MaxSession]
    BY <1>5, DemoAssumption DEF NewSession, DemoInv, InTransit
  <2>4. UNCHANGED <<revocations, authorized, blocked, completed>>
    BY <1>5 DEF NewSession
  <2> QED
    BY <1>1, <1>2, <1>3, <2>2, <2>3, <2>4 DEF DemoInv, InTransit
<1>6. CASE \E c \in Capabilities, type \in {"consent_revoked", "consent_expired"} : Revokes(type, c)
  <2>1. PICK c \in Capabilities, type \in {"consent_revoked", "consent_expired"} : Revokes(type, c)
    BY <1>6
  <2>2. [type |-> type, capability |-> c] \in Announcement
    BY DEF Announcement
  <2>3. events' \in Seq(Announcement)
    BY <2>1, <2>2 DEF Revokes, DemoInv, InTransit
  <2>4. revocations' \in 0 .. MaxRevocation
    BY <2>1, DemoAssumption DEF Revokes, DemoInv, InTransit
  <2>5. UNCHANGED <<session, requests, authorized, blocked, announced, completed>>
    BY <2>1 DEF Revokes
  <2> QED
    BY <1>1, <1>2, <1>3, <2>3, <2>4, <2>5 DEF DemoInv, InTransit
<1> QED
  BY <1>1, <1>4, <1>5, <1>6 DEF Environment

\* What every callback of the camera guard has in common.
CameraDid == \/ CameraAuthorized \/ CameraBlocked \/ CameraEvent
             \/ CameraSession \/ CameraWorks \/ CameraWaits

LEMMA CameraTopics ==
    ASSUME DemoInv, CameraDid
    PROVE  /\ CameraInv' /\ Honest
           /\ authorized' \in [Reader -> Seq(Capabilities)]
           /\ blocked' \in [Reader -> Seq(Capabilities)]
           /\ announced' \in [Reader -> 0 .. MaxSession]
           /\ events' \in Seq(Announcement)
<1> USE DEF DemoInv, InTransit
<1>1. CASE CameraAuthorized
  <2>1. "camera" \in Reader
    BY DEF Reader
  <2>2. authorized' \in [Reader -> Seq(Capabilities)]
    BY <1>1, <2>1, Taken DEF CameraAuthorized, CameraTakes
  <2> QED
    BY <1>1, <2>2, AuthorizedKeepsCamera DEF CameraAuthorized
<1>2. CASE CameraBlocked
  <2>1. "camera" \in Reader
    BY DEF Reader
  <2>2. blocked' \in [Reader -> Seq(Capabilities)]
    BY <1>2, <2>1, Taken DEF CameraBlocked, CameraTakes
  <2> QED
    BY <1>2, <2>2, BlockedKeepsCamera DEF CameraBlocked
<1>3. CASE CameraEvent
  <2>1. Head(events) \in Announcement /\ events' \in Seq(Announcement)
    BY <1>3, HeadAndTail DEF CameraEvent
  <2> QED
    BY <1>3, <2>1, EventKeepsCamera DEF CameraEvent
<1>4. CASE CameraSession
  <2>1. announced' \in [Reader -> 0 .. MaxSession]
    <3>1. announced \in [Reader -> 0 .. MaxSession] /\ 0 \in 0 .. MaxSession
      BY DemoAssumption
    <3>2. announced' = [announced EXCEPT !["camera"] = 0]
      BY <1>4 DEF CameraSession
    <3> HIDE DEF DemoInv, InTransit
    <3> QED
      BY <3>1, <3>2
  <2>2. CameraOnSession /\ entitled' = {} /\ UNCHANGED <<authorized, blocked, events>>
    BY <1>4 DEF CameraSession
  <2> QED
    BY <2>1, <2>2, SessionKeepsCamera
<1>5. CASE CameraWorks
  BY <1>5, MessageKeepsCamera, TickKeepsCamera DEF CameraWorks
<1>6. CASE CameraWaits
  BY <1>6, TimeKeepsCamera DEF CameraWaits
<1> QED
  BY <1>1, <1>2, <1>3, <1>4, <1>5, <1>6 DEF CameraDid

LEMMA CameraKeeps ==
    ASSUME DemoInv, CameraNext
    PROVE  DemoInv' /\ Honest
<1>1. /\ CameraDid /\ CameraPublishes
      /\ UNCHANGED <<scenVars, session, revocations, requests, outcomes>>
  BY DEF CameraNext, CameraSteps, CameraDid
<1>2. ScenarioInv'
  BY <1>1, ScenarioAtRest DEF DemoInv
<1>3. CameraInv' /\ Honest
  BY <1>1, CameraTopics
<1>4. seen' \in BOOLEAN
  BY <1>1, Zenon DEF CameraPublishes, DemoInv, InTransit
<1>5. completed' \in Seq(Completion)
  <2>1. CASE camOut'.completed = NotVision
    BY <1>1, <2>1 DEF CameraPublishes, DemoInv, InTransit
  <2>2. CASE camOut'.completed # NotVision
    <3>1. [capability |-> camOut'.completed, result |-> camOut'.result] \in Completion
      BY <1>3, <2>2 DEF CameraInv, CameraTyped, CameraReport, Honest, ReportIsWhole, Completion
    <3> QED
      BY <1>1, <2>2, <3>1 DEF CameraPublishes, DemoInv, InTransit
  <2> QED
    BY <2>1, <2>2
<1> QED
  BY <1>1, <1>2, <1>3, <1>4, <1>5, CameraTopics DEF DemoInv, InTransit

\* What every callback of the scenario has in common.
ScenarioDid == \/ ScenarioAuthorized \/ ScenarioBlocked \/ ScenarioCompleted
               \/ ScenarioSession \/ ScenarioTimer

LEMMA ScenarioTopics ==
    ASSUME DemoInv, ScenarioDid, ScenarioPublishes
    PROVE  /\ ScenarioInv' /\ Told
           /\ authorized' \in [Reader -> Seq(Capabilities)]
           /\ blocked' \in [Reader -> Seq(Capabilities)]
           /\ announced' \in [Reader -> 0 .. MaxSession]
           /\ completed' \in Seq(Completion)
<1>1. ScenarioInv /\ "scenario" \in Reader
  BY DEF DemoInv, Reader
<1>2. /\ authorized \in [Reader -> Seq(Capabilities)] /\ blocked \in [Reader -> Seq(Capabilities)]
      /\ announced \in [Reader -> 0 .. MaxSession] /\ completed \in Seq(Completion)
  BY DEF DemoInv, InTransit
<1>3. CASE ScenarioAuthorized
  <2>1. authorized' \in [Reader -> Seq(Capabilities)]
    BY <1>1, <1>2, <1>3, Taken DEF ScenarioAuthorized, ScenarioTakes
  <2> QED
    BY <1>1, <1>2, <1>3, <2>1, CallbackKeepsScenario DEF ScenarioAuthorized
<1>4. CASE ScenarioBlocked
  <2>1. blocked' \in [Reader -> Seq(Capabilities)]
    BY <1>1, <1>2, <1>4, Taken DEF ScenarioBlocked, ScenarioTakes
  <2> QED
    BY <1>1, <1>2, <1>4, <2>1, CallbackKeepsScenario DEF ScenarioBlocked
<1>5. CASE ScenarioCompleted
  <2>1. completed' \in Seq(Completion)
    BY <1>2, <1>5, HeadAndTail DEF ScenarioCompleted
  <2> QED
    BY <1>1, <1>2, <1>5, <2>1, CallbackKeepsScenario DEF ScenarioCompleted
<1>6. CASE ScenarioSession
  <2>1. /\ announced["scenario"] \in 0 .. MaxSession
        /\ announced' = [announced EXCEPT !["scenario"] = 0]
        /\ ScenarioOnSession(announced["scenario"]) /\ UNCHANGED <<authorized, blocked, completed>>
    BY <1>1, <1>2, <1>6 DEF ScenarioSession
  <2>2. announced' \in [Reader -> 0 .. MaxSession]
    <3>1. 0 \in 0 .. MaxSession
      BY DemoAssumption
    <3> QED
      BY <1>2, <2>1, <3>1
  <2> QED
    BY <1>1, <1>2, <2>1, <2>2, SessionKeepsScenario
<1>7. CASE ScenarioTimer
  BY <1>1, <1>2, <1>7, TimerKeepsScenario DEF ScenarioTimer
<1> QED
  BY <1>3, <1>4, <1>5, <1>6, <1>7 DEF ScenarioDid

LEMMA ScenarioKeeps ==
    ASSUME DemoInv, ScenarioNext
    PROVE  DemoInv' /\ UNCHANGED camVars
<1>1. /\ ScenarioDid /\ ScenarioPublishes
      /\ UNCHANGED <<camVars, session, revocations, events, entitled>>
  BY DEF ScenarioNext, ScenarioSteps, ScenarioDid
<1>2. CameraInv'
  BY <1>1, CameraAtRest DEF DemoInv
<1>3. ScenarioInv' /\ Told
  BY <1>1, ScenarioTopics
<1>4. seen' \in BOOLEAN
  BY <1>1, Zenon DEF ScenarioPublishes, DemoInv, InTransit
<1>5. requests' \in Seq(Capabilities)
  <2>1. requests \in Seq(Capabilities)
    BY DEF DemoInv, InTransit
  <2>2. scenOut'.status = "requested" => Stages[scenOut'.stage] \in Capabilities
    BY <1>3, StagesAreCapabilities DEF Told
  <2> QED
    BY <1>1, <2>1, <2>2 DEF ScenarioPublishes
<1>6. session' \in 1 .. MaxSession /\ revocations' \in 0 .. MaxRevocation /\ events' \in Seq(Announcement)
  BY <1>1 DEF DemoInv, InTransit
<1> QED
  BY <1>1, <1>2, <1>3, <1>4, <1>5, <1>6, ScenarioTopics DEF DemoInv, InTransit

LEMMA DemoStep ==
    ASSUME DemoInv, [Next]_vars
    PROVE  DemoInv' /\ (UNCHANGED camVars \/ SawUnderGrant)
<1>1. CASE UNCHANGED vars
  <2>1. seen' \in BOOLEAN
    BY <1>1, Zenon DEF DemoInv, InTransit, vars, history
  <2>2. CameraInv' /\ ScenarioInv'
    BY <1>1, CameraAtRest, ScenarioAtRest DEF DemoInv, vars, history
  <2> QED
    BY <1>1, <2>1, <2>2 DEF DemoInv, InTransit, vars, channels, history
<1> QED
  BY <1>1, EnvironmentKeeps, CameraKeeps, ScenarioKeeps DEF Next, Honest

-----------------------------------------------------------------------------
(***************************************************************************)
(* The invariant holds for any stages, capabilities and bounds.            *)
(***************************************************************************)
THEOREM DemoInvariant == Spec => []DemoInv
<1>1. DemoInv /\ [Next]_vars => DemoInv'
  BY DemoStep
<1> QED
  BY DemoInit, <1>1, PTL DEF Spec

(***************************************************************************)
(* Every variable of the demonstration has its type.                       *)
(***************************************************************************)
THEOREM DemoTypeInvariant == Spec => []DemoTypeOK
<1>1. DemoInv => DemoTypeOK
  <2> SUFFICES ASSUME DemoInv PROVE DemoTypeOK
    OBVIOUS
  <2>1. \A r \in Reader : /\ authorized[r] \in Seq(Capabilities) /\ blocked[r] \in Seq(Capabilities)
                          /\ announced[r] \in 0 .. MaxSession
    BY DEF DemoInv, InTransit
  <2> QED
    BY <2>1, Zenon DEF DemoInv, InTransit, CameraInv, CameraTyped, CameraReport,
       ScenarioInv, ScenarioTyped, DemoTypeOK
<1> QED
  BY DemoInvariant, <1>1, PTL

(***************************************************************************)
(* No callback of the camera guard leaves a grant behind that a later      *)
(* event could use to stop another observation.                            *)
(***************************************************************************)
THEOREM NoForgottenWindowAlways == Spec => []NoForgottenWindow
<1>1. DemoInv => NoForgottenWindow
  BY DEF DemoInv, CameraInv
<1> QED
  BY DemoInvariant, <1>1, PTL

(***************************************************************************)
(* However late, repeated or out of turn the messages come, the stages of  *)
(* a session have one outcome each, in their order.                        *)
(***************************************************************************)
THEOREM OneOutcomePerStageAlways == Spec => []OneOutcomePerStage
<1>1. DemoInv => OneOutcomePerStage
  BY DEF DemoInv, ScenarioInv
<1> QED
  BY DemoInvariant, <1>1, PTL

(***************************************************************************)
(* The camera guard publishes what it sees only while it is entitled to    *)
(* the capability for which it looks.                                      *)
(***************************************************************************)
THEOREM SeenOnlyWhileEntitledAlways == Spec => SeenOnlyWhileEntitled
<1>1. DemoInv /\ [Next]_vars => [SawUnderGrant]_camVars
  BY DemoStep
<1> QED
  BY DemoInvariant, <1>1, PTL DEF Spec, SeenOnlyWhileEntitled, SawUnderGrant

-----------------------------------------------------------------------------
(***************************************************************************)
(* What the scenario executes was seen.  Sessions reach the scenario in    *)
(* their order; before its first one nothing has been asked, so the camera *)
(* is idle; in its first one, a success that is on its way to it was       *)
(* seen.                                                                   *)
(***************************************************************************)
Unseen == {r \in Completion : r.result # "success"}

SessionsPass == scenSession <= session /\ announced["scenario"] \in {0, session}
NothingAskedYet ==
    scenSession = 0 => /\ requests = <<>> /\ authorized["camera"] = <<>>
                       /\ active = NotVision /\ completed = <<>>
SuccessWasSeen == scenSession = 1 /\ seen # TRUE => completed \in Seq(Unseen)
OutcomeIsLast == scenOut.status = "executed" => current = 0

SightingInv == SessionsPass /\ NothingAskedYet /\ SuccessWasSeen /\ OutcomeIsLast

LEMMA SightingStarts == Init => SightingInv
<1> SUFFICES ASSUME Init PROVE SightingInv
  OBVIOUS
<1>1. SessionsPass
  BY DEF Init, ScenarioInit, SessionsPass, Reader
<1>2. NothingAskedYet /\ SuccessWasSeen
  <2>1. authorized["camera"] = <<>>
    BY DEF Init, Reader
  <2> QED
    BY <2>1 DEF Init, ScenarioInit, CameraInit, NothingAskedYet, SuccessWasSeen
<1>3. OutcomeIsLast
  BY DEF Init, ScenarioInit, OutcomeIsLast
<1> QED
  BY <1>1, <1>2, <1>3 DEF SightingInv

(***************************************************************************)
(* The camera guard reports a success only of what it sees, and nothing    *)
(* while it is idle.  Only an authorization makes it look.                 *)
(***************************************************************************)
SuccessIsSight == camOut'.result = "success" => camOut'.presence = "present"
IdleIsSilent == active = NotVision => camOut'.completed = NotVision
IdleStaysIdle == active = NotVision => active' = NotVision

\* The callbacks that do not look: they say nothing, or that an observation failed.
Unsighted ==
    \/ camOut' = Blank
    \/ active # NotVision /\ camOut' = [Blank EXCEPT !.completed = active, !.result = "failed"]

LEMMA UnsightedSaysNoSuccess == Unsighted => SuccessIsSight /\ IdleIsSilent
<1>1. Blank.completed = NotVision /\ Blank.result # "success"
  BY DEF Blank
<1>2. [Blank EXCEPT !.completed = active, !.result = "failed"].result # "success"
  BY DEF Blank
<1> QED
  BY <1>1, <1>2 DEF Unsighted, SuccessIsSight, IdleIsSilent

LEMMA CameraSightings ==
    ASSUME CameraDid
    PROVE  /\ SuccessIsSight /\ IdleIsSilent
           /\ \/ CameraAuthorized
              \/ IdleStaysIdle /\ UNCHANGED authorized
<1> USE DEF IdleStaysIdle, NoReport
<1>1. CASE CameraAuthorized
  <2>1. camOut' = Blank
    BY <1>1 DEF CameraAuthorized, CameraOnAuthorized, Unmoved
  <2> QED
    BY <1>1, <2>1, UnsightedSaysNoSuccess DEF Unsighted
<1>2. CASE CameraBlocked
  <2>1. camOut' = Blank /\ IdleStaysIdle
    BY <1>2 DEF CameraBlocked, CameraOnBlocked, Unmoved
  <2> QED
    BY <1>2, <2>1, UnsightedSaysNoSuccess DEF Unsighted, CameraBlocked
<1>3. CASE CameraEvent
  <2>1. Unsighted /\ IdleStaysIdle
    BY <1>3 DEF CameraEvent, CameraOnConsentEvent, Unmoved, Report, Unsighted
  <2> QED
    BY <1>3, <2>1, UnsightedSaysNoSuccess DEF CameraEvent
<1>4. CASE CameraSession
  <2>1. camOut' = Blank /\ IdleStaysIdle
    BY <1>4 DEF CameraSession, CameraOnSession, SessionEnds, Unmoved
  <2> QED
    BY <1>4, <2>1, UnsightedSaysNoSuccess DEF Unsighted, CameraSession
<1>5. CASE CameraWorks
  <2>1. UNCHANGED authorized
    BY <1>5 DEF CameraWorks
  <2>2. CASE CameraTick
    <3>1. Unsighted /\ IdleStaysIdle
      BY <2>2 DEF CameraTick, Unmoved, Report, Unsighted
    <3> QED
      BY <2>1, <3>1, UnsightedSaysNoSuccess
  <2>3. ASSUME NEW present \in BOOLEAN, OnSensorMessage(present)
        PROVE  SuccessIsSight /\ IdleIsSilent /\ IdleStaysIdle
    <3>1. CASE active = NotVision
      BY <2>3, <3>1, UnsightedSaysNoSuccess DEF OnSensorMessage, Unmoved, Unsighted
    <3>2. CASE active # NotVision /\ IsActive(windows[active])
      <4>1. camOut' = [presence |-> IF present THEN "present" ELSE "absent",
                       completed |-> active,
                       result |-> IF present THEN "success" ELSE "failed"]
        BY <2>3, <3>2 DEF OnSensorMessage, Observe
      <4> QED
        BY <2>3, <3>2, <4>1 DEF OnSensorMessage, SuccessIsSight, IdleIsSilent
    <3>3. CASE active # NotVision /\ ~IsActive(windows[active])
      BY <2>3, <3>3, UnsightedSaysNoSuccess DEF OnSensorMessage, Report, Unsighted
    <3> QED
      BY <3>1, <3>2, <3>3
  <2> QED
    BY <1>5, <2>1, <2>2, <2>3 DEF CameraWorks
<1>6. CASE CameraWaits
  BY <1>6, UnsightedSaysNoSuccess DEF CameraWaits, CameraTimePasses, Unsighted
<1> QED
  BY <1>1, <1>2, <1>3, <1>4, <1>5, <1>6 DEF CameraDid

LEMMA CameraKeepsSight ==
    ASSUME DemoInv, SightingInv, CameraNext
    PROVE  SightingInv'
<1>1. /\ CameraDid /\ CameraPublishes
      /\ UNCHANGED <<scenVars, session, revocations, requests, outcomes>>
  BY DEF CameraNext, CameraSteps, CameraDid
<1>2. UNCHANGED <<scenSession, current, scenOut>>
  BY <1>1 DEF scenVars
<1>3. announced'["scenario"] = announced["scenario"]
  <2>1. CASE CameraSession
    BY <2>1 DEF CameraSession, DemoInv, InTransit, Reader
  <2> QED
    BY <1>1, <2>1 DEF CameraDid, CameraAuthorized, CameraBlocked, CameraEvent, CameraWorks, CameraWaits
<1>4. SessionsPass'
  BY <1>1, <1>2, <1>3 DEF SightingInv, SessionsPass
<1>5. /\ SuccessIsSight /\ IdleIsSilent
      /\ \/ CameraAuthorized
         \/ IdleStaysIdle /\ UNCHANGED authorized
  BY <1>1, CameraSightings
<1>6. NothingAskedYet'
  <2> SUFFICES ASSUME scenSession = 0
               PROVE  /\ requests' = <<>> /\ authorized'["camera"] = <<>>
                      /\ active' = NotVision /\ completed' = <<>>
    BY <1>2 DEF NothingAskedYet
  <2>1. /\ requests = <<>> /\ authorized["camera"] = <<>>
        /\ active = NotVision /\ completed = <<>>
    BY DEF SightingInv, NothingAskedYet
  <2>2. ~CameraAuthorized
    BY <2>1 DEF CameraAuthorized, CameraTakes
  <2> QED
    BY <1>1, <1>5, <2>1, <2>2 DEF IdleStaysIdle, IdleIsSilent, CameraPublishes
<1>7. SuccessWasSeen'
  <2> SUFFICES ASSUME scenSession = 1, seen' # TRUE
               PROVE  completed' \in Seq(Unseen)
    BY <1>2 DEF SuccessWasSeen
  <2>1. seen # TRUE /\ camOut'.presence # "present"
    BY <1>1 DEF CameraPublishes
  <2>2. completed \in Seq(Unseen)
    BY <2>1 DEF SightingInv, SuccessWasSeen
  <2>3. CASE camOut'.completed = NotVision
    BY <1>1, <2>2, <2>3 DEF CameraPublishes
  <2>4. CASE camOut'.completed # NotVision
    <3> DEFINE report == [capability |-> camOut'.completed, result |-> camOut'.result]
    <3>1. completed' = Append(completed, report)
      BY <1>1, <2>4 DEF CameraPublishes
    <3>2. camOut' \in CameraReport /\ ReportIsWhole
      BY <1>1, CameraTopics DEF CameraInv, CameraTyped, Honest
    <3>3. report \in Unseen
      BY <1>5, <2>1, <2>4, <3>2 DEF CameraReport, ReportIsWhole, SuccessIsSight, Unseen, Completion
    <3> HIDE DEF report
    <3> QED
      BY <2>2, <3>1, <3>3, Appended
  <2> QED
    BY <2>3, <2>4
<1>8. OutcomeIsLast'
  BY <1>2 DEF SightingInv, OutcomeIsLast
<1> QED
  BY <1>4, <1>6, <1>7, <1>8 DEF SightingInv

LEMMA EnvironmentKeepsSight ==
    ASSUME DemoInv, SightingInv, Environment
    PROVE  SightingInv'
<1>1. UNCHANGED <<camVars, scenVars, completed, seen>>
  BY DEF Environment, Answers, NewSession, Revokes, history
<1>2. UNCHANGED <<scenSession, current, scenOut, active>>
  BY <1>1 DEF scenVars, camVars
<1>3. SessionsPass'
  <2>1. CASE NewSession
    <3>1. session' = session + 1 /\ announced'["scenario"] = session'
      BY <2>1 DEF NewSession, Reader
    <3>2. session \in Nat /\ scenSession \in Nat /\ scenSession <= session
      BY DemoAssumption DEF DemoInv, InTransit, ScenarioInv, ScenarioTyped, SightingInv, SessionsPass
    <3> QED
      BY <1>2, <3>1, <3>2 DEF SessionsPass
  <2>2. CASE UNCHANGED <<session, announced>>
    BY <1>2, <2>2 DEF SightingInv, SessionsPass
  <2> QED
    BY <2>1, <2>2 DEF Environment, Answers, Revokes
<1>4. NothingAskedYet'
  <2> SUFFICES ASSUME scenSession = 0
               PROVE  /\ requests' = <<>> /\ authorized'["camera"] = <<>>
                      /\ active' = NotVision /\ completed' = <<>>
    BY <1>2 DEF NothingAskedYet
  <2>1. /\ requests = <<>> /\ authorized["camera"] = <<>>
        /\ active = NotVision /\ completed = <<>>
    BY DEF SightingInv, NothingAskedYet
  <2>2. ~Answers
    BY <2>1 DEF Answers
  <2>3. requests' = <<>> /\ UNCHANGED authorized
    BY <2>1, <2>2 DEF Environment, NewSession, Revokes
  <2> QED
    BY <1>1, <1>2, <2>1, <2>3
<1> QED
  BY <1>1, <1>2, <1>3, <1>4 DEF SightingInv, SuccessWasSeen, OutcomeIsLast

(***************************************************************************)
(* A step of the scenario asks nothing before the first session, and has   *)
(* an outcome only when it leaves the stage.                               *)
(***************************************************************************)
Executes == scenOut'.status = "executed"

LEMMA ScenarioOutcomes ==
    ASSUME ScenarioDid
    PROVE  /\ Executes => current' = 0
           /\ scenSession = 0 => scenOut'.status # "requested"
           /\ scenSession' # scenSession =>
                  announced["scenario"] # 0 /\ scenSession' = announced["scenario"]
<1> USE DEF Executes, Silent, NoNews, Says
<1>1. CASE ScenarioAuthorized
  BY <1>1 DEF ScenarioAuthorized, ScenarioOnAuthorized, Still, Advance
<1>2. CASE ScenarioBlocked
  BY <1>2 DEF ScenarioBlocked, ScenarioOnBlocked, Still, Advance
<1>3. CASE ScenarioCompleted
  <2>1. Still \/ \E outcome \in {"executed", "fallback"} : Advance(outcome)
    BY <1>3 DEF ScenarioCompleted, OnExecutionCompleted, Outcome
  <2> QED
    BY <2>1 DEF Still, Advance
<1>4. CASE ScenarioSession
  BY <1>4 DEF ScenarioSession, ScenarioOnSession, Still
<1>5. CASE ScenarioTimer
  BY <1>5 DEF ScenarioTimer, ScenarioTick, DelayPasses
<1> QED
  BY <1>1, <1>2, <1>3, <1>4, <1>5 DEF ScenarioDid

LEMMA ScenarioKeepsSight ==
    ASSUME DemoInv, SightingInv, ScenarioNext
    PROVE  SightingInv'
<1>1. /\ ScenarioDid /\ ScenarioPublishes
      /\ UNCHANGED <<camVars, session, revocations, events, entitled>>
  BY DEF ScenarioNext, ScenarioSteps, ScenarioDid
<1>2. /\ Executes => current' = 0
      /\ scenSession = 0 => scenOut'.status # "requested"
      /\ scenSession' # scenSession =>
             announced["scenario"] # 0 /\ scenSession' = announced["scenario"]
  BY <1>1, ScenarioOutcomes
<1>3. session \in 1 .. MaxSession /\ scenSession \in Nat /\ scenSession <= session
      /\ announced["scenario"] \in {0, session} /\ MaxSession \in Nat
  BY DemoAssumption DEF DemoInv, InTransit, ScenarioInv, ScenarioTyped, SightingInv, SessionsPass
<1>4. announced'["scenario"] \in {0, announced["scenario"]}
  <2>1. CASE ScenarioSession
    BY <2>1 DEF ScenarioSession, DemoInv, InTransit, Reader
  <2> QED
    BY <1>1, <2>1 DEF ScenarioDid, ScenarioAuthorized, ScenarioBlocked, ScenarioCompleted, ScenarioTimer
<1>5. SessionsPass'
  BY <1>1, <1>2, <1>3, <1>4 DEF SessionsPass
<1>6. authorized'["camera"] = authorized["camera"]
  <2>1. CASE ScenarioAuthorized
    BY <2>1 DEF ScenarioAuthorized, ScenarioTakes, DemoInv, InTransit, Reader
  <2> QED
    BY <1>1, <2>1 DEF ScenarioDid, ScenarioBlocked, ScenarioCompleted, ScenarioSession, ScenarioTimer
<1>7. \/ completed' = completed
      \/ completed # <<>> /\ completed' = Tail(completed)
  BY <1>1 DEF ScenarioDid, ScenarioAuthorized, ScenarioBlocked, ScenarioCompleted, ScenarioSession,
     ScenarioTimer
<1>8. NothingAskedYet'
  <2> SUFFICES ASSUME scenSession' = 0
               PROVE  /\ requests' = <<>> /\ authorized'["camera"] = <<>>
                      /\ active' = NotVision /\ completed' = <<>>
    BY DEF NothingAskedYet
  <2>1. scenSession = 0
    BY <1>2
  <2>2. /\ requests = <<>> /\ authorized["camera"] = <<>>
        /\ active = NotVision /\ completed = <<>>
    BY <2>1 DEF SightingInv, NothingAskedYet
  <2>3. requests' = requests
    BY <1>1, <1>2, <2>1 DEF ScenarioPublishes
  <2> QED
    BY <1>1, <1>6, <1>7, <2>2, <2>3 DEF camVars
<1>9. SuccessWasSeen'
  <2> SUFFICES ASSUME scenSession' = 1, seen' # TRUE
               PROVE  completed' \in Seq(Unseen)
    BY DEF SuccessWasSeen
  <2>1. scenSession \in {0, 1}
    BY <1>2, <1>3
  <2>2. completed \in Seq(Unseen)
    <3>1. CASE scenSession = 0
      BY <3>1 DEF SightingInv, NothingAskedYet
    <3>2. CASE scenSession = 1
      <4>1. seen' = seen
        BY <1>1, <3>2 DEF ScenarioPublishes
      <4> QED
        BY <3>2, <4>1 DEF SightingInv, SuccessWasSeen
    <3> QED
      BY <2>1, <3>1, <3>2
  <2> QED
    BY <1>7, <2>2, HeadAndTail
<1>10. OutcomeIsLast'
  BY <1>2 DEF OutcomeIsLast, Executes
<1> QED
  BY <1>5, <1>8, <1>9, <1>10 DEF SightingInv

LEMMA SightingStep ==
    ASSUME DemoInv, SightingInv, [Next]_vars
    PROVE  SightingInv'
<1>1. CASE UNCHANGED vars
  BY <1>1 DEF vars, channels, history, camVars, scenVars, SightingInv, SessionsPass,
     NothingAskedYet, SuccessWasSeen, OutcomeIsLast
<1> QED
  BY <1>1, EnvironmentKeepsSight, CameraKeepsSight, ScenarioKeepsSight DEF Next

(***************************************************************************)
(* A stage with a sensor is executed on the report of a success only.      *)
(***************************************************************************)
LEMMA ExecutedOnSuccess ==
    ASSUME ScenarioDid, Executes, current # 0, NeedsSensor(Stages[current])
    PROVE  ScenarioCompleted /\ Head(completed).result = "success"
<1> USE DEF Executes, Silent, NoNews, Says
<1>1. CASE ScenarioAuthorized
  BY <1>1 DEF ScenarioAuthorized, ScenarioOnAuthorized, Matches, Still, Advance
<1>2. CASE ScenarioBlocked
  BY <1>2 DEF ScenarioBlocked, ScenarioOnBlocked, Still, Advance
<1>3. CASE ScenarioCompleted
  BY <1>3 DEF ScenarioCompleted, OnExecutionCompleted, Outcome, Still, Advance
<1>4. CASE ScenarioSession
  BY <1>4 DEF ScenarioSession, ScenarioOnSession, Still
<1>5. CASE ScenarioTimer
  BY <1>5 DEF ScenarioTimer, ScenarioTick, DelayPasses
<1> QED
  BY <1>1, <1>2, <1>3, <1>4, <1>5 DEF ScenarioDid

(***************************************************************************)
(* In the first session, no stage that uses the camera is executed unless  *)
(* the target was seen (_on_execution_completed of the scenario).          *)
(***************************************************************************)
THEOREM ExecutedOnlyIfSeenAlways == Spec => ExecutedOnlyIfSeen
<1> DEFINE Justified == scenSession = 1 /\ current # 0 /\ NeedsSensor(Stages[current])
                        /\ scenOut'.status = "executed" => seen
<1>1. DemoInv /\ SightingInv /\ [Next]_vars => [Justified]_vars
  <2> SUFFICES ASSUME DemoInv, SightingInv, Next, scenSession = 1, current # 0,
                      NeedsSensor(Stages[current]), scenOut'.status = "executed"
               PROVE  seen
    OBVIOUS
  <2>1. CASE UNCHANGED scenVars
    BY <2>1 DEF scenVars, SightingInv, OutcomeIsLast
  <2>2. CASE ScenarioNext
    <3>1. ScenarioCompleted /\ Head(completed).result = "success"
      BY <2>2, ExecutedOnSuccess DEF ScenarioNext, ScenarioSteps, ScenarioDid, Executes
    <3>2. completed # <<>>
      BY <3>1 DEF ScenarioCompleted
    <3>3. completed \notin Seq(Unseen)
      <4> SUFFICES ASSUME completed \in Seq(Unseen)
                   PROVE  FALSE
        OBVIOUS
      <4>1. Head(completed) \in Unseen
        BY <3>2, HeadAndTail
      <4> QED
        BY <3>1, <4>1 DEF Unseen
    <3>4. seen = TRUE
      BY <3>3 DEF SightingInv, SuccessWasSeen
    <3> QED
      BY <3>4
  <2> QED
    BY <2>1, <2>2 DEF Next, Environment, Answers, NewSession, Revokes, CameraNext, CameraSteps
<1>2. SightingInv /\ DemoInv /\ [Next]_vars => SightingInv'
  BY SightingStep
<1> QED
  BY <1>1, <1>2, SightingStarts, DemoInvariant, PTL DEF Spec, ExecutedOnlyIfSeen
=============================================================================
