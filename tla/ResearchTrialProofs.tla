------------------------- MODULE ResearchTrialProofs -------------------------
(***************************************************************************)
(* Theorems about the research trial, for any sequence of stages, any      *)
(* strategy, either condition and any number of sessions.  The summary is  *)
(* written once; it tells what was decided and what came of it; and what   *)
(* came of it is what the strategy wants.                                  *)
(***************************************************************************)
EXTENDS ResearchTrial, SequenceTheorems, TLAPS

-----------------------------------------------------------------------------
(***************************************************************************)
(* The inductive invariant.  The driver knows no session but an older one  *)
(* or the current one, and is told of none but the current one: a session  *)
(* that comes after the one it knows has no summary, and neither has the   *)
(* one it knows before it is finalized.                                    *)
(***************************************************************************)
SessionsFollow ==
    /\ session \in 1 .. MaxSession
    /\ drvSession \in 0 .. session
    /\ announced \in [Reader -> 0 .. MaxSession]
    /\ announced["driver"] \in {0, session}

WrittenOnce ==
    /\ DOMAIN summaries = 1 .. MaxSession
    /\ finalized \in BOOLEAN
    /\ \A s \in 1 .. MaxSession :
          /\ summaries[s].written \in {0, 1}
          /\ s > drvSession \/ (s = drvSession /\ ~finalized) => summaries[s].written = 0

TrialInv == SessionsFollow /\ WrittenOnce

-----------------------------------------------------------------------------
\* Steps that concern neither the driver nor the session.
LEMMA OthersKeep ==
    ASSUME TrialInv, UNCHANGED <<session, drvSession, finalized, announced, summaries>>
    PROVE  TrialInv'
BY DEF TrialInv, SessionsFollow, WrittenOnce

LEMMA ConsentSideKeeps ==
    ASSUME TrialInv, ConsentSide
    PROVE  TrialInv'
<1>1. UNCHANGED <<session, driverVars, announced, summaries>>
  BY DEF ConsentSide, ManagerTakesAsk, ManagerTakesDecision, GateTakesRequest, GateAnswers
<1> QED
  BY <1>1, OthersKeep DEF driverVars

LEMMA ResetKeeps ==
    ASSUME TrialInv, Reset
    PROVE  TrialInv'
<1>1. /\ session < MaxSession /\ session' = session + 1
      /\ announced' = [r \in Reader |-> session'] /\ UNCHANGED <<driverVars, summaries>>
  BY DEF Reset
<1>2. session' \in 1 .. MaxSession /\ drvSession \in 0 .. session'
  BY <1>1, TrialAssumption DEF TrialInv, SessionsFollow
<1>3. SessionsFollow'
  BY <1>1, <1>2 DEF SessionsFollow, Reader, driverVars
<1>4. WrittenOnce'
  BY <1>1 DEF TrialInv, WrittenOnce, driverVars
<1> QED
  BY <1>3, <1>4 DEF TrialInv

LEMMA ScenarioKeeps ==
    ASSUME TrialInv, ScenarioMoves
    PROVE  TrialInv'
<1>1. UNCHANGED <<session, driverVars, summaries>>
  BY DEF ScenarioMoves, ScenarioSteps, consentVars
<1>2. \/ UNCHANGED announced
      \/ announced' = [announced EXCEPT !["scenario"] = 0]
  BY DEF ScenarioMoves, ScenarioSteps, ScenarioSession, ScenarioAuthorized, ScenarioBlocked,
         ScenarioTimer
<1>3. SessionsFollow'
  <2>1. announced' \in [Reader -> 0 .. MaxSession] /\ announced'["driver"] = announced["driver"]
    <3>1. announced \in [Reader -> 0 .. MaxSession] /\ 0 \in 0 .. MaxSession
      BY TrialAssumption DEF TrialInv, SessionsFollow
    <3> QED
      BY <1>2, <3>1 DEF Reader
  <2> QED
    BY <1>1, <2>1 DEF TrialInv, SessionsFollow, driverVars
<1>4. WrittenOnce'
  BY <1>1 DEF TrialInv, WrittenOnce, driverVars
<1> QED
  BY <1>3, <1>4 DEF TrialInv

-----------------------------------------------------------------------------
(***************************************************************************)
(* The driver: a session it is told of for the first time is the current   *)
(* one, which comes after every session it knew.                           *)
(***************************************************************************)
LEMMA DriverSessionKeeps ==
    ASSUME TrialInv, DriverSteps(DriverSession)
    PROVE  TrialInv'
<1>1. /\ announced["driver"] = session
      /\ announced' = [announced EXCEPT !["driver"] = 0]
      /\ DriverOnSession(session) /\ UNCHANGED <<session, summaries>>
  BY DEF DriverSteps, DriverSession, TrialInv, SessionsFollow, consentVars
<1>2. announced' \in [Reader -> 0 .. MaxSession] /\ announced'["driver"] = 0
  <2>1. announced \in [Reader -> 0 .. MaxSession] /\ 0 \in 0 .. MaxSession
    BY TrialAssumption DEF TrialInv, SessionsFollow
  <2> QED
    BY <1>1, <2>1 DEF Reader
<1>3. session \in Nat /\ drvSession \in 0 .. session /\ session \in 1 .. MaxSession
  BY DEF TrialInv, SessionsFollow
<1>4. CASE session = drvSession
  <2>1. UNCHANGED <<drvSession, finalized>>
    BY <1>1, <1>4 DEF DriverOnSession, KnownSession
  <2> QED
    BY <1>1, <1>2, <2>1 DEF TrialInv, SessionsFollow, WrittenOnce
<1>5. CASE session # drvSession
  <2>1. drvSession' = session /\ finalized' = FALSE
    BY <1>1, <1>5 DEF DriverOnSession, KnownSession, StartsAfresh
  <2>2. \A s \in 1 .. MaxSession : s > session \/ s = session => s > drvSession
    BY <1>3, <1>5
  <2>3. WrittenOnce'
    BY <1>1, <2>1, <2>2 DEF TrialInv, WrittenOnce
  <2>4. SessionsFollow'
    BY <1>1, <1>2, <1>3, <2>1 DEF SessionsFollow
  <2> QED
    BY <2>3, <2>4 DEF TrialInv
<1> QED
  BY <1>4, <1>5

LEMMA DriverWritesKeeps ==
    ASSUME TrialInv, DriverWrites, UNCHANGED <<session, announced>>,
           summaries' = [summaries EXCEPT ![drvSession] =
                [decisions |-> decisions, results |-> results, written |-> @.written + 1]]
    PROVE  TrialInv'
<1>1. ~finalized /\ finalized' = TRUE /\ drvSession' = drvSession
  BY DEF DriverWrites, SummaryDue
<1>2. DOMAIN summaries' = 1 .. MaxSession
  BY DEF TrialInv, WrittenOnce
<1>3. \A s \in 1 .. MaxSession :
          summaries'[s].written = IF s = drvSession THEN summaries[s].written + 1
                                                    ELSE summaries[s].written
  BY DEF TrialInv, WrittenOnce
<1>4. \A s \in 1 .. MaxSession : s = drvSession => summaries[s].written = 0
  BY <1>1 DEF TrialInv, WrittenOnce
<1>5. drvSession \in Int
  BY DEF TrialInv, SessionsFollow
<1>6. WrittenOnce'
  <2>1. \A s \in 1 .. MaxSession :
          /\ summaries'[s].written \in {0, 1}
          /\ s > drvSession => summaries'[s].written = 0
    BY <1>3, <1>4, <1>5 DEF TrialInv, WrittenOnce
  <2> QED
    BY <1>1, <1>2, <2>1 DEF WrittenOnce
<1> QED
  BY <1>1, <1>6 DEF TrialInv, SessionsFollow

LEMMA DriverKeeps ==
    ASSUME TrialInv, DriverMoves
    PROVE  TrialInv'
<1>1. CASE DriverSteps(DriverSession)
  BY <1>1, DriverSessionKeeps
<1>2. CASE DriverSteps(DriverPrompt)
  BY <1>2, OthersKeep DEF DriverSteps, DriverPrompt, DriverOnPrompt, consentVars
<1>3. CASE DriverSteps(DriverStatus)
  BY <1>3, OthersKeep DEF DriverSteps, DriverStatus, DriverOnStatus, consentVars
<1>4. CASE DriverSteps(DriverTimer)
  <2>1. UNCHANGED <<session, announced>>
    BY <1>4 DEF DriverSteps, DriverTimer, consentVars
  <2>2. CASE DriverDecides /\ UNCHANGED summaries
    BY <2>1, <2>2, OthersKeep DEF DriverDecides
  <2>3. CASE /\ DriverWrites
             /\ summaries' = [summaries EXCEPT ![drvSession] =
                   [decisions |-> decisions, results |-> results, written |-> @.written + 1]]
    BY <2>1, <2>3, DriverWritesKeeps
  <2> QED
    BY <1>4, <2>2, <2>3 DEF DriverSteps, DriverTimer
<1> QED
  BY <1>1, <1>2, <1>3, <1>4 DEF DriverMoves

-----------------------------------------------------------------------------
LEMMA TrialStarts == Init => TrialInv
<1> SUFFICES ASSUME Init
             PROVE  TrialInv
  OBVIOUS
<1>1. session = 1 /\ drvSession = 0 /\ finalized = FALSE
  BY DEF Init, DriverInit
<1>2. announced = [r \in Reader |-> 1] /\ summaries = [s \in 1 .. MaxSession |-> NoSummary]
  BY DEF Init
<1>3. SessionsFollow
  BY <1>1, <1>2, TrialAssumption DEF SessionsFollow, Reader
<1>4. WrittenOnce
  BY <1>1, <1>2 DEF WrittenOnce, NoSummary
<1> QED
  BY <1>3, <1>4 DEF TrialInv

LEMMA TrialSteps == TrialInv /\ [Next]_vars => TrialInv'
<1> SUFFICES ASSUME TrialInv, [Next]_vars
             PROVE  TrialInv'
  OBVIOUS
<1>1. CASE UNCHANGED vars
  BY <1>1, OthersKeep DEF vars, driverVars, consentVars, channels
<1> QED
  BY <1>1, ResetKeeps, ConsentSideKeeps, ScenarioKeeps, DriverKeeps DEF Next

(***************************************************************************)
(* What the driver knows of the sessions, and which of them have a summary *)
(* (trial_driver_node.py: _on_session, _tick and _finalized).              *)
(***************************************************************************)
THEOREM TrialInvariant == Spec => []TrialInv
BY TrialStarts, TrialSteps, PTL DEF Spec

(***************************************************************************)
(* The summary of a session is written once, however late a session or a   *)
(* status reaches the driver ("writes one JSON summary").                  *)
(***************************************************************************)
THEOREM OneSummaryAlways == Spec => []OneSummary
<1>1. TrialInv => OneSummary
  BY DEF TrialInv, WrittenOnce, OneSummary
<1> QED
  BY <1>1, TrialInvariant, PTL

-----------------------------------------------------------------------------
(***************************************************************************)
(* The types.  A stage that is requested is one of the scenario because    *)
(* the stage in progress is always the next one.                           *)
(***************************************************************************)
StageIsNext == current = 0 \/ current = nextStage + 1

TypesInv == TrialTypeOK /\ StageIsNext

LEMMA Front ==
    ASSUME NEW S, NEW s \in Seq(S), s # <<>>
    PROVE  Head(s) \in S /\ Tail(s) \in Seq(S)
OBVIOUS

LEMMA Grows ==
    ASSUME NEW S, NEW s \in Seq(S), NEW e \in S
    PROVE  Append(s, e) \in Seq(S)
OBVIOUS

LEMMA MixedAreSessions ==
    ASSUME mixed \subseteq Session, NEW own \in Session, NEW other, Mixes(own, other)
    PROVE  mixed' \subseteq Session
BY DEF Mixes

LEMMA StagesAreCapabilities ==
    /\ Len(Stages) \in Nat /\ DOMAIN Stages = 1 .. Len(Stages)
    /\ \A i \in 1 .. Len(Stages) : Stages[i] \in Capability
BY ScenarioAssumption DEF Capability

LEMMA SessionsAreSessions == 0 \in Session /\ 1 .. MaxSession \subseteq Session /\ MaxSession \in Nat
BY TrialAssumption DEF Session

-----------------------------------------------------------------------------
(***************************************************************************)
(* The consent side.                                                       *)
(***************************************************************************)
LEMMA PromptsHaveTypes ==
    ASSUME NEW s \in Session, NEW key \in Key
    PROVE  PromptFor(s, key) \in Prompt
BY DEF PromptFor, Prompt

LEMMA AskKeepsTypes ==
    ASSUME TypesInv, ManagerTakesAsk
    PROVE  TypesInv'
<1>1. /\ Head(asks) \in Note /\ asks' \in Seq(Note)
  <2>1. asks # <<>> /\ asks' = Tail(asks) /\ asks \in Seq(Note)
    BY DEF ManagerTakesAsk, TypesInv, TrialTypeOK, ChannelTypeOK
  <2> QED
    BY <2>1, Front
<1> DEFINE a == Head(asks)
<1>2. a.key \in Capability /\ a.key \in Key /\ a.session \in Session
  BY <1>1 DEF Note, Key
<1>3. session \in Session
  BY SessionsAreSessions DEF TypesInv, TrialTypeOK, ConsentTypeOK
<1>4. /\ question' = [question EXCEPT ![a.key] = IF @ = "none" THEN "open" ELSE @]
      /\ prompt' = IF question'[a.key] = "open" THEN PromptFor(session, a.key) ELSE prompt
      /\ Mixes(session, a.session)
      /\ missed' = IF prompt \in {prompt', NoPrompt} THEN missed
                   ELSE missed \cup ({prompt.session} \cap {session})
      /\ UNCHANGED <<scenVars, driverVars, mode, session, waiting, announced, answersSent,
                     requests, authorized, blocked, statuses, summaries>>
  BY DEF ManagerTakesAsk
<1> HIDE DEF a
<1>5. question' \in [Capability -> {"none", "open", "granted", "refused"}]
  BY <1>2, <1>4 DEF TypesInv, TrialTypeOK, ConsentTypeOK
<1>6. prompt' \in Prompt
  BY <1>2, <1>3, <1>4, PromptsHaveTypes DEF TypesInv, TrialTypeOK, ChannelTypeOK
<1>7. missed' \subseteq Session /\ mixed' \subseteq Session
  BY <1>2, <1>3, <1>4, MixedAreSessions DEF TypesInv, TrialTypeOK
<1>8. ScenarioTypeOK' /\ DriverTypeOK' /\ StageIsNext'
  BY <1>4 DEF TypesInv, TrialTypeOK, ScenarioTypeOK, DriverTypeOK, StageIsNext, scenVars,
              driverVars
<1>9. ConsentTypeOK' /\ ChannelTypeOK'
  BY <1>1, <1>4, <1>5, <1>6 DEF TypesInv, TrialTypeOK, ConsentTypeOK, ChannelTypeOK
<1> QED
  BY <1>4, <1>7, <1>8, <1>9 DEF TypesInv, TrialTypeOK

LEMMA DecisionKeepsTypes ==
    ASSUME TypesInv, ManagerTakesDecision
    PROVE  TypesInv'
<1>1. answersSent' \in Seq(Answer)
  <2>1. answersSent # <<>> /\ answersSent' = Tail(answersSent) /\ answersSent \in Seq(Answer)
    BY DEF ManagerTakesDecision, TypesInv, TrialTypeOK, ChannelTypeOK
  <2> QED
    BY <2>1, Front
<1>2. question' \in [Capability -> {"none", "open", "granted", "refused"}]
  <2> DEFINE d == Head(answersSent)
  <2>1. question' = [c \in Capability |->
                      IF d.session = session /\ Settles(c, d)
                      THEN IF d.granted THEN "granted" ELSE "refused"
                      ELSE question[c]]
    BY DEF ManagerTakesDecision
  <2> HIDE DEF d
  <2> QED
    BY <2>1 DEF TypesInv, TrialTypeOK, ConsentTypeOK
<1>3. UNCHANGED <<scenVars, driverVars, mode, session, waiting, announced, prompt,
                  asks, requests, authorized, blocked, statuses, summaries, history>>
  BY DEF ManagerTakesDecision
<1>4. ScenarioTypeOK' /\ DriverTypeOK' /\ StageIsNext'
  BY <1>3 DEF TypesInv, TrialTypeOK, ScenarioTypeOK, DriverTypeOK, StageIsNext, scenVars,
              driverVars
<1>5. ConsentTypeOK' /\ ChannelTypeOK'
  BY <1>1, <1>2, <1>3 DEF TypesInv, TrialTypeOK, ConsentTypeOK, ChannelTypeOK
<1> QED
  BY <1>3, <1>4, <1>5 DEF TypesInv, TrialTypeOK, history

LEMMA RequestKeepsTypes ==
    ASSUME TypesInv, GateTakesRequest
    PROVE  TypesInv'
<1>1. /\ Head(requests) \in Note /\ requests' \in Seq(Note)
  <2>1. requests # <<>> /\ requests' = Tail(requests) /\ requests \in Seq(Note)
    BY DEF GateTakesRequest, TypesInv, TrialTypeOK, ChannelTypeOK
  <2> QED
    BY <2>1, Front
<1> DEFINE r == Head(requests)
<1>2. r.key \in Capability /\ r.session \in Session /\ session \in Session
  BY <1>1, SessionsAreSessions DEF Note, TypesInv, TrialTypeOK, ConsentTypeOK
<1>3. /\ waiting' = waiting \cup {r.key}
      /\ asks' = IF question[r.key] = "none" /\ r.key \notin waiting
                 THEN Append(asks, [key |-> r.key, session |-> session]) ELSE asks
      /\ Mixes(session, r.session)
      /\ UNCHANGED <<scenVars, driverVars, mode, session, question, announced, prompt,
                     answersSent, authorized, blocked, statuses, summaries, missed>>
  BY DEF GateTakesRequest
<1> HIDE DEF r
<1>4. asks' \in Seq(Note)
  <2>1. asks \in Seq(Note) /\ [key |-> r.key, session |-> session] \in Note
    BY <1>2 DEF Note, TypesInv, TrialTypeOK, ChannelTypeOK
  <2> QED
    BY <1>3, <2>1, Grows
<1>5. mixed' \subseteq Session
  BY <1>2, <1>3, MixedAreSessions DEF TypesInv, TrialTypeOK
<1>6. ScenarioTypeOK' /\ DriverTypeOK' /\ StageIsNext'
  BY <1>3 DEF TypesInv, TrialTypeOK, ScenarioTypeOK, DriverTypeOK, StageIsNext, scenVars,
              driverVars
<1>7. ConsentTypeOK' /\ ChannelTypeOK'
  BY <1>1, <1>2, <1>3, <1>4 DEF TypesInv, TrialTypeOK, ConsentTypeOK, ChannelTypeOK
<1> QED
  BY <1>3, <1>5, <1>6, <1>7 DEF TypesInv, TrialTypeOK

LEMMA AnswerKeepsTypes ==
    ASSUME TypesInv, GateAnswers
    PROVE  TypesInv'
<1>1. PICK c \in waiting :
        /\ waiting' = waiting \ {c}
        /\ LET a == [key |-> c, session |-> session] IN
           \/ authorized' = Append(authorized, a) /\ UNCHANGED blocked
           \/ blocked' = Append(blocked, a) /\ UNCHANGED authorized
        /\ UNCHANGED <<scenVars, driverVars, mode, session, question, announced, prompt, asks,
                       answersSent, requests, statuses, summaries, history>>
  BY DEF GateAnswers
<1>2. [key |-> c, session |-> session] \in Note
  BY <1>1, SessionsAreSessions DEF Note, TypesInv, TrialTypeOK, ConsentTypeOK
<1>3. authorized' \in Seq(Note) /\ blocked' \in Seq(Note)
  <2>1. authorized \in Seq(Note) /\ blocked \in Seq(Note)
    BY DEF TypesInv, TrialTypeOK, ChannelTypeOK
  <2> QED
    BY <1>1, <1>2, <2>1, Grows
<1>4. ScenarioTypeOK' /\ DriverTypeOK' /\ StageIsNext'
  BY <1>1 DEF TypesInv, TrialTypeOK, ScenarioTypeOK, DriverTypeOK, StageIsNext, scenVars,
              driverVars
<1>5. ConsentTypeOK' /\ ChannelTypeOK'
  BY <1>1, <1>3 DEF TypesInv, TrialTypeOK, ConsentTypeOK, ChannelTypeOK
<1> QED
  BY <1>1, <1>4, <1>5 DEF TypesInv, TrialTypeOK, history

LEMMA ResetKeepsTypes ==
    ASSUME TypesInv, Reset
    PROVE  TypesInv'
<1>1. /\ session < MaxSession /\ session' = session + 1
      /\ question' = Opened /\ waiting' = {}
      /\ announced' = [r \in Reader |-> session']
      /\ prompt' = IF mode = "static" THEN PromptFor(session', AllTogether) ELSE prompt
      /\ UNCHANGED <<scenVars, driverVars, mode, asks, answersSent, requests, authorized,
                     blocked, statuses, summaries, history>>
  BY DEF Reset
<1>2. session' \in 1 .. MaxSession
  BY <1>1, SessionsAreSessions DEF TypesInv, TrialTypeOK, ConsentTypeOK
<1>3. session' \in Session /\ AllTogether \in Key
  BY <1>2, SessionsAreSessions DEF Key
<1>4. prompt' \in Prompt
  BY <1>1, <1>3, PromptsHaveTypes DEF TypesInv, TrialTypeOK, ChannelTypeOK
<1>5. question' \in [Capability -> {"none", "open", "granted", "refused"}]
  BY <1>1 DEF Opened
<1>6. announced' \in [Reader -> Session]
  BY <1>1, <1>3
<1>7. ScenarioTypeOK' /\ DriverTypeOK' /\ StageIsNext'
  BY <1>1 DEF TypesInv, TrialTypeOK, ScenarioTypeOK, DriverTypeOK, StageIsNext, scenVars,
              driverVars
<1>8. ConsentTypeOK' /\ ChannelTypeOK'
  BY <1>1, <1>2, <1>4, <1>5, <1>6 DEF TypesInv, TrialTypeOK, ConsentTypeOK, ChannelTypeOK
<1> QED
  BY <1>1, <1>7, <1>8 DEF TypesInv, TrialTypeOK, history

-----------------------------------------------------------------------------
(***************************************************************************)
(* The scenario: what one of its callbacks does, then the topics.          *)
(***************************************************************************)
ScenarioStep ==
    \/ \E s \in Session : ScenarioOnSession(s)
    \/ \E c \in Capability : ScenarioOnAuthorized(c) \/ ScenarioOnBlocked(c)
    \/ ScenarioTick \/ DelayPasses

LEMMA ScenarioStepTypes ==
    ASSUME ScenarioTypeOK, StageIsNext, ScenarioStep
    PROVE  /\ ScenarioTypeOK' /\ StageIsNext'
           /\ scenOut'.status = "requested" => scenOut'.stage \in 1 .. Len(Stages)
<1> USE DEF ScenarioTypeOK, StageIsNext
<1>0. Len(Stages) \in Nat
  BY StagesAreCapabilities
<1>1. CASE Still
  BY <1>1 DEF Still, Silent, NoNews, ScenarioStatus
<1>2. ASSUME NEW s \in Session, ScenarioOnSession(s), ~Still
      PROVE  /\ ScenarioTypeOK' /\ StageIsNext'
             /\ scenOut'.status = "requested" => scenOut'.stage \in 1 .. Len(Stages)
  <2>1. /\ scenSession' = s /\ nextStage' = 0 /\ current' = 0
        /\ complete' = FALSE /\ executing' = FALSE /\ due' = "ahead"
        /\ scenOut' = [status |-> "ready", stage |-> 0]
    BY <1>2 DEF ScenarioOnSession, Restart, Says
  <2>2. 0 \in 0 .. Len(Stages) /\ "ready" \in ScenarioStatus
    BY <1>0 DEF ScenarioStatus
  <2> QED
    BY <2>1, <2>2
<1>3. ASSUME NEW outcome \in {"executed", "fallback"}, current # 0, Advance(outcome)
      PROVE  /\ ScenarioTypeOK' /\ StageIsNext'
             /\ scenOut'.status = "requested" => scenOut'.stage \in 1 .. Len(Stages)
  <2>1. nextStage + 1 \in 0 .. Len(Stages)
    <3>1. current = nextStage + 1 /\ current \in 0 .. Len(Stages)
      BY <1>3
    <3> QED
      BY <3>1
  <2>2. /\ nextStage' = nextStage + 1 /\ current' = 0 /\ due' = "ahead"
        /\ executing' = FALSE /\ UNCHANGED <<scenSession, complete>>
        /\ scenOut' = [status |-> outcome, stage |-> current]
    BY <1>3 DEF Advance, Says
  <2>3. 0 \in 0 .. Len(Stages) /\ outcome \in ScenarioStatus /\ outcome # "requested"
    BY <1>0, <1>3 DEF ScenarioStatus
  <2> QED
    BY <2>1, <2>2, <2>3
<1>4. ASSUME NEW c \in Capability, ScenarioOnAuthorized(c), ~Still
      PROVE  /\ ScenarioTypeOK' /\ StageIsNext'
             /\ scenOut'.status = "requested" => scenOut'.stage \in 1 .. Len(Stages)
  <2>1. CASE current # 0 /\ Advance("executed")
    BY <2>1, <1>3
  <2>2. CASE /\ executing' = TRUE /\ Says("started", current)
             /\ UNCHANGED <<scenSession, nextStage, current, due, complete>>
    BY <2>2 DEF Says, ScenarioStatus
  <2> QED
    BY <1>4, <2>1, <2>2 DEF ScenarioOnAuthorized, Matches
<1>5. ASSUME NEW c \in Capability, ScenarioOnBlocked(c), ~Still
      PROVE  /\ ScenarioTypeOK' /\ StageIsNext'
             /\ scenOut'.status = "requested" => scenOut'.stage \in 1 .. Len(Stages)
  BY <1>3, <1>5 DEF ScenarioOnBlocked, Matches
<1>6. CASE ScenarioTick
  <2>1. current = 0 /\ due' = "none" /\ UNCHANGED <<scenSession, nextStage, executing>>
    BY <1>6 DEF ScenarioTick
  <2>2. CASE complete' = TRUE /\ Says("complete", 0) /\ UNCHANGED current
    BY <1>0, <2>1, <2>2 DEF Says, ScenarioStatus
  <2>3. CASE /\ nextStage # Len(Stages) /\ current' = nextStage + 1
             /\ Says("requested", nextStage + 1) /\ UNCHANGED complete
    <3>1. nextStage + 1 \in 1 .. Len(Stages)
      BY <1>0, <2>3
    <3>2. scenOut' = [status |-> "requested", stage |-> nextStage + 1]
      BY <2>3 DEF Says
    <3> QED
      BY <2>1, <2>3, <3>1, <3>2 DEF ScenarioStatus
  <2> QED
    BY <1>6, <2>2, <2>3 DEF ScenarioTick
<1>7. CASE DelayPasses
  BY <1>7 DEF DelayPasses, Silent, NoNews, ScenarioStatus
<1> QED
  BY <1>1, <1>2, <1>4, <1>5, <1>6, <1>7 DEF ScenarioStep

LEMMA ScenarioPublishesTypes ==
    ASSUME ChannelTypeOK, ScenarioTypeOK', ScenarioPublishes,
           scenOut'.status = "requested" => scenOut'.stage \in 1 .. Len(Stages)
    PROVE  requests' \in Seq(Note) /\ statuses' \in Seq(StatusMessage)
<1> DEFINE out == scenOut'
           own == scenSession'
<1>1. /\ requests' = IF out.status = "requested"
                     THEN Append(requests, [key |-> Stages[out.stage], session |-> own])
                     ELSE requests
      /\ statuses' = IF out.status = "none" THEN statuses
                     ELSE Append(statuses, [status |-> out.status, session |-> own,
                                            stage |-> out.stage])
  BY DEF ScenarioPublishes
<1>2. /\ own \in Session
      /\ out \in [status : ScenarioStatus \cup {"none"}, stage : 0 .. Len(Stages)]
      /\ out.status = "requested" => out.stage \in 1 .. Len(Stages)
  BY DEF ScenarioTypeOK
<1>3. requests \in Seq(Note) /\ statuses \in Seq(StatusMessage)
  BY DEF ChannelTypeOK
<1> HIDE DEF out, own
<1>4. out.status = "requested" => [key |-> Stages[out.stage], session |-> own] \in Note
  BY <1>2, StagesAreCapabilities DEF Note
<1>5. out.status # "none" =>
        [status |-> out.status, session |-> own, stage |-> out.stage] \in StatusMessage
  BY <1>2 DEF StatusMessage
<1> QED
  BY <1>1, <1>3, <1>4, <1>5, Grows

LEMMA ScenarioKeepsTypes ==
    ASSUME TypesInv, ScenarioMoves
    PROVE  TypesInv'
<1>1. /\ announced \in [Reader -> Session]
      /\ authorized \in Seq(Note) /\ blocked \in Seq(Note)
      /\ mixed \subseteq Session /\ scenSession \in Session
  BY DEF TypesInv, TrialTypeOK, ChannelTypeOK, ScenarioTypeOK
<1>2. /\ ScenarioStep
      /\ announced' \in [Reader -> Session]
      /\ authorized' \in Seq(Note) /\ blocked' \in Seq(Note)
      /\ mixed' \subseteq Session
  <2>1. CASE ScenarioSession
    <3>1. announced["scenario"] \in Session
      BY <1>1 DEF Reader
    <3> QED
      BY <1>1, <2>1, <3>1, SessionsAreSessions DEF ScenarioSession, ScenarioStep
  <2>2. CASE ScenarioAuthorized
    <3>1. Head(authorized) \in Note /\ Tail(authorized) \in Seq(Note)
      BY <1>1, <2>2, Front DEF ScenarioAuthorized
    <3> DEFINE a == Head(authorized)
    <3>2. /\ authorized' = Tail(authorized) /\ ScenarioOnAuthorized(a.key)
          /\ Mixes(scenSession, a.session) /\ UNCHANGED <<blocked, announced>>
      BY <2>2 DEF ScenarioAuthorized
    <3>3. a.key \in Capability
      BY <3>1 DEF Note
    <3> HIDE DEF a
    <3>4. ScenarioStep
      BY <3>2, <3>3 DEF ScenarioStep
    <3> QED
      BY <1>1, <3>1, <3>2, <3>4, MixedAreSessions
  <2>3. CASE ScenarioBlocked
    <3>1. Head(blocked) \in Note /\ Tail(blocked) \in Seq(Note)
      BY <1>1, <2>3, Front DEF ScenarioBlocked
    <3> DEFINE a == Head(blocked)
    <3>2. /\ blocked' = Tail(blocked) /\ ScenarioOnBlocked(a.key)
          /\ Mixes(scenSession, a.session) /\ UNCHANGED <<authorized, announced>>
      BY <2>3 DEF ScenarioBlocked
    <3>3. a.key \in Capability
      BY <3>1 DEF Note
    <3> HIDE DEF a
    <3>4. ScenarioStep
      BY <3>2, <3>3 DEF ScenarioStep
    <3> QED
      BY <1>1, <3>1, <3>2, <3>4, MixedAreSessions
  <2>4. CASE ScenarioTimer
    BY <1>1, <2>4 DEF ScenarioTimer, ScenarioStep
  <2> QED
    BY <2>1, <2>2, <2>3, <2>4 DEF ScenarioMoves, ScenarioSteps
<1>3. /\ ScenarioPublishes
      /\ UNCHANGED <<driverVars, consentVars, prompt, asks, answersSent, summaries, missed>>
  BY DEF ScenarioMoves, ScenarioSteps
<1>4. /\ ScenarioTypeOK' /\ StageIsNext'
      /\ scenOut'.status = "requested" => scenOut'.stage \in 1 .. Len(Stages)
  BY <1>2, ScenarioStepTypes DEF TypesInv, TrialTypeOK
<1>5. requests' \in Seq(Note) /\ statuses' \in Seq(StatusMessage)
  BY <1>3, <1>4, ScenarioPublishesTypes DEF TypesInv, TrialTypeOK
<1>6. ConsentTypeOK' /\ ChannelTypeOK'
  BY <1>2, <1>3, <1>5 DEF TypesInv, TrialTypeOK, ConsentTypeOK, ChannelTypeOK, consentVars
<1>7. DriverTypeOK'
  BY <1>3 DEF TypesInv, TrialTypeOK, DriverTypeOK, driverVars
<1> QED
  BY <1>2, <1>3, <1>4, <1>6, <1>7 DEF TypesInv, TrialTypeOK

-----------------------------------------------------------------------------
(***************************************************************************)
(* The driver.                                                             *)
(***************************************************************************)
LEMMA DriverSessionTypes ==
    ASSUME DriverTypeOK, NEW s \in Session, DriverOnSession(s)
    PROVE  DriverTypeOK'
<1>1. Nothing \in Answer /\ NoResults \in Results /\ <<>> \in Seq(Decision)
  BY SessionsAreSessions, TrialAssumption DEF Nothing, Answer, Key, NoResults, Results
<1>2. CASE KnownSession(s)
  BY <1>1, <1>2 DEF DriverOnSession, DriverTypeOK
<1>3. CASE ~KnownSession(s)
  BY <1>1, <1>3 DEF DriverOnSession, DriverTypeOK, StartsAfresh
<1> QED
  BY <1>2, <1>3

LEMMA DriverPromptTypes ==
    ASSUME DriverTypeOK, NEW p \in Prompt, DriverOnPrompt(p)
    PROVE  DriverTypeOK'
<1>1. Nothing \in Answer
  BY SessionsAreSessions DEF Nothing, Answer, Key
<1>2. CASE Answers(p)
  <2> DEFINE granted == SyntheticDecision(p.key)
  <2>1. granted \in BOOLEAN
    BY DEF SyntheticDecision
  <2>2. /\ scheduled' = [session |-> p.session, key |-> p.key, granted |-> granted]
        /\ taken' = taken \cup {p.request}
        /\ decisions' = Append(decisions, [key |-> p.key, granted |-> granted])
        /\ drvOut' = Nothing
        /\ UNCHANGED <<strategy, drvSession, results, drvComplete, finalized>>
    BY <1>2 DEF DriverOnPrompt
  <2> HIDE DEF granted
  <2>3. /\ p.session \in Session /\ p.key \in Key /\ p.request \in Session \X Key
    BY DEF Prompt
  <2>4. scheduled' \in Answer
    BY <2>1, <2>2, <2>3 DEF Answer
  <2>5. decisions' \in Seq(Decision)
    <3>1. decisions \in Seq(Decision) /\ [key |-> p.key, granted |-> granted] \in Decision
      BY <2>1, <2>3 DEF Decision, DriverTypeOK
    <3> QED
      BY <2>2, <3>1, Grows
  <2> QED
    BY <1>1, <2>2, <2>3, <2>4, <2>5 DEF DriverTypeOK
<1>3. CASE ~Answers(p)
  BY <1>1, <1>3 DEF DriverOnPrompt, DriverTypeOK
<1> QED
  BY <1>2, <1>3

LEMMA DriverStatusTypes ==
    ASSUME DriverTypeOK, NEW m, DriverOnStatus(m)
    PROVE  DriverTypeOK'
<1>1. Nothing \in Answer
  BY SessionsAreSessions DEF Nothing, Answer, Key
<1>2. results' \in Results
  <2>1. OutcomeNoted(m.status) \in {"none", "success", "fallback"}
    BY DEF OutcomeNoted
  <2>2. results' = results \/ results' = [results EXCEPT ![m.stage] = OutcomeNoted(m.status)]
    BY DEF DriverOnStatus
  <2> QED
    BY <2>1, <2>2 DEF DriverTypeOK, Results
<1>3. drvComplete' \in BOOLEAN
  BY DEF DriverOnStatus, DriverTypeOK
<1> QED
  BY <1>1, <1>2, <1>3 DEF DriverOnStatus, DriverTypeOK

LEMMA DriverTimerTypes ==
    ASSUME DriverTypeOK, DriverDecides \/ DriverWrites
    PROVE  DriverTypeOK'
<1>1. Nothing \in Answer
  BY SessionsAreSessions DEF Nothing, Answer, Key
<1> QED
  BY <1>1 DEF DriverDecides, DriverWrites, DriverTypeOK

LEMMA DriverKeepsTypes ==
    ASSUME TypesInv, DriverMoves
    PROVE  TypesInv'
<1>1. /\ DriverTypeOK /\ ChannelTypeOK /\ drvSession \in Session
      /\ summaries \in [1 .. MaxSession -> Summary]
      /\ missed \subseteq Session /\ mixed \subseteq Session
  BY DEF TypesInv, TrialTypeOK, DriverTypeOK
<1>2. /\ DriverTypeOK'
      /\ announced' \in [Reader -> Session] /\ prompt' \in Prompt
      /\ statuses' \in Seq(StatusMessage)
      /\ summaries' \in [1 .. MaxSession -> Summary]
      /\ missed' \subseteq Session /\ mixed' \subseteq Session
  <2>1. CASE DriverSession
    <3>1. announced["driver"] \in Session
      BY <1>1 DEF ChannelTypeOK, Reader
    <3>2. DriverTypeOK'
      BY <1>1, <2>1, <3>1, DriverSessionTypes DEF DriverSession
    <3> QED
      BY <1>1, <2>1, <3>2, SessionsAreSessions DEF DriverSession, ChannelTypeOK, history
  <2>2. CASE DriverPrompt
    <3>1. prompt \in Prompt /\ prompt.session \in Session
      BY <1>1 DEF ChannelTypeOK, Prompt
    <3>2. DriverTypeOK'
      BY <1>1, <2>2, <3>1, DriverPromptTypes DEF DriverPrompt
    <3>3. NoPrompt \in Prompt
      BY SessionsAreSessions DEF NoPrompt, Prompt, Key
    <3> QED
      BY <1>1, <2>2, <3>1, <3>2, <3>3 DEF DriverPrompt, ChannelTypeOK
  <2>3. CASE DriverStatus
    <3>1. statuses' \in Seq(StatusMessage)
      BY <1>1, <2>3, Front DEF DriverStatus, ChannelTypeOK
    <3>2. DriverTypeOK'
      BY <1>1, <2>3, DriverStatusTypes DEF DriverStatus
    <3>3. mixed' \subseteq Session
      BY <1>1, <2>3, MixedAreSessions DEF DriverStatus
    <3> QED
      BY <1>1, <2>3, <3>1, <3>2, <3>3 DEF DriverStatus, ChannelTypeOK
  <2>4. CASE DriverTimer
    <3>1. DriverTypeOK' /\ UNCHANGED <<announced, prompt, statuses, history>>
      BY <1>1, <2>4, DriverTimerTypes DEF DriverTimer
    <3>2. summaries' \in [1 .. MaxSession -> Summary]
      <4>1. CASE UNCHANGED summaries
        BY <1>1, <4>1
      <4>2. CASE summaries' = [summaries EXCEPT ![drvSession] =
                [decisions |-> decisions, results |-> results, written |-> @.written + 1]]
        <5>1. decisions \in Seq(Decision) /\ results \in Results
          BY <1>1 DEF DriverTypeOK
        <5>2. drvSession \in 1 .. MaxSession =>
                [decisions |-> decisions, results |-> results,
                 written |-> summaries[drvSession].written + 1] \in Summary
          BY <1>1, <5>1 DEF Summary
        <5> QED
          BY <1>1, <4>2, <5>2
      <4> QED
        BY <2>4, <4>1, <4>2 DEF DriverTimer
    <3> QED
      BY <1>1, <3>1, <3>2 DEF ChannelTypeOK, history
  <2> QED
    BY <2>1, <2>2, <2>3, <2>4 DEF DriverMoves, DriverSteps
<1>3. answersSent' \in Seq(Answer)
  <2>1. answersSent' = answersSent \/ answersSent' = Append(answersSent, drvOut')
    BY DEF DriverMoves, DriverSteps
  <2>2. answersSent \in Seq(Answer) /\ drvOut' \in Answer
    BY <1>1, <1>2 DEF ChannelTypeOK, DriverTypeOK
  <2> QED
    BY <2>1, <2>2, Grows
<1>4. UNCHANGED <<scenVars, consentVars, asks, requests, authorized, blocked>>
  BY DEF DriverMoves, DriverSteps
<1>5. ScenarioTypeOK' /\ ConsentTypeOK' /\ StageIsNext'
  BY <1>4 DEF TypesInv, TrialTypeOK, ScenarioTypeOK, ConsentTypeOK, StageIsNext, scenVars,
              consentVars
<1>6. ChannelTypeOK'
  BY <1>1, <1>2, <1>3, <1>4 DEF ChannelTypeOK
<1> QED
  BY <1>2, <1>5, <1>6 DEF TypesInv, TrialTypeOK

-----------------------------------------------------------------------------
LEMMA TypesStart == Init => TypesInv
<1> SUFFICES ASSUME Init
             PROVE  TypesInv
  OBVIOUS
<1> USE SessionsAreSessions
<1>1. Nothing \in Answer /\ NoResults \in Results /\ NoPrompt \in Prompt /\ AllTogether \in Key
  BY TrialAssumption DEF Nothing, Answer, Key, NoResults, Results, NoPrompt, Prompt
<1>2. ScenarioTypeOK /\ StageIsNext
  <2>1. Len(Stages) \in Nat /\ 0 \in 0 .. Len(Stages)
    BY StagesAreCapabilities
  <2> QED
    BY <2>1 DEF Init, ScenarioInit, NoNews, ScenarioTypeOK, StageIsNext
<1>3. DriverTypeOK
  <2>1. <<>> \in Seq(Decision)
    OBVIOUS
  <2> QED
    BY <1>1, <2>1 DEF Init, DriverInit, DriverTypeOK
<1>4. ConsentTypeOK
  BY TrialAssumption DEF Init, Opened, ConsentTypeOK
<1>5. ChannelTypeOK
  <2>1. 1 \in Session /\ PromptFor(1, AllTogether) \in Prompt
    BY <1>1, TrialAssumption, PromptsHaveTypes DEF Session
  <2>2. announced \in [Reader -> Session] /\ prompt \in Prompt
    BY <1>1, <2>1 DEF Init
  <2>3. /\ asks = <<>> /\ answersSent = <<>> /\ requests = <<>>
        /\ authorized = <<>> /\ blocked = <<>> /\ statuses = <<>>
    BY DEF Init
  <2> QED
    BY <2>2, <2>3 DEF ChannelTypeOK
<1>6. summaries \in [1 .. MaxSession -> Summary]
  <2>1. <<>> \in Seq(Decision) /\ 0 \in Nat
    OBVIOUS
  <2>2. NoSummary \in Summary
    BY <1>1, <2>1 DEF NoSummary, Summary
  <2> QED
    BY <2>2 DEF Init
<1> QED
  BY <1>2, <1>3, <1>4, <1>5, <1>6 DEF Init, TypesInv, TrialTypeOK

LEMMA TypesStep == TypesInv /\ [Next]_vars => TypesInv'
<1> SUFFICES ASSUME TypesInv, [Next]_vars
             PROVE  TypesInv'
  OBVIOUS
<1>1. CASE UNCHANGED vars
  BY <1>1 DEF TypesInv, TrialTypeOK, ScenarioTypeOK, DriverTypeOK, ConsentTypeOK, ChannelTypeOK,
              StageIsNext, vars, scenVars, driverVars, consentVars, channels, history
<1> QED
  BY <1>1, ResetKeepsTypes, AskKeepsTypes, DecisionKeepsTypes, RequestKeepsTypes,
     AnswerKeepsTypes, ScenarioKeepsTypes, DriverKeepsTypes DEF Next, ConsentSide

(***************************************************************************)
(* Every step of the trial keeps its variables, its channels and its       *)
(* summaries well typed (scenario_simulator_node.py, trial_driver_node.py).*)
(***************************************************************************)
THEOREM TrialTypeInvariant == Spec => []TrialTypeOK
<1>1. Spec => []TypesInv
  BY TypesStart, TypesStep, PTL DEF Spec
<1>2. TypesInv => TrialTypeOK
  BY DEF TypesInv
<1> QED
  BY <1>1, <1>2, PTL

-----------------------------------------------------------------------------
(***************************************************************************)
(* What a summary rests on.  In a session that takes no message of another *)
(* one, every outcome on its way to the summary - an answered question, an *)
(* authorization, a status, a noted result - is one that the driver has    *)
(* decided, and the decisions follow the order of the stages, because a    *)
(* stage is asked about only when the one before it has its outcome.  None *)
(* of it happens in a session before the driver is told of that session:   *)
(* it starts with empty hands.                                             *)
(***************************************************************************)
IsOutcome(m) == m.status \in {"executed", "fallback"}

Decided(c, outcome) ==
    \E i \in DOMAIN decisions :
        decisions[i].key \in {c, AllTogether} /\ OutcomeOf(decisions[i].granted) = outcome

SaidBefore(m) ==
    \E i \in DOMAIN decisions :
        decisions[i].key = m.key /\ OutcomeOf(decisions[i].granted) = OutcomeOf(m.granted)

\* What may be asked about: all together, or a stage that has its turn.
Reached(key) ==
    \/ mode = "static" /\ key = AllTogether
    \/ mode = "dynamic" /\ \E i \in DOMAIN Stages : key = Stages[i] /\ i <= Len(decisions) + 1

\* The outcome of stage i is noted, or among the first n statuses to the driver.
Noted(i, n) ==
    \/ results[i] # "none"
    \/ \E k \in DOMAIN statuses : /\ k <= n /\ statuses[k].session = drvSession
                                  /\ IsOutcome(statuses[k]) /\ statuses[k].stage = i

Wanted(key) == OutcomeOf(SyntheticDecision(key))

Orderly ==
    /\ announced["driver"] = 0 => drvSession = session
    /\ scenSession <= session /\ announced["scenario"] \in {0, session}
    /\ scenSession > drvSession => nextStage = 0 /\ current = 0 /\ due # "reached"
    /\ scheduled # Nothing => scheduled.session = drvSession
    /\ \A m \in Range(requests) : m.session <= drvSession
    /\ \A m \in Range(answersSent) : m.session <= drvSession
    /\ \A m \in Range(statuses) : m.session > drvSession => m.status = "ready"

Questioned ==
    /\ prompt.request = <<prompt.session, prompt.key>>
    /\ mode = "static" => asks = <<>> /\ \A c \in Capability : question[c] # "none"

Ahead(s) == s > drvSession /\ s \notin mixed

UntoldIsEmpty ==
    /\ \A m \in Range(asks) : ~Ahead(m.session)
    /\ \A m \in Range(authorized) : ~Ahead(m.session)
    /\ \A m \in Range(blocked) : ~Ahead(m.session)
    /\ Ahead(session) => question = Opened
    /\ Ahead(prompt.session) => mode = "static" /\ prompt.key = AllTogether

InOrder ==
    /\ mode = "static" => Len(decisions) <= 1
    /\ mode = "dynamic" => Len(decisions) <= Len(Stages)
    /\ \A i \in DOMAIN decisions :
          /\ decisions[i].key = IF mode = "static" THEN AllTogether ELSE Stages[i]
          /\ OutcomeOf(decisions[i].granted) = Wanted(decisions[i].key)
          /\ <<drvSession, decisions[i].key>> \in taken

Asking ==
    /\ prompt.session = drvSession => Reached(prompt.key)
    /\ \A m \in Range(asks) : m.session = drvSession => Reached(m.key)
    /\ \A m \in Range(requests) :
          m.session = drvSession /\ mode = "dynamic" => Reached(m.key)

Answering ==
    /\ scheduled # Nothing => SaidBefore(scheduled)
    /\ \A m \in Range(answersSent) : m.session = drvSession => SaidBefore(m)
    /\ session = drvSession => \A c \in Capability :
          /\ question[c] = "granted" => Decided(c, "success")
          /\ question[c] = "refused" => Decided(c, "fallback")

Permitting ==
    /\ \A m \in Range(authorized) : m.session = drvSession => Decided(m.key, "success")
    /\ \A m \in Range(blocked) : m.session = drvSession => Decided(m.key, "fallback")

Telling ==
    /\ \A m \in Range(statuses) :
          m.session = drvSession /\ IsOutcome(m) =>
             m.stage \in DOMAIN Stages /\ Decided(Stages[m.stage], OutcomeNoted(m.status))
    /\ \A i \in DOMAIN Stages : results[i] # "none" => Decided(Stages[i], results[i])

Completing ==
    /\ scenSession = drvSession => \A i \in 1 .. nextStage : Noted(i, Len(statuses))
    /\ \A k \in DOMAIN statuses :
          statuses[k].session = drvSession /\ statuses[k].status = "complete"
             => \A i \in DOMAIN Stages : Noted(i, k - 1)
    /\ drvComplete => \A i \in DOMAIN Stages : results[i] # "none"

Live == drvSession # 0 /\ drvSession \notin mixed

Evidence == Live => InOrder /\ Asking /\ Answering /\ Permitting /\ Telling /\ Completing

ByStrategy ==
    \A s \in Written \ mixed : \A i \in DOMAIN summaries[s].decisions :
        OutcomeOf(summaries[s].decisions[i].granted) = Wanted(summaries[s].decisions[i].key)

Ground == TypesInv /\ TrialInv
TruthInv ==
    Orderly /\ Questioned /\ UntoldIsEmpty /\ Evidence /\ ByStrategy /\ SummaryTellsTheTrial

-----------------------------------------------------------------------------
(***************************************************************************)
(* Channels, and what grows.                                               *)
(***************************************************************************)
LEMMA TakenFrom ==
    ASSUME NEW S, NEW q \in Seq(S), q # <<>>
    PROVE  Head(q) \in Range(q) /\ Head(q) \in S /\ Range(Tail(q)) \subseteq Range(q)
<1>1. Head(q) = q[1] /\ 1 \in DOMAIN q
  OBVIOUS
<1>2. \A i \in DOMAIN Tail(q) : Tail(q)[i] = q[i + 1] /\ i + 1 \in DOMAIN q
  OBVIOUS
<1>3. Head(q) \in Range(q)
  BY <1>1 DEF Range
<1>4. Range(Tail(q)) \subseteq Range(q)
  BY <1>2 DEF Range
<1> QED
  BY <1>3, <1>4

LEMMA PutInto ==
    ASSUME NEW S, NEW q \in Seq(S), NEW e \in S
    PROVE  Range(Append(q, e)) = Range(q) \cup {e}
<1> DEFINE r == Append(q, e)
<1>1. PICK n \in Nat : n = Len(q) /\ DOMAIN q = 1 .. n
  BY LenProperties
<1>2. DOMAIN r = 1 .. n + 1 /\ r[n + 1] = e /\ \A i \in 1 .. n : r[i] = q[i]
  BY <1>1, AppendProperties
<1> HIDE DEF r
<1>3. \A i \in 1 .. n + 1 : i \in 1 .. n \/ i = n + 1
  BY <1>1
<1>4. Range(r) \subseteq Range(q) \cup {e}
  BY <1>1, <1>2, <1>3 DEF Range
<1>5. \A i \in 1 .. n : i \in DOMAIN r
  BY <1>1, <1>2
<1>6. n + 1 \in DOMAIN r
  BY <1>1, <1>2
<1>7. Range(q) \cup {e} \subseteq Range(r)
  BY <1>1, <1>2, <1>5, <1>6 DEF Range
<1> QED
  BY <1>4, <1>7 DEF r

LEMMA EmptyRange == Range(<<>>) = {}
BY DEF Range

\* What the decisions show, they show for ever (in a session).
Grown ==
    /\ mode' = mode
    /\ \/ decisions' = decisions
       \/ \E e \in Decision : decisions' = Append(decisions, e)

LEMMA WhatIsDecidedStays ==
    ASSUME decisions \in Seq(Decision), Grown
    PROVE  /\ \A c, o : Decided(c, o) => Decided(c, o)'
           /\ \A m : SaidBefore(m) => SaidBefore(m)'
           /\ \A key : Reached(key) => Reached(key)'
<1>1. CASE decisions' = decisions
  BY <1>1 DEF Grown, Decided, SaidBefore, Reached
<1>2. CASE decisions' # decisions
  <2>1. PICK e \in Decision : decisions' = Append(decisions, e)
    BY <1>2 DEF Grown
  <2>2. PICK n \in Nat : n = Len(decisions) /\ DOMAIN decisions = 1 .. n
    BY LenProperties
  <2>3. DOMAIN decisions' = 1 .. n + 1 /\ Len(decisions') = n + 1
        /\ \A i \in 1 .. n : decisions'[i] = decisions[i]
    BY <2>1, <2>2, AppendProperties
  <2>4. \A i \in DOMAIN decisions : i \in DOMAIN decisions' /\ decisions'[i] = decisions[i]
    BY <2>2, <2>3
  <2>5. \A i \in DOMAIN Stages : i <= Len(decisions) + 1 => i <= Len(decisions') + 1
    BY <2>2, <2>3, StagesAreCapabilities
  <2>6. \A c, o : Decided(c, o) => Decided(c, o)'
    BY <2>4 DEF Decided
  <2>7. \A m : SaidBefore(m) => SaidBefore(m)'
    BY <2>4 DEF SaidBefore
  <2>8. \A key : Reached(key) => Reached(key)'
    BY <2>5 DEF Reached, Grown
  <2> QED
    BY <2>6, <2>7, <2>8
<1> QED
  BY <1>1, <1>2

LEMMA StrategyStays == ASSUME strategy' = strategy PROVE \A key : Wanted(key)' = Wanted(key)
BY DEF Wanted, SyntheticDecision

LEMMA SummariesStay ==
    ASSUME ByStrategy, SummaryTellsTheTrial, UNCHANGED <<mode, strategy, summaries>>,
           mixed \subseteq mixed'
    PROVE  ByStrategy' /\ SummaryTellsTheTrial'
<1>1. Written' = Written
  BY DEF Written
<1>2. \A key : Wanted(key)' = Wanted(key)
  BY StrategyStays
<1>3. ByStrategy'
  BY <1>1, <1>2 DEF ByStrategy
<1>4. SummaryTellsTheTrial'
  BY <1>1 DEF SummaryTellsTheTrial, DecidedFor
<1> QED
  BY <1>3, <1>4

LEMMA OrderStays ==
    ASSUME InOrder, UNCHANGED <<mode, strategy, drvSession, decisions, taken>>
    PROVE  InOrder'
<1>1. \A key : Wanted(key)' = Wanted(key)
  BY StrategyStays
<1> QED
  BY <1>1 DEF InOrder

LEMMA TellingStays ==
    ASSUME Telling, Completing,
           UNCHANGED <<drvSession, decisions, results, statuses, drvComplete, scenSession, nextStage>>
    PROVE  Telling' /\ Completing'
<1>1. Telling'
  BY DEF Telling, Decided
<1>2. Completing'
  BY DEF Completing, Noted
<1> QED
  BY <1>1, <1>2

LEMMA MixingGrows == ASSUME NEW own, NEW other, Mixes(own, other)
                     PROVE  mixed \subseteq mixed' /\ (own \notin mixed' => own = other)
BY DEF Mixes
LEMMA GroundFacts ==
    ASSUME Ground
    PROVE  /\ asks \in Seq(Note) /\ requests \in Seq(Note) /\ authorized \in Seq(Note)
           /\ blocked \in Seq(Note) /\ answersSent \in Seq(Answer)
           /\ statuses \in Seq(StatusMessage) /\ decisions \in Seq(Decision)
           /\ results \in Results /\ prompt \in Prompt
           /\ question \in [Capability -> {"none", "open", "granted", "refused"}]
           /\ session \in Nat /\ session # 0 /\ drvSession \in Nat /\ drvSession <= session
           /\ scenSession \in Nat /\ nextStage \in Nat /\ nextStage <= Len(Stages)
           /\ current \in Nat /\ current <= Len(Stages) /\ Len(Stages) \in Nat
           /\ current = 0 \/ current = nextStage + 1
           /\ mode \in {"static", "dynamic"}
           /\ announced \in [Reader -> Session] /\ announced["driver"] \in {0, session}
<1>1. /\ asks \in Seq(Note) /\ requests \in Seq(Note) /\ authorized \in Seq(Note)
      /\ blocked \in Seq(Note) /\ answersSent \in Seq(Answer)
      /\ statuses \in Seq(StatusMessage) /\ prompt \in Prompt
      /\ announced \in [Reader -> Session]
  BY DEF Ground, TypesInv, TrialTypeOK, ChannelTypeOK
<1>2. decisions \in Seq(Decision) /\ results \in Results
  BY DEF Ground, TypesInv, TrialTypeOK, DriverTypeOK
<1>3. /\ question \in [Capability -> {"none", "open", "granted", "refused"}]
      /\ mode \in {"static", "dynamic"}
  BY TrialAssumption DEF Ground, TypesInv, TrialTypeOK, ConsentTypeOK
<1>4. /\ session \in Nat /\ session # 0 /\ drvSession \in Nat /\ drvSession <= session
      /\ announced["driver"] \in {0, session}
  BY TrialAssumption DEF Ground, TrialInv, SessionsFollow
<1>5. /\ scenSession \in Nat /\ nextStage \in Nat /\ nextStage <= Len(Stages)
      /\ current \in Nat /\ current <= Len(Stages) /\ Len(Stages) \in Nat
      /\ current = 0 \/ current = nextStage + 1
  BY StagesAreCapabilities, SessionsAreSessions
     DEF Ground, TypesInv, TrialTypeOK, ScenarioTypeOK, StageIsNext, Session
<1> QED
  BY <1>1, <1>2, <1>3, <1>4, <1>5

-----------------------------------------------------------------------------
(***************************************************************************)
(* The manager and the gate.                                               *)
(***************************************************************************)
LEMMA AskKeepsTruth ==
    ASSUME Ground, TruthInv, ManagerTakesAsk
    PROVE  TruthInv'
<1>1. PICK a : a = Head(asks)
  OBVIOUS
<1>2. /\ a \in Note /\ a \in Range(asks) /\ Range(asks') \subseteq Range(asks)
      /\ asks # <<>>
  <2>1. asks \in Seq(Note) /\ asks # <<>> /\ asks' = Tail(asks)
    BY GroundFacts DEF ManagerTakesAsk
  <2> QED
    BY <1>1, <2>1, TakenFrom
<1>3. /\ question' = [question EXCEPT ![a.key] = IF @ = "none" THEN "open" ELSE @]
      /\ prompt' = IF question'[a.key] = "open" THEN PromptFor(session, a.key) ELSE prompt
      /\ Mixes(session, a.session)
      /\ UNCHANGED <<scenVars, driverVars, mode, session, waiting, announced, answersSent,
                     requests, authorized, blocked, statuses, summaries>>
  BY <1>1 DEF ManagerTakesAsk
<1>4. mixed \subseteq mixed' /\ (session \notin mixed' => session = a.session)
  BY <1>3, MixingGrows
<1>5. mode = "dynamic" /\ a.key \in Capability /\ session \in Nat /\ drvSession \in Nat
  BY <1>2, GroundFacts DEF TruthInv, Questioned, Note
<1>6. UNCHANGED <<scenSession, nextStage, current, due, strategy, drvSession, scheduled, taken,
                  decisions, results, drvComplete>>
  BY <1>3 DEF scenVars, driverVars
<1>7. prompt' = prompt \/ prompt' = PromptFor(session, a.key)
  BY <1>3
<1>8. Orderly'
  BY <1>3, <1>6 DEF TruthInv, Orderly
<1>9. Questioned'
  BY <1>3, <1>5, <1>7 DEF TruthInv, Questioned, PromptFor
<1>10. UntoldIsEmpty'
  <2>1. \A s : Ahead(s)' => Ahead(s)
    BY <1>4, <1>6 DEF Ahead
  <2>2. ~Ahead(session)'
    <3> SUFFICES ASSUME Ahead(session)' PROVE FALSE
      OBVIOUS
    <3>1. session = a.session /\ Ahead(session)
      BY <1>3, <1>4, <2>1 DEF Ahead
    <3> QED
      BY <1>2, <3>1 DEF TruthInv, UntoldIsEmpty
  <2>3. prompt'.session = session \/ prompt' = prompt
    BY <1>7 DEF PromptFor
  <2> QED
    BY <1>2, <1>3, <1>6, <2>1, <2>2, <2>3 DEF TruthInv, UntoldIsEmpty, Ahead
<1>11. Evidence'
  <2> SUFFICES ASSUME Live' PROVE (InOrder /\ Asking /\ Answering /\ Permitting /\ Telling /\ Completing)'
    BY DEF Evidence
  <2>1. InOrder /\ Asking /\ Answering /\ Permitting /\ Telling /\ Completing
    BY <1>4, <1>6 DEF Live, TruthInv, Evidence
  <2>2. InOrder' /\ Telling' /\ Completing'
    BY <1>3, <1>6, <2>1, OrderStays, TellingStays
  <2>3. \A key : Reached(key)' <=> Reached(key)
    BY <1>3, <1>6 DEF Reached
  <2>4. session = drvSession => Reached(a.key)
    BY <1>2, <1>4, <1>6, <2>1 DEF Live, Asking
  <2>5. Asking'
    <3>1. prompt'.session = drvSession => Reached(prompt'.key)
      BY <1>7, <2>1, <2>4 DEF Asking, PromptFor
    <3> QED
      BY <1>2, <1>3, <1>6, <2>1, <2>3, <3>1 DEF Asking
  <2>6. Answering'
    <3>1. \A c \in Capability : question'[c] \in {"granted", "refused"} => question'[c] = question[c]
      BY <1>3, <1>5, GroundFacts
    <3> QED
      BY <1>3, <1>6, <2>1, <3>1 DEF Answering, SaidBefore, Decided
  <2>7. Permitting'
    BY <1>3, <1>6, <2>1 DEF Permitting, Decided
  <2> QED
    BY <2>2, <2>5, <2>6, <2>7
<1>12. ByStrategy' /\ SummaryTellsTheTrial'
  BY <1>3, <1>4, <1>6, SummariesStay DEF TruthInv
<1> QED
  BY <1>8, <1>9, <1>10, <1>11, <1>12 DEF TruthInv

LEMMA DecisionKeepsTruth ==
    ASSUME Ground, TruthInv, ManagerTakesDecision
    PROVE  TruthInv'
<1>1. PICK d : d = Head(answersSent)
  OBVIOUS
<1>2. /\ d \in Answer /\ d \in Range(answersSent)
      /\ Range(answersSent') \subseteq Range(answersSent)
  <2>1. answersSent \in Seq(Answer) /\ answersSent # <<>> /\ answersSent' = Tail(answersSent)
    BY GroundFacts DEF ManagerTakesDecision
  <2> QED
    BY <1>1, <2>1, TakenFrom
<1>3. /\ question' = [c \in Capability |->
                      IF d.session = session /\ Settles(c, d)
                      THEN IF d.granted THEN "granted" ELSE "refused"
                      ELSE question[c]]
      /\ UNCHANGED <<scenVars, driverVars, mode, session, waiting, announced, prompt,
                     asks, requests, authorized, blocked, statuses, summaries, history>>
  BY <1>1 DEF ManagerTakesDecision
<1>4. mixed' = mixed
  BY <1>3 DEF history
<1>5. UNCHANGED <<scenSession, nextStage, current, due, strategy, drvSession, scheduled, taken,
                  decisions, results, drvComplete>>
  BY <1>3 DEF scenVars, driverVars
<1>6. /\ session \in Nat /\ drvSession \in Nat /\ d.session \in Nat /\ d.session <= drvSession
      /\ question \in [Capability -> {"none", "open", "granted", "refused"}]
  BY <1>2, GroundFacts, SessionsAreSessions DEF TruthInv, Orderly, Answer, Session
<1>7. \A c \in Capability :
        \/ question'[c] = question[c]
        \/ /\ d.session = session /\ d.key \in {c, AllTogether}
           /\ \/ question'[c] = "granted" /\ OutcomeOf(d.granted) = "success"
              \/ question'[c] = "refused" /\ OutcomeOf(d.granted) = "fallback"
  BY <1>3 DEF Settles, OutcomeOf
<1>8. Orderly'
  BY <1>2, <1>3, <1>5 DEF TruthInv, Orderly
<1>9. Questioned'
  BY <1>3, <1>7 DEF TruthInv, Questioned
<1>10. UntoldIsEmpty'
  <2>1. \A s : Ahead(s)' <=> Ahead(s)
    BY <1>4, <1>5 DEF Ahead
  <2>2. Ahead(session) => question' = question
    <3> SUFFICES ASSUME Ahead(session) PROVE question' = question
      OBVIOUS
    <3>1. d.session # session
      BY <1>6 DEF Ahead
    <3>2. \A c \in Capability : question'[c] = question[c]
      BY <1>7, <3>1
    <3> QED
      BY <1>3, <1>6, <3>2
  <2>3. Opened' = Opened
    BY <1>3 DEF Opened
  <2> QED
    BY <1>3, <2>1, <2>2, <2>3 DEF TruthInv, UntoldIsEmpty
<1>11. Evidence'
  <2> SUFFICES ASSUME Live' PROVE (InOrder /\ Asking /\ Answering /\ Permitting /\ Telling /\ Completing)'
    BY DEF Evidence
  <2>1. InOrder /\ Asking /\ Answering /\ Permitting /\ Telling /\ Completing
    BY <1>4, <1>5 DEF Live, TruthInv, Evidence
  <2>2. InOrder' /\ Telling' /\ Completing'
    BY <1>3, <1>5, <2>1, OrderStays, TellingStays
  <2>3. Asking' /\ Permitting'
    BY <1>3, <1>5, <2>1 DEF Asking, Permitting, Decided, Reached
  <2>4. Answering'
    <3>1. d.session = drvSession => SaidBefore(d)
      BY <1>2, <2>1 DEF Answering
    <3>2. ASSUME session = drvSession, NEW c \in Capability
          PROVE  /\ question'[c] = "granted" => Decided(c, "success")
                 /\ question'[c] = "refused" => Decided(c, "fallback")
      <4>1. CASE question'[c] = question[c]
        BY <2>1, <3>2, <4>1 DEF Answering
      <4>2. CASE /\ d.session = session /\ d.key \in {c, AllTogether}
                 /\ \/ question'[c] = "granted" /\ OutcomeOf(d.granted) = "success"
                    \/ question'[c] = "refused" /\ OutcomeOf(d.granted) = "fallback"
        <5>1. PICK i \in DOMAIN decisions :
                decisions[i].key = d.key /\ OutcomeOf(decisions[i].granted) = OutcomeOf(d.granted)
          BY <3>1, <3>2, <4>2 DEF SaidBefore
        <5> QED
          BY <4>2, <5>1 DEF Decided
      <4> QED
        BY <1>7, <4>1, <4>2
    <3>3. \A c, o : Decided(c, o)' <=> Decided(c, o)
      BY <1>5 DEF Decided
    <3>4. \A m : SaidBefore(m)' <=> SaidBefore(m)
      BY <1>5 DEF SaidBefore
    <3> QED
      BY <1>2, <1>3, <1>5, <2>1, <3>2, <3>3, <3>4 DEF Answering
  <2> QED
    BY <2>2, <2>3, <2>4
<1>12. ByStrategy' /\ SummaryTellsTheTrial'
  BY <1>3, <1>4, <1>5, SummariesStay DEF TruthInv
<1> QED
  BY <1>8, <1>9, <1>10, <1>11, <1>12 DEF TruthInv

LEMMA RequestKeepsTruth ==
    ASSUME Ground, TruthInv, GateTakesRequest
    PROVE  TruthInv'
<1>1. PICK r : r = Head(requests)
  OBVIOUS
<1>2. /\ r \in Note /\ r \in Range(requests) /\ Range(requests') \subseteq Range(requests)
  <2>1. requests \in Seq(Note) /\ requests # <<>> /\ requests' = Tail(requests)
    BY GroundFacts DEF GateTakesRequest
  <2> QED
    BY <1>1, <2>1, TakenFrom
<1>3. /\ asks' = IF question[r.key] = "none" /\ r.key \notin waiting
                 THEN Append(asks, [key |-> r.key, session |-> session]) ELSE asks
      /\ Mixes(session, r.session)
      /\ UNCHANGED <<scenVars, driverVars, mode, session, question, announced, prompt,
                     answersSent, authorized, blocked, statuses, summaries, missed>>
  BY <1>1 DEF GateTakesRequest
<1>4. mixed \subseteq mixed' /\ (session \notin mixed' => session = r.session)
  BY <1>3, MixingGrows
<1>5. /\ r.key \in Capability /\ session \in Nat /\ drvSession \in Nat
      /\ r.session <= drvSession /\ session \in Session
  BY <1>2, GroundFacts, SessionsAreSessions
     DEF TruthInv, Orderly, Note, Ground, TypesInv, TrialTypeOK, ConsentTypeOK
<1>6. UNCHANGED <<scenSession, nextStage, current, due, strategy, drvSession, scheduled, taken,
                  decisions, results, drvComplete>>
  BY <1>3 DEF scenVars, driverVars
<1>7. \A m \in Range(asks') : m \in Range(asks) \/ m = [key |-> r.key, session |-> session]
  <2>1. asks \in Seq(Note) /\ [key |-> r.key, session |-> session] \in Note
    BY <1>5, GroundFacts DEF Note
  <2> QED
    BY <1>3, <2>1, PutInto
<1>8. mode = "static" => asks' = <<>>
  BY <1>3, <1>5 DEF TruthInv, Questioned
<1>9. Orderly' /\ Questioned'
  BY <1>2, <1>3, <1>6, <1>8 DEF TruthInv, Orderly, Questioned
<1>10. UntoldIsEmpty'
  <2>1. \A s : Ahead(s)' => Ahead(s)
    BY <1>4, <1>6 DEF Ahead
  <2>2. ~Ahead(session)'
    BY <1>3, <1>4, <1>5, <1>6 DEF Ahead
  <2> QED
    BY <1>3, <1>7, <2>1, <2>2 DEF TruthInv, UntoldIsEmpty
<1>11. Evidence'
  <2> SUFFICES ASSUME Live' PROVE (InOrder /\ Asking /\ Answering /\ Permitting /\ Telling /\ Completing)'
    BY DEF Evidence
  <2>1. InOrder /\ Asking /\ Answering /\ Permitting /\ Telling /\ Completing
    BY <1>4, <1>6 DEF Live, TruthInv, Evidence
  <2>2. InOrder' /\ Telling' /\ Completing'
    BY <1>3, <1>6, <2>1, OrderStays, TellingStays
  <2>3. \A key : Reached(key)' <=> Reached(key)
    BY <1>3, <1>6 DEF Reached
  <2>4. session = drvSession /\ mode = "dynamic" => Reached(r.key)
    BY <1>2, <1>4, <1>6, <2>1 DEF Live, Asking
  <2>5. mode = "dynamic" \/ Range(asks') = {}
    BY <1>8, EmptyRange, GroundFacts
  <2>6. Asking'
    BY <1>2, <1>3, <1>6, <1>7, <2>1, <2>3, <2>4, <2>5 DEF Asking
  <2>7. Answering' /\ Permitting'
    BY <1>3, <1>6, <2>1 DEF Answering, Permitting, SaidBefore, Decided
  <2> QED
    BY <2>2, <2>6, <2>7
<1>12. ByStrategy' /\ SummaryTellsTheTrial'
  BY <1>3, <1>4, <1>6, SummariesStay DEF TruthInv
<1> QED
  BY <1>9, <1>10, <1>11, <1>12 DEF TruthInv

LEMMA AnswerKeepsTruth ==
    ASSUME Ground, TruthInv, GateAnswers
    PROVE  TruthInv'
<1>1. PICK c \in waiting :
        /\ LET a == [key |-> c, session |-> session] IN
           \/ question[c] = "granted" /\ authorized' = Append(authorized, a) /\ UNCHANGED blocked
           \/ question[c] = "refused" /\ blocked' = Append(blocked, a) /\ UNCHANGED authorized
        /\ UNCHANGED <<scenVars, driverVars, mode, session, question, announced, prompt, asks,
                       answersSent, requests, statuses, summaries, history>>
  BY DEF GateAnswers
<1>2. mixed' = mixed
  BY <1>1 DEF history
<1>3. UNCHANGED <<scenSession, nextStage, current, due, strategy, drvSession, scheduled, taken,
                  decisions, results, drvComplete>>
  BY <1>1 DEF scenVars, driverVars
<1>4. PICK a : a = [key |-> c, session |-> session]
  OBVIOUS
<1>5. c \in Capability /\ a \in Note /\ a.key = c /\ a.session = session
  BY <1>4, SessionsAreSessions DEF Note, Ground, TypesInv, TrialTypeOK, ConsentTypeOK
<1>6. /\ \A m \in Range(authorized') : m \in Range(authorized) \/ (m = a /\ question[c] = "granted")
      /\ \A m \in Range(blocked') : m \in Range(blocked) \/ (m = a /\ question[c] = "refused")
  <2>1. Range(Append(authorized, a)) = Range(authorized) \cup {a}
    BY <1>5, GroundFacts, PutInto
  <2>2. Range(Append(blocked, a)) = Range(blocked) \cup {a}
    BY <1>5, GroundFacts, PutInto
  <2>3. \/ question[c] = "granted" /\ authorized' = Append(authorized, a) /\ UNCHANGED blocked
        \/ question[c] = "refused" /\ blocked' = Append(blocked, a) /\ UNCHANGED authorized
    BY <1>1, <1>4
  <2>4. CASE question[c] = "granted" /\ authorized' = Append(authorized, a) /\ blocked' = blocked
    <3>1. Range(authorized') = Range(authorized) \cup {a} /\ Range(blocked') = Range(blocked)
      BY <2>1, <2>4
    <3> QED
      BY <2>4, <3>1
  <2>5. CASE question[c] = "refused" /\ blocked' = Append(blocked, a) /\ authorized' = authorized
    <3>1. Range(blocked') = Range(blocked) \cup {a} /\ Range(authorized') = Range(authorized)
      BY <2>2, <2>5
    <3> QED
      BY <2>5, <3>1
  <2> QED
    BY <2>3, <2>4, <2>5
<1>7. Orderly' /\ Questioned'
  BY <1>1, <1>3 DEF TruthInv, Orderly, Questioned
<1>8. UntoldIsEmpty'
  <2>1. \A s : Ahead(s)' <=> Ahead(s)
    BY <1>2, <1>3 DEF Ahead
  <2>2. question[c] \in {"granted", "refused"}
    BY <1>1
  <2>3. ~Ahead(session)
    BY <1>5, <2>2 DEF TruthInv, UntoldIsEmpty, Opened
  <2>4. Opened' = Opened
    BY <1>1 DEF Opened
  <2> QED
    BY <1>1, <1>5, <1>6, <2>1, <2>3, <2>4 DEF TruthInv, UntoldIsEmpty
<1>9. Evidence'
  <2> SUFFICES ASSUME Live' PROVE (InOrder /\ Asking /\ Answering /\ Permitting /\ Telling /\ Completing)'
    BY DEF Evidence
  <2>1. InOrder /\ Asking /\ Answering /\ Permitting /\ Telling /\ Completing
    BY <1>2, <1>3 DEF Live, TruthInv, Evidence
  <2>2. InOrder' /\ Telling' /\ Completing'
    BY <1>1, <1>3, <2>1, OrderStays, TellingStays
  <2>3. Asking' /\ Answering'
    BY <1>1, <1>3, <2>1 DEF Asking, Answering, SaidBefore, Decided, Reached
  <2>4. Permitting'
    <3>1. session = drvSession =>
             /\ question[c] = "granted" => Decided(c, "success")
             /\ question[c] = "refused" => Decided(c, "fallback")
      BY <1>5, <2>1 DEF Answering
    <3>2. \A k, o : Decided(k, o)' <=> Decided(k, o)
      BY <1>3 DEF Decided
    <3> QED
      BY <1>3, <1>5, <1>6, <2>1, <3>1, <3>2 DEF Permitting
  <2> QED
    BY <2>2, <2>3, <2>4
<1>10. ByStrategy' /\ SummaryTellsTheTrial'
  BY <1>1, <1>2, <1>3, SummariesStay DEF TruthInv
<1> QED
  BY <1>7, <1>8, <1>9, <1>10 DEF TruthInv

LEMMA ResetKeepsTruth ==
    ASSUME Ground, TruthInv, Reset
    PROVE  TruthInv'
<1>1. /\ session' = session + 1 /\ question' = Opened
      /\ announced' = [r \in Reader |-> session']
      /\ prompt' = IF mode = "static" THEN PromptFor(session', AllTogether) ELSE prompt
      /\ UNCHANGED <<scenVars, driverVars, mode, asks, answersSent, requests, authorized,
                     blocked, statuses, summaries, history>>
  BY DEF Reset
<1>2. mixed' = mixed
  BY <1>1 DEF history
<1>3. UNCHANGED <<scenSession, nextStage, current, due, strategy, drvSession, scheduled, taken,
                  decisions, results, drvComplete>>
  BY <1>1 DEF scenVars, driverVars
<1>4. /\ session \in Nat /\ drvSession \in Nat /\ drvSession <= session
      /\ scenSession \in Nat /\ scenSession <= session
      /\ session' > drvSession /\ session' \in Nat /\ session' # 0
  BY <1>1, GroundFacts DEF TruthInv, Orderly
<1>5. announced'["driver"] = session' /\ announced'["scenario"] = session'
  BY <1>1 DEF Reader
<1>6. Orderly'
  <2>1. scenSession' <= session'
    BY <1>1, <1>3, <1>4
  <2> QED
    BY <1>1, <1>3, <1>4, <1>5, <2>1 DEF TruthInv, Orderly
<1>7. Questioned'
  BY <1>1, <1>3 DEF TruthInv, Questioned, PromptFor, Opened
<1>8. UntoldIsEmpty'
  <2>1. \A s : Ahead(s)' <=> Ahead(s)
    BY <1>2, <1>3 DEF Ahead
  <2>2. Opened' = Opened
    BY <1>1 DEF Opened
  <2> QED
    BY <1>1, <2>1, <2>2 DEF TruthInv, UntoldIsEmpty, PromptFor
<1>9. Evidence'
  <2> SUFFICES ASSUME Live' PROVE (InOrder /\ Asking /\ Answering /\ Permitting /\ Telling /\ Completing)'
    BY DEF Evidence
  <2>1. InOrder /\ Asking /\ Answering /\ Permitting /\ Telling /\ Completing
    BY <1>2, <1>3 DEF Live, TruthInv, Evidence
  <2>2. InOrder' /\ Telling' /\ Completing'
    BY <1>1, <1>3, <2>1, OrderStays, TellingStays
  <2>3. \A key : Reached(key)' <=> Reached(key)
    BY <1>1, <1>3 DEF Reached
  <2>4. prompt'.session = drvSession => prompt' = prompt
    BY <1>1, <1>4 DEF PromptFor
  <2>5. Asking'
    BY <1>1, <1>3, <2>1, <2>3, <2>4 DEF Asking
  <2>6. Answering' /\ Permitting'
    <3>1. session' # drvSession'
      BY <1>3, <1>4
    <3> QED
      BY <1>1, <1>3, <2>1, <3>1 DEF Answering, Permitting, SaidBefore, Decided
  <2> QED
    BY <2>2, <2>5, <2>6
<1>10. ByStrategy' /\ SummaryTellsTheTrial'
  BY <1>1, <1>2, <1>3, SummariesStay DEF TruthInv
<1> QED
  BY <1>6, <1>7, <1>8, <1>9, <1>10 DEF TruthInv

-----------------------------------------------------------------------------
(***************************************************************************)
(* Where the decisions stand when an outcome is noted.                     *)
(***************************************************************************)
LEMMA StagesDiffer ==
    /\ \A i, j \in DOMAIN Stages : Stages[i] = Stages[j] => i = j
    /\ \A i \in DOMAIN Stages : Stages[i] # AllTogether
    /\ Stages = Asked
BY DriverAssumption, TrialAssumption

LEMMA DecidedInTurn ==
    ASSUME Ground, InOrder, mode = "dynamic", NEW i \in DOMAIN Stages, NEW o,
           Decided(Stages[i], o)
    PROVE  i \in DOMAIN decisions /\ OutcomeOf(decisions[i].granted) = o
<1>1. PICK k \in DOMAIN decisions :
        decisions[k].key \in {Stages[i], AllTogether} /\ OutcomeOf(decisions[k].granted) = o
  BY DEF Decided
<1>2. decisions \in Seq(Decision) /\ Len(Stages) \in Nat
  BY GroundFacts
<1>3. PICK n \in Nat : n = Len(decisions) /\ DOMAIN decisions = 1 .. n
  BY <1>2, LenProperties
<1>4. PICK l \in Nat : l = Len(Stages) /\ DOMAIN Stages = 1 .. l
  BY StagesAreCapabilities
<1>5. n <= l
  BY <1>3, <1>4 DEF InOrder
<1>6. k \in DOMAIN Stages
  BY <1>1, <1>3, <1>4, <1>5
<1>7. decisions[k].key = Stages[k]
  BY <1>1 DEF InOrder
<1>8. k = i
  BY <1>1, <1>6, <1>7, StagesDiffer
<1> QED
  BY <1>1, <1>8

LEMMA NotedIsDecided ==
    ASSUME Ground, Telling, NEW i \in DOMAIN Stages, NEW n, Noted(i, n)
    PROVE  \E o : Decided(Stages[i], o)
<1>1. CASE results[i] # "none"
  BY <1>1 DEF Telling
<1>2. CASE \E k \in DOMAIN statuses : /\ k <= n /\ statuses[k].session = drvSession
                                      /\ IsOutcome(statuses[k]) /\ statuses[k].stage = i
  <2>1. PICK k \in DOMAIN statuses : /\ statuses[k].session = drvSession
                                     /\ IsOutcome(statuses[k]) /\ statuses[k].stage = i
    BY <1>2
  <2>2. statuses[k] \in Range(statuses)
    BY DEF Range
  <2> QED
    BY <2>1, <2>2 DEF Telling
<1> QED
  BY <1>1, <1>2 DEF Noted

\* A status more does not take away what was noted.
LEMMA StatusAppended ==
    ASSUME Ground, NEW m \in StatusMessage, statuses' = Append(statuses, m),
           UNCHANGED <<drvSession, results>>
    PROVE  /\ Len(statuses') = Len(statuses) + 1 /\ Len(statuses) \in Nat
           /\ DOMAIN statuses' = 1 .. Len(statuses) + 1 /\ DOMAIN statuses = 1 .. Len(statuses)
           /\ statuses'[Len(statuses) + 1] = m
           /\ \A k \in DOMAIN statuses : statuses'[k] = statuses[k]
           /\ \A i, n : Noted(i, n) => Noted(i, n)'
           /\ \A i : Noted(i, Len(statuses)) => Noted(i, Len(statuses))'
           /\ m.session = drvSession /\ IsOutcome(m) => Noted(m.stage, Len(statuses))'
<1>1. PICK l \in Nat : l = Len(statuses) /\ DOMAIN statuses = 1 .. l /\ statuses \in Seq(StatusMessage)
  BY GroundFacts, LenProperties
<1>2. /\ Len(statuses') = l + 1 /\ DOMAIN statuses' = 1 .. l + 1 /\ statuses'[l + 1] = m
      /\ \A k \in 1 .. l : statuses'[k] = statuses[k]
  BY <1>1, AppendProperties
<1>3. \A k \in DOMAIN statuses : k \in DOMAIN statuses' /\ statuses'[k] = statuses[k] /\ k <= l
  BY <1>1, <1>2
<1>4. \A i, n : Noted(i, n) => Noted(i, n)'
  BY <1>3 DEF Noted
<1>5. \A i : Noted(i, Len(statuses)) => Noted(i, Len(statuses))'
  <2>1. \A k \in DOMAIN statuses : k <= Len(statuses')
    BY <1>1, <1>2
  <2> QED
    BY <1>3, <2>1 DEF Noted
<1>6. m.session = drvSession /\ IsOutcome(m) => Noted(m.stage, Len(statuses))'
  <2>1. l + 1 \in DOMAIN statuses' /\ l + 1 <= Len(statuses')
    BY <1>1, <1>2
  <2> QED
    BY <1>2, <2>1 DEF Noted
<1> QED
  BY <1>1, <1>2, <1>3, <1>4, <1>5, <1>6

\* What a step of the scenario may say.
WellSaid ==
    /\ scenSession' <= session /\ announced'["scenario"] \in {0, session}
    /\ scenSession' > drvSession => nextStage' = 0 /\ current' = 0 /\ due' # "reached"
    /\ scenOut'.status \notin {"none", "ready"} => scenSession' <= drvSession
    /\ Live /\ Live' /\ scenSession' = drvSession =>
          /\ scenOut'.status = "requested" /\ mode = "dynamic" => Reached(Stages[scenOut'.stage])
          /\ IsOutcome(scenOut') =>
                /\ scenOut'.stage \in DOMAIN Stages
                /\ Decided(Stages[scenOut'.stage], OutcomeNoted(scenOut'.status))
          /\ scenOut'.status = "complete" => \A i \in DOMAIN Stages : Noted(i, Len(statuses))
          /\ \A i \in 1 .. nextStage' :
                Noted(i, Len(statuses)) \/ (IsOutcome(scenOut') /\ scenOut'.stage = i)

LEMMA ScenarioTells ==
    ASSUME Ground, Ground', TruthInv, NEW A, ScenarioSteps(A), WellSaid,
           Range(authorized') \subseteq Range(authorized),
           Range(blocked') \subseteq Range(blocked),
           announced'["driver"] = announced["driver"], mixed \subseteq mixed'
    PROVE  TruthInv'
<1>1. /\ ScenarioPublishes
      /\ UNCHANGED <<driverVars, mode, session, question, waiting, prompt, asks, answersSent,
                     summaries>>
  BY DEF ScenarioSteps, consentVars
<1>2. UNCHANGED <<strategy, drvSession, scheduled, taken, decisions, results, drvComplete>>
  BY <1>1 DEF driverVars
<1>3. PICK out : out = scenOut'
  OBVIOUS
<1>4. PICK own : own = scenSession'
  OBVIOUS
<1>5. PICK m : m = [status |-> out.status, session |-> own, stage |-> out.stage]
  OBVIOUS
<1>6. m.status = out.status /\ m.session = own /\ m.stage = out.stage
  BY <1>5
<1>7. /\ own \in Session /\ own \in Nat /\ drvSession \in Nat /\ session \in Nat
      /\ out \in [status : ScenarioStatus \cup {"none"}, stage : 0 .. Len(Stages)]
  BY <1>3, <1>4, GroundFacts DEF Ground, TypesInv, TrialTypeOK, ScenarioTypeOK, Session
<1>8. /\ statuses' = IF out.status = "none" THEN statuses ELSE Append(statuses, m)
      /\ requests' = IF out.status = "requested"
                     THEN Append(requests, [key |-> Stages[out.stage], session |-> own])
                     ELSE requests
  BY <1>1, <1>3, <1>4, <1>5 DEF ScenarioPublishes
<1>9. out.status # "none" => m \in StatusMessage
  BY <1>5, <1>7 DEF StatusMessage
<1>10. \A x \in Range(statuses') : x \in Range(statuses) \/ (x = m /\ out.status # "none")
  BY <1>8, <1>9, GroundFacts, PutInto
<1>11. \A x \in Range(requests') :
          \/ x \in Range(requests)
          \/ x = [key |-> Stages[out.stage], session |-> own] /\ out.status = "requested"
  <2>1. CASE out.status = "requested"
    <3>1. requests' = Append(requests, [key |-> Stages[out.stage], session |-> own])
      BY <1>8, <2>1
    <3>2. requests' \in Seq(Note) /\ requests \in Seq(Note)
      BY GroundFacts DEF Ground, TypesInv, TrialTypeOK, ChannelTypeOK
    <3>3. [key |-> Stages[out.stage], session |-> own] \in Note
      <4>1. PICK n \in Nat : n = Len(requests)
        BY <3>2, LenProperties
      <4>2. n + 1 \in 1 .. Len(requests') /\ requests'[n + 1] = [key |-> Stages[out.stage], session |-> own]
        BY <3>1, <3>2, <4>1, AppendProperties
      <4> QED
        BY <3>2, <4>2, ElementOfSeq
    <3> QED
      BY <2>1, <3>1, <3>2, <3>3, PutInto
  <2> QED
    BY <1>8, <2>1
<1>12. Orderly'
  <2>1. \A x \in Range(requests') : x.session <= drvSession
    BY <1>3, <1>4, <1>11 DEF TruthInv, Orderly, WellSaid
  <2>2. \A x \in Range(statuses') : x.session > drvSession => x.status = "ready"
    BY <1>3, <1>4, <1>6, <1>7, <1>10 DEF TruthInv, Orderly, WellSaid
  <2> QED
    BY <1>1, <1>2, <2>1, <2>2 DEF TruthInv, Orderly, WellSaid
<1>13. Questioned'
  BY <1>1 DEF TruthInv, Questioned
<1>14. UntoldIsEmpty'
  <2>1. \A s : Ahead(s)' => Ahead(s)
    BY <1>2 DEF Ahead
  <2>2. Opened' = Opened
    BY <1>1 DEF Opened
  <2> QED
    BY <1>1, <2>1, <2>2 DEF TruthInv, UntoldIsEmpty
<1>15. Evidence'
  <2> SUFFICES ASSUME Live' PROVE (InOrder /\ Asking /\ Answering /\ Permitting /\ Telling /\ Completing)'
    BY DEF Evidence
  <2>1. InOrder /\ Asking /\ Answering /\ Permitting /\ Telling /\ Completing /\ Live
    BY <1>2 DEF Live, TruthInv, Evidence
  <2>2. InOrder'
    BY <1>1, <1>2, <2>1, OrderStays
  <2>3. own = drvSession =>
          /\ out.status = "requested" /\ mode = "dynamic" => Reached(Stages[out.stage])
          /\ IsOutcome(out) =>
                out.stage \in DOMAIN Stages /\ Decided(Stages[out.stage], OutcomeNoted(out.status))
          /\ out.status = "complete" => \A i \in DOMAIN Stages : Noted(i, Len(statuses))
          /\ \A i \in 1 .. nextStage' :
                Noted(i, Len(statuses)) \/ (IsOutcome(out) /\ out.stage = i)
    BY <1>3, <1>4, <2>1 DEF WellSaid
  <2>4. /\ \A key : Reached(key)' <=> Reached(key)
        /\ \A c, o : Decided(c, o)' <=> Decided(c, o)
    BY <1>1, <1>2 DEF Reached, Decided
  <2>5. Asking'
    BY <1>1, <1>2, <1>11, <2>1, <2>3, <2>4 DEF Asking
  <2>6. Answering' /\ Permitting'
    BY <1>1, <1>2, <2>1, <2>4 DEF Answering, Permitting, SaidBefore
  <2>7. Telling'
    <3>1. IsOutcome(m) <=> IsOutcome(out)
      BY <1>6 DEF IsOutcome
    <3> QED
      BY <1>2, <1>6, <1>10, <2>1, <2>3, <2>4, <3>1 DEF Telling
  <2>8. CASE out.status = "none"
    <3>1. statuses' = statuses /\ ~IsOutcome(out)
      BY <1>8, <2>8 DEF IsOutcome
    <3>2. \A i, n : Noted(i, n)' <=> Noted(i, n)
      BY <1>2, <3>1 DEF Noted
    <3>3. Completing'
      BY <1>2, <1>4, <2>1, <2>3, <3>1, <3>2 DEF Completing
    <3> QED
      BY <2>2, <2>5, <2>6, <2>7, <3>3
  <2>9. CASE out.status # "none"
    <3>1. /\ Len(statuses') = Len(statuses) + 1 /\ Len(statuses) \in Nat
          /\ DOMAIN statuses' = 1 .. Len(statuses) + 1 /\ DOMAIN statuses = 1 .. Len(statuses)
          /\ statuses'[Len(statuses) + 1] = m
          /\ \A k \in DOMAIN statuses : statuses'[k] = statuses[k]
          /\ \A i, n : Noted(i, n) => Noted(i, n)'
          /\ \A i : Noted(i, Len(statuses)) => Noted(i, Len(statuses))'
          /\ m.session = drvSession /\ IsOutcome(m) => Noted(m.stage, Len(statuses))'
      BY <1>2, <1>8, <1>9, <2>9, StatusAppended
    <3>2. own = drvSession => \A i \in 1 .. nextStage' : Noted(i, Len(statuses))'
      BY <1>6, <2>3, <3>1 DEF IsOutcome
    <3>3. ASSUME NEW k \in DOMAIN statuses', statuses'[k].session = drvSession,
                 statuses'[k].status = "complete", NEW i \in DOMAIN Stages
          PROVE  Noted(i, k - 1)'
      <4>1. PICK l \in Nat : l = Len(statuses)
        BY <3>1
      <4>2. CASE k \in DOMAIN statuses
        <5>1. Noted(i, k - 1)
          BY <2>1, <3>1, <3>3, <4>2 DEF Completing
        <5> QED
          BY <3>1, <5>1
      <4>3. CASE k = l + 1
        <5>1. Noted(i, Len(statuses))
          BY <1>6, <2>3, <3>1, <3>3, <4>1, <4>3
        <5>2. k - 1 = l
          BY <4>1, <4>3
        <5>3. Noted(i, k - 1)
          BY <4>1, <5>1, <5>2
        <5> QED
          BY <3>1, <5>3
      <4> QED
        BY <3>1, <4>1, <4>2, <4>3
    <3>4. Completing'
      BY <1>2, <1>4, <2>1, <3>2, <3>3 DEF Completing
    <3> QED
      BY <2>2, <2>5, <2>6, <2>7, <3>4
  <2> QED
    BY <2>8, <2>9
<1>16. ByStrategy' /\ SummaryTellsTheTrial'
  BY <1>1, <1>2, SummariesStay DEF TruthInv
<1> QED
  BY <1>12, <1>13, <1>14, <1>15, <1>16 DEF TruthInv

\* A step in which the scenario says nothing and moves nothing but its clock.
LEMMA SilenceIsWellSaid ==
    ASSUME Ground, TruthInv, Silent, UNCHANGED <<scenSession, nextStage, current, drvSession>>,
           announced'["scenario"] \in {0, session}, mixed \subseteq mixed',
           scenSession > drvSession => due' # "reached"
    PROVE  WellSaid
<1>1. scenOut'.status = "none" /\ ~IsOutcome(scenOut')
  BY DEF Silent, NoNews, IsOutcome
<1>2. /\ scenSession' <= session
      /\ scenSession' > drvSession => nextStage' = 0 /\ current' = 0 /\ due' # "reached"
  BY DEF TruthInv, Orderly
<1>3. ASSUME Live, scenSession' = drvSession, NEW i \in 1 .. nextStage'
      PROVE  Noted(i, Len(statuses))
  BY <1>3 DEF TruthInv, Evidence, Completing
<1> QED
  BY <1>1, <1>2, <1>3 DEF WellSaid

LEMMA StillIsWellSaid ==
    ASSUME Ground, TruthInv, Still, drvSession' = drvSession,
           announced'["scenario"] \in {0, session}, mixed \subseteq mixed'
    PROVE  WellSaid
<1>1. Silent /\ UNCHANGED <<scenSession, nextStage, current, due>>
  BY DEF Still
<1>2. scenSession > drvSession => due' # "reached"
  BY <1>1 DEF TruthInv, Orderly
<1> QED
  BY <1>1, <1>2, SilenceIsWellSaid

LEMMA AdvanceIsWellSaid ==
    ASSUME Ground, TruthInv, NEW outcome \in {"executed", "fallback"}, current # 0,
           Advance(outcome), announced' = announced, drvSession' = drvSession,
           Live /\ Live' /\ scenSession = drvSession
              => Decided(Stages[current], OutcomeNoted(outcome))
    PROVE  WellSaid
<1>1. /\ nextStage' = nextStage + 1 /\ current' = 0 /\ due' = "ahead" /\ scenSession' = scenSession
      /\ scenOut'.status = outcome /\ scenOut'.stage = current
  BY DEF Advance, Says
<1>2. /\ current = nextStage + 1 /\ nextStage \in Nat /\ current \in DOMAIN Stages
      /\ scenSession \in Nat /\ drvSession \in Nat
  BY GroundFacts, StagesAreCapabilities
<1>3. scenSession <= drvSession /\ scenSession <= session
  BY <1>2 DEF TruthInv, Orderly
<1>4. IsOutcome(scenOut')
  BY <1>1 DEF IsOutcome
<1>5. ASSUME Live, scenSession = drvSession, NEW i \in 1 .. nextStage'
      PROVE  Noted(i, Len(statuses)) \/ i = current
  <2>1. i \in 1 .. nextStage \/ i = current
    BY <1>1, <1>2, <1>5
  <2> QED
    BY <1>5, <2>1 DEF TruthInv, Evidence, Completing
<1>6. announced["scenario"] \in {0, session}
  BY DEF TruthInv, Orderly
<1>7. ~(scenSession' > drvSession)
  BY <1>1, <1>2, <1>3
<1> QED
  BY <1>1, <1>2, <1>3, <1>4, <1>5, <1>6, <1>7 DEF WellSaid

LEMMA TickIsWellSaid ==
    ASSUME Ground, TruthInv, ScenarioTick, announced' = announced, drvSession' = drvSession
    PROVE  WellSaid
<1>1. due = "reached" /\ due' = "none" /\ UNCHANGED <<scenSession, nextStage>>
  BY DEF ScenarioTick
<1>2. /\ nextStage \in Nat /\ nextStage <= Len(Stages) /\ Len(Stages) \in Nat
      /\ scenSession \in Nat /\ drvSession \in Nat
  BY GroundFacts
<1>3. scenSession <= drvSession /\ scenSession <= session /\ announced["scenario"] \in {0, session}
  BY <1>1, <1>2 DEF TruthInv, Orderly
<1>4. ASSUME Live, scenSession = drvSession, NEW i \in 1 .. nextStage
      PROVE  Noted(i, Len(statuses))
  BY <1>4 DEF TruthInv, Evidence, Completing
<1>5. ~(scenSession' > drvSession)
  BY <1>1, <1>2, <1>3
<1>6. CASE nextStage = Len(Stages)
  <2>1. scenOut'.status = "complete" /\ ~IsOutcome(scenOut')
    BY <1>6 DEF ScenarioTick, Says, IsOutcome
  <2>2. DOMAIN Stages = 1 .. nextStage
    BY <1>6, StagesAreCapabilities
  <2> QED
    BY <1>1, <1>3, <1>4, <1>5, <2>1, <2>2 DEF WellSaid
<1>7. CASE nextStage # Len(Stages)
  <2>1. /\ scenOut'.status = "requested" /\ scenOut'.stage = nextStage + 1
        /\ ~IsOutcome(scenOut')
    BY <1>7 DEF ScenarioTick, Says, IsOutcome
  <2>2. nextStage + 1 \in DOMAIN Stages
    <3>1. PICK l \in Nat : l = Len(Stages) /\ DOMAIN Stages = 1 .. l
      BY StagesAreCapabilities
    <3>2. nextStage + 1 \in 1 .. l
      BY <1>2, <1>7, <3>1
    <3> QED
      BY <3>1, <3>2
  <2>3. ASSUME Live, scenSession = drvSession, mode = "dynamic"
        PROVE  Reached(Stages[nextStage + 1])
    <3>1. InOrder /\ Telling
      BY <2>3 DEF TruthInv, Evidence
    <3>2. PICK n \in Nat : n = Len(decisions) /\ DOMAIN decisions = 1 .. n
      BY GroundFacts, LenProperties
    <3>3. nextStage <= n
      <4>1. CASE nextStage = 0
        BY <3>2, <4>1
      <4>2. CASE nextStage # 0
        <5>1. nextStage \in 1 .. nextStage /\ nextStage \in DOMAIN Stages
          BY <1>2, <4>2, StagesAreCapabilities
        <5>2. Noted(nextStage, Len(statuses))
          BY <1>4, <2>3, <5>1
        <5>3. PICK o : Decided(Stages[nextStage], o)
          BY <3>1, <5>1, <5>2, NotedIsDecided
        <5>4. nextStage \in DOMAIN decisions
          BY <2>3, <3>1, <5>1, <5>3, DecidedInTurn
        <5> QED
          BY <3>2, <5>4
      <4> QED
        BY <4>1, <4>2
    <3>4. nextStage + 1 <= Len(decisions) + 1
      BY <1>2, <3>2, <3>3
    <3> QED
      BY <2>2, <2>3, <3>4 DEF Reached
  <2> QED
    BY <1>1, <1>3, <1>4, <1>5, <2>1, <2>3 DEF WellSaid
<1> QED
  BY <1>6, <1>7

LEMMA ScenarioKeepsTruth ==
    ASSUME Ground, Ground', TruthInv, ScenarioMoves
    PROVE  TruthInv'
<1>1. /\ announced["scenario"] \in {0, session} /\ announced \in [Reader -> Session]
      /\ scenSession \in Nat /\ session \in Nat /\ drvSession \in Nat /\ scenSession <= session
      /\ drvSession <= session /\ announced["driver"] \in {0, session}
      /\ announced["driver"] = 0 => drvSession = session
  BY GroundFacts DEF TruthInv, Orderly
<1>2. drvSession' = drvSession
  BY DEF ScenarioMoves, ScenarioSteps, driverVars
<1>3. CASE ScenarioSteps(ScenarioSession)
  <2>1. /\ announced["scenario"] = session /\ announced' = [announced EXCEPT !["scenario"] = 0]
        /\ ScenarioOnSession(session)
        /\ authorized' = authorized /\ blocked' = blocked /\ mixed' = mixed
    BY <1>1, <1>3 DEF ScenarioSteps, ScenarioSession
  <2>2. announced'["scenario"] = 0 /\ announced'["driver"] = announced["driver"]
    BY <1>1, <2>1 DEF Reader
  <2>3. WellSaid
    <3>1. CASE Still
      BY <1>2, <2>1, <2>2, <3>1, StillIsWellSaid
    <3>2. CASE scenSession # session
      <4>1. /\ scenSession' = session /\ nextStage' = 0 /\ current' = 0 /\ due' = "ahead"
            /\ scenOut'.status = "ready"
        BY <2>1, <3>2 DEF ScenarioOnSession, Restart, Says
      <4>2. ~IsOutcome(scenOut')
        BY <4>1 DEF IsOutcome
      <4>3. scenSession' <= session /\ 1 .. nextStage' = {}
        BY <1>1, <4>1
      <4> QED
        BY <2>2, <4>1, <4>2, <4>3 DEF WellSaid
    <3> QED
      BY <2>1, <3>1, <3>2 DEF ScenarioOnSession
  <2> QED
    BY <1>3, <2>1, <2>2, <2>3, ScenarioTells
<1>4. CASE ScenarioSteps(ScenarioAuthorized)
  <2>1. PICK a : a = Head(authorized)
    OBVIOUS
  <2>2. /\ ScenarioOnAuthorized(a.key) /\ Mixes(scenSession, a.session)
        /\ blocked' = blocked /\ announced' = announced
    BY <1>4, <2>1 DEF ScenarioSteps, ScenarioAuthorized
  <2>3. a \in Range(authorized) /\ Range(authorized') \subseteq Range(authorized)
    <3>1. authorized # <<>> /\ authorized' = Tail(authorized) /\ authorized \in Seq(Note)
      BY <1>4, GroundFacts DEF ScenarioSteps, ScenarioAuthorized
    <3> QED
      BY <2>1, <3>1, TakenFrom
  <2>4. mixed \subseteq mixed' /\ (scenSession \notin mixed' => scenSession = a.session)
    BY <2>2, MixingGrows
  <2>5. WellSaid
    <3>1. CASE Still
      BY <1>1, <1>2, <2>2, <2>4, <3>1, StillIsWellSaid
    <3>2. CASE Matches(a.key) /\ Advance("executed")
      <4>1. current # 0 /\ a.key = Stages[current]
        BY <3>2 DEF Matches
      <4>2. ASSUME Live, Live', scenSession = drvSession
            PROVE  Decided(Stages[current], OutcomeNoted("executed"))
        <5>1. a.session = drvSession
          BY <1>2, <2>4, <4>2 DEF Live
        <5> QED
          BY <2>3, <4>1, <4>2, <5>1 DEF TruthInv, Evidence, Permitting, OutcomeNoted
      <4> QED
        BY <1>2, <2>2, <3>2, <4>1, <4>2, AdvanceIsWellSaid
    <3>3. CASE /\ Matches(a.key) /\ Says("started", current)
               /\ UNCHANGED <<scenSession, nextStage, current, due, complete>>
      <4>1. current # 0 /\ scenOut'.status = "started" /\ ~IsOutcome(scenOut')
        BY <3>3 DEF Matches, Says, IsOutcome
      <4>2. ~(scenSession > drvSession)
        BY <4>1 DEF TruthInv, Orderly
      <4>3. scenSession' <= drvSession
        BY <1>1, <3>3, <4>2
      <4>4. ASSUME Live, scenSession = drvSession, NEW i \in 1 .. nextStage
            PROVE  Noted(i, Len(statuses))
        BY <4>4 DEF TruthInv, Evidence, Completing
      <4> QED
        BY <1>1, <2>2, <3>3, <4>1, <4>2, <4>3, <4>4 DEF WellSaid
    <3> QED
      BY <2>2, <3>1, <3>2, <3>3 DEF ScenarioOnAuthorized
  <2> QED
    BY <1>4, <2>2, <2>3, <2>4, <2>5, ScenarioTells
<1>5. CASE ScenarioSteps(ScenarioBlocked)
  <2>1. PICK a : a = Head(blocked)
    OBVIOUS
  <2>2. /\ ScenarioOnBlocked(a.key) /\ Mixes(scenSession, a.session)
        /\ authorized' = authorized /\ announced' = announced
    BY <1>5, <2>1 DEF ScenarioSteps, ScenarioBlocked
  <2>3. a \in Range(blocked) /\ Range(blocked') \subseteq Range(blocked)
    <3>1. blocked # <<>> /\ blocked' = Tail(blocked) /\ blocked \in Seq(Note)
      BY <1>5, GroundFacts DEF ScenarioSteps, ScenarioBlocked
    <3> QED
      BY <2>1, <3>1, TakenFrom
  <2>4. mixed \subseteq mixed' /\ (scenSession \notin mixed' => scenSession = a.session)
    BY <2>2, MixingGrows
  <2>5. WellSaid
    <3>1. CASE Still
      BY <1>1, <1>2, <2>2, <2>4, <3>1, StillIsWellSaid
    <3>2. CASE Matches(a.key) /\ Advance("fallback")
      <4>1. current # 0 /\ a.key = Stages[current]
        BY <3>2 DEF Matches
      <4>2. ASSUME Live, Live', scenSession = drvSession
            PROVE  Decided(Stages[current], OutcomeNoted("fallback"))
        <5>1. a.session = drvSession
          BY <1>2, <2>4, <4>2 DEF Live
        <5> QED
          BY <2>3, <4>1, <4>2, <5>1 DEF TruthInv, Evidence, Permitting, OutcomeNoted
      <4> QED
        BY <1>2, <2>2, <3>2, <4>1, <4>2, AdvanceIsWellSaid
    <3> QED
      BY <2>2, <3>1, <3>2 DEF ScenarioOnBlocked
  <2> QED
    BY <1>5, <2>2, <2>3, <2>4, <2>5, ScenarioTells
<1>6. CASE ScenarioSteps(ScenarioTimer)
  <2>1. /\ announced' = announced /\ authorized' = authorized /\ blocked' = blocked
        /\ mixed' = mixed
    BY <1>6 DEF ScenarioSteps, ScenarioTimer
  <2>2. WellSaid
    <3>1. CASE ScenarioTick
      BY <1>2, <2>1, <3>1, TickIsWellSaid
    <3>2. CASE DelayPasses /\ (StartupDelay => announced["driver"] = 0)
      <4>1. Silent /\ UNCHANGED <<scenSession, nextStage, current>>
        BY <3>2 DEF DelayPasses
      <4>2. ~(scenSession > drvSession)
        <5>1. scenSession > drvSession => StartupDelay
          BY DEF TruthInv, Orderly, StartupDelay
        <5> QED
          BY <1>1, <3>2, <5>1
      <4> QED
        BY <1>1, <1>2, <2>1, <4>1, <4>2, SilenceIsWellSaid
    <3> QED
      BY <1>6, <3>1, <3>2 DEF ScenarioSteps, ScenarioTimer
  <2> QED
    BY <1>6, <2>1, <2>2, ScenarioTells
<1> QED
  BY <1>3, <1>4, <1>5, <1>6 DEF ScenarioMoves

-----------------------------------------------------------------------------
(***************************************************************************)
(* The driver.                                                             *)
(***************************************************************************)
LEMMA DriverSessionKeepsTruth ==
    ASSUME Ground, TruthInv, DriverSteps(DriverSession)
    PROVE  TruthInv'
<1>1. /\ announced["driver"] = session /\ announced' = [announced EXCEPT !["driver"] = 0]
      /\ DriverOnSession(session) /\ drvOut' = Nothing
      /\ announced \in [Reader -> Session]
  BY GroundFacts DEF DriverSteps, DriverSession, DriverOnSession
<1>2. /\ answersSent' = answersSent
      /\ UNCHANGED <<scenVars, mode, session, question, waiting, asks, requests, authorized,
                     blocked, prompt, statuses, summaries, mixed, strategy>>
  BY <1>1 DEF DriverSteps, DriverSession, DriverOnSession, consentVars, history
<1>3. UNCHANGED <<scenSession, nextStage, current, due>>
  BY <1>2 DEF scenVars
<1>4. announced'["driver"] = 0 /\ announced'["scenario"] = announced["scenario"]
  BY <1>1 DEF Reader
<1>5. /\ session \in Nat /\ drvSession \in Nat /\ drvSession <= session /\ scenSession \in Nat
      /\ scenSession <= session
  BY GroundFacts DEF TruthInv, Orderly
<1>6. /\ \A m \in Range(requests) : m.session \in Nat /\ m.session <= drvSession
      /\ \A m \in Range(answersSent) : m.session \in Nat /\ m.session <= drvSession
      /\ \A m \in Range(statuses) : m.session \in Nat
  <2>1. \A m \in Range(requests) : m \in Note
    BY GroundFacts, RangeOfSeq
  <2>2. \A m \in Range(answersSent) : m \in Answer
    BY GroundFacts, RangeOfSeq
  <2>3. \A m \in Range(statuses) : m \in StatusMessage
    BY GroundFacts, RangeOfSeq
  <2> QED
    BY <2>1, <2>2, <2>3 DEF Note, Answer, StatusMessage, Session, TruthInv, Orderly
<1>7. CASE session = drvSession
  <2>1. UNCHANGED <<drvSession, scheduled, taken, decisions, results, drvComplete>>
    BY <1>1, <1>7 DEF DriverOnSession, KnownSession
  <2>2. Orderly' /\ Questioned'
    BY <1>2, <1>3, <1>4, <1>7, <2>1 DEF TruthInv, Orderly, Questioned
  <2>3. UntoldIsEmpty'
    BY <1>2, <2>1 DEF TruthInv, UntoldIsEmpty, Ahead, Opened
  <2>4. Evidence'
    <3> SUFFICES ASSUME Live' PROVE (InOrder /\ Asking /\ Answering /\ Permitting /\ Telling /\ Completing)'
      BY DEF Evidence
    <3>1. InOrder /\ Asking /\ Answering /\ Permitting /\ Telling /\ Completing
      BY <1>2, <2>1 DEF Live, TruthInv, Evidence
    <3>2. InOrder' /\ Telling' /\ Completing'
      BY <1>2, <1>3, <2>1, <3>1, OrderStays, TellingStays
    <3>3. Asking' /\ Answering' /\ Permitting'
      BY <1>2, <2>1, <3>1 DEF Asking, Answering, Permitting, SaidBefore, Decided, Reached
    <3> QED
      BY <3>2, <3>3
  <2>5. ByStrategy' /\ SummaryTellsTheTrial'
    BY <1>2, SummariesStay DEF TruthInv
  <2> QED
    BY <2>2, <2>3, <2>4, <2>5 DEF TruthInv
<1>8. CASE session # drvSession
  <2>1. /\ drvSession' = session /\ scheduled' = Nothing /\ taken' = {} /\ decisions' = <<>>
        /\ results' = NoResults /\ drvComplete' = FALSE
    BY <1>1, <1>8 DEF DriverOnSession, KnownSession, StartsAfresh
  <2>2. session > drvSession
    BY <1>5, <1>8
  <2>3. Orderly'
    <3>1. \A m \in Range(requests) : m.session <= session
      BY <1>5, <1>6, <2>2
    <3>2. \A m \in Range(answersSent) : m.session <= session
      BY <1>5, <1>6, <2>2
    <3>3. \A m \in Range(statuses) : m.session > session => m.status = "ready"
      BY <1>5, <1>6, <2>2 DEF TruthInv, Orderly
    <3>4. ~(scenSession > session)
      BY <1>5
    <3> QED
      BY <1>2, <1>3, <1>4, <2>1, <3>1, <3>2, <3>3, <3>4 DEF TruthInv, Orderly
  <2>4. Questioned'
    BY <1>2 DEF TruthInv, Questioned
  <2>5. UntoldIsEmpty'
    <3>1. \A m \in Range(asks) : m.session \in Nat
      <4>1. \A m \in Range(asks) : m \in Note
        BY GroundFacts, RangeOfSeq
      <4> QED
        BY <4>1 DEF Note, Session
    <3>2. \A m \in Range(authorized) : m.session \in Nat
      <4>1. \A m \in Range(authorized) : m \in Note
        BY GroundFacts, RangeOfSeq
      <4> QED
        BY <4>1 DEF Note, Session
    <3>3. \A m \in Range(blocked) : m.session \in Nat
      <4>1. \A m \in Range(blocked) : m \in Note
        BY GroundFacts, RangeOfSeq
      <4> QED
        BY <4>1 DEF Note, Session
    <3>4. prompt.session \in Nat
      BY GroundFacts DEF Prompt, Session
    <3>5. \A s \in Nat : Ahead(s)' => Ahead(s)
      BY <1>2, <1>5, <2>1, <2>2 DEF Ahead
    <3>6. ~Ahead(session)'
      BY <1>2, <1>5, <2>1 DEF Ahead
    <3> QED
      BY <1>2, <3>1, <3>2, <3>3, <3>4, <3>5, <3>6 DEF TruthInv, UntoldIsEmpty
  <2>6. Evidence'
    <3> SUFFICES ASSUME Live' PROVE (InOrder /\ Asking /\ Answering /\ Permitting /\ Telling /\ Completing)'
      BY DEF Evidence
    <3>1. Ahead(session)
      BY <1>2, <2>1, <2>2 DEF Live, Ahead
    <3>2. Len(decisions') = 0 /\ DOMAIN decisions' = {}
      BY <2>1
    <3>3. InOrder'
      BY <3>2, StagesAreCapabilities DEF InOrder
    <3>4. Asking'
      <4>1. prompt.session = session => mode = "static" /\ prompt.key = AllTogether
        BY <3>1 DEF TruthInv, UntoldIsEmpty
      <4>2. \A m \in Range(asks) : m.session # session
        BY <3>1 DEF TruthInv, UntoldIsEmpty
      <4>3. \A m \in Range(requests) : m.session # session
        BY <1>5, <1>6, <2>2
      <4> QED
        BY <1>2, <2>1, <4>1, <4>2, <4>3 DEF Asking, Reached
    <3>5. Answering'
      <4>1. \A m \in Range(answersSent) : m.session # session
        BY <1>5, <1>6, <2>2
      <4>2. \A c \in Capability : question[c] \in {"none", "open"}
        BY <3>1 DEF TruthInv, UntoldIsEmpty, Opened
      <4> QED
        BY <1>2, <2>1, <4>1, <4>2 DEF Answering
    <3>6. Permitting'
      <4>1. \A m \in Range(authorized) : m.session # session
        BY <3>1 DEF TruthInv, UntoldIsEmpty
      <4>2. \A m \in Range(blocked) : m.session # session
        BY <3>1 DEF TruthInv, UntoldIsEmpty
      <4> QED
        BY <1>2, <2>1, <4>1, <4>2 DEF Permitting
    <3>7. \A m \in Range(statuses) : m.session = session => m.status = "ready"
      BY <2>2 DEF TruthInv, Orderly
    <3>8. Telling'
      <4>1. \A i \in DOMAIN Stages : results'[i] = "none"
        BY <2>1, StagesDiffer DEF NoResults
      <4> QED
        BY <1>2, <2>1, <3>7, <4>1 DEF Telling, IsOutcome
    <3>9. Completing'
      <4>1. scenSession = session => nextStage = 0
        BY <2>2 DEF TruthInv, Orderly
      <4>2. \A k \in DOMAIN statuses : statuses[k] \in Range(statuses)
        BY DEF Range
      <4>3. \A k \in DOMAIN statuses : statuses[k].session = session => statuses[k].status # "complete"
        BY <3>7, <4>2
      <4>4. 1 .. 0 = {}
        OBVIOUS
      <4> QED
        BY <1>2, <1>3, <2>1, <4>1, <4>3, <4>4 DEF Completing
    <3> QED
      BY <3>3, <3>4, <3>5, <3>6, <3>8, <3>9
  <2>7. ByStrategy' /\ SummaryTellsTheTrial'
    BY <1>2, SummariesStay DEF TruthInv
  <2> QED
    BY <2>3, <2>4, <2>5, <2>6, <2>7 DEF TruthInv
<1> QED
  BY <1>7, <1>8

LEMMA DriverPromptKeepsTruth ==
    ASSUME Ground, TruthInv, DriverSteps(DriverPrompt)
    PROVE  TruthInv'
<1>1. PICK p : p = prompt
  OBVIOUS
<1>2. /\ prompt' = NoPrompt /\ DriverOnPrompt(p) /\ drvOut' = Nothing
  BY <1>1 DEF DriverSteps, DriverPrompt, DriverOnPrompt
<1>3. /\ answersSent' = answersSent
      /\ UNCHANGED <<scenVars, mode, session, question, waiting, asks, requests, authorized,
                     blocked, announced, statuses, summaries, mixed, strategy, drvSession,
                     results, drvComplete>>
  BY <1>2 DEF DriverSteps, DriverPrompt, DriverOnPrompt, consentVars
<1>4. UNCHANGED <<scenSession, nextStage, current, due>>
  BY <1>3 DEF scenVars
<1>5. /\ p \in Prompt /\ p.request = <<p.session, p.key>> /\ decisions \in Seq(Decision)
      /\ drvSession \in Nat /\ p.key \in Key
  BY <1>1, GroundFacts DEF TruthInv, Questioned, Prompt
<1>6. PICK granted \in BOOLEAN : granted = SyntheticDecision(p.key)
  BY DEF SyntheticDecision
<1>7. PICK e : e = [key |-> p.key, granted |-> granted]
  OBVIOUS
<1>8. e \in Decision /\ e.key = p.key /\ e.granted = granted
  BY <1>5, <1>7 DEF Decision
<1>9. \/ /\ ~Answers(p) /\ UNCHANGED <<scheduled, taken, decisions>>
      \/ /\ Answers(p)
         /\ scheduled' = [session |-> p.session, key |-> p.key, granted |-> granted]
         /\ taken' = taken \cup {p.request}
         /\ decisions' = Append(decisions, e)
  BY <1>2, <1>6, <1>7 DEF DriverOnPrompt
<1>10. Grown
  BY <1>3, <1>8, <1>9 DEF Grown
<1>11. /\ \A c, o : Decided(c, o) => Decided(c, o)'
       /\ \A m : SaidBefore(m) => SaidBefore(m)'
       /\ \A key : Reached(key) => Reached(key)'
  BY <1>5, <1>10, WhatIsDecidedStays
<1>12. Answers(p) => p.session = drvSession /\ p.request \notin taken
  BY DEF Answers
<1>13. Orderly'
  <2>1. scheduled' # Nothing => scheduled'.session = drvSession
    BY <1>9, <1>12 DEF TruthInv, Orderly
  <2> QED
    BY <1>3, <1>4, <2>1 DEF TruthInv, Orderly
<1>14. Questioned'
  BY <1>2, <1>3 DEF TruthInv, Questioned, NoPrompt
<1>15. UntoldIsEmpty'
  <2>1. \A s : Ahead(s)' <=> Ahead(s)
    BY <1>3 DEF Ahead
  <2>2. ~Ahead(prompt'.session)
    BY <1>2, <1>5 DEF NoPrompt, Ahead
  <2>3. Opened' = Opened
    BY <1>3 DEF Opened
  <2> QED
    BY <1>3, <2>1, <2>2, <2>3 DEF TruthInv, UntoldIsEmpty
<1>16. Evidence'
  <2> SUFFICES ASSUME Live' PROVE (InOrder /\ Asking /\ Answering /\ Permitting /\ Telling /\ Completing)'
    BY DEF Evidence
  <2>1. InOrder /\ Asking /\ Answering /\ Permitting /\ Telling /\ Completing /\ Live
    BY <1>3 DEF Live, TruthInv, Evidence
  <2>2. prompt'.session # drvSession
    BY <1>2, <2>1 DEF NoPrompt, Live
  <2>3. Asking' /\ Permitting' /\ Telling'
    BY <1>3, <1>11, <2>1, <2>2 DEF Asking, Permitting, Telling
  <2>4. Completing'
    BY <1>3, <1>4, <2>1 DEF Completing, Noted
  <2>5. CASE ~Answers(p)
    <3>1. UNCHANGED <<scheduled, taken, decisions>>
      BY <1>9, <2>5
    <3>2. InOrder'
      BY <1>3, <2>1, <3>1, OrderStays
    <3>3. Answering'
      BY <1>3, <1>11, <2>1, <3>1 DEF Answering
    <3> QED
      BY <2>3, <2>4, <3>2, <3>3
  <2>6. CASE Answers(p)
    <3>1. /\ scheduled' = [session |-> p.session, key |-> p.key, granted |-> granted]
          /\ taken' = taken \cup {p.request} /\ decisions' = Append(decisions, e)
      BY <1>9, <2>6
    <3>2. PICK n \in Nat : n = Len(decisions) /\ DOMAIN decisions = 1 .. n
      BY <1>5, LenProperties
    <3>3. /\ Len(decisions') = n + 1 /\ DOMAIN decisions' = 1 .. n + 1
          /\ decisions'[n + 1] = e /\ \A i \in 1 .. n : decisions'[i] = decisions[i]
      BY <1>5, <1>8, <3>1, <3>2, AppendProperties
    <3>4. Reached(p.key) /\ <<drvSession, p.key>> \notin taken
      BY <1>1, <1>5, <1>12, <2>1, <2>6 DEF Asking
    <3>5. \A i \in 1 .. n : decisions[i].key # p.key
      BY <2>1, <3>2, <3>4 DEF InOrder
    <3>6. /\ mode = "static" => n = 0 /\ p.key = AllTogether
          /\ mode = "dynamic" => n + 1 \in DOMAIN Stages /\ p.key = Stages[n + 1]
      <4>1. CASE mode = "static"
        <5>1. p.key = AllTogether /\ n <= 1
          BY <2>1, <3>2, <3>4, <4>1 DEF Reached, InOrder
        <5>2. n # 1
          <6> SUFFICES ASSUME n = 1 PROVE FALSE
            OBVIOUS
          <6>1. 1 \in 1 .. n /\ 1 \in DOMAIN decisions
            BY <3>2
          <6>2. decisions[1].key = AllTogether
            BY <2>1, <4>1, <6>1 DEF InOrder
          <6> QED
            BY <3>5, <5>1, <6>1, <6>2
        <5> QED
          BY <4>1, <5>1, <5>2
      <4>2. CASE mode = "dynamic"
        <5>1. PICK i \in DOMAIN Stages : p.key = Stages[i] /\ i <= n + 1
          BY <3>2, <3>4, <4>2 DEF Reached
        <5>2. i \in Nat \ {0}
          BY StagesAreCapabilities
        <5>3. i \notin 1 .. n
          <6> SUFFICES ASSUME i \in 1 .. n PROVE FALSE
            OBVIOUS
          <6>1. decisions[i].key = Stages[i]
            BY <2>1, <3>2, <4>2 DEF InOrder
          <6> QED
            BY <3>5, <5>1, <6>1
        <5>4. i = n + 1
          BY <3>2, <5>1, <5>2, <5>3
        <5> QED
          BY <4>2, <5>1, <5>4
      <4> QED
        BY <4>1, <4>2, GroundFacts
    <3>7. OutcomeOf(e.granted) = Wanted(e.key)
      BY <1>6, <1>8 DEF Wanted
    <3>8. \A key : Wanted(key)' = Wanted(key)
      BY <1>3, StrategyStays
    <3>9. InOrder'
      <4>1. mode' = "static" => Len(decisions') <= 1
        BY <1>3, <3>3, <3>6
      <4>2. mode' = "dynamic" => Len(decisions') <= Len(Stages)
        <5>1. PICK l \in Nat : l = Len(Stages) /\ DOMAIN Stages = 1 .. l
          BY StagesAreCapabilities
        <5> QED
          BY <1>3, <3>2, <3>3, <3>6, <5>1
      <4>3. ASSUME NEW i \in DOMAIN decisions'
            PROVE  /\ decisions'[i].key = IF mode' = "static" THEN AllTogether ELSE Stages[i]
                   /\ OutcomeOf(decisions'[i].granted) = Wanted(decisions'[i].key)
                   /\ <<drvSession, decisions'[i].key>> \in taken'
        <5>1. CASE i \in 1 .. n
          BY <1>3, <2>1, <3>1, <3>2, <3>3, <5>1 DEF InOrder
        <5>2. CASE i = n + 1
          <6>1. decisions'[i] = e /\ e.key = p.key
            BY <1>8, <3>3, <5>2
          <6>2. p.request = <<drvSession, p.key>>
            BY <1>5, <1>12, <2>6
          <6>3. e.key = IF mode' = "static" THEN AllTogether ELSE Stages[i]
            BY <1>3, <3>6, <5>2, <6>1, GroundFacts
          <6> QED
            BY <3>1, <3>7, <6>1, <6>2, <6>3
        <5> QED
          BY <3>2, <3>3, <4>3, <5>1, <5>2
      <4> QED
        BY <1>3, <3>8, <4>1, <4>2, <4>3 DEF InOrder
    <3>10. SaidBefore(scheduled)'
      <4>1. n + 1 \in DOMAIN decisions' /\ decisions'[n + 1].key = p.key
            /\ decisions'[n + 1].granted = granted
        BY <1>8, <3>2, <3>3
      <4>2. scheduled'.key = p.key /\ scheduled'.granted = granted
        BY <3>1
      <4> QED
        BY <4>1, <4>2 DEF SaidBefore
    <3>11. Answering'
      BY <1>3, <1>11, <2>1, <3>10 DEF Answering
    <3> QED
      BY <2>3, <2>4, <3>9, <3>11
  <2> QED
    BY <2>5, <2>6
<1>17. ByStrategy' /\ SummaryTellsTheTrial'
  BY <1>3, SummariesStay DEF TruthInv
<1> QED
  BY <1>13, <1>14, <1>15, <1>16, <1>17 DEF TruthInv

LEMMA OutcomesAreNews ==
    /\ \A status : OutcomeNoted(status) \in {"success", "fallback"}
    /\ \A g : OutcomeOf(g) \in {"success", "fallback"}
BY DEF OutcomeNoted, OutcomeOf

LEMMA DriverStatusKeepsTruth ==
    ASSUME Ground, TruthInv, DriverSteps(DriverStatus)
    PROVE  TruthInv'
<1>1. PICK m : m = Head(statuses)
  OBVIOUS
<1>2. /\ DriverOnStatus(m) /\ Mixes(drvSession, m.session) /\ drvOut' = Nothing
      /\ statuses # <<>> /\ statuses' = Tail(statuses)
      /\ UNCHANGED <<announced, prompt, summaries, missed>>
  BY <1>1 DEF DriverSteps, DriverStatus, DriverOnStatus
<1>3. /\ answersSent' = answersSent
      /\ UNCHANGED <<scenVars, mode, session, question, waiting, asks, requests, authorized,
                     blocked, announced, prompt, summaries, strategy, drvSession, scheduled,
                     taken, decisions>>
  BY <1>2 DEF DriverSteps, DriverOnStatus, consentVars
<1>4. UNCHANGED <<scenSession, nextStage, current, due>>
  BY <1>3 DEF scenVars
<1>5. statuses \in Seq(StatusMessage) /\ results \in Results
  BY GroundFacts
<1>6. PICK l \in Nat \ {0} : l = Len(statuses) /\ DOMAIN statuses = 1 .. l
  BY <1>2, <1>5, LenProperties, EmptySeq
<1>7. /\ Len(statuses') = l - 1 /\ DOMAIN statuses' = 1 .. l - 1 /\ m = statuses[1]
      /\ \A k \in 1 .. l - 1 : statuses'[k] = statuses[k + 1]
  BY <1>1, <1>2, <1>5, <1>6
<1>8. /\ m \in Range(statuses) /\ m \in StatusMessage /\ Range(statuses') \subseteq Range(statuses)
  BY <1>1, <1>2, <1>5, TakenFrom
<1>9. mixed \subseteq mixed' /\ (drvSession \notin mixed' => drvSession = m.session)
  BY <1>2, MixingGrows
<1>10. results' = IF IsOutcome(m) THEN [results EXCEPT ![m.stage] = OutcomeNoted(m.status)]
                                  ELSE results
  BY <1>2 DEF DriverOnStatus, IsOutcome
<1>11. Orderly' /\ Questioned'
  BY <1>3, <1>4, <1>8 DEF TruthInv, Orderly, Questioned
<1>12. UntoldIsEmpty'
  <2>1. \A s : Ahead(s)' => Ahead(s)
    BY <1>3, <1>9 DEF Ahead
  <2>2. Opened' = Opened
    BY <1>3 DEF Opened
  <2> QED
    BY <1>3, <2>1, <2>2 DEF TruthInv, UntoldIsEmpty
<1>13. Evidence'
  <2> SUFFICES ASSUME Live' PROVE (InOrder /\ Asking /\ Answering /\ Permitting /\ Telling /\ Completing)'
    BY DEF Evidence
  <2>1. InOrder /\ Asking /\ Answering /\ Permitting /\ Telling /\ Completing
    BY <1>3, <1>9 DEF Live, TruthInv, Evidence
  <2>2. m.session = drvSession
    BY <1>3, <1>9 DEF Live
  <2>3. InOrder'
    BY <1>3, <2>1, OrderStays
  <2>4. Asking' /\ Answering' /\ Permitting'
    BY <1>3, <2>1 DEF Asking, Answering, Permitting, SaidBefore, Decided, Reached
  <2>5. IsOutcome(m) => m.stage \in DOMAIN Stages /\ Decided(Stages[m.stage], OutcomeNoted(m.status))
    BY <1>8, <2>1, <2>2 DEF Telling
  <2>6. \A i \in DOMAIN Stages :
          \/ results'[i] = results[i] /\ ~(IsOutcome(m) /\ m.stage = i)
          \/ IsOutcome(m) /\ m.stage = i /\ results'[i] = OutcomeNoted(m.status)
    BY <1>5, <1>10 DEF Results
  <2>7. \A c, o : Decided(c, o)' <=> Decided(c, o)
    BY <1>3 DEF Decided
  <2>8. Telling'
    <3>1. \A i \in DOMAIN Stages : results'[i] # "none" => Decided(Stages[i], results'[i])
      BY <2>1, <2>5, <2>6 DEF Telling
    <3> QED
      BY <1>3, <1>8, <2>1, <2>7, <3>1 DEF Telling
  <2>9. \A i \in DOMAIN Stages : results[i] # "none" => results'[i] # "none"
    BY <2>6, OutcomesAreNews
  <2>10. ASSUME NEW i \in DOMAIN Stages, NEW n \in Nat, Noted(i, n)
         PROVE  Noted(i, n - 1)'
    <3>1. CASE results[i] # "none"
      BY <2>9, <3>1 DEF Noted
    <3>2. CASE \E k \in DOMAIN statuses : /\ k <= n /\ statuses[k].session = drvSession
                                          /\ IsOutcome(statuses[k]) /\ statuses[k].stage = i
      <4>1. PICK k \in 1 .. l : /\ k <= n /\ statuses[k].session = drvSession
                                /\ IsOutcome(statuses[k]) /\ statuses[k].stage = i
        BY <1>6, <3>2
      <4>2. CASE k = 1
        <5>1. results'[i] # "none"
          BY <1>7, <2>6, <4>1, <4>2, OutcomesAreNews
        <5> QED
          BY <5>1 DEF Noted
      <4>3. CASE k # 1
        <5>1. PICK j \in 1 .. l - 1 : j = k - 1
          BY <4>1, <4>3
        <5>2. j \in DOMAIN statuses' /\ j <= n - 1 /\ statuses'[j] = statuses[k]
          BY <1>7, <4>1, <5>1
        <5> QED
          BY <1>3, <4>1, <5>2 DEF Noted
      <4> QED
        BY <4>2, <4>3
    <3> QED
      BY <2>10, <3>1, <3>2 DEF Noted
  <2>11. Completing'
    <3>1. ASSUME scenSession = drvSession, NEW i \in 1 .. nextStage
          PROVE  Noted(i, Len(statuses))'
      <4>1. Noted(i, l)
        BY <1>6, <2>1, <3>1 DEF Completing
      <4>2. i \in DOMAIN Stages
        BY GroundFacts, StagesAreCapabilities
      <4>3. Noted(i, l - 1)'
        BY <2>10, <4>1, <4>2
      <4> QED
        BY <1>7, <4>3 DEF Noted
    <3>2. ASSUME NEW k \in 1 .. l - 1, statuses'[k].session = drvSession,
                 statuses'[k].status = "complete", NEW i \in DOMAIN Stages
          PROVE  Noted(i, k - 1)'
      <4>1. PICK j \in 1 .. l : j = k + 1
        BY <1>6
      <4>2. statuses[j].session = drvSession /\ statuses[j].status = "complete" /\ j \in DOMAIN statuses
        BY <1>6, <1>7, <3>2, <4>1
      <4>3. Noted(i, j - 1)
        BY <2>1, <3>2, <4>2 DEF Completing
      <4>4. j - 1 = k /\ k \in Nat
        BY <4>1
      <4>5. Noted(i, k)
        BY <4>3, <4>4
      <4> QED
        BY <2>10, <3>2, <4>4, <4>5
    <3>3. ASSUME drvComplete', NEW i \in DOMAIN Stages
          PROVE  results'[i] # "none"
      <4>1. CASE drvComplete
        BY <2>1, <2>9, <3>3, <4>1 DEF Completing
      <4>2. CASE m.status = "complete"
        <5>1. 1 \in DOMAIN statuses
          BY <1>6
        <5>2. Noted(i, 1 - 1)
          BY <1>7, <2>1, <2>2, <3>3, <4>2, <5>1 DEF Completing
        <5>3. ~ \E k \in DOMAIN statuses : k <= 1 - 1
          BY <1>6
        <5>4. results[i] # "none"
          BY <5>2, <5>3 DEF Noted
        <5> QED
          BY <2>9, <3>3, <5>4
      <4>3. drvComplete \/ m.status = "complete"
        BY <1>2, <3>3, Zenon DEF DriverOnStatus
      <4> QED
        BY <4>1, <4>2, <4>3
    <3> QED
      BY <1>3, <1>4, <1>7, <3>1, <3>2, <3>3 DEF Completing
  <2> QED
    BY <2>3, <2>4, <2>8, <2>11
<1>14. ByStrategy' /\ SummaryTellsTheTrial'
  BY <1>3, <1>9, SummariesStay DEF TruthInv
<1> QED
  BY <1>11, <1>12, <1>13, <1>14 DEF TruthInv

LEMMA DriverDecidesKeepsTruth ==
    ASSUME Ground, TruthInv, DriverSteps(DriverTimer), DriverDecides, UNCHANGED summaries
    PROVE  TruthInv'
<1>1. /\ scheduled # Nothing /\ scheduled' = Nothing
      /\ answersSent' = Append(answersSent, scheduled)
      /\ UNCHANGED <<scenVars, mode, session, question, waiting, asks, requests, authorized,
                     blocked, announced, prompt, statuses, mixed, strategy, drvSession, taken,
                     decisions, results, drvComplete>>
  BY DEF DriverSteps, DriverTimer, DriverDecides, consentVars, history
<1>2. UNCHANGED <<scenSession, nextStage, current, due>>
  BY <1>1 DEF scenVars
<1>3. PICK a : a = scheduled
  OBVIOUS
<1>4. a.session = drvSession /\ a \in Answer /\ drvSession \in Nat
  BY <1>1, <1>3, GroundFacts DEF TruthInv, Orderly, Ground, TypesInv, TrialTypeOK, DriverTypeOK
<1>5. Range(answersSent') = Range(answersSent) \cup {a}
  BY <1>1, <1>3, <1>4, GroundFacts, PutInto
<1>6. Orderly' /\ Questioned'
  BY <1>1, <1>2, <1>4, <1>5 DEF TruthInv, Orderly, Questioned
<1>7. UntoldIsEmpty'
  BY <1>1 DEF TruthInv, UntoldIsEmpty, Ahead, Opened
<1>8. Evidence'
  <2> SUFFICES ASSUME Live' PROVE (InOrder /\ Asking /\ Answering /\ Permitting /\ Telling /\ Completing)'
    BY DEF Evidence
  <2>1. InOrder /\ Asking /\ Answering /\ Permitting /\ Telling /\ Completing
    BY <1>1 DEF Live, TruthInv, Evidence
  <2>2. InOrder' /\ Telling' /\ Completing'
    BY <1>1, <1>2, <2>1, OrderStays, TellingStays
  <2>3. Asking' /\ Permitting'
    BY <1>1, <2>1 DEF Asking, Permitting, Decided, Reached
  <2>4. SaidBefore(a)
    BY <1>1, <1>3, <2>1 DEF Answering
  <2>5. /\ \A c, o : Decided(c, o)' <=> Decided(c, o)
        /\ \A x : SaidBefore(x)' <=> SaidBefore(x)
    BY <1>1 DEF Decided, SaidBefore
  <2>6. Answering'
    BY <1>1, <1>5, <2>1, <2>4, <2>5 DEF Answering
  <2> QED
    BY <2>2, <2>3, <2>6
<1>9. ByStrategy' /\ SummaryTellsTheTrial'
  BY <1>1, SummariesStay DEF TruthInv
<1> QED
  BY <1>6, <1>7, <1>8, <1>9 DEF TruthInv


\* When the scenario is complete, what the driver holds tells the trial.
LEMMA WhatIsWritten ==
    ASSUME Stages # <<>>, Ground, Live, Evidence, drvComplete
    PROVE  /\ [i \in DOMAIN decisions |-> decisions[i].key]
                 = IF mode = "static" THEN <<AllTogether>> ELSE Stages
           /\ \A i \in DOMAIN Stages :
                 results[i] = OutcomeOf(IF mode = "static" THEN decisions[1].granted
                                                           ELSE decisions[i].granted)
           /\ \A i \in DOMAIN decisions :
                 OutcomeOf(decisions[i].granted) = Wanted(decisions[i].key)
<1>1. InOrder /\ Telling /\ Completing
  BY DEF Evidence
<1>2. \A i \in DOMAIN Stages : Decided(Stages[i], results[i])
  BY <1>1 DEF Telling, Completing
<1>3. PICK n \in Nat : n = Len(decisions) /\ DOMAIN decisions = 1 .. n
  BY GroundFacts, LenProperties
<1>4. PICK l \in Nat : l = Len(Stages) /\ DOMAIN Stages = 1 .. l
  BY StagesAreCapabilities
<1>5. \A i \in DOMAIN decisions : OutcomeOf(decisions[i].granted) = Wanted(decisions[i].key)
  BY <1>1 DEF InOrder
<1>6. CASE mode = "static"
  <2>1. l # 0
    <3>1. Stages \in Seq(Capability)
      BY ScenarioAssumption DEF Capability
    <3> QED
      BY <1>4, <3>1, EmptySeq
  <2>2. 1 \in DOMAIN Stages
    BY <1>4, <2>1
  <2>3. \E k \in DOMAIN decisions : TRUE
    BY <1>2, <2>2 DEF Decided
  <2>4. n = 1
    BY <1>1, <1>3, <1>6, <2>3 DEF InOrder
  <2>5. \A k \in DOMAIN decisions : k = 1
    BY <1>3, <2>4
  <2>6. decisions[1].key = AllTogether
    BY <1>1, <1>3, <1>6, <2>4 DEF InOrder
  <2>7. \A i \in DOMAIN Stages : results[i] = OutcomeOf(decisions[1].granted)
    BY <1>2, <2>5 DEF Decided
  <2>8. [i \in DOMAIN decisions |-> decisions[i].key] = <<AllTogether>>
    <3>1. DOMAIN decisions = 1 .. 1
      BY <1>3, <2>4
    <3> QED
      BY <2>6, <3>1
  <2> QED
    BY <1>5, <1>6, <2>7, <2>8
<1>7. CASE mode = "dynamic"
  <2>1. \A i \in DOMAIN Stages :
           i \in DOMAIN decisions /\ OutcomeOf(decisions[i].granted) = results[i]
    BY <1>1, <1>2, <1>7, DecidedInTurn
  <2>2. n <= l
    BY <1>1, <1>3, <1>4, <1>7 DEF InOrder
  <2>3. DOMAIN decisions = DOMAIN Stages
    BY <1>3, <1>4, <2>1, <2>2
  <2>4. \A i \in DOMAIN Stages : decisions[i].key = Stages[i]
    BY <1>1, <1>7, <2>3 DEF InOrder
  <2>5. [i \in DOMAIN decisions |-> decisions[i].key] = Stages
    <3>1. Stages = [i \in DOMAIN Stages |-> Stages[i]]
      BY ScenarioAssumption
    <3> QED
      BY <2>3, <2>4, <3>1
  <2> QED
    BY <1>5, <1>7, <2>1, <2>5
<1> QED
  BY <1>6, <1>7, GroundFacts

LEMMA DriverWritesKeepsTruth ==
    ASSUME Stages # <<>>, Ground, TruthInv, DriverSteps(DriverTimer), DriverWrites,
           summaries' = [summaries EXCEPT ![drvSession] =
                [decisions |-> decisions, results |-> results, written |-> @.written + 1]]
    PROVE  TruthInv'
<1>1. /\ drvComplete /\ drvOut' = Nothing /\ answersSent' = answersSent
      /\ UNCHANGED <<scenVars, mode, session, question, waiting, asks, requests, authorized,
                     blocked, announced, prompt, statuses, mixed, strategy, drvSession, scheduled,
                     taken, decisions, results, drvComplete>>
  BY DEF DriverSteps, DriverTimer, DriverWrites, SummaryDue, consentVars, history
<1>2. UNCHANGED <<scenSession, nextStage, current, due>>
  BY <1>1 DEF scenVars
<1>3. Orderly' /\ Questioned'
  BY <1>1, <1>2 DEF TruthInv, Orderly, Questioned
<1>4. UntoldIsEmpty'
  BY <1>1 DEF TruthInv, UntoldIsEmpty, Ahead, Opened
<1>5. Evidence'
  <2> SUFFICES ASSUME Live' PROVE (InOrder /\ Asking /\ Answering /\ Permitting /\ Telling /\ Completing)'
    BY DEF Evidence
  <2>1. InOrder /\ Asking /\ Answering /\ Permitting /\ Telling /\ Completing
    BY <1>1 DEF Live, TruthInv, Evidence
  <2>2. InOrder' /\ Telling' /\ Completing'
    BY <1>1, <1>2, <2>1, OrderStays, TellingStays
  <2> QED
    BY <1>1, <2>1, <2>2 DEF Asking, Answering, Permitting, SaidBefore, Decided, Reached
<1>6. summaries \in [1 .. MaxSession -> Summary]
  BY DEF Ground, TypesInv, TrialTypeOK
<1>7. \A s \in 1 .. MaxSession : s # drvSession => summaries'[s] = summaries[s]
  BY <1>6
<1>8. \A s \in 1 .. MaxSession : s = drvSession =>
          summaries'[s].decisions = decisions /\ summaries'[s].results = results
  BY <1>6
<1>9. \A s \in 1 .. MaxSession : s = drvSession /\ s \notin mixed => Live
  <2>1. \A s \in 1 .. MaxSession : s # 0
    BY TrialAssumption
  <2> QED
    BY <2>1 DEF Live
<1>10. \A s \in Written' : s \in 1 .. MaxSession /\ (s # drvSession => s \in Written)
  BY <1>7 DEF Written
<1>11. Evidence
  BY DEF TruthInv
<1>12. ByStrategy'
  <2> SUFFICES ASSUME NEW s \in Written', s \notin mixed',
                      NEW i \in DOMAIN summaries'[s].decisions
               PROVE  (OutcomeOf(summaries[s].decisions[i].granted)
                         = Wanted(summaries[s].decisions[i].key))'
    BY DEF ByStrategy
  <2>1. strategy' = strategy
    BY <1>1
  <2>2. CASE s = drvSession
    <3>1. Live /\ summaries'[s].decisions = decisions
      BY <1>1, <1>8, <1>9, <1>10, <2>2
    <3>2. OutcomeOf(decisions[i].granted) = Wanted(decisions[i].key)
      BY <1>1, <1>11, <3>1, WhatIsWritten
    <3> QED
      BY <2>1, <3>1, <3>2 DEF Wanted, SyntheticDecision
  <2>3. CASE s # drvSession
    <3>1. s \in Written \ mixed /\ summaries'[s] = summaries[s]
      BY <1>1, <1>7, <1>10, <2>3
    <3>2. OutcomeOf(summaries[s].decisions[i].granted) = Wanted(summaries[s].decisions[i].key)
      BY <3>1 DEF TruthInv, ByStrategy
    <3> QED
      BY <2>1, <3>1, <3>2 DEF Wanted, SyntheticDecision
  <2> QED
    BY <2>2, <2>3
<1>13. SummaryTellsTheTrial'
  <2> SUFFICES ASSUME NEW s \in Written', s \notin mixed'
               PROVE  /\ [i \in DOMAIN summaries'[s].decisions |-> summaries'[s].decisions[i].key]
                            = IF mode' = "static" THEN <<AllTogether>> ELSE Stages
                      /\ \A i \in DOMAIN Stages :
                            summaries'[s].results[i]
                               = OutcomeOf(IF mode' = "static"
                                           THEN summaries'[s].decisions[1].granted
                                           ELSE summaries'[s].decisions[i].granted)
    BY DEF SummaryTellsTheTrial, DecidedFor
  <2>1. CASE s = drvSession
    <3>1. /\ Live /\ summaries'[s].decisions = decisions /\ summaries'[s].results = results
          /\ mode' = mode
      BY <1>1, <1>8, <1>9, <1>10, <2>1
    <3>2. /\ [i \in DOMAIN decisions |-> decisions[i].key]
                 = IF mode = "static" THEN <<AllTogether>> ELSE Stages
          /\ \A i \in DOMAIN Stages :
                 results[i] = OutcomeOf(IF mode = "static" THEN decisions[1].granted
                                                           ELSE decisions[i].granted)
      BY <1>1, <1>11, <3>1, WhatIsWritten
    <3> QED
      BY <3>1, <3>2
  <2>2. CASE s # drvSession
    <3>1. s \in Written \ mixed /\ summaries'[s] = summaries[s] /\ mode' = mode
      BY <1>1, <1>7, <1>10, <2>2
    <3> QED
      BY <3>1 DEF TruthInv, SummaryTellsTheTrial, DecidedFor
  <2> QED
    BY <2>1, <2>2
<1> QED
  BY <1>3, <1>4, <1>5, <1>12, <1>13 DEF TruthInv

LEMMA DriverKeepsTruth ==
    ASSUME Stages # <<>>, Ground, TruthInv, DriverMoves
    PROVE  TruthInv'
<1>1. CASE DriverSteps(DriverSession)
  BY <1>1, DriverSessionKeepsTruth
<1>2. CASE DriverSteps(DriverPrompt)
  BY <1>2, DriverPromptKeepsTruth
<1>3. CASE DriverSteps(DriverStatus)
  BY <1>3, DriverStatusKeepsTruth
<1>4. CASE DriverSteps(DriverTimer)
  <2>1. \/ DriverDecides /\ UNCHANGED summaries
        \/ /\ DriverWrites
           /\ summaries' = [summaries EXCEPT ![drvSession] =
                 [decisions |-> decisions, results |-> results, written |-> @.written + 1]]
    BY <1>4 DEF DriverSteps, DriverTimer
  <2> QED
    BY <1>4, <2>1, DriverDecidesKeepsTruth, DriverWritesKeepsTruth
<1> QED
  BY <1>1, <1>2, <1>3, <1>4 DEF DriverMoves

-----------------------------------------------------------------------------
(***************************************************************************)
(* The theorems.                                                           *)
(***************************************************************************)
LEMMA TruthStarts == Init => TruthInv
<1> SUFFICES ASSUME Init PROVE TruthInv
  OBVIOUS
<1>1. /\ session = 1 /\ drvSession = 0 /\ announced = [r \in Reader |-> 1]
      /\ asks = <<>> /\ answersSent = <<>> /\ requests = <<>> /\ authorized = <<>>
      /\ blocked = <<>> /\ statuses = <<>> /\ scheduled = Nothing
      /\ question = Opened
      /\ prompt = IF mode = "static" THEN PromptFor(1, AllTogether) ELSE NoPrompt
      /\ summaries = [s \in 1 .. MaxSession |-> NoSummary]
  BY DEF Init, DriverInit
<1>2. scenSession = 0 /\ nextStage = 0 /\ current = 0 /\ due = "none"
  BY DEF Init, ScenarioInit
<1>3. Orderly
  BY <1>1, <1>2, EmptyRange DEF Orderly, Reader
<1>4. Questioned
  BY <1>1 DEF Questioned, PromptFor, NoPrompt, Opened
<1>5. UntoldIsEmpty
  BY <1>1, EmptyRange DEF UntoldIsEmpty, Ahead, PromptFor, NoPrompt
<1>6. Evidence
  BY <1>1 DEF Evidence, Live
<1>7. Written = {}
  BY <1>1 DEF Written, NoSummary
<1>8. ByStrategy /\ SummaryTellsTheTrial
  BY <1>7 DEF ByStrategy, SummaryTellsTheTrial
<1> QED
  BY <1>3, <1>4, <1>5, <1>6, <1>8 DEF TruthInv

LEMMA TruthRests == ASSUME TruthInv, UNCHANGED vars PROVE TruthInv'
<1>1. UNCHANGED <<scenVars, driverVars, mode, session, question, announced, prompt, asks,
                  answersSent, requests, authorized, blocked, statuses, summaries, mixed>>
  BY DEF vars, consentVars, channels, history
<1>2. UNCHANGED <<scenSession, nextStage, current, due, strategy, drvSession, scheduled, taken,
                  decisions, results, drvComplete>>
  BY <1>1 DEF scenVars, driverVars
<1>3. Orderly' /\ Questioned' /\ UntoldIsEmpty'
  BY <1>1, <1>2 DEF TruthInv, Orderly, Questioned, UntoldIsEmpty, Ahead, Opened
<1>4. Evidence'
  <2> SUFFICES ASSUME Live' PROVE (InOrder /\ Asking /\ Answering /\ Permitting /\ Telling /\ Completing)'
    BY DEF Evidence
  <2>1. InOrder /\ Asking /\ Answering /\ Permitting /\ Telling /\ Completing
    BY <1>1, <1>2 DEF Live, TruthInv, Evidence
  <2>2. InOrder' /\ Telling' /\ Completing'
    BY <1>1, <1>2, <2>1, OrderStays, TellingStays
  <2> QED
    BY <1>1, <1>2, <2>1, <2>2 DEF Asking, Answering, Permitting, SaidBefore, Decided, Reached
<1>5. ByStrategy' /\ SummaryTellsTheTrial'
  BY <1>1, <1>2, SummariesStay DEF TruthInv
<1> QED
  BY <1>3, <1>4, <1>5 DEF TruthInv

LEMMA TruthSteps ==
    ASSUME Stages # <<>>, Ground, Ground', TruthInv, [Next]_vars
    PROVE  TruthInv'
<1>1. CASE Reset
  BY <1>1, ResetKeepsTruth
<1>2. CASE ConsentSide
  BY <1>2, AskKeepsTruth, DecisionKeepsTruth, RequestKeepsTruth, AnswerKeepsTruth DEF ConsentSide
<1>3. CASE ScenarioMoves
  BY <1>3, ScenarioKeepsTruth
<1>4. CASE DriverMoves
  BY <1>4, DriverKeepsTruth
<1>5. CASE UNCHANGED vars
  BY <1>5, TruthRests
<1> QED
  BY <1>1, <1>2, <1>3, <1>4, <1>5 DEF Next

LEMMA TruthInvariant == ASSUME Stages # <<>> PROVE Spec => [](Ground /\ TruthInv)
<1>1. Spec => []TypesInv
  BY TypesStart, TypesStep, PTL DEF Spec
<1>2. Spec => []TrialInv
  BY TrialInvariant
<1>3. TypesInv /\ TrialInv => Ground
  BY DEF Ground
<1>4. Spec => []Ground
  BY <1>1, <1>2, <1>3, PTL
<1>5. Ground /\ Ground' /\ TruthInv /\ [Next]_vars => TruthInv'
  BY TruthSteps
<1> QED
  BY <1>4, <1>5, TruthStarts, PTL DEF Spec

(***************************************************************************)
(* A summary tells what happened: in a session that took no message of     *)
(* another one, trial_driver_node.py writes one decision per stage in the  *)
(* order of SCENARIO_STAGES (in the static condition a single one for      *)
(* all), and beside every stage the outcome that was decided for it.  The  *)
(* decision went through the manager, the gate and the scenario before it  *)
(* came back as a status, and the driver notes the two without comparing   *)
(* them.  SCENARIO_STAGES is a constant tuple of the code and not empty.   *)
(***************************************************************************)
THEOREM SummaryTellsTheTrialAlways ==
    ASSUME Stages # <<>> PROVE Spec => []SummaryTellsTheTrial
<1>1. Ground /\ TruthInv => SummaryTellsTheTrial
  BY DEF TruthInv
<1> QED
  BY <1>1, TruthInvariant, PTL

LEMMA NumberedStage ==
    ASSUME NEW i \in DOMAIN Stages
    PROVE  StageOf(Stages[i]) = StageNumber[i] /\ StageNumber[i] \in 1 .. 7
<1>1. (CHOOSE k \in DOMAIN Asked : Asked[k] = Stages[i]) = i
  BY StagesDiffer
<1>2. i \in DOMAIN StageNumber /\ StageNumber \in Seq(1 .. 7)
  BY DriverAssumption, StagesDiffer, StagesAreCapabilities
<1> QED
  BY <1>1, <1>2, StagesDiffer DEF StageOf

\* A summary shows what the strategy wants, stage by stage.
LEMMA AsWanted ==
    ASSUME Ground, TruthInv, NEW s \in Written \ mixed, NEW i \in DOMAIN Stages
    PROVE  summaries[s].results[i] = Wanted(IF mode = "static" THEN AllTogether ELSE Stages[i])
<1>1. PICK d : d = summaries[s].decisions
  OBVIOUS
<1>2. /\ [k \in DOMAIN d |-> d[k].key] = IF mode = "static" THEN <<AllTogether>> ELSE Stages
      /\ summaries[s].results[i] = OutcomeOf(IF mode = "static" THEN d[1].granted ELSE d[i].granted)
  BY <1>1 DEF TruthInv, SummaryTellsTheTrial, DecidedFor
<1>3. \A k \in DOMAIN d : OutcomeOf(d[k].granted) = Wanted(d[k].key)
  BY <1>1 DEF TruthInv, ByStrategy
<1>4. CASE mode = "static"
  <2>1. PICK f : f = [k \in DOMAIN d |-> d[k].key]
    OBVIOUS
  <2>2. f = <<AllTogether>>
    BY <1>2, <1>4, <2>1
  <2>3. 1 \in DOMAIN f /\ f[1] = AllTogether
    BY <2>2
  <2>4. 1 \in DOMAIN d /\ d[1].key = AllTogether
    BY <2>1, <2>3
  <2> QED
    BY <1>2, <1>3, <1>4, <2>4
<1>5. CASE mode = "dynamic"
  <2>1. DOMAIN d = DOMAIN Stages /\ d[i].key = Stages[i]
    BY <1>2, <1>5
  <2> QED
    BY <1>2, <1>3, <1>5, <2>1
<1> QED
  BY <1>4, <1>5, GroundFacts

(***************************************************************************)
(* A written summary shows the strategy at work (decision_policies.py):    *)
(* grant_all succeeds at every stage, refuse_all falls back at every one,  *)
(* alternate does so by turns, risk_weighted exactly where privacy is high *)
(* at stake; asked for everything at once, the mixed ones refuse.          *)
(***************************************************************************)
THEOREM StrategyIsExercisedAlways ==
    ASSUME Stages # <<>> PROVE Spec => []StrategyIsExercised
<1>1. ASSUME Ground, TruthInv PROVE StrategyIsExercised
  <2> SUFFICES ASSUME NEW s \in Written \ mixed, NEW outcome, outcome = summaries[s].results
               PROVE  /\ strategy = "grant_all" => \A i \in DOMAIN Stages : outcome[i] = "success"
                      /\ strategy = "refuse_all" \/ (mode = "static" /\ strategy # "grant_all")
                            => \A i \in DOMAIN Stages : outcome[i] = "fallback"
                      /\ mode = "dynamic" /\ strategy = "alternate"
                            => \A i, j \in DOMAIN Stages :
                                  outcome[i] = outcome[j]
                                     <=> StageNumber[i] % 2 = StageNumber[j] % 2
                      /\ mode = "dynamic" /\ strategy = "risk_weighted"
                            => \A i \in DOMAIN Stages :
                                  outcome[i] = "fallback" <=> Stages[i] \in HighPrivacy
    BY DEF StrategyIsExercised
  <2>1. \A i \in DOMAIN Stages :
           outcome[i] = Wanted(IF mode = "static" THEN AllTogether ELSE Stages[i])
    BY <1>1, AsWanted
  <2>2. strategy = "grant_all" => \A i \in DOMAIN Stages : outcome[i] = "success"
    BY <2>1 DEF Wanted, OutcomeOf, SyntheticDecision
  <2>3. strategy = "refuse_all" => \A i \in DOMAIN Stages : outcome[i] = "fallback"
    BY <2>1 DEF Wanted, OutcomeOf, SyntheticDecision
  <2>4. mode = "static" /\ strategy # "grant_all"
           => \A i \in DOMAIN Stages : outcome[i] = "fallback"
    BY <2>1 DEF Wanted, OutcomeOf, SyntheticDecision
  <2>5. ASSUME mode = "dynamic", strategy = "risk_weighted", NEW i \in DOMAIN Stages
        PROVE  outcome[i] = "fallback" <=> Stages[i] \in HighPrivacy
    BY <2>1, <2>5, StagesDiffer DEF Wanted, OutcomeOf, SyntheticDecision
  <2>6. ASSUME mode = "dynamic", strategy = "alternate", NEW i \in DOMAIN Stages
        PROVE  outcome[i] = IF StageNumber[i] % 2 = 1 THEN "success" ELSE "fallback"
    <3>1. SyntheticDecision(Stages[i]) <=> StageNumber[i] % 2 = 1
      BY <2>6, NumberedStage, StagesDiffer DEF SyntheticDecision
    <3> QED
      BY <2>1, <2>6, <3>1 DEF Wanted, OutcomeOf
  <2>7. \A i \in DOMAIN Stages : StageNumber[i] % 2 \in {0, 1}
    <3>1. \A n \in 1 .. 7 : n % 2 \in {0, 1}
      OBVIOUS
    <3> QED
      BY <3>1, NumberedStage
  <2>8. ASSUME mode = "dynamic", strategy = "alternate",
               NEW i \in DOMAIN Stages, NEW j \in DOMAIN Stages
        PROVE  outcome[i] = outcome[j] <=> StageNumber[i] % 2 = StageNumber[j] % 2
    BY <2>6, <2>7, <2>8
  <2> QED
    BY <2>2, <2>3, <2>4, <2>5, <2>8
<1>2. Ground /\ TruthInv => StrategyIsExercised
  BY <1>1
<1> QED
  BY <1>2, TruthInvariant, PTL
=============================================================================
