---------------------------- MODULE ConsentSystem ---------------------------
(***************************************************************************)
(* The consent manager, the privacy gate and the participant's terminal,   *)
(* joined by the topics and the service between them.  Each channel has    *)
(* its own delay, so a message may overtake any message on another one:    *)
(*                                                                         *)
(*   /consent/session   manager -> gate       keeps the latest only        *)
(*   /consent/event     manager -> gate       in order                     *)
(*   /consent/prompt    manager -> terminal   keeps the latest only        *)
(*   /consent/request   gate -> manager       in order                     *)
(*   /consent/decision  terminal -> manager   in order                     *)
(*   /consent/check     gate -> manager -> gate, one call per capability   *)
(*                                                                         *)
(* The gate reacts to consent_decided events only, so eventTopic holds     *)
(* only those.  Capability requests, revocations and resets come from      *)
(* outside, at any time.                                                   *)
(***************************************************************************)
EXTENDS ConsentManager, PrivacyGate, Selection, SequencesExt

CONSTANTS
    MaxAsks,         \* bound: capability requests in a run
    Disturbances     \* what may happen in a run besides requests and answers

ASSUME MaxAsksAssumption == MaxAsks \in Nat
ASSUME DisturbancesAssumption ==
    Disturbances \subseteq {"revocation", "reset", "crash", "input closes",
                            "time passes"}

VARIABLES
    sessionTopic,    \* the undelivered /consent/session message, or NoSession
    eventTopic,      \* the consent_decided events on their way to the gate
    promptTopic,     \* the undelivered prompt, or NoPrompt
    requestTopic,    \* the consent requests on their way to the manager
    decisionTopic,   \* the decisions on their way to the manager
    checkCalls,      \* the checks on their way to the manager
    checkReplies,    \* the replies on their way to the gate
    showing,         \* the prompt the terminal waits for an answer to
    answered,        \* _answered_requests of the terminal
    asks,            \* number of capability requests made so far
    atCall           \* history: what was withdrawn, and the time, when the
                     \* latest check of each capability was sent

channels == <<sessionTopic, eventTopic, promptTopic, requestTopic,
              decisionTopic, checkCalls, checkReplies>>
terminalVars == <<showing, answered>>
vars == <<managerVars, gateVars, channels, terminalVars, asks, atCall>>

NoPrompt == [topic |-> "prompt", request |-> NoRequest, session |-> 0,
             capability |-> NoCapability]

-----------------------------------------------------------------------------
(***************************************************************************)
(* Publishing.  A topic of depth 1 keeps the last message published on it; *)
(* no callback publishes two on the same one.                              *)
(***************************************************************************)
PublishedOn(t) == {i \in DOMAIN outbox' : outbox'[i].topic = t}

LatestOn(t, kept) == IF PublishedOn(t) = {} THEN kept
                     ELSE outbox'[CHOOSE i \in PublishedOn(t) : TRUE]

\* the events that _on_consent_event of the gate reacts to
DecidedEvent == {m \in Message : m.topic = "event" /\ m.type = "consent_decided"}

ManagerPublishes ==
    /\ sessionTopic' = LatestOn("session", SessionMessage(sessionTopic)).session
    /\ eventTopic' = eventTopic \o Selected(outbox', DecidedEvent)
    /\ promptTopic' = LatestOn("prompt", promptTopic)

GatePublishes ==
    /\ checkCalls' = checkCalls \cup gateOut'.calls
    /\ requestTopic' = requestTopic \o SetToSeq(gateOut'.requested)
    /\ atCall' = [c \in Policy |->
                    IF \E call \in gateOut'.calls : call.capability = c
                    THEN [withdrawn |-> withdrawn, clock |-> clock]
                    ELSE atCall[c]]

ManagerQuiet == /\ outbox' = <<>> /\ reply' = NoReply
                /\ Unchanged
                /\ UNCHANGED <<clock, config, up, session, static>>

GateQuiet == /\ gateOut' = NoOutput
             /\ UNCHANGED <<gateSession, pending, queued, inFlight, serviceReady>>

\* A callback of the manager, of the gate, and a step of neither.
ManagerStep == /\ up /\ ManagerPublishes /\ GateQuiet
               /\ UNCHANGED <<clock, config, asks, atCall, terminalVars>>

GateStep == /\ GatePublishes /\ ManagerQuiet
            /\ UNCHANGED <<terminalVars, decisionTopic, promptTopic>>

-----------------------------------------------------------------------------
(***************************************************************************)
(* The manager takes a message or a call.                                  *)
(***************************************************************************)
ManagerTakesRequest ==
    /\ requestTopic # <<>>
    /\ OnConsentRequest(Head(requestTopic)) /\ UNCHANGED up
    /\ requestTopic' = Tail(requestTopic)
    /\ ManagerStep
    /\ UNCHANGED <<decisionTopic, checkCalls, checkReplies>>

ManagerTakesDecision ==
    /\ decisionTopic # <<>>
    /\ OnDecision(Head(decisionTopic))
    /\ decisionTopic' = Tail(decisionTopic)
    /\ ManagerStep
    /\ UNCHANGED <<requestTopic, checkCalls, checkReplies>>

ManagerTakesCheck == \E call \in checkCalls :
    /\ OnCheck(call.session, call.capability) /\ UNCHANGED up
    /\ checkCalls' = checkCalls \ {call}
    /\ checkReplies' = checkReplies \cup {reply'}
    /\ ManagerStep
    /\ UNCHANGED <<requestTopic, decisionTopic>>

ParticipantRevokes == \E c \in Policy :
    /\ "revocation" \in Disturbances
    /\ records[<<session, c>>].status = "GRANTED"
    /\ OnRevoke(session, c)
    /\ ManagerStep
    /\ UNCHANGED <<requestTopic, decisionTopic, checkCalls, checkReplies>>

ExperimenterResets ==
    /\ "reset" \in Disturbances
    /\ OnReset(session) /\ UNCHANGED up
    /\ ManagerStep
    /\ UNCHANGED <<requestTopic, decisionTopic, checkCalls, checkReplies>>

-----------------------------------------------------------------------------
(***************************************************************************)
(* The gate takes a message, a reply or a tick of its timer.               *)
(***************************************************************************)
GateTakesSession ==
    /\ sessionTopic # NoSession
    /\ GateOnSession(sessionTopic)
    /\ sessionTopic' = NoSession
    /\ GateStep
    /\ UNCHANGED <<eventTopic, checkReplies, asks>>

GateTakesEvent ==
    /\ eventTopic # <<>>
    /\ LET e == Head(eventTopic) IN OnConsentEvent(e.session, e.type, e.capability)
    /\ eventTopic' = Tail(eventTopic)
    /\ GateStep
    /\ UNCHANGED <<sessionTopic, checkReplies, asks>>

GateTakesReply == \E r \in checkReplies :
    /\ OnCheckComplete(r.session, r.capability, r.status)
    /\ checkReplies' = checkReplies \ {r}
    /\ GateStep
    /\ UNCHANGED <<sessionTopic, eventTopic, asks>>

GateTakesAsk == \E c \in Capability :
    /\ asks < MaxAsks
    /\ asks' = asks + 1
    /\ OnCapabilityRequest(c)
    /\ GateStep
    /\ UNCHANGED <<sessionTopic, eventTopic, checkReplies>>

GateRetries ==
    /\ RetryQueuedChecks
    /\ GateStep
    /\ UNCHANGED <<sessionTopic, eventTopic, checkReplies, asks>>

GateDiscovers ==
    /\ ServiceSeen(up)
    /\ GateStep
    /\ UNCHANGED <<sessionTopic, eventTopic, checkReplies, asks>>

-----------------------------------------------------------------------------
(***************************************************************************)
(* nodes/consent_ui_node.py.  _on_prompt blocks in readline until the      *)
(* participant chooses; meanwhile the terminal takes no other prompt.  If  *)
(* the input is closed it returns with no decision.                        *)
(***************************************************************************)
Elsewhere == /\ ManagerQuiet /\ GateQuiet
             /\ UNCHANGED <<sessionTopic, eventTopic, requestTopic, checkCalls,
                            checkReplies, asks, atCall>>

AlreadyAnsweredBefore(p) ==             \* mutant: remembers the capability
    \E id \in answered : id[2] = p.capability
AlreadyAnswered(p) == p.request \in answered

TerminalTakesPrompt ==
    /\ showing = NoPrompt /\ promptTopic # NoPrompt
    /\ showing' = IF AlreadyAnswered(promptTopic) THEN NoPrompt ELSE promptTopic
    /\ promptTopic' = NoPrompt
    /\ Elsewhere
    /\ UNCHANGED <<answered, decisionTopic>>

ParticipantAnswers == \E decision \in {"granted", "refused"} :
    /\ showing # NoPrompt
    /\ decisionTopic' = Append(decisionTopic,
          [request |-> showing.request, session |-> showing.session,
           capability |-> showing.capability, decision |-> decision])
    /\ answered' = answered \cup {showing.request}
    /\ showing' = NoPrompt
    /\ Elsewhere
    /\ UNCHANGED promptTopic

TerminalInputCloses ==
    /\ "input closes" \in Disturbances
    /\ showing # NoPrompt
    /\ showing' = NoPrompt
    /\ Elsewhere
    /\ UNCHANGED <<answered, decisionTopic, promptTopic>>

-----------------------------------------------------------------------------
(***************************************************************************)
(* The clock, and the manager's process.  What was on its way to a process *)
(* that has ended is lost; what it has published is still delivered.       *)
(***************************************************************************)
ClockTicks ==
    /\ "time passes" \in Disturbances
    /\ ClockMoves /\ GateQuiet
    /\ clock' > clock
    /\ UNCHANGED <<config, channels, terminalVars, asks, atCall>>

ManagerCrashes ==
    /\ "crash" \in Disturbances
    /\ Crash /\ GateQuiet
    /\ UNCHANGED <<clock, config, channels, terminalVars, asks, atCall>>

ManagerRestarts ==
    /\ Restart /\ GateQuiet /\ ManagerPublishes
    /\ checkCalls' = {} /\ requestTopic' = <<>> /\ decisionTopic' = <<>>
    /\ UNCHANGED <<clock, config, checkReplies, terminalVars, asks, atCall>>

-----------------------------------------------------------------------------
Init ==
    /\ ManagerInit
    /\ GateInit
    /\ sessionTopic = 1
    /\ promptTopic = IF BeginsStatic
                     THEN Prompt(<<1, AllCapabilities>>, 1, AllCapabilities)
                     ELSE NoPrompt
    /\ eventTopic = <<>> /\ requestTopic = <<>> /\ decisionTopic = <<>>
    /\ checkCalls = {} /\ checkReplies = {}
    /\ showing = NoPrompt /\ answered = {}
    /\ asks = 0
    /\ atCall = [c \in Policy |-> [withdrawn |-> {}, clock |-> 0]]

ManagerTakes == ManagerTakesRequest \/ ManagerTakesDecision \/ ManagerTakesCheck

GateTakes == \/ GateTakesSession \/ GateTakesEvent \/ GateTakesReply
             \/ GateRetries \/ GateDiscovers

Outside == \/ GateTakesAsk \/ ParticipantRevokes \/ ExperimenterResets
           \/ TerminalInputCloses \/ ClockTicks
           \/ ManagerCrashes \/ ManagerRestarts

Next == \/ ManagerTakes \/ GateTakes
        \/ TerminalTakesPrompt \/ ParticipantAnswers
        \/ Outside

Spec == Init /\ [][Next]_vars

-----------------------------------------------------------------------------
(***************************************************************************)
(* Fairness.  Every node spins, so a callback that can run runs; DDS       *)
(* delivers what was published reliably; the 0.25 s timer fires and        *)
(* discovery settles; the participant answers the prompt on the screen.    *)
(* Nothing obliges anyone to ask, revoke, reset or crash.                  *)
(***************************************************************************)
Fairness ==
    /\ WF_vars(ManagerTakesRequest)
    /\ WF_vars(ManagerTakesDecision)
    /\ WF_vars(ManagerTakesCheck)
    /\ WF_vars(GateTakesSession)
    /\ WF_vars(GateTakesEvent)
    /\ WF_vars(GateTakesReply)
    /\ WF_vars(GateRetries)
    /\ WF_vars(GateDiscovers)
    /\ WF_vars(TerminalTakesPrompt)
    /\ WF_vars(ParticipantAnswers)

FairSpec == Spec /\ Fairness

-----------------------------------------------------------------------------
(***************************************************************************)
(* Every variable has its type.                                            *)
(***************************************************************************)
PromptMessage == {m \in {promptTopic, showing} : m # NoPrompt}

SystemTypeOK ==
    /\ ManagerTypeOK
    /\ gateSession \in 0 .. MaxSession
    /\ pending \subseteq Policy /\ queued \subseteq Policy
    /\ inFlight \in [Policy -> 0 .. MaxSession]
    /\ sessionTopic \in 0 .. MaxSession
    /\ PromptMessage \subseteq [topic : {"prompt"}, request : RequestId,
                                session : Session, capability : Capability]
    /\ \A r \in checkCalls \cup checkReplies :
          r.session \in Session /\ r.capability \in Policy
    /\ answered \subseteq RequestId
    /\ asks \in 0 .. MaxAsks

(***************************************************************************)
(* What the gate authorises the participant has allowed: in the gate's     *)
(* session, for this capability, by a yes that was neither withdrawn nor   *)
(* past its deadline when the check that found it was sent.  However the   *)
(* messages are delayed, an authorisation is at most one check old.        *)
(***************************************************************************)
LiveYes(v, c) ==
    /\ v.key = <<gateSession, c>> /\ v.granted
    /\ v.request \notin atCall[c].withdrawn

InTimeAt(v, t) == ~v.timed \/ Expiry[v.key[2]] = 0 \/ t < v.at + Expiry[v.key[2]]

AuthorizedOnLiveConsent ==
    [][\A c \in gateOut'.authorized :
          \E v \in verdicts :
              LiveYes(v, c) /\ InTimeAt(v, atCall[c].clock)]_vars

(***************************************************************************)
(* Within one session of the dynamic condition no wake-up is lost: while   *)
(* the gate waits for a decision, the question is still open or on its way *)
(* to the manager, or the news of its answer is on its way to the gate.    *)
(***************************************************************************)
WillWake(c) ==
    \/ \E i \in DOMAIN requestTopic : requestTopic[i] = c
    \/ records[<<gateSession, c>>].status = "PENDING"
    \/ \E i \in DOMAIN eventTopic : eventTopic[i].capability = c
    \/ inFlight[c] # NoSession
    \/ c \in queued

NoLostWakeUp == \A c \in pending : WillWake(c)

(***************************************************************************)
(* docs/dynamic_consent_pattern.md:16, PENDING: "Prompt shown".  A question*)
(* of the dynamic condition that is open is in somebody's hand: its prompt *)
(* is on its way or on the screen, or its own answer is on its way back.   *)
(* So a question asked anew, after an expiry or a revocation, is not taken *)
(* for the one that was answered, nor settled by that answer.  It needs    *)
(* that no second capability is asked about and that input stays open.     *)
(***************************************************************************)
InHand(c, id) ==
    \/ \E p \in {promptTopic, showing} : p.request = id /\ p.capability = c
    \/ \E i \in DOMAIN decisionTopic :
           /\ decisionTopic[i].request = id /\ decisionTopic[i].capability = c
           /\ decisionTopic[i].session = session

OpenQuestionIsInHand ==
    Dynamic /\ up => \A c \in Policy :
        LET r == records[<<session, c>>]
        IN  r.status = "PENDING" => InHand(c, r.request)

(***************************************************************************)
(* Every request the gate accepts is authorised or blocked in the end      *)
(* (the scenario advances on nothing else).                                *)
(***************************************************************************)
Waiting(c) == c \in pending \/ c \in queued \/ inFlight[c] # NoSession

EveryRequestIsAnswered == \A c \in Policy : Waiting(c) ~> ~Waiting(c)

(***************************************************************************)
(* "Refusal is never a dead end ... so the task always completes"          *)
(* (docs/dynamic_consent_pattern.md:60): a capability the gate waits for,  *)
(* and the participant has refused, leaves the waiting set.                *)
(***************************************************************************)
RefusedInGateSession(c) ==
    /\ gateSession \in Session
    /\ records[<<gateSession, c>>].status = "REFUSED"

RefusalIsNeverADeadEnd ==
    \A c \in Policy :
        c \in pending /\ RefusedInGateSession(c) ~> c \notin pending
=============================================================================
