------------------------------ MODULE SessionLog ----------------------------
(***************************************************************************)
(* The logger and the nodes that write to it.  The manager is reduced to   *)
(* what ConsentManager shows of it: the status of each capability in the   *)
(* active session, and an event for every change of it.  /consent/event    *)
(* and /consent/session are two topics, and nothing orders them; gate and  *)
(* scenario publish on the first too, each with the session it believes    *)
(* in.  The question is what a log is worth as a record of consent.        *)
(***************************************************************************)
EXTENDS ConsentLogger, Selection

CONSTANTS
    AllCapabilities,  \* STATIC_CAPABILITY_ID
    SortedPolicy,     \* the policy's capabilities in sorted order
    MaxSession,       \* bound: sessions
    MaxPublished,     \* bound: events the manager publishes
    MaxUnderWay,      \* bound: events on the way to the logger
    MaxForeign,       \* bound: events of other nodes
    MaxLoggerRun      \* bound: times the logger is started

ASSUME SessionLogAssumption ==
    /\ "none" \notin Capability
    /\ AllCapabilities \in Capability \ Policy
    /\ SortedPolicy \in Seq(Policy)
    /\ Policy \subseteq {SortedPolicy[i] : i \in DOMAIN SortedPolicy}
    /\ MaxSession \in Nat \ {0} /\ MaxLoggerRun \in Nat \ {0}
    /\ MaxPublished \in Nat /\ MaxUnderWay \in Nat /\ MaxForeign \in Nat
    /\ MaxPublished >= 2 /\ MaxUnderWay >= 2     \* room for the start of a session

VARIABLES
    session,        \* the active session of the manager
    status,         \* the status of each capability in it
    eventTopic,     \* /consent/event from the manager, not yet taken
    announced,      \* /consent/session: depth 1, 0 if taken
    foreign,        \* events of other nodes so far
    loggerRun,      \* how many times the logger was started
    published       \* history: all events of the manager

managerSide == <<session, status, announced>>
vars == <<config, loggerVars, managerSide, eventTopic, foreign, loggerRun, published>>

Session == 1 .. MaxSession

-----------------------------------------------------------------------------
(***************************************************************************)
(* The manager's events.  response_ms is set with every decision (it is 0  *)
(* only if the answer took no time).                                       *)
(***************************************************************************)
Event(type, s, c, decision) ==
    [type |-> type, session |-> s, condition |-> config.condition,
     capability |-> c, decision |-> decision, outcome |-> "none",
     responded |-> type = "consent_decided"]

ManagerEvent ==
    {m \in [type : {"session_started", "session_reset", "consent_requested",
                    "consent_decided", "consent_revoked", "consent_expired"},
            session : Session, condition : {"static", "dynamic", "invalid"},
            capability : Capability \cup {"none"},
            decision : {"granted", "refused", "revoked", "none"},
            outcome : {"none"}, responded : BOOLEAN] :
        /\ m.capability = "none" <=> m.type \in {"session_started", "session_reset"}
        /\ m.decision \in DecisionsOf(m.type)
        /\ m.responded <=> m.type = "consent_decided"}

\* The rows the log of session s should get of the events q.
DueEvent(s) ==
    {m \in ManagerEvent : /\ m.session = s /\ m.type # "session_started"
                          /\ m.capability \in Tokens \cup {"none"}}

RowsOf(q, s) ==
    LET own == Selected(q, DueEvent(s))
    IN  [i \in DOMAIN own |-> Row(own[i])]

Publishes(q) ==
    /\ eventTopic' = eventTopic \o q
    /\ Len(eventTopic') <= MaxUnderWay
    /\ published' = published \o q
    /\ Len(published') <= MaxPublished
    /\ UNCHANGED <<config, loggerVars, foreign, loggerRun>>

Becomes(c, new) ==
    /\ status' = [status EXCEPT ![c] = new]
    /\ UNCHANGED <<session, announced>>

BeginsStatic == Static /\ config.disclosure

StartStatus == [c \in Policy |-> IF BeginsStatic THEN "PENDING" ELSE "UNKNOWN"]

StartEvents(s) ==
    <<Event("session_started", s, "none", "none")>>
    \o IF BeginsStatic
       THEN <<Event("consent_requested", s, AllCapabilities, "none")>> ELSE <<>>

\* _on_consent_request; a lapsed grant is found to have expired first.
Asks(c) ==
    /\ Dynamic /\ status[c] # "GRANTED"
    /\ Becomes(c, "PENDING")
    /\ Publishes(<<Event("consent_requested", session, c, "none")>>)

Told(granted) == IF granted THEN "granted" ELSE "refused"
StatusOf(granted) == IF granted THEN "GRANTED" ELSE "REFUSED"

Decides(c, granted) ==
    /\ Dynamic /\ status[c] = "PENDING"
    /\ Becomes(c, StatusOf(granted))
    /\ Publishes(<<Event("consent_decided", session, c, Told(granted))>>)

DecidesAll(granted) ==
    /\ BeginsStatic /\ \A c \in Policy : status[c] = "PENDING"
    /\ status' = [c \in Policy |-> StatusOf(granted)]
    /\ UNCHANGED <<session, announced>>
    /\ Publishes([i \in DOMAIN SortedPolicy |->
                    Event("consent_decided", session, SortedPolicy[i], Told(granted))])

Withdraws(c) ==
    /\ status[c] = "GRANTED"
    /\ Becomes(c, "REVOKED")
    /\ Publishes(<<Event("consent_revoked", session, c, "revoked")>>)

Expires(c) ==
    /\ Dynamic /\ Expiry[c] > 0 /\ status[c] = "GRANTED"
    /\ Becomes(c, "EXPIRED")
    /\ Publishes(<<Event("consent_expired", session, c, "none")>>)

\* A reset, or a manager that died and was started again.
NewSession ==
    /\ session < MaxSession /\ session' = session + 1
    /\ announced' = session'
    /\ status' = StartStatus
    /\ \/ Publishes(<<Event("session_reset", session, "none", "none")>>
                    \o StartEvents(session'))
       \/ Publishes(StartEvents(session'))

ManagerSteps ==
    \/ NewSession
    \/ \E granted \in BOOLEAN : DecidesAll(granted)
    \/ \E c \in Policy : \/ Asks(c) \/ Withdraws(c) \/ Expires(c)
                         \/ \E granted \in BOOLEAN : Decides(c, granted)

-----------------------------------------------------------------------------
(***************************************************************************)
(* The logger's side.                                                      *)
(***************************************************************************)
TakesEvent ==
    /\ eventTopic # <<>>
    /\ LoggerOnEvent(Head(eventTopic))
    /\ eventTopic' = Tail(eventTopic)
    /\ UNCHANGED <<managerSide, foreign, loggerRun>>

TakesSession ==
    /\ announced # 0
    /\ LoggerOnSession(announced)
    /\ announced' = 0
    /\ UNCHANGED <<session, status, eventTopic, foreign, loggerRun>>

ForeignEvent ==
    [type : {"capability_blocked"}, session : 1 .. session,
     condition : {"static", "dynamic"}, capability : Capability \ {AllCapabilities},
     decision : {"none"}, outcome : {"fallback"}, responded : {FALSE}]

TakesForeignEvent ==
    /\ foreign < MaxForeign /\ foreign' = foreign + 1
    /\ \E m \in ForeignEvent : LoggerOnEvent(m)
    /\ UNCHANGED <<managerSide, eventTopic, loggerRun>>

LoggerWaits ==
    /\ LoggerTimer \/ SessionAges
    /\ UNCHANGED <<managerSide, eventTopic, foreign, loggerRun>>

(***************************************************************************)
(* The logger is stopped or dies, and is started again: events on the way  *)
(* to it are lost, and the session is announced to it again (transient     *)
(* local durability).                                                      *)
(***************************************************************************)
LoggerRestarts ==
    /\ loggerRun < MaxLoggerRun /\ loggerRun' = loggerRun + 1
    /\ LoggerStarts
    /\ eventTopic' = <<>>
    /\ announced' = session
    /\ UNCHANGED <<session, status, foreign>>

LoggerSteps ==
    /\ TakesEvent \/ TakesSession \/ TakesForeignEvent \/ LoggerWaits \/ LoggerRestarts
    /\ UNCHANGED <<config, published>>

Init ==
    /\ config \in Configurations
    /\ LoggerInit(Session)
    /\ session = 1 /\ announced = 1
    /\ status = StartStatus
    /\ eventTopic = StartEvents(1)
    /\ foreign = 0 /\ loggerRun = 1
    /\ published = eventTopic

Next == ManagerSteps \/ LoggerSteps

Spec == Init /\ [][Next]_vars

-----------------------------------------------------------------------------
(***************************************************************************)
(* Every variable has its type.                                            *)
(***************************************************************************)
LogRow == [type : LoggedTypes, capability : Tokens \cup {"none"},
           decision : {"granted", "refused", "revoked", "none"},
           outcome : {"none", "success", "fallback", "abandoned"}]

LogTypeOK ==
    /\ activeSession \in Session \cup {0} /\ logOf \in Session \cup {0}
    /\ failed \in BOOLEAN
    /\ age \in {"none", "young", "timed out"}
    /\ files \in [Session -> Seq(LogRow)]
    /\ session \in Session /\ announced \in Session \cup {0}
    /\ status \in [Policy -> {"UNKNOWN", "PENDING", "GRANTED", "REFUSED",
                              "REVOKED", "EXPIRED"}]
    /\ foreign \in 0 .. MaxForeign /\ loggerRun \in 1 .. MaxLoggerRun
    /\ eventTopic \in Seq(ManagerEvent) /\ Len(eventTopic) <= MaxUnderWay
    /\ published \in Seq(ManagerEvent) /\ Len(published) <= MaxPublished

(***************************************************************************)
(* The manager's rows since the logger opened the file the last time.      *)
(***************************************************************************)
ManagerRow == {row \in LogRow : row.type # "capability_blocked"}

LastStart(s) ==
    LET starts == {i \in DOMAIN files[s] : files[s][i] = Started}
    IN  CHOOSE i \in starts : \A j \in starts : j <= i

RowsSinceOpened(s) ==
    Selected(SubSeq(files[s], LastStart(s) + 1, Len(files[s])), ManagerRow)

Recording(s) == logOf = s /\ activeSession = s /\ ~failed

(***************************************************************************)
(* A log has no holes: as long as its file is open, what the manager       *)
(* published in the session and is no longer under way is in the file from *)
(* some point on, in order and complete.  What came before the session's   *)
(* announcement is missing, and so is whatever has a capability name that  *)
(* the policy accepts and the logger does not.                             *)
(***************************************************************************)
NoHoles ==
    \A s \in Session : Recording(s) =>
        LET rows == RowsSinceOpened(s)
            due == RowsOf(published, s)
            arrived == Len(due) - Len(RowsOf(eventTopic, s))
        IN  \E i \in 0 .. arrived : rows = SubSeq(due, i + 1, arrived)

(***************************************************************************)
(* The last word of an open log about a capability is its status at the    *)
(* manager, once all events have arrived (docs/phase5: only state          *)
(* transitions are recorded).  A decision that the log has is never one    *)
(* that was overtaken by another.                                          *)
(***************************************************************************)
StatusTold(row) ==
    CASE row.type = "consent_requested" -> "PENDING"
      [] row.type = "consent_revoked" -> "REVOKED"
      [] row.type = "consent_expired" -> "EXPIRED"
      [] row.decision = "granted" -> "GRANTED"
      [] row.decision = "refused" -> "REFUSED"

RowAbout(c) == {row \in ManagerRow : row.capability \in {c, AllCapabilities}}

LogAgreesWithStatus ==
    Recording(session) /\ eventTopic = <<>> =>
        \A c \in Policy \cap Tokens :
            LET told == Selected(RowsSinceOpened(session), RowAbout(c))
            IN  told # <<>> => StatusTold(told[Len(told)]) = status[c]

(***************************************************************************)
(* docs/phase5: when a session exceeds its time the file closes and later  *)
(* events are ignored.  No row but the first of another file is written    *)
(* after that, whether the timer or an event notices it.                   *)
(***************************************************************************)
NothingLoggedLate ==
    [][\A s \in Session :
          age = "timed out" /\ files'[s] # files[s]
          => s # activeSession /\ files'[s][Len(files'[s])] = Started]_vars
=============================================================================
