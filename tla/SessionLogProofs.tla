-------------------------- MODULE SessionLogProofs --------------------------
(***************************************************************************)
(* Theorems about the log of a session, for any policy, any capabilities   *)
(* and any number of sessions, events and starts of the logger.            *)
(***************************************************************************)
EXTENDS SessionLog, SelectionProofs

-----------------------------------------------------------------------------
LEMMA SessionsExist == Session \subseteq Nat \ {0} /\ 1 \in Session /\ 0 \notin Session
BY SessionLogAssumption DEF Session

(***************************************************************************)
(* The events of the manager, and the rows that become of them.            *)
(***************************************************************************)
LEMMA SessionEventIsTyped ==
    ASSUME config \in Configuration, NEW type \in {"session_started", "session_reset"},
           NEW s \in Session
    PROVE  LET e == Event(type, s, "none", "none")
           IN  e \in ManagerEvent /\ e.condition = config.condition /\ e.session = s
<1>1. config.condition \in {"static", "dynamic", "invalid"}
  BY DEF Configuration
<1>2. "none" \in DecisionsOf(type) /\ (type = "consent_decided") = FALSE
  BY DEF DecisionsOf
<1> QED
  BY <1>1, <1>2 DEF Event, ManagerEvent

LEMMA ConsentEventIsTyped ==
    ASSUME config \in Configuration,
           NEW type \in {"consent_requested", "consent_decided", "consent_revoked",
                         "consent_expired"},
           NEW s \in Session, NEW c \in Capability, NEW d \in DecisionsOf(type)
    PROVE  LET e == Event(type, s, c, d)
           IN  e \in ManagerEvent /\ e.condition = config.condition /\ e.session = s
<1>1. config.condition \in {"static", "dynamic", "invalid"}
  BY DEF Configuration
<1>2. d \in {"granted", "refused", "revoked", "none"}
  BY DEF DecisionsOf
<1>3. c # "none"
  BY SessionLogAssumption
<1>4. (type = "consent_decided") \in BOOLEAN
  BY Zenon
<1> QED
  BY <1>1, <1>2, <1>3, <1>4 DEF Event, ManagerEvent

LEMMA RowOfEvent ==
    ASSUME NEW m \in ManagerEvent
    PROVE  /\ m.capability \in Tokens \cup {"none"} => Row(m) \in ManagerRow
           /\ m.type # "session_started" => Row(m) # Started
<1>1. /\ m.type \in LoggedTypes /\ m.type # "capability_blocked"
      /\ m.decision \in {"granted", "refused", "revoked", "none"}
      /\ m.outcome = "none"
  BY DEF ManagerEvent, LoggedTypes
<1> QED
  BY <1>1 DEF Row, ManagerRow, LogRow, Started

LEMMA DueRow ==
    ASSUME NEW s, NEW m \in DueEvent(s)
    PROVE  m \in ManagerEvent /\ Row(m) \in ManagerRow /\ Row(m) # Started
BY RowOfEvent DEF DueEvent

\* An event of the manager fits the schema if the logger knows the name in it.
LEMMA DueIfFits ==
    ASSUME NEW s, NEW m \in ManagerEvent
    PROVE  m \in DueEvent(s) <=> m.session = s /\ m.type # "session_started" /\ Fits(m)
<1>1. /\ m.type \in LoggedTypes /\ m.outcome \in OutcomesOf(m.type)
      /\ m.decision \in DecisionsOf(m.type)
      /\ m.responded => m.type = "consent_decided"
  BY DEF ManagerEvent, LoggedTypes, OutcomesOf
<1>2. m.capability \in CapabilitiesOf(m.type) <=> m.capability \in Tokens \cup {"none"}
  BY TokensAssumption, SessionLogAssumption DEF ManagerEvent, CapabilitiesOf
<1> QED
  BY <1>1, <1>2 DEF DueEvent, Fits

Rows(own) == [i \in DOMAIN own |-> Row(own[i])]

LEMMA RowsGrow ==
    ASSUME NEW M, NEW q \in Seq(M), NEW m \in M
    PROVE  Rows(Append(q, m)) = Append(Rows(q), Row(m))
<1> DEFINE row(x) == Row(x)
<1>1. Len(q) \in Nat /\ DOMAIN q = 1 .. Len(q)
  BY LenProperties
<1>2. Rows(q) \in Seq({row(x) : x \in M}) /\ Len(Rows(q)) = Len(q)
  <2>1. \A i \in 1 .. Len(q) : q[i] \in M
    BY <1>1
  <2> HIDE DEF row
  <2>2. Rows(q) = [i \in 1 .. Len(q) |-> row(q[i])]
    BY <1>1 DEF Rows, row
  <2> QED
    BY <1>1, <2>1, <2>2
<1>3. Append(q, m) \in Seq(M) /\ Len(Append(q, m)) = Len(q) + 1
  BY AppendProperties
<1>4. /\ \A i \in 1 .. Len(q) : Append(q, m)[i] = q[i]
      /\ Append(q, m)[Len(q) + 1] = m
  BY AppendProperties
<1>5. DOMAIN Append(q, m) = 1 .. Len(q) + 1
  BY <1>3, LenProperties
<1> HIDE DEF row
<1>6. Rows(Append(q, m)) = [i \in 1 .. Len(q) + 1 |-> row(Append(q, m)[i])]
  BY <1>5 DEF Rows, row
<1>7. Rows(q) = [i \in 1 .. Len(q) |-> row(q[i])]
  BY <1>1 DEF Rows, row
<1>8. Append(Rows(q), row(m)) = [i \in 1 .. Len(q) + 1 |-> IF i = Len(q) + 1 THEN row(m) ELSE Rows(q)[i]]
  <2> DEFINE R == {row(x) : x \in M}
             rows == Rows(q)
             e == row(m)
             n == Len(q)
  <2>1. rows \in Seq(R) /\ Len(rows) = n /\ e \in R /\ n \in Nat
    BY <1>1, <1>2
  <2> HIDE DEF R, rows, e, n
  <2> DEFINE y == [i \in 1 .. n + 1 |-> IF i = n + 1 THEN e ELSE rows[i]]
  <2>3. /\ Append(rows, e) \in Seq(R) /\ Len(Append(rows, e)) = n + 1
        /\ \A i \in 1 .. n : Append(rows, e)[i] = rows[i]
        /\ Append(rows, e)[n + 1] = e
    BY <2>1, AppendProperties
  <2>4. y \in Seq(R) /\ Len(y) = n + 1
    BY <2>1
  <2>5. \A i \in 1 .. n + 1 : Append(rows, e)[i] = y[i]
    BY <2>1, <2>3
  <2> HIDE DEF y
  <2>6. Append(rows, e) = y
    BY <2>1, <2>3, <2>4, <2>5, SeqEqual
  <2>2. Append(rows, e) = [i \in 1 .. n + 1 |-> IF i = n + 1 THEN e ELSE rows[i]]
    BY <2>6 DEF y
  <2> QED
    BY <2>2 DEF rows, e, n
<1> QED
  BY <1>1, <1>4, <1>6, <1>7, <1>8 DEF row

LEMMA RowsOfNone == ASSUME NEW s PROVE RowsOf(<<>>, s) = <<>>
<1>1. Selected(<<>>, DueEvent(s)) = <<>>
  BY SelectedOfNone
<1> QED
  BY <1>1 DEF RowsOf

LEMMA RowsAppend ==
    ASSUME NEW q \in Seq(ManagerEvent), NEW m \in ManagerEvent, NEW s
    PROVE  RowsOf(Append(q, m), s) = IF m \in DueEvent(s) THEN Append(RowsOf(q, s), Row(m))
                                     ELSE RowsOf(q, s)
<1> DEFINE x == Selected(q, DueEvent(s))
<1>1. x \in Seq(ManagerEvent \cap DueEvent(s))
  BY SelectedTyped
<1>2. \A y : RowsOf(y, s) = Rows(Selected(y, DueEvent(s)))
  BY DEF RowsOf, Rows
<1>3. Selected(Append(q, m), DueEvent(s)) = IF m \in DueEvent(s) THEN Append(x, m) ELSE x
  BY SelectedAppend, Zenon
<1> HIDE DEF x
<1>4. m \in DueEvent(s) => Rows(Append(x, m)) = Append(Rows(x), Row(m))
  BY <1>1, RowsGrow
<1>5. RowsOf(q, s) = Rows(x)
  BY <1>2 DEF x
<1> QED
  BY <1>2, <1>3, <1>4, <1>5

LEMMA RowsTyped ==
    ASSUME NEW q \in Seq(ManagerEvent), NEW s
    PROVE  RowsOf(q, s) \in Seq(ManagerRow)
<1> DEFINE T == {p \in Seq(ManagerEvent) : RowsOf(p, s) \in Seq(ManagerRow)}
<1>1. <<>> \in T
  BY RowsOfNone, EmptySeq
<1>2. ASSUME NEW p \in T, NEW m \in ManagerEvent
      PROVE  Append(p, m) \in T
  <2>1. Append(p, m) \in Seq(ManagerEvent)
    BY AppendProperties
  <2>2. m \in DueEvent(s) => Append(RowsOf(p, s), Row(m)) \in Seq(ManagerRow)
    BY DueRow, AppendProperties
  <2> QED
    BY <2>1, <2>2, RowsAppend
<1>3. T = Seq(ManagerEvent)
  <2> HIDE DEF T
  <2>1. T \in SUBSET Seq(ManagerEvent)
    BY DEF T
  <2> QED
    BY <1>1, <1>2, <2>1, SequenceInduction
<1> QED
  BY <1>3

LEMMA RowsConcat ==
    ASSUME NEW p \in Seq(ManagerEvent), NEW q \in Seq(ManagerEvent), NEW s
    PROVE  RowsOf(p \o q, s) = RowsOf(p, s) \o RowsOf(q, s)
<1> DEFINE T == {r \in Seq(ManagerEvent) : RowsOf(p \o r, s) = RowsOf(p, s) \o RowsOf(r, s)}
<1>1. <<>> \in T
  <2>1. RowsOf(p, s) \in Seq(ManagerRow)
    BY RowsTyped
  <2>2. RowsOf(p, s) \o <<>> = RowsOf(p, s) /\ p \o <<>> = p
    BY <2>1, ConcatEmptySeq
  <2> QED
    BY <2>2, RowsOfNone, EmptySeq
<1>2. ASSUME NEW r \in T, NEW m \in ManagerEvent
      PROVE  Append(r, m) \in T
  <2> DEFINE pr == p \o r
             x == RowsOf(p, s)
             y == RowsOf(r, s)
  <2>1. r \in Seq(ManagerEvent) /\ Append(r, m) \in Seq(ManagerEvent) /\ pr \in Seq(ManagerEvent)
    BY AppendProperties, ConcatProperties
  <2>2. p \o Append(r, m) = Append(pr, m)
    BY <2>1, ConcatAppend
  <2>3. RowsOf(pr, s) = x \o y
    OBVIOUS
  <2>4. x \in Seq(ManagerRow) /\ y \in Seq(ManagerRow)
    BY <2>1, RowsTyped
  <2>5. RowsOf(Append(r, m), s) = IF m \in DueEvent(s) THEN Append(y, Row(m)) ELSE y
    BY <2>1, RowsAppend, Zenon
  <2> HIDE DEF pr, x, y
  <2>6. RowsOf(Append(pr, m), s) = IF m \in DueEvent(s) THEN Append(RowsOf(pr, s), Row(m))
                                   ELSE RowsOf(pr, s)
    BY <2>1, RowsAppend, Zenon
  <2>7. m \in DueEvent(s) => Append(x \o y, Row(m)) = x \o Append(y, Row(m))
    <3> SUFFICES ASSUME m \in DueEvent(s)
                 PROVE  Append(x \o y, Row(m)) = x \o Append(y, Row(m))
      OBVIOUS
    <3> DEFINE e == Row(m)
    <3>1. e \in ManagerRow
      BY DueRow
    <3> HIDE DEF e
    <3>2. Append(x \o y, e) = x \o Append(y, e)
      BY <2>4, <3>1
    <3> QED
      BY <3>2 DEF e
  <2>8. RowsOf(Append(pr, m), s) = x \o RowsOf(Append(r, m), s)
    BY <2>3, <2>5, <2>6, <2>7
  <2> QED
    BY <2>1, <2>2, <2>8 DEF x
<1>3. T = Seq(ManagerEvent)
  <2> HIDE DEF T
  <2>1. T \in SUBSET Seq(ManagerEvent)
    BY DEF T
  <2> QED
    BY <1>1, <1>2, <2>1, SequenceInduction
<1> QED
  BY <1>3

-----------------------------------------------------------------------------
(***************************************************************************)
(* The invariant of the logger's bookkeeping.  The manager publishes only  *)
(* what it is there to say, about its sessions so far and under the one    *)
(* condition; the logger opens files only where it is enabled.             *)
(***************************************************************************)
OwnEvent == {m \in ManagerEvent : m.condition = config.condition /\ m.session \in 1 .. session}

Status == {"UNKNOWN", "PENDING", "GRANTED", "REFUSED", "REVOKED", "EXPIRED"}

LoggerTyped ==
    /\ activeSession \in Session \cup {0} /\ logOf \in Session \cup {0}
    /\ failed \in BOOLEAN
    /\ age \in {"none", "young", "timed out"}
    /\ files \in [Session -> Seq(LogRow)]

OpenIfEnabled == logOf # 0 => Enabled

ManagerTyped ==
    /\ session \in Session /\ announced \in Session \cup {0}
    /\ status \in [Policy -> Status]

EventsTyped ==
    /\ config \in Configuration
    /\ eventTopic \in Seq(OwnEvent) /\ published \in Seq(OwnEvent)
    /\ Len(eventTopic) <= MaxUnderWay /\ Len(published) <= MaxPublished

LogInv ==
    /\ LoggerTyped /\ OpenIfEnabled /\ ManagerTyped /\ EventsTyped
    /\ foreign \in 0 .. MaxForeign /\ loggerRun \in 1 .. MaxLoggerRun

-----------------------------------------------------------------------------
LEMMA StartEventsTyped ==
    ASSUME config \in Configuration, NEW s \in Session
    PROVE  /\ StartEvents(s) \in Seq({m \in ManagerEvent : m.condition = config.condition
                                                          /\ m.session = s})
           /\ Len(StartEvents(s)) <= 2
<1> DEFINE a == Event("session_started", s, "none", "none")
           b == Event("consent_requested", s, AllCapabilities, "none")
           z == IF BeginsStatic THEN <<b>> ELSE <<>>
           M == {m \in ManagerEvent : m.condition = config.condition /\ m.session = s}
<1>1. StartEvents(s) = <<a>> \o z
  BY DEF StartEvents
<1>2. a \in M
  BY SessionEventIsTyped
<1>3. b \in M
  <2>1. AllCapabilities \in Capability /\ "none" \in DecisionsOf("consent_requested")
    BY SessionLogAssumption DEF DecisionsOf
  <2> QED
    BY <2>1, ConsentEventIsTyped
<1> HIDE DEF a, b, M
<1>4. <<a>> \in Seq(M) /\ Len(<<a>>) = 1
  BY <1>2
<1>5. z \in Seq(M) /\ Len(z) <= 1
  <2>1. /\ <<b>> \in Seq(M) /\ Len(<<b>>) <= 1
        /\ <<>> \in Seq(M) /\ Len(<<>>) <= 1
    BY <1>3
  <2> QED
    BY <2>1, Zenon
<1> HIDE DEF z
<1>6. StartEvents(s) \in Seq(M) /\ Len(StartEvents(s)) <= 2
  BY <1>1, <1>4, <1>5
<1> QED
  BY <1>6 DEF M

-----------------------------------------------------------------------------
(***************************************************************************)
(* The disk.                                                               *)
(***************************************************************************)
LEMMA StartedIsRow == Started \in LogRow
BY DEF Started, LogRow, LoggedTypes

LEMMA FittingRow ==
    ASSUME NEW m, Fits(m) PROVE Row(m) \in LogRow
<1>1. m.type \in LoggedTypes /\ m.capability \in Tokens \cup {"none"}
  BY DEF Fits, CapabilitiesOf
<1>2. m.decision \in {"granted", "refused", "revoked", "none"}
  BY DEF Fits, DecisionsOf
<1>3. m.outcome \in {"none", "success", "fallback", "abandoned"}
  BY DEF Fits, OutcomesOf
<1> QED
  BY <1>1, <1>2, <1>3 DEF Row, LogRow

LEMMA AppendedRow ==
    ASSUME files \in [Session -> Seq(LogRow)], NEW s \in Session, NEW row \in LogRow,
           Appended(s, row)
    PROVE  /\ files' \in [Session -> Seq(LogRow)]
           /\ \A t \in Session : files'[t] # files[t] =>
                 t = s /\ files'[t][Len(files'[t])] = row
<1>1. files[s] \in Seq(LogRow)
  OBVIOUS
<1>2. Append(files[s], row) \in Seq(LogRow)
      /\ Append(files[s], row)[Len(Append(files[s], row))] = row
  BY <1>1
<1> QED
  BY <1>2 DEF Appended

\* What a step of the logger may write once the session's time is up.
OnlyStarts ==
    \A s \in Session :
        age = "timed out" /\ files'[s] # files[s]
        => s # activeSession /\ files'[s][Len(files'[s])] = Started

LEMMA LoggerSilent ==
    ASSUME LoggerTyped, UNCHANGED files PROVE OnlyStarts /\ files' \in [Session -> Seq(LogRow)]
BY DEF OnlyStarts, LoggerTyped

LEMMA SessionMessage ==
    ASSUME LoggerTyped, NEW s \in Session, LoggerOnSession(s)
    PROVE  LoggerTyped' /\ OnlyStarts
<1>1. CASE LoggerSame
  <2>1. failed' \in BOOLEAN
    BY <1>1, Zenon DEF LoggerTyped, LoggerSame, loggerVars
  <2> QED
    BY <1>1, <2>1, LoggerSilent DEF LoggerTyped, LoggerSame, loggerVars
<1>2. CASE s # activeSession /\ Opens(s)
  <2>1. failed' \in BOOLEAN
    BY <1>2, Zenon DEF Opens
  <2>2. Appended(s, Started)
    BY <1>2 DEF Opens
  <2> QED
    BY <1>2, <2>1, <2>2, StartedIsRow, AppendedRow DEF Opens, LoggerTyped, OnlyStarts
<1>3. CASE s # activeSession /\ DoesNotOpen(s)
  <2>1. failed' \in BOOLEAN
    BY <1>3, Zenon DEF DoesNotOpen
  <2>2. activeSession' = 0 /\ age' = "none" /\ logOf' \in {0, s}
        /\ (UNCHANGED files \/ Appended(s, Started))
    BY <1>3 DEF DoesNotOpen, Tried
  <2>3. files' \in [Session -> Seq(LogRow)] /\ OnlyStarts
    BY <1>3, <2>2, LoggerSilent, StartedIsRow, AppendedRow DEF LoggerTyped, OnlyStarts
  <2> QED
    BY <2>1, <2>2, <2>3 DEF LoggerTyped
<1> QED
  BY <1>1, <1>2, <1>3 DEF LoggerOnSession

LEMMA TimesOutKeeps ==
    ASSUME LoggerTyped, TimesOut PROVE LoggerTyped' /\ OnlyStarts
<1>1. failed' \in BOOLEAN
  BY Zenon DEF TimesOut, FailClosed
<1> QED
  BY <1>1, LoggerSilent DEF TimesOut, FailClosed, LoggerTyped

LEMMA EventMessage ==
    ASSUME LoggerTyped, NEW m, LoggerOnEvent(m)
    PROVE  LoggerTyped' /\ OnlyStarts
<1>1. CASE LoggerSame
  <2>1. failed' \in BOOLEAN
    BY <1>1, Zenon DEF LoggerTyped, LoggerSame, loggerVars
  <2> QED
    BY <1>1, <2>1, LoggerSilent DEF LoggerTyped, LoggerSame, loggerVars
<1>2. CASE TimesOut
  BY <1>2, TimesOutKeeps
<1>3. CASE /\ Accepts(m) /\ age # "timed out" /\ Fits(m)
           /\ \/ Appended(logOf, Row(m)) /\ UNCHANGED <<activeSession, logOf, failed, age>>
              \/ FailClosed /\ Tried(logOf, Row(m))
  <2>1. logOf \in Session
    BY <1>3 DEF Accepts, LoggerTyped
  <2>2. UNCHANGED files \/ Appended(logOf, Row(m))
    BY <1>3 DEF Tried
  <2>3. files' \in [Session -> Seq(LogRow)]
    BY <1>3, <2>1, <2>2, LoggerSilent, FittingRow, AppendedRow DEF LoggerTyped
  <2>4. failed' \in BOOLEAN
    BY <1>3, Zenon DEF FailClosed, LoggerTyped
  <2>5. UNCHANGED activeSession /\ logOf' \in {0, logOf} /\ age' \in {"none", age}
    BY <1>3 DEF FailClosed
  <2>6. OnlyStarts
    BY <1>3 DEF OnlyStarts
  <2> QED
    BY <2>3, <2>4, <2>5, <2>6 DEF LoggerTyped
<1> QED
  BY <1>1, <1>2, <1>3 DEF LoggerOnEvent, TimedOut

LEMMA WaitKeeps ==
    ASSUME LoggerTyped, LoggerTimer \/ SessionAges \/ LoggerStarts
    PROVE  LoggerTyped' /\ OnlyStarts
<1>1. CASE LoggerTimer
  BY <1>1, TimesOutKeeps DEF LoggerTimer
<1>2. CASE SessionAges \/ LoggerStarts
  <2>1. failed' \in BOOLEAN
    BY <1>2, Zenon DEF SessionAges, LoggerStarts, LoggerTyped
  <2> QED
    BY <1>2, <2>1, LoggerSilent DEF SessionAges, LoggerStarts, LoggerTyped
<1> QED
  BY <1>1, <1>2

-----------------------------------------------------------------------------
(***************************************************************************)
(* The manager, and what is on its way.                                    *)
(***************************************************************************)
LEMMA StartStatusTyped == StartStatus \in [Policy -> Status]
BY DEF StartStatus, Status

LEMMA BecomesTyped ==
    ASSUME ManagerTyped, NEW c \in Policy, NEW new \in Status, Becomes(c, new)
    PROVE  ManagerTyped'
BY DEF ManagerTyped, Becomes

LEMMA PublishedTyped ==
    ASSUME LogInv, ManagerTyped', session <= session',
           NEW q \in Seq(OwnEvent'), Publishes(q)
    PROVE  LogInv' /\ UNCHANGED files
<1>1. config \in Configuration /\ UNCHANGED config
  BY DEF LogInv, EventsTyped, Publishes
<1>2. OwnEvent \subseteq OwnEvent'
  BY <1>1 DEF OwnEvent, LogInv, ManagerTyped, Session
<1>3. eventTopic \in Seq(OwnEvent') /\ published \in Seq(OwnEvent')
  BY <1>2, SeqMonotone DEF LogInv, EventsTyped
<1>4. eventTopic' \in Seq(OwnEvent') /\ published' \in Seq(OwnEvent')
  BY <1>3, ConcatProperties DEF Publishes
<1>5. Len(eventTopic') <= MaxUnderWay /\ Len(published') <= MaxPublished
  BY DEF Publishes
<1>6. EventsTyped'
  BY <1>1, <1>4, <1>5 DEF EventsTyped
<1>7. failed' \in BOOLEAN
  BY Zenon DEF LogInv, LoggerTyped, Publishes, loggerVars
<1>8. LoggerTyped' /\ OpenIfEnabled'
  BY <1>1, <1>7 DEF LogInv, LoggerTyped, OpenIfEnabled, Publishes, loggerVars, Enabled,
     Dynamic, Static
<1> QED
  BY <1>6, <1>8 DEF LogInv, Publishes, loggerVars

\* One event about one capability.
Says(c, new, type, d) ==
    /\ Becomes(c, new)
    /\ Publishes(<<Event(type, session, c, d)>>)

Changes ==
    { <<"PENDING", "consent_requested", "none">>, <<"GRANTED", "consent_decided", "granted">>,
      <<"REFUSED", "consent_decided", "refused">>, <<"REVOKED", "consent_revoked", "revoked">>,
      <<"EXPIRED", "consent_expired", "none">> }

LEMMA EachStepSays ==
    ASSUME NEW c \in Policy,
           Asks(c) \/ Withdraws(c) \/ Expires(c) \/ \E granted \in BOOLEAN : Decides(c, granted)
    PROVE  \E new, type, d : <<new, type, d>> \in Changes /\ Says(c, new, type, d)
<1>1. CASE Asks(c)
  BY <1>1 DEF Asks, Says, Changes
<1>2. CASE Withdraws(c)
  BY <1>2 DEF Withdraws, Says, Changes
<1>3. CASE Expires(c)
  BY <1>3 DEF Expires, Says, Changes
<1>4. CASE \E granted \in BOOLEAN : Decides(c, granted)
  <2>1. PICK granted \in BOOLEAN : Decides(c, granted)
    BY <1>4
  <2>2. Says(c, StatusOf(granted), "consent_decided", Told(granted))
    BY <2>1 DEF Decides, Says
  <2>3. <<StatusOf(granted), "consent_decided", Told(granted)>> \in Changes
    BY DEF StatusOf, Told, Changes
  <2> QED
    BY <2>2, <2>3
<1> QED
  BY <1>1, <1>2, <1>3, <1>4

LEMMA SaidIsTyped ==
    ASSUME LogInv, NEW c \in Policy, NEW new, NEW type, NEW d, <<new, type, d>> \in Changes
    PROVE  /\ new \in Status
           /\ Event(type, session, c, d) \in OwnEvent
<1>1. new \in Status /\ d \in DecisionsOf(type)
      /\ type \in {"consent_requested", "consent_decided", "consent_revoked",
                   "consent_expired"}
  BY DEF Changes, Status, DecisionsOf
<1>2. session \in Session /\ config \in Configuration /\ c \in Capability
  BY PolicyAssumption DEF LogInv, ManagerTyped, EventsTyped
<1>3. session \in 1 .. session
  BY <1>2, SessionsExist
<1> QED
  BY <1>1, <1>2, <1>3, ConsentEventIsTyped DEF OwnEvent

LEMMA SaysKeeps ==
    ASSUME LogInv, NEW c \in Policy, NEW new, NEW type, NEW d,
           <<new, type, d>> \in Changes, Says(c, new, type, d)
    PROVE  LogInv' /\ UNCHANGED files
<1>1. ManagerTyped' /\ session' = session
  BY SaidIsTyped, BecomesTyped DEF Says, Becomes, LogInv
<1>2. OwnEvent' = OwnEvent
  BY <1>1 DEF OwnEvent, Says, Publishes
<1>3. session <= session'
  BY <1>1, SessionsExist DEF LogInv, ManagerTyped
<1> DEFINE e == Event(type, session, c, d)
<1>4. e \in OwnEvent'
  BY <1>2, SaidIsTyped
<1>5. Publishes(<<e>>)
  BY DEF Says
<1> HIDE DEF e
<1>6. <<e>> \in Seq(OwnEvent')
  BY <1>4
<1> QED
  BY <1>1, <1>3, <1>5, <1>6, PublishedTyped

\* The decisions about all capabilities.
DecisionEvents(granted) ==
    [i \in DOMAIN SortedPolicy |->
        Event("consent_decided", session, SortedPolicy[i], Told(granted))]

LEMMA DecisionEventsTyped ==
    ASSUME LogInv, NEW granted \in BOOLEAN
    PROVE  /\ DecisionEvents(granted) \in Seq(OwnEvent)
           /\ Len(DecisionEvents(granted)) = Len(SortedPolicy)
<1> DEFINE e(i) == Event("consent_decided", session, SortedPolicy[i], Told(granted))
<1>1. Len(SortedPolicy) \in Nat /\ DOMAIN SortedPolicy = 1 .. Len(SortedPolicy)
      /\ \A i \in DOMAIN SortedPolicy : SortedPolicy[i] \in Policy
  BY SessionLogAssumption
<1>2. \A i \in DOMAIN SortedPolicy : e(i) \in OwnEvent
  <2>1. <<StatusOf(granted), "consent_decided", Told(granted)>> \in Changes
    BY DEF StatusOf, Told, Changes
  <2> QED
    BY <1>1, <2>1, SaidIsTyped
<1>3. DecisionEvents(granted) = [i \in DOMAIN SortedPolicy |-> e(i)]
  BY DEF DecisionEvents
<1> HIDE DEF e
<1> QED
  BY <1>1, <1>2, <1>3

LEMMA DecidesAllKeeps ==
    ASSUME LogInv, NEW granted \in BOOLEAN, DecidesAll(granted)
    PROVE  LogInv' /\ UNCHANGED files
<1>1. StatusOf(granted) \in Status
  BY DEF StatusOf, Status
<1>2. ManagerTyped' /\ session' = session
  BY <1>1 DEF DecidesAll, ManagerTyped, LogInv
<1>3. Publishes(DecisionEvents(granted))
  BY DEF DecidesAll, DecisionEvents
<1>4. OwnEvent' = OwnEvent
  BY <1>2, <1>3 DEF OwnEvent, Publishes
<1>5. session <= session'
  BY <1>2, SessionsExist DEF LogInv, ManagerTyped
<1> QED
  BY <1>2, <1>3, <1>4, <1>5, DecisionEventsTyped, PublishedTyped

\* A session ends, perhaps with a last event, and the next begins.
Last(q) == q = <<>> \/ q = <<Event("session_reset", session, "none", "none")>>

LEMMA NewSessionSays ==
    ASSUME NewSession
    PROVE  \E q : Last(q) /\ Publishes(q \o StartEvents(session'))
<1>1. CASE Publishes(StartEvents(session'))
  <2>1. <<>> \o StartEvents(session') = StartEvents(session')
    BY DEF StartEvents
  <2>2. Last(<<>>) /\ Publishes(<<>> \o StartEvents(session'))
    BY <1>1, <2>1 DEF Last
  <2> QED
    BY <2>2
<1>2. CASE Publishes(<<Event("session_reset", session, "none", "none")>>
                     \o StartEvents(session'))
  BY <1>2 DEF Last
<1> QED
  BY <1>1, <1>2 DEF NewSession

LEMMA NewSessionTyped ==
    ASSUME LogInv, NewSession
    PROVE  /\ ManagerTyped' /\ session' = session + 1 /\ session \in Session
           /\ UNCHANGED config
           /\ OwnEvent \subseteq OwnEvent'
           /\ StartEvents(session') \in Seq(OwnEvent')
           /\ \A q : Last(q) => q \in Seq(OwnEvent)
<1>1. session \in Session /\ session' = session + 1 /\ UNCHANGED config /\ ManagerTyped'
  BY StartStatusTyped, SessionLogAssumption
  DEF LogInv, NewSession, ManagerTyped, Session, Publishes
<1>2. config \in Configuration /\ session' \in Session
  BY <1>1 DEF LogInv, EventsTyped, ManagerTyped
<1>3. OwnEvent \subseteq OwnEvent'
  BY <1>1 DEF OwnEvent, Session
<1>4. {m \in ManagerEvent : m.condition = config.condition /\ m.session = session'}
         \subseteq OwnEvent'
  BY <1>1, SessionsExist DEF OwnEvent, Session
<1>5. StartEvents(session') \in Seq(OwnEvent')
  BY <1>2, <1>4, StartEventsTyped, SeqMonotone
<1>6. ASSUME NEW q, Last(q)
      PROVE  q \in Seq(OwnEvent)
  <2> DEFINE e == Event("session_reset", session, "none", "none")
  <2>1. e \in ManagerEvent /\ e.condition = config.condition /\ e.session = session
    BY <1>1, <1>2, SessionEventIsTyped
  <2>2. q = <<>> \/ q = <<e>>
    BY <1>6 DEF Last
  <2> HIDE DEF e
  <2>3. e \in OwnEvent
    BY <1>1, <2>1, SessionsExist DEF OwnEvent
  <2>4. <<e>> \in Seq(OwnEvent) /\ <<>> \in Seq(OwnEvent)
    BY <2>3
  <2> QED
    BY <2>2, <2>4
<1> QED
  BY <1>1, <1>3, <1>5, <1>6

LEMMA NewSessionKeeps ==
    ASSUME LogInv, NewSession
    PROVE  LogInv' /\ UNCHANGED files
<1>1. PICK q : Last(q) /\ Publishes(q \o StartEvents(session'))
  BY NewSessionSays
<1>2. q \in Seq(OwnEvent')
  BY <1>1, NewSessionTyped, SeqMonotone
<1>3. q \o StartEvents(session') \in Seq(OwnEvent')
  BY <1>2, NewSessionTyped, ConcatProperties
<1>4. session <= session'
  <2>1. session \in Session /\ session' = session + 1
    BY NewSessionTyped
  <2> QED
    BY <2>1, SessionsExist
<1> QED
  BY <1>1, <1>3, <1>4, NewSessionTyped, PublishedTyped

LEMMA ManagerKeeps ==
    ASSUME LogInv, ManagerSteps
    PROVE  LogInv' /\ UNCHANGED files
BY NewSessionKeeps, DecidesAllKeeps, EachStepSays, SaysKeeps DEF ManagerSteps

-----------------------------------------------------------------------------
(***************************************************************************)
(* The logger's steps, and all steps.                                      *)
(***************************************************************************)
LEMMA LoggerChanges ==
    ASSUME LogInv, LoggerSteps
    PROVE  /\ UNCHANGED <<config, session, status, published>>
           /\ announced' \in {announced, 0, session}
           /\ \/ UNCHANGED eventTopic
              \/ eventTopic # <<>> /\ eventTopic' = Tail(eventTopic)
              \/ eventTopic' = <<>>
           /\ foreign' \in 0 .. MaxForeign /\ loggerRun' \in 1 .. MaxLoggerRun
<1>1. foreign \in 0 .. MaxForeign /\ loggerRun \in 1 .. MaxLoggerRun
  BY DEF LogInv
<1>2. UNCHANGED <<config, session, status, published>>
  BY DEF LoggerSteps, TakesEvent, TakesSession, TakesForeignEvent, LoggerWaits,
     LoggerRestarts, managerSide
<1>3. announced' \in {announced, 0, session}
  BY DEF LoggerSteps, TakesEvent, TakesSession, TakesForeignEvent, LoggerWaits,
     LoggerRestarts, managerSide
<1>4. \/ UNCHANGED eventTopic
      \/ eventTopic # <<>> /\ eventTopic' = Tail(eventTopic)
      \/ eventTopic' = <<>>
  BY DEF LoggerSteps, TakesEvent, TakesSession, TakesForeignEvent, LoggerWaits, LoggerRestarts
<1>5. foreign' \in 0 .. MaxForeign /\ loggerRun' \in 1 .. MaxLoggerRun
  BY <1>1, SessionLogAssumption
  DEF LoggerSteps, TakesEvent, TakesSession, TakesForeignEvent, LoggerWaits, LoggerRestarts
<1> QED
  BY <1>2, <1>3, <1>4, <1>5

LEMMA LoggerOpensIfEnabled ==
    ASSUME OpenIfEnabled, LoggerSteps
    PROVE  OpenIfEnabled'
<1>1. Enabled' = Enabled
  BY DEF LoggerSteps, Enabled, Dynamic, Static
<1>2. logOf' # 0 => logOf' = logOf \/ Enabled
  BY DEF LoggerSteps, TakesEvent, TakesSession, TakesForeignEvent, LoggerWaits, LoggerRestarts,
     LoggerOnEvent, LoggerOnSession, LoggerTimer, SessionAges, LoggerStarts, LoggerSame,
     loggerVars, TimesOut, FailClosed
<1> QED
  BY <1>1, <1>2 DEF OpenIfEnabled

LEMMA LoggerKeeps ==
    ASSUME LogInv, LoggerSteps
    PROVE  LogInv' /\ OnlyStarts
<1>1. LoggerTyped /\ ManagerTyped /\ EventsTyped /\ OpenIfEnabled
  BY DEF LogInv
<1>2. LoggerTyped' /\ OnlyStarts
  <2>1. announced # 0 => announced \in Session
    BY <1>1 DEF ManagerTyped
  <2> QED
    BY <1>1, <2>1, EventMessage, SessionMessage, WaitKeeps
    DEF LoggerSteps, TakesEvent, TakesSession, TakesForeignEvent, LoggerWaits, LoggerRestarts
<1>3. ManagerTyped'
  BY <1>1, LoggerChanges DEF ManagerTyped
<1>4. OwnEvent' = OwnEvent
  BY LoggerChanges DEF OwnEvent
<1>5. eventTopic' \in Seq(OwnEvent) /\ Len(eventTopic') <= MaxUnderWay
  <2> DEFINE T == OwnEvent
  <2>1. eventTopic \in Seq(T) /\ Len(eventTopic) <= MaxUnderWay /\ MaxUnderWay \in Nat
    BY <1>1, SessionLogAssumption DEF EventsTyped
  <2> HIDE DEF T
  <2>2. Len(eventTopic) \in Nat
    BY <2>1, LenProperties
  <2>3. <<>> \in Seq(T) /\ Len(<<>>) = 0
    OBVIOUS
  <2>4. eventTopic # <<>> => Tail(eventTopic) \in Seq(T)
                             /\ Len(Tail(eventTopic)) = Len(eventTopic) - 1
    BY <2>1
  <2>5. CASE UNCHANGED eventTopic
    BY <2>1, <2>5 DEF T
  <2>6. CASE eventTopic # <<>> /\ eventTopic' = Tail(eventTopic)
    BY <2>1, <2>2, <2>4, <2>6 DEF T
  <2>7. CASE eventTopic' = <<>>
    BY <2>1, <2>3, <2>7 DEF T
  <2> QED
    BY LoggerChanges, <2>5, <2>6, <2>7
<1>6. EventsTyped'
  BY <1>1, <1>4, <1>5, LoggerChanges DEF EventsTyped
<1> QED
  BY <1>1, <1>2, <1>3, <1>6, LoggerChanges, LoggerOpensIfEnabled DEF LogInv

LEMMA LogInit == Init => LogInv
<1> SUFFICES ASSUME Init PROVE LogInv
  OBVIOUS
<1>1. failed \in BOOLEAN
  BY Zenon DEF Init, LoggerInit
<1>2. LoggerTyped /\ OpenIfEnabled
  BY <1>1 DEF Init, LoggerInit, LoggerTyped, OpenIfEnabled
<1>3. ManagerTyped
  BY StartStatusTyped, SessionsExist DEF Init, ManagerTyped
<1>4. EventsTyped
  <2>1. config \in Configuration /\ session = 1 /\ 1 \in Session
    BY ConfigurationsAssumption, SessionsExist DEF Init
  <2>2. {m \in ManagerEvent : m.condition = config.condition /\ m.session = 1} \subseteq OwnEvent
    BY <2>1 DEF OwnEvent
  <2>3. StartEvents(1) \in Seq(OwnEvent) /\ Len(StartEvents(1)) <= 2
    BY <2>1, <2>2, StartEventsTyped, SeqMonotone
  <2>4. Len(StartEvents(1)) \in Nat
    BY <2>3, LenProperties
  <2> QED
    BY <2>1, <2>3, <2>4, SessionLogAssumption DEF Init, EventsTyped
<1> QED
  BY <1>2, <1>3, <1>4, SessionLogAssumption DEF Init, LogInv

LEMMA LogStutters ==
    ASSUME LogInv, UNCHANGED vars PROVE LogInv'
<1>1. failed' \in BOOLEAN
  BY Zenon DEF LogInv, LoggerTyped, vars, loggerVars
<1>2. LoggerTyped' /\ ManagerTyped' /\ foreign' \in 0 .. MaxForeign
      /\ loggerRun' \in 1 .. MaxLoggerRun
  BY <1>1 DEF LogInv, LoggerTyped, ManagerTyped, vars, loggerVars, managerSide
<1>3. UNCHANGED <<config, logOf, session, eventTopic, published>>
  BY DEF vars, loggerVars, managerSide
<1>4. OpenIfEnabled'
  BY <1>3 DEF LogInv, OpenIfEnabled, Enabled, Dynamic, Static
<1>5. OwnEvent' = OwnEvent
  BY <1>3 DEF OwnEvent
<1>6. EventsTyped'
  BY <1>3, <1>5 DEF LogInv, EventsTyped
<1> QED
  BY <1>2, <1>4, <1>6 DEF LogInv

LEMMA LogStep ==
    ASSUME LogInv, [Next]_vars PROVE LogInv' /\ OnlyStarts
<1>1. CASE UNCHANGED vars
  BY <1>1, LogStutters, LoggerSilent DEF LogInv, vars, loggerVars
<1>2. CASE ManagerSteps
  BY <1>2, ManagerKeeps, LoggerSilent DEF LogInv
<1> QED
  BY <1>1, <1>2, LoggerKeeps DEF Next

-----------------------------------------------------------------------------
(***************************************************************************)
(* The invariant holds for any policy and any bounds.                      *)
(***************************************************************************)
THEOREM LogInvariant == Spec => []LogInv
<1>1. LogInv /\ [Next]_vars => LogInv'
  BY LogStep
<1> QED
  BY LogInit, <1>1, PTL DEF Spec

(***************************************************************************)
(* Every variable has its type; in particular, whatever is published on    *)
(* /consent/event, a row on disk has the closed schema of event_log.py.    *)
(***************************************************************************)
THEOREM LogTypeInvariant == Spec => []LogTypeOK
<1>1. LogInv => eventTopic \in Seq(ManagerEvent) /\ published \in Seq(ManagerEvent)
  <2>1. OwnEvent \subseteq ManagerEvent
    BY DEF OwnEvent
  <2> QED
    BY <2>1, SeqMonotone DEF LogInv, EventsTyped
<1>2. LogInv => LogTypeOK
  BY <1>1, Zenon DEF LogInv, LoggerTyped, ManagerTyped, EventsTyped, Status, LogTypeOK
<1> QED
  BY LogInvariant, <1>2, PTL

(***************************************************************************)
(* Once the time of a session is up, nothing is written but the first row  *)
(* of the file of another session.                                         *)
(***************************************************************************)
THEOREM NothingLoggedLateAlways == Spec => NothingLoggedLate
<1>1. LogInv /\ [Next]_vars => [OnlyStarts]_vars
  BY LogStep
<1> QED
  BY LogInvariant, <1>1, PTL DEF Spec, NothingLoggedLate, OnlyStarts
-----------------------------------------------------------------------------
(***************************************************************************)
(* What an open log is worth.  The events published so far are those that  *)
(* left the topic, p, and those still on it.  The file of the session that *)
(* is recorded ends in a part b after its last opening, and a last part r  *)
(* of p is all there is in b of the manager's.                             *)
(***************************************************************************)
LaterRow == LogRow \ {Started}

Recorded(p, s) ==
    \E a \in Seq(LogRow), b \in Seq(LaterRow),
       q \in Seq(ManagerEvent), r \in Seq(ManagerEvent) :
        /\ files[s] = Append(a, Started) \o b
        /\ p = q \o r
        /\ Selected(b, ManagerRow) = RowsOf(r, s)

Complete(p) ==
    /\ published = p \o eventTopic
    /\ \A s \in Session : Recording(s) => Recorded(p, s)

LogComplete == \E p \in Seq(ManagerEvent) : Complete(p)

LEMMA LaterRows == LaterRow \subseteq LogRow
BY DEF LaterRow

LEMMA RecordedPassesOver ==
    ASSUME NEW p, NEW s, Recorded(p, s), files'[s] = files[s],
           NEW m \in ManagerEvent, m \notin DueEvent(s)
    PROVE  Recorded(Append(p, m), s)'
<1>1. PICK a \in Seq(LogRow), b \in Seq(LaterRow),
           q \in Seq(ManagerEvent), r \in Seq(ManagerEvent) :
             /\ files[s] = Append(a, Started) \o b
             /\ p = q \o r
             /\ Selected(b, ManagerRow) = RowsOf(r, s)
  BY DEF Recorded
<1> DEFINE z == Append(r, m)
<1>2. z \in Seq(ManagerEvent)
  BY AppendProperties
<1>3. RowsOf(z, s) = RowsOf(r, s)
  BY RowsAppend
<1>4. Append(p, m) = q \o z
  <2>1. Associates(q, r, m)
    BY AppendAssociates, Zenon
  <2> QED
    BY <1>1, <2>1 DEF Associates
<1> HIDE DEF z
<1> QED
  BY <1>1, <1>2, <1>3, <1>4 DEF Recorded

LEMMA RecordedNotes ==
    ASSUME NEW p, NEW s, Recorded(p, s), NEW m \in DueEvent(s),
           files'[s] = Append(files[s], Row(m))
    PROVE  Recorded(Append(p, m), s)'
<1>1. PICK a \in Seq(LogRow), b \in Seq(LaterRow),
           q \in Seq(ManagerEvent), r \in Seq(ManagerEvent) :
             /\ files[s] = Append(a, Started) \o b
             /\ p = q \o r
             /\ Selected(b, ManagerRow) = RowsOf(r, s)
  BY DEF Recorded
<1> DEFINE z == Append(r, m)
           e == Row(m)
           y == Append(b, e)
           as == Append(a, Started)
<1>2. m \in ManagerEvent /\ e \in ManagerRow /\ e \in LaterRow
  BY DueRow DEF ManagerRow, LaterRow
<1>3. z \in Seq(ManagerEvent) /\ y \in Seq(LaterRow)
  BY <1>2, AppendProperties
<1>4. RowsOf(z, s) = Append(RowsOf(r, s), e)
  BY <1>2, RowsAppend
<1>5. Append(p, m) = q \o z
  <2>1. Associates(q, r, m)
    BY <1>2, AppendAssociates, Zenon
  <2> QED
    BY <1>1, <2>1 DEF Associates
<1> HIDE DEF z, e
<1>6. Selected(y, ManagerRow) = Append(Selected(b, ManagerRow), e)
  <2>1. e \in LaterRow
    BY <1>2
  <2>2. Selected(Append(b, e), ManagerRow) =
          IF e \in ManagerRow THEN Append(Selected(b, ManagerRow), e) ELSE Selected(b, ManagerRow)
    <3> HIDE DEF y
    <3> QED
      BY <2>1, SelectedAppend, Zenon
  <2> QED
    BY <1>2, <2>2
<1>7. files'[s] = as \o y
  <2>1. as \in Seq(LogRow) /\ b \in Seq(LogRow) /\ e \in LogRow
    BY <1>2, StartedIsRow, LaterRows, AppendProperties, SeqMonotone
  <2>2. files'[s] = Append(as \o b, e)
    BY <1>1 DEF e
  <2> HIDE DEF as
  <2>3. Associates(as, b, e)
    BY <2>1, AppendAssociates, Zenon
  <2> QED
    BY <2>2, <2>3 DEF Associates
<1> HIDE DEF y
<1>8. Selected(y, ManagerRow) = RowsOf(z, s)
  BY <1>1, <1>4, <1>6
<1> QED
  BY <1>3, <1>5, <1>7, <1>8 DEF Recorded

LEMMA RecordedForeign ==
    ASSUME NEW p, NEW s, Recorded(p, s), NEW e \in LogRow, e \notin ManagerRow,
           files'[s] = Append(files[s], e)
    PROVE  Recorded(p, s)'
<1>1. PICK a \in Seq(LogRow), b \in Seq(LaterRow),
           q \in Seq(ManagerEvent), r \in Seq(ManagerEvent) :
             /\ files[s] = Append(a, Started) \o b
             /\ p = q \o r
             /\ Selected(b, ManagerRow) = RowsOf(r, s)
  BY DEF Recorded
<1> DEFINE y == Append(b, e)
           as == Append(a, Started)
<1>2. e \in LaterRow
  BY StartedIsRow DEF Started, ManagerRow, LaterRow
<1>3. y \in Seq(LaterRow)
  BY <1>2, AppendProperties
<1>4. Selected(y, ManagerRow) = Selected(b, ManagerRow)
  <2>1. Selected(Append(b, e), ManagerRow) =
          IF e \in ManagerRow THEN Append(Selected(b, ManagerRow), e) ELSE Selected(b, ManagerRow)
    <3> HIDE DEF y
    <3> QED
      BY <1>2, SelectedAppend, Zenon
  <2> QED
    BY <2>1
<1>5. files'[s] = as \o y
  <2>1. as \in Seq(LogRow) /\ b \in Seq(LogRow)
    BY StartedIsRow, LaterRows, AppendProperties, SeqMonotone
  <2>2. files'[s] = Append(as \o b, e)
    BY <1>1
  <2> HIDE DEF as
  <2>3. Associates(as, b, e)
    BY <2>1, AppendAssociates, Zenon
  <2> QED
    BY <2>2, <2>3 DEF Associates
<1> HIDE DEF y
<1> QED
  BY <1>1, <1>3, <1>4, <1>5 DEF Recorded

LEMMA RecordedOpens ==
    ASSUME NEW p \in Seq(ManagerEvent), NEW s, files[s] \in Seq(LogRow),
           files'[s] = Append(files[s], Started)
    PROVE  Recorded(p, s)'
<1> DEFINE a == files[s]
           as == Append(a, Started)
<1>1. as \in Seq(LogRow)
  BY StartedIsRow, AppendProperties
<1>2. files'[s] = as \o <<>>
  <2> HIDE DEF as
  <2>1. as \o <<>> = as
    BY <1>1, ConcatEmptySeq
  <2> QED
    BY <2>1 DEF as
<1>3. p = p \o <<>>
  BY ConcatEmptySeq
<1>4. /\ <<>> \in Seq(LaterRow) /\ <<>> \in Seq(ManagerEvent)
      /\ Selected(<<>>, ManagerRow) = RowsOf(<<>>, s)
  BY SelectedOfNone, RowsOfNone, EmptySeq
<1> QED
  BY <1>2, <1>3, <1>4 DEF Recorded
-----------------------------------------------------------------------------
(***************************************************************************)
(* Who writes to the file of the session that is recorded after a step.    *)
(***************************************************************************)
LEMMA WriteToRecorded ==
    ASSUME LogInv, NEW m, LoggerOnEvent(m), NEW s \in Session, Recording(s)'
    PROVE  /\ Recording(s)
           /\ \/ /\ files'[s] = files[s]
                 /\ ~Accepts(m) \/ m.type = "session_started" \/ ~Fits(m)
              \/ /\ files'[s] = Append(files[s], Row(m))
                 /\ Accepts(m) /\ m.type # "session_started" /\ Fits(m)
<1>1. files \in [Session -> Seq(LogRow)]
  BY DEF LogInv, LoggerTyped
<1>2. ~failed'
  BY DEF Recording
<1>3. LoggerSame => Recording(s) /\ files'[s] = files[s]
  <2> SUFFICES ASSUME LoggerSame PROVE Recording(s) /\ files'[s] = files[s]
    OBVIOUS
  <2>1. UNCHANGED <<logOf, activeSession, failed, files>>
    BY DEF LoggerSame, loggerVars
  <2> QED
    BY <2>1, Zenon DEF Recording
<1>4. CASE ~Accepts(m) /\ LoggerSame
  BY <1>3, <1>4
<1>5. CASE TimesOut \/ FailClosed
  BY <1>2, <1>5 DEF TimesOut, FailClosed
<1>6. CASE LoggerSame /\ (m.type = "session_started" \/ ~Fits(m))
  BY <1>3, <1>6
<1>7. CASE /\ Accepts(m) /\ m.type # "session_started" /\ Fits(m)
           /\ Appended(logOf, Row(m)) /\ UNCHANGED <<activeSession, logOf, failed, age>>
  <2>1. Recording(s)
    BY <1>7, Zenon DEF Recording
  <2>2. files'[s] = Append(files[s], Row(m))
    BY <1>1, <1>7, <2>1 DEF Appended, Recording
  <2> QED
    BY <1>7, <2>1, <2>2
<1> QED
  BY <1>4, <1>5, <1>6, <1>7 DEF LoggerOnEvent

LEMMA SessionRecorded ==
    ASSUME LogInv, NEW x \in Session, LoggerOnSession(x), NEW s \in Session, Recording(s)'
    PROVE  \/ Recording(s) /\ files'[s] = files[s]
           \/ files'[s] = Append(files[s], Started)
<1>1. files \in [Session -> Seq(LogRow)]
  BY DEF LogInv, LoggerTyped
<1>2. ~failed'
  BY DEF Recording
<1>3. CASE LoggerSame
  <2>1. UNCHANGED <<logOf, activeSession, failed, files>>
    BY <1>3 DEF LoggerSame, loggerVars
  <2> QED
    BY <2>1, Zenon DEF Recording
<1>4. CASE Opens(x)
  <2>1. s = x
    BY <1>4 DEF Opens, Recording
  <2> QED
    BY <1>1, <1>4, <2>1 DEF Opens, Appended
<1>5. CASE DoesNotOpen(x)
  BY <1>2, <1>5 DEF DoesNotOpen
<1> QED
  BY <1>3, <1>4, <1>5 DEF LoggerOnSession

LEMMA InitComplete == Init => LogComplete
<1> SUFFICES ASSUME Init PROVE LogComplete
  OBVIOUS
<1>1. eventTopic \in Seq(OwnEvent)
  BY LogInit DEF LogInv, EventsTyped
<1>2. <<>> \o eventTopic = eventTopic
  BY <1>1, ConcatEmptySeq
<1>3. \A s \in Session : ~Recording(s)
  BY SessionsExist DEF Init, LoggerInit, Recording
<1>4. Complete(<<>>)
  BY <1>2, <1>3 DEF Complete, Init
<1>5. <<>> \in Seq(ManagerEvent)
  BY EmptySeq
<1> QED
  BY <1>4, <1>5 DEF LogComplete

LEMMA PublishesSome ==
    ASSUME LogInv, ManagerSteps
    PROVE  \E q \in Seq(ManagerEvent) : Publishes(q)
<1>1. OwnEvent \subseteq ManagerEvent /\ OwnEvent' \subseteq ManagerEvent
  BY DEF OwnEvent
<1>2. CASE NewSession
  <2>1. PICK q : Last(q) /\ Publishes(q \o StartEvents(session'))
    BY <1>2, NewSessionSays
  <2>2. q \in Seq(ManagerEvent) /\ StartEvents(session') \in Seq(ManagerEvent)
    BY <1>1, <1>2, <2>1, NewSessionTyped, SeqMonotone
  <2>3. q \o StartEvents(session') \in Seq(ManagerEvent)
    BY <2>2, ConcatProperties
  <2> QED
    BY <2>1, <2>3
<1>3. CASE \E granted \in BOOLEAN : DecidesAll(granted)
  <2>1. PICK granted \in BOOLEAN : DecidesAll(granted)
    BY <1>3
  <2>2. DecisionEvents(granted) \in Seq(ManagerEvent)
    BY <1>1, DecisionEventsTyped, SeqMonotone
  <2>3. Publishes(DecisionEvents(granted))
    BY <2>1 DEF DecidesAll, DecisionEvents
  <2> QED
    BY <2>2, <2>3
<1>4. ASSUME NEW c \in Policy, Asks(c) \/ Withdraws(c) \/ Expires(c)
                               \/ \E granted \in BOOLEAN : Decides(c, granted)
      PROVE  \E q \in Seq(ManagerEvent) : Publishes(q)
  <2>1. PICK new, type, d : <<new, type, d>> \in Changes /\ Says(c, new, type, d)
    BY <1>4, EachStepSays
  <2> DEFINE e == Event(type, session, c, d)
  <2>2. e \in ManagerEvent
    BY <1>1, <2>1, SaidIsTyped
  <2>3. Publishes(<<e>>)
    BY <2>1 DEF Says
  <2> HIDE DEF e
  <2>4. <<e>> \in Seq(ManagerEvent)
    BY <2>2
  <2> QED
    BY <2>3, <2>4
<1> QED
  BY <1>2, <1>3, <1>4 DEF ManagerSteps

LEMMA ManagerComplete ==
    ASSUME LogInv, ManagerSteps, NEW p \in Seq(ManagerEvent), Complete(p)
    PROVE  Complete(p)'
<1>1. PICK q \in Seq(ManagerEvent) : Publishes(q)
  BY PublishesSome
<1>2. published' = published \o q /\ eventTopic' = eventTopic \o q /\ UNCHANGED loggerVars
  BY <1>1 DEF Publishes
<1>3. eventTopic \in Seq(ManagerEvent)
  <2>1. OwnEvent \subseteq ManagerEvent
    BY DEF OwnEvent
  <2> QED
    BY <2>1, SeqMonotone DEF LogInv, EventsTyped
<1>4. published' = p \o eventTopic'
  <2>1. published' = (p \o eventTopic) \o q
    BY <1>2 DEF Complete
  <2>2. (p \o eventTopic) \o q = p \o (eventTopic \o q)
    BY <1>3, ConcatAssociative
  <2> QED
    BY <1>2, <2>1, <2>2
<1>5. ASSUME NEW s \in Session, Recording(s)'
      PROVE  Recorded(p, s)'
  <2>1. Recording(s)
    BY <1>2, <1>5 DEF Recording, loggerVars
  <2>2. Recorded(p, s)
    BY <2>1 DEF Complete
  <2> QED
    BY <1>2, <2>2 DEF Recorded, loggerVars
<1> QED
  BY <1>4, <1>5 DEF Complete

LEMMA TakesEventComplete ==
    ASSUME LogInv, TakesEvent, UNCHANGED <<config, published>>,
           NEW p \in Seq(ManagerEvent), Complete(p)
    PROVE  LogComplete'
<1>9. PICK m, t : m = Head(eventTopic) /\ t = Tail(eventTopic)
  OBVIOUS
<1>1. m \in OwnEvent /\ t \in Seq(OwnEvent) /\ eventTopic # <<>>
  BY <1>9, HeadTailProperties DEF TakesEvent, LogInv, EventsTyped
<1>2. OwnEvent \subseteq ManagerEvent
  BY DEF OwnEvent
<1>3. m \in ManagerEvent /\ t \in Seq(ManagerEvent)
  BY <1>1, <1>2, SeqMonotone
<1>4. LoggerOnEvent(m) /\ eventTopic' = t
  BY <1>9 DEF TakesEvent
<1>5. published = Append(p, m) \o t
  <2>1. published = p \o eventTopic /\ eventTopic \in Seq(OwnEvent)
    BY DEF Complete, LogInv, EventsTyped
  <2>2. eventTopic = <<m>> \o t
    BY <1>1, <1>9, <2>1, HeadTailProperties
  <2>3. <<m>> \in Seq(ManagerEvent)
    BY <1>3
  <2>4. p \o (<<m>> \o t) = (p \o <<m>>) \o t
    BY <1>3, <2>3, ConcatAssociative
  <2>5. Append(p, m) = p \o <<m>>
    BY <1>3, AppendIsConcat
  <2> QED
    BY <2>1, <2>2, <2>4, <2>5
<1>6. ASSUME NEW s \in Session, Recording(s)'
      PROVE  Recorded(Append(p, m), s)'
  <2>1. Recording(s)
    BY <1>4, <1>6, WriteToRecorded
  <2>2. Recorded(p, s)
    BY <2>1 DEF Complete
  <2>3. Accepts(m) <=> m.session = s
    <3>1. Enabled
      BY <2>1, SessionsExist DEF LogInv, OpenIfEnabled, Recording
    <3>2. m.condition = config.condition
      BY <1>1 DEF OwnEvent
    <3>3. logOf = s /\ activeSession = s /\ ~failed /\ s # 0
      BY <2>1, SessionsExist DEF Recording
    <3> QED
      BY <3>1, <3>2, <3>3 DEF Accepts
  <2>4. m \in DueEvent(s) <=> Accepts(m) /\ m.type # "session_started" /\ Fits(m)
    BY <1>3, <2>3, DueIfFits
  <2>5. CASE m \in DueEvent(s)
    <3>1. files'[s] = Append(files[s], Row(m))
      BY <1>4, <1>6, <2>4, <2>5, WriteToRecorded
    <3> QED
      BY <2>2, <2>5, <3>1, RecordedNotes
  <2>6. CASE m \notin DueEvent(s)
    <3>1. files'[s] = files[s]
      <4>1. ~(Accepts(m) /\ m.type # "session_started" /\ Fits(m))
        BY <2>4, <2>6
      <4> QED
        BY <1>4, <1>6, <4>1, WriteToRecorded, Zenon
    <3> QED
      BY <1>3, <2>2, <2>6, <3>1, RecordedPassesOver
  <2> QED
    BY <2>5, <2>6
<1>7. Append(p, m) \in Seq(ManagerEvent)
  BY <1>3, AppendProperties
<1> DEFINE z == Append(p, m)
<1>8. Complete(z)'
  <2>1. published' = Append(p, m) \o eventTopic'
    BY <1>4, <1>5
  <2> QED
    BY <1>6, <2>1 DEF Complete
<1> HIDE DEF z
<1> QED
  BY <1>7, <1>8 DEF LogComplete, z

LEMMA OtherStepsComplete ==
    ASSUME LogInv, TakesSession \/ TakesForeignEvent \/ LoggerWaits,
           UNCHANGED <<config, published>>,
           NEW p \in Seq(ManagerEvent), Complete(p)
    PROVE  Complete(p)'
<1>1. UNCHANGED eventTopic
  BY DEF TakesSession, TakesForeignEvent, LoggerWaits
<1>2. ASSUME NEW s \in Session, Recording(s)'
      PROVE  Recorded(p, s)'
  <2>1. files[s] \in Seq(LogRow)
    BY DEF LogInv, LoggerTyped
  <2>2. Recording(s) /\ files'[s] = files[s] => Recorded(p, s)'
    <3>1. Recording(s) => Recorded(p, s)
      BY DEF Complete
    <3> QED
      BY <3>1 DEF Recorded
  <2>3. CASE TakesSession
    <3>1. announced \in Session /\ LoggerOnSession(announced)
      BY <2>3 DEF TakesSession, LogInv, ManagerTyped
    <3>2. CASE files'[s] = Append(files[s], Started)
      BY <2>1, <3>2, RecordedOpens
    <3> QED
      BY <1>2, <2>2, <3>1, <3>2, SessionRecorded
  <2>4. CASE TakesForeignEvent
    <3>1. PICK m \in ForeignEvent : LoggerOnEvent(m)
      BY <2>4 DEF TakesForeignEvent
    <3>2. Recording(s)
      BY <1>2, <3>1, WriteToRecorded
    <3>3. CASE files'[s] = Append(files[s], Row(m)) /\ Fits(m)
      <4> DEFINE e == Row(m)
      <4>1. e \in LogRow /\ e \notin ManagerRow
        <5>1. m.type = "capability_blocked"
          BY <3>1 DEF ForeignEvent
        <5>2. e.type = "capability_blocked"
          BY <5>1 DEF Row
        <5> QED
          BY <3>3, <5>2, FittingRow DEF ManagerRow
      <4>2. Recorded(p, s)
        BY <3>2 DEF Complete
      <4> HIDE DEF e
      <4> QED
        BY <3>3, <4>1, <4>2, RecordedForeign DEF e
    <3>4. files'[s] = files[s] \/ (files'[s] = Append(files[s], Row(m)) /\ Fits(m))
      BY <1>2, <3>1, WriteToRecorded, Zenon
    <3> QED
      BY <2>2, <3>2, <3>3, <3>4
  <2>5. CASE LoggerWaits
    <3>1. UNCHANGED <<logOf, activeSession, failed, files>>
      BY <1>2, <2>5 DEF LoggerWaits, LoggerTimer, SessionAges, TimesOut, FailClosed, Recording
    <3>2. Recording(s) /\ files'[s] = files[s]
      BY <1>2, <3>1, Zenon DEF Recording
    <3> QED
      BY <2>2, <3>2
  <2> QED
    BY <2>3, <2>4, <2>5
<1> QED
  BY <1>1, <1>2 DEF Complete

LEMMA RestartComplete ==
    ASSUME LogInv, LoggerRestarts, UNCHANGED published
    PROVE  LogComplete'
<1>1. published \in Seq(ManagerEvent)
  <2>1. OwnEvent \subseteq ManagerEvent
    BY DEF OwnEvent
  <2> QED
    BY <2>1, SeqMonotone DEF LogInv, EventsTyped
<1>2. published \o <<>> = published
  BY <1>1, ConcatEmptySeq
<1>3. \A s \in Session : ~Recording(s)'
  BY SessionsExist DEF LoggerRestarts, LoggerStarts, Recording
<1>4. published' = published \o eventTopic'
  BY <1>2 DEF LoggerRestarts
<1> DEFINE p == published
<1>5. Complete(published)'
  BY <1>3, <1>4 DEF Complete
<1> QED
  BY <1>1, <1>5 DEF LogComplete
-----------------------------------------------------------------------------
LEMMA LastOpening ==
    ASSUME NEW s, NEW a \in Seq(LogRow), NEW b \in Seq(LaterRow),
           files[s] = Append(a, Started) \o b
    PROVE  RowsSinceOpened(s) = Selected(b, ManagerRow)
<1> DEFINE f == files[s]
           n == Len(a)
           starts == {i \in DOMAIN f : f[i] = Started}
<1>1. n \in Nat /\ Len(b) \in Nat
  BY LenProperties
<1>2. /\ Append(a, Started) \in Seq(LogRow) /\ Len(Append(a, Started)) = n + 1
      /\ Append(a, Started)[n + 1] = Started
  BY StartedIsRow, AppendProperties
<1>3. b \in Seq(LogRow) /\ \A i \in 1 .. Len(b) : b[i] # Started
  <2>1. b \in Seq(LogRow)
    BY LaterRows, SeqMonotone
  <2>2. \A i \in 1 .. Len(b) : b[i] \in LaterRow
    OBVIOUS
  <2> QED
    BY <2>1, <2>2 DEF LaterRow
<1> DEFINE as == Append(a, Started)
<1>4. f \in Seq(LogRow) /\ f = as \o b
  BY <1>2, <1>3, ConcatProperties
<1>5. Parts(as, b)
  BY <1>2, <1>3, ConcatHasParts, Zenon
<1>6. Len(as) = n + 1 /\ as[n + 1] = Started
  BY <1>2
<1> HIDE DEF as, f, n
<1>7. /\ DOMAIN f = 1 .. n + 1 + Len(b) /\ Len(f) = n + 1 + Len(b)
      /\ f[n + 1] = Started
      /\ \A i \in 1 .. Len(b) : f[n + 1 + i] = b[i]
  <2>1. /\ DOMAIN f = 1 .. Len(as) + Len(b) /\ Len(f) = Len(as) + Len(b)
        /\ \A i \in 1 .. Len(as) : f[i] = as[i]
        /\ \A i \in 1 .. Len(b) : f[Len(as) + i] = b[i]
    BY <1>4, <1>5 DEF Parts
  <2>2. n + 1 \in 1 .. Len(as)
    BY <1>1, <1>6
  <2> QED
    BY <1>6, <2>1, <2>2
<1>8. /\ n + 1 \in starts
      /\ \A j \in starts : j <= n + 1
      /\ \A i \in starts : (\A j \in starts : j <= i) => i = n + 1
  <2>1. n + 1 \in starts
    BY <1>1, <1>7
  <2>2. ASSUME NEW j \in starts PROVE j <= n + 1
    <3> SUFFICES ASSUME ~(j <= n + 1) PROVE FALSE
      OBVIOUS
    <3>1. j \in 1 .. n + 1 + Len(b) /\ f[j] = Started
      BY <1>7
    <3>2. j - (n + 1) \in 1 .. Len(b) /\ n + 1 + (j - (n + 1)) = j
      BY <1>1, <3>1
    <3>3. f[j] = b[j - (n + 1)]
      BY <1>7, <3>2
    <3> QED
      BY <1>3, <3>1, <3>2, <3>3
  <2>3. ASSUME NEW i \in starts, \A j \in starts : j <= i PROVE i = n + 1
    <3>1. i \in 1 .. n + 1 + Len(b)
      BY <1>7
    <3>2. n + 1 <= i /\ i <= n + 1
      BY <2>1, <2>2, <2>3
    <3> QED
      BY <1>1, <3>1, <3>2
  <2> QED
    BY <2>1, <2>2, <2>3
<1>9. LastStart(s) = n + 1
  <2>1. LastStart(s) = CHOOSE i \in starts : \A j \in starts : j <= i
    BY DEF LastStart, f
  <2> HIDE DEF starts
  <2> QED
    BY <1>8, <2>1
<1> DEFINE z == SubSeq(f, n + 2, Len(f))
<1>10. z = b
  <2>1. z \in Seq(LogRow) /\ Len(z) = Len(b) /\ \A i \in 1 .. Len(b) : z[i] = f[n + 2 + i - 1]
    <3>1. \A i \in n + 2 .. Len(f) : f[i] \in LogRow
      <4>1. \A i \in 1 .. Len(f) : f[i] \in LogRow
        <5>1. f \in Seq(LogRow)
          BY <1>4
        <5> QED
          BY <5>1, ElementOfSeq
      <4>2. n + 2 .. Len(f) \subseteq 1 .. Len(f)
        BY <1>1, <1>7
      <4> QED
        BY <4>1, <4>2
    <3>2. Len(f) - (n + 2) + 1 = Len(b) /\ n + 2 \in Int /\ Len(f) \in Int
      BY <1>1, <1>7
    <3> QED
      BY <1>1, <1>7, <3>1, <3>2, SubSeqProperties
  <2>2. \A i \in 1 .. Len(b) : f[n + 2 + i - 1] = b[i]
    <3> TAKE i \in 1 .. Len(b)
    <3>1. n + 2 + i - 1 = n + 1 + i
      BY <1>1
    <3> QED
      BY <1>7, <3>1
  <2> HIDE DEF z
  <2> QED
    BY <1>3, <2>1, <2>2, SeqEqual
<1>11. n + 1 + 1 = n + 2
  BY <1>1
<1> QED
  BY <1>9, <1>10, <1>11 DEF RowsSinceOpened, f

RowsJoin(p, q, s) == RowsOf(p \o q, s) = RowsOf(p, s) \o RowsOf(q, s)

LEMMA RowsJoined ==
    ASSUME NEW p \in Seq(ManagerEvent), NEW q \in Seq(ManagerEvent), NEW s
    PROVE  RowsJoin(p, q, s)
BY RowsConcat DEF RowsJoin

LEMMA CompleteHasNoHoles ==
    ASSUME LogInv, LogComplete PROVE NoHoles
<1>1. PICK p \in Seq(ManagerEvent) : Complete(p)
  BY DEF LogComplete
<1>2. eventTopic \in Seq(ManagerEvent)
  <2>1. OwnEvent \subseteq ManagerEvent
    BY DEF OwnEvent
  <2> QED
    BY <2>1, SeqMonotone DEF LogInv, EventsTyped
<1> SUFFICES ASSUME NEW s \in Session, Recording(s)
             PROVE  \E i \in 0 .. Len(RowsOf(published, s)) - Len(RowsOf(eventTopic, s)) :
                        RowsSinceOpened(s) =
                            SubSeq(RowsOf(published, s), i + 1,
                                   Len(RowsOf(published, s)) - Len(RowsOf(eventTopic, s)))
  BY Zenon DEF NoHoles
<1>3. Recorded(p, s)
  BY <1>1 DEF Complete
<1>4. PICK a \in Seq(LogRow), b \in Seq(LaterRow),
           q \in Seq(ManagerEvent), r \in Seq(ManagerEvent) :
             /\ files[s] = Append(a, Started) \o b
             /\ p = q \o r
             /\ Selected(b, ManagerRow) = RowsOf(r, s)
  BY <1>3 DEF Recorded
<1>5. RowsSinceOpened(s) = RowsOf(r, s)
  BY <1>4, LastOpening
<1> DEFINE x == RowsOf(q, s)
           y == RowsOf(r, s)
           z == RowsOf(eventTopic, s)
<1>6. x \in Seq(ManagerRow) /\ y \in Seq(ManagerRow) /\ z \in Seq(ManagerRow)
  BY <1>2, RowsTyped
<1>7. RowsOf(published, s) = (x \o y) \o z
  <2>1. RowsOf(p, s) = x \o y
    BY <1>4, RowsConcat
  <2>2. RowsOf(p \o eventTopic, s) = RowsOf(p, s) \o z
    <3>1. RowsJoin(p, eventTopic, s)
      BY <1>2, RowsJoined, Zenon
    <3> QED
      BY <3>1 DEF RowsJoin
  <2> QED
    BY <1>1, <2>1, <2>2 DEF Complete
<1> HIDE DEF x, y, z
<1> DEFINE w == (x \o y) \o z
<1>8. Len(x) \in 0 .. Len(w) - Len(z) /\ SubSeq(w, Len(x) + 1, Len(w) - Len(z)) = y
  <2>1. InTheMiddle(x, y, z)
    BY <1>6, MiddlePart, Zenon
  <2> QED
    BY <2>1 DEF InTheMiddle
<1>9. RowsOf(published, s) = w /\ RowsSinceOpened(s) = y /\ z = RowsOf(eventTopic, s)
  BY <1>5, <1>7 DEF y, z
<1> HIDE DEF w
<1> QED
  BY <1>8, <1>9

LEMMA CompleteStutters ==
    ASSUME NEW p, Complete(p), UNCHANGED vars
    PROVE  Complete(p)'
<1>1. UNCHANGED <<logOf, activeSession, failed, files, published, eventTopic>>
  BY DEF vars, loggerVars
<1>2. \A s \in Session : Recording(s)' => Recording(s)
  BY <1>1, Zenon DEF Recording
<1>3. \A s \in Session : Recorded(p, s) => Recorded(p, s)'
  BY <1>1 DEF Recorded
<1> QED
  BY <1>1, <1>2, <1>3 DEF Complete

(***************************************************************************)
(* Whatever is published, lost and restarted, and wherever the disk fails. *)
(***************************************************************************)
THEOREM LogIsComplete == Spec => []LogComplete
<1>1. LogInv /\ LogComplete /\ [Next]_vars => LogComplete'
  <2> SUFFICES ASSUME LogInv, [Next]_vars, LogComplete
               PROVE  LogComplete'
    OBVIOUS
  <2>1. PICK p \in Seq(ManagerEvent) : Complete(p)
    BY DEF LogComplete
  <2>2. (\E x \in Seq(ManagerEvent) : Complete(x)') => LogComplete'
    BY DEF LogComplete
  <2>3. CASE UNCHANGED vars
    BY <2>1, <2>2, <2>3, CompleteStutters
  <2>4. CASE ManagerSteps
    BY <2>1, <2>2, <2>4, ManagerComplete
  <2>5. CASE LoggerSteps
    BY <2>1, <2>2, <2>5, TakesEventComplete, OtherStepsComplete, RestartComplete
    DEF LoggerSteps
  <2> QED
    BY <2>3, <2>4, <2>5 DEF Next
<1> QED
  BY LogInvariant, InitComplete, <1>1, PTL DEF Spec

(***************************************************************************)
(* consent_logger_node.py _on_event, over a topic that keeps its order: an *)
(* open file has every row the manager owed it, from the first it could    *)
(* get on.                                                                 *)
(***************************************************************************)
THEOREM NoHolesAlways == Spec => []NoHoles
<1>1. LogInv /\ LogComplete => NoHoles
  BY CompleteHasNoHoles
<1> QED
  BY LogInvariant, LogIsComplete, <1>1, PTL
-----------------------------------------------------------------------------
(***************************************************************************)
(* The last word about a capability.  Of all that was published in the     *)
(* session it is the status the manager has: every change of a status is   *)
(* published, and nothing else is told of it.                              *)
(***************************************************************************)
EventAbout(s, c) == {m \in DueEvent(s) : m.capability \in {c, AllCapabilities}}

\* The last of the events q about c, if there is one, tells that status.
Tells(q, s, c, new) ==
    Selected(q, EventAbout(s, c)) # <<>>
    => StatusTold(Row(Final(Selected(q, EventAbout(s, c))))) = new

StatusKnown == \A c \in Policy \cap Tokens : Tells(published, session, c, status[c])

\* q is about c and ends so, or it is not and nothing changes.
LEMMA TellsOn ==
    ASSUME NEW p \in Seq(ManagerEvent), NEW q \in Seq(ManagerEvent),
           NEW s, NEW c, NEW old, NEW new,
           Tells(p, s, c, old), Tells(q, s, c, new),
           Selected(q, EventAbout(s, c)) = <<>> => new = old
    PROVE  Tells(p \o q, s, c, new)
<1> DEFINE S == EventAbout(s, c)
           x == Selected(p, S)
           y == Selected(q, S)
           M == ManagerEvent \cap S
<1>1. x \in Seq(M) /\ y \in Seq(M)
  BY SelectedTyped
<1>2. Selected(p \o q, S) = x \o y
  <2> HIDE DEF S
  <2> QED
    BY SelectedConcat
<1>3. /\ x # <<>> => StatusTold(Row(Final(x))) = old
      /\ y # <<>> => StatusTold(Row(Final(y))) = new
      /\ y = <<>> => new = old
  BY DEF Tells
<1>4. Tells(p \o q, s, c, new) <=> (x \o y # <<>> => StatusTold(Row(Final(x \o y))) = new)
  BY <1>2 DEF Tells
<1> HIDE DEF x, y, M
<1>5. /\ y = <<>> => x \o y = x
      /\ y # <<>> => Final(x \o y) = Final(y)
  BY <1>1, FinalOfConcat
<1> QED
  BY <1>3, <1>4, <1>5

\* It is enough to know of what kind the events of q are.
LEMMA AllTell ==
    ASSUME NEW M, NEW q \in Seq(M), NEW s, NEW c, NEW new,
           \A m \in M \cap EventAbout(s, c) : StatusTold(Row(m)) = new
    PROVE  Tells(q, s, c, new)
<1> DEFINE S == EventAbout(s, c)
           y == Selected(q, S)
<1>1. y \in Seq(M \cap S)
  BY SelectedTyped
<1>2. ASSUME y # <<>> PROVE Final(y) \in M \cap S
  <2> HIDE DEF y, S
  <2>1. Len(y) \in 1 .. Len(y)
    BY <1>1, <1>2, EmptySeq, LenProperties
  <2> QED
    BY <1>1, <2>1, ElementOfSeq DEF Final
<1> QED
  BY <1>2 DEF Tells

-----------------------------------------------------------------------------
LEMMA ChangeKnown ==
    ASSUME LogInv, StatusKnown, NEW c \in Policy, NEW new, NEW type, NEW d,
           <<new, type, d>> \in Changes, Says(c, new, type, d)
    PROVE  StatusKnown'
<1> DEFINE e == Event(type, session, c, d)
<1>1. e \in ManagerEvent
  BY SaidIsTyped DEF OwnEvent
<1>2. published \in Seq(ManagerEvent)
  <2>1. OwnEvent \subseteq ManagerEvent
    BY DEF OwnEvent
  <2> QED
    BY <2>1, SeqMonotone DEF LogInv, EventsTyped
<1>3. published' = published \o <<e>> /\ session' = session
      /\ status' = [status EXCEPT ![c] = new] /\ status \in [Policy -> Status]
  BY DEF Says, Becomes, Publishes, LogInv, ManagerTyped
<1>4. e.capability = c /\ e.type = type /\ e.decision = d /\ e.session = session
  BY DEF Event
<1>5. StatusTold(Row(e)) = new
  BY <1>4 DEF Changes, StatusTold, Row
<1> HIDE DEF e
<1>6. ASSUME NEW x \in Policy \cap Tokens
      PROVE  Tells(published \o <<e>>, session, x, status'[x])
  <2>1. Tells(published, session, x, status[x])
    BY DEF StatusKnown
  <2>2. <<e>> \in Seq(ManagerEvent)
    BY <1>1
  <2>3. Selected(<<e>>, EventAbout(session, x))
          = IF e \in EventAbout(session, x) THEN <<e>> ELSE <<>>
    BY SelectedOfOne, Zenon
  <2>4. CASE x = c
    <3>1. e \in EventAbout(session, c)
      <4>1. e.type # "session_started"
        BY <1>4 DEF Changes
      <4> QED
        BY <1>1, <1>4, <2>4, <4>1 DEF EventAbout, DueEvent
    <3>2. Selected(<<e>>, EventAbout(session, x)) # <<>>
      <4>1. <<e>> # <<>>
        OBVIOUS
      <4> QED
        BY <2>3, <2>4, <3>1, <4>1
    <3>3. <<e>> \in Seq({e})
      OBVIOUS
    <3>4. Tells(<<e>>, session, x, new)
      <4>1. \A m \in {e} \cap EventAbout(session, x) : StatusTold(Row(m)) = new
        BY <1>5
      <4> QED
        BY <3>3, <4>1, AllTell, Zenon
    <3>5. status'[x] = new
      BY <1>3, <2>4
    <3> QED
      BY <1>2, <2>1, <2>2, <3>2, <3>4, <3>5, TellsOn
  <2>5. CASE x # c
    <3>1. e \notin EventAbout(session, x)
      BY <1>4, <2>5, SessionLogAssumption DEF EventAbout
    <3>2. Selected(<<e>>, EventAbout(session, x)) = <<>>
      BY <2>3, <3>1
    <3>3. status'[x] = status[x]
      BY <1>3, <2>5
    <3>4. Tells(<<e>>, session, x, status[x])
      BY <3>2 DEF Tells
    <3> QED
      BY <1>2, <2>1, <2>2, <3>2, <3>3, <3>4, TellsOn
  <2> QED
    BY <2>4, <2>5
<1> QED
  BY <1>3, <1>6 DEF StatusKnown

LEMMA DecisionKnown ==
    ASSUME LogInv, StatusKnown, NEW granted \in BOOLEAN, DecidesAll(granted)
    PROVE  StatusKnown'
<1> DEFINE q == DecisionEvents(granted)
           M == {m \in ManagerEvent : m.type = "consent_decided" /\ m.decision = Told(granted)}
<1>1. OwnEvent \subseteq ManagerEvent
  BY DEF OwnEvent
<1>2. published \in Seq(ManagerEvent)
  BY <1>1, SeqMonotone DEF LogInv, EventsTyped
<1>3. q \in Seq(ManagerEvent) /\ Len(q) = Len(SortedPolicy)
  BY <1>1, DecisionEventsTyped, SeqMonotone
<1>4. /\ Len(q) \in Nat /\ DOMAIN SortedPolicy = 1 .. Len(q)
      /\ \A i \in 1 .. Len(q) :
            q[i] = Event("consent_decided", session, SortedPolicy[i], Told(granted))
  BY <1>3, SessionLogAssumption DEF DecisionEvents
<1>5. \A i \in 1 .. Len(q) :
          /\ q[i] \in ManagerEvent
          /\ q[i].type = "consent_decided" /\ q[i].decision = Told(granted)
          /\ q[i].capability = SortedPolicy[i] /\ q[i].session = session
  <2>1. \A i \in 1 .. Len(q) : q[i] \in ManagerEvent
    BY <1>3, ElementOfSeq
  <2> HIDE DEF q
  <2> TAKE i \in 1 .. Len(q)
  <2>2. q[i] = Event("consent_decided", session, SortedPolicy[i], Told(granted))
    BY <1>4
  <2>3. LET e == Event("consent_decided", session, SortedPolicy[i], Told(granted))
        IN  /\ e.type = "consent_decided" /\ e.decision = Told(granted)
            /\ e.capability = SortedPolicy[i] /\ e.session = session
    BY DEF Event
  <2> QED
    BY <2>1, <2>2, <2>3
<1>6. published' = published \o q /\ session' = session
      /\ status' = [c \in Policy |-> StatusOf(granted)]
  BY DEF DecidesAll, DecisionEvents, Publishes
<1> HIDE DEF q
<1>7. q \in Seq(M)
  <2>1. \A i \in 1 .. Len(q) : q[i] \in M
    BY <1>5
  <2> HIDE DEF M
  <2> QED
    BY <1>3, <2>1
<1>8. ASSUME NEW x \in Policy \cap Tokens
      PROVE  Tells(published \o q, session, x, StatusOf(granted))
  <2>1. Tells(published, session, x, status[x])
    BY DEF StatusKnown
  <2>2. \A m \in M : StatusTold(Row(m)) = StatusOf(granted)
    BY DEF StatusTold, Row, StatusOf, Told
  <2>3. Tells(q, session, x, StatusOf(granted))
    BY <1>7, <2>2, AllTell
  <2>4. PICK i \in 1 .. Len(q) : SortedPolicy[i] = x
    BY <1>4, SessionLogAssumption
  <2>5. q[i] \in EventAbout(session, x)
    BY <1>5, <2>4 DEF EventAbout, DueEvent
  <2>6. Selected(q, EventAbout(session, x)) # <<>>
    BY <1>3, <2>5, SelectedFinds
  <2> QED
    BY <1>2, <1>3, <2>1, <2>3, <2>6, TellsOn
<1> QED
  BY <1>6, <1>8 DEF StatusKnown

\* The first events of a session.
LEMMA StartKnown ==
    ASSUME config \in Configuration, NEW s \in Session, NEW c \in Policy \cap Tokens
    PROVE  Tells(StartEvents(s), s, c, StartStatus[c])
<1> DEFINE a == Event("session_started", s, "none", "none")
           b == Event("consent_requested", s, AllCapabilities, "none")
           M == IF BeginsStatic THEN {a, b} ELSE {a}
<1>1. StartEvents(s) \in Seq(M)
  <2>1. StartEvents(s) = <<a>> \o (IF BeginsStatic THEN <<b>> ELSE <<>>)
    BY DEF StartEvents
  <2> HIDE DEF a, b
  <2>2. CASE BeginsStatic
    <3>1. <<a>> \in Seq({a, b}) /\ <<b>> \in Seq({a, b})
      OBVIOUS
    <3>2. StartEvents(s) = <<a>> \o <<b>>
      BY <2>1, <2>2
    <3> QED
      BY <2>2, <3>1, <3>2, ConcatProperties
  <2>3. CASE ~BeginsStatic
    <3>1. <<a>> \in Seq({a}) /\ <<>> \in Seq({a})
      OBVIOUS
    <3>2. StartEvents(s) = <<a>> \o <<>>
      BY <2>1, <2>3
    <3> QED
      BY <2>3, <3>1, <3>2, ConcatProperties
  <2> QED
    BY <2>2, <2>3
<1>2. ASSUME NEW m \in M \cap EventAbout(s, c)
      PROVE  StatusTold(Row(m)) = StartStatus[c]
  <2>1. a \notin EventAbout(s, c)
    BY DEF Event, EventAbout, DueEvent
  <2>2. BeginsStatic /\ m = b
    BY <2>1
  <2>3. StartStatus[c] = "PENDING"
    BY <2>2 DEF StartStatus
  <2>4. StatusTold(Row(b)) = "PENDING"
    BY DEF Event, Row, StatusTold
  <2> QED
    BY <2>2, <2>3, <2>4
<1> HIDE DEF M
<1> QED
  BY <1>1, <1>2, AllTell

LEMMA SessionKnown ==
    ASSUME LogInv, NewSession
    PROVE  StatusKnown'
<1>1. PICK q : Last(q) /\ Publishes(q \o StartEvents(session'))
  BY NewSessionSays
<1>2. session \in Session /\ session' = session + 1 /\ session' \in Session
      /\ config \in Configuration /\ q \in Seq(OwnEvent)
  BY <1>1, NewSessionTyped DEF LogInv, EventsTyped, ManagerTyped
<1>3. PICK z : z = StartEvents(session')
  OBVIOUS
<1>4. z \in Seq(ManagerEvent)
  <2>1. {m \in ManagerEvent : m.condition = config.condition /\ m.session = session'}
            \subseteq ManagerEvent
    OBVIOUS
  <2> QED
    BY <1>2, <1>3, <2>1, StartEventsTyped, SeqMonotone
<1>5. OwnEvent \subseteq ManagerEvent
  BY DEF OwnEvent
<1> DEFINE w == published \o q
<1>6. w \in Seq(OwnEvent) /\ w \in Seq(ManagerEvent)
  <2>1. w \in Seq(OwnEvent)
    BY <1>2, ConcatProperties DEF LogInv, EventsTyped
  <2> QED
    BY <1>5, <2>1, SeqMonotone
<1>7. published' = w \o z
  <2>1. published' = published \o (q \o z)
    BY <1>1, <1>3 DEF Publishes
  <2>2. published \in Seq(ManagerEvent) /\ q \in Seq(ManagerEvent)
    BY <1>2, <1>5, SeqMonotone DEF LogInv, EventsTyped
  <2> QED
    BY <1>4, <2>1, <2>2, ConcatAssociative
<1>8. status' = StartStatus
  BY DEF NewSession
<1> HIDE DEF w
<1>9. PICK n : n = session'
  OBVIOUS
<1>10. ASSUME NEW x \in Policy \cap Tokens
       PROVE  Tells(w \o z, n, x, StartStatus[x])
  <2>1. OwnEvent \cap EventAbout(n, x) = {}
    <3>1. session + 1 \notin 1 .. session
      BY <1>2, SessionsExist
    <3> QED
      BY <1>2, <1>9, <3>1 DEF OwnEvent, EventAbout, DueEvent
  <2>2. Selected(w, EventAbout(n, x)) = <<>>
    BY <1>6, <2>1, SelectedOfOthers
  <2>3. Tells(w, n, x, StartStatus[x])
    BY <2>2 DEF Tells
  <2>4. Tells(z, n, x, StartStatus[x])
    BY <1>2, <1>3, <1>9, StartKnown
  <2> QED
    BY <1>4, <1>6, <2>3, <2>4, TellsOn
<1> QED
  BY <1>7, <1>8, <1>9, <1>10 DEF StatusKnown
-----------------------------------------------------------------------------
LEMMA RowsAboutAreOfEventsAbout ==
    ASSUME NEW q \in Seq(ManagerEvent), NEW s, NEW c
    PROVE  Selected(RowsOf(q, s), RowAbout(c)) = Rows(Selected(q, EventAbout(s, c)))
<1> DEFINE E == EventAbout(s, c)
           R == RowAbout(c)
           T == {p \in Seq(ManagerEvent) : Selected(RowsOf(p, s), R) = Rows(Selected(p, E))}
<1>1. <<>> \in T
  <2>1. RowsOf(<<>>, s) = <<>> /\ <<>> \in Seq(ManagerEvent)
    BY RowsOfNone, EmptySeq
  <2>2. Selected(<<>>, R) = <<>> /\ Selected(<<>>, E) = <<>>
    BY SelectedOfNone
  <2>3. Rows(<<>>) = <<>>
    BY DEF Rows
  <2> QED
    BY <2>1, <2>2, <2>3
<1>2. ASSUME NEW p \in T, NEW m \in ManagerEvent
      PROVE  Append(p, m) \in T
  <2> DEFINE z == Append(p, m)
             x == RowsOf(p, s)
             y == Selected(p, E)
  <2>1. p \in Seq(ManagerEvent) /\ z \in Seq(ManagerEvent)
    BY AppendProperties
  <2>2. x \in Seq(ManagerRow) /\ y \in Seq(ManagerEvent \cap E)
    BY <2>1, RowsTyped, SelectedTyped
  <2>3. Selected(x, R) = Rows(y)
    OBVIOUS
  <2>4. RowsOf(z, s) = IF m \in DueEvent(s) THEN Append(x, Row(m)) ELSE x
    BY <2>1, RowsAppend, Zenon
  <2>5. Selected(z, E) = IF m \in E THEN Append(y, m) ELSE y
    BY <2>1, SelectedAppend, Zenon
  <2>6. m \in E <=> m \in DueEvent(s) /\ Row(m) \in R
    <3>1. Row(m).capability = m.capability
      BY DEF Row
    <3>2. m \in DueEvent(s) => Row(m) \in ManagerRow
      BY DueRow
    <3> QED
      BY <3>1, <3>2 DEF EventAbout, RowAbout
  <2> HIDE DEF x, y, z, E, R
  <2>7. m \in DueEvent(s) => Selected(Append(x, Row(m)), R)
                              = IF Row(m) \in R THEN Append(Selected(x, R), Row(m))
                                ELSE Selected(x, R)
    <3> SUFFICES ASSUME m \in DueEvent(s)
                 PROVE  Selected(Append(x, Row(m)), R)
                              = IF Row(m) \in R THEN Append(Selected(x, R), Row(m))
                                ELSE Selected(x, R)
      OBVIOUS
    <3> DEFINE e == Row(m)
    <3>1. e \in ManagerRow
      BY DueRow
    <3> HIDE DEF e
    <3>2. Selected(Append(x, e), R)
                              = IF e \in R THEN Append(Selected(x, R), e) ELSE Selected(x, R)
      BY <2>2, <3>1, SelectedAppend, Zenon
    <3> QED
      BY <3>2 DEF e
  <2>8. m \in E => Rows(Append(y, m)) = Append(Rows(y), Row(m))
    BY <2>2, RowsGrow
  <2>9. Selected(RowsOf(z, s), R) = Rows(Selected(z, E))
    <3>1. CASE m \in E
      BY <2>3, <2>4, <2>5, <2>6, <2>7, <2>8, <3>1
    <3>2. CASE m \notin E /\ m \in DueEvent(s)
      BY <2>3, <2>4, <2>5, <2>6, <2>7, <3>2
    <3>3. CASE m \notin E /\ m \notin DueEvent(s)
      BY <2>3, <2>4, <2>5, <3>3
    <3> QED
      BY <3>1, <3>2, <3>3
  <2> QED
    BY <2>1, <2>9 DEF z
<1>3. T = Seq(ManagerEvent)
  <2> HIDE DEF T
  <2>1. T \in SUBSET Seq(ManagerEvent)
    BY DEF T
  <2> QED
    BY <1>1, <1>2, <2>1, SequenceInduction
<1> QED
  BY <1>3

LEMMA FinalRow ==
    ASSUME NEW M, NEW q \in Seq(M)
    PROVE  /\ q = <<>> => Rows(q) = <<>>
           /\ q # <<>> => Final(Rows(q)) = Row(Final(q))
<1>1. Len(q) \in Nat /\ DOMAIN q = 1 .. Len(q)
  BY LenProperties
<1>2. q = <<>> => Rows(q) = <<>>
  BY DEF Rows
<1>3. ASSUME q # <<>> PROVE Final(Rows(q)) = Row(Final(q))
  <2>1. Len(q) \in 1 .. Len(q)
    BY <1>1, <1>3, EmptySeq
  <2> DEFINE row(x) == Row(x)
  <2>2. Rows(q) = [i \in 1 .. Len(q) |-> row(q[i])]
    BY <1>1 DEF Rows
  <2> HIDE DEF row
  <2>3. Len(Rows(q)) = Len(q)
    BY <1>1, <2>2
  <2>4. Rows(q)[Len(q)] = row(q[Len(q)])
    BY <2>1, <2>2
  <2> QED
    BY <2>3, <2>4 DEF row, Final
<1> QED
  BY <1>2, <1>3

LEMMA LastWordIsStatus ==
    ASSUME LogInv, LogComplete, StatusKnown
    PROVE  LogAgreesWithStatus
<1> SUFFICES ASSUME Recording(session), eventTopic = <<>>, NEW c \in Policy \cap Tokens,
                    Selected(RowsSinceOpened(session), RowAbout(c)) # <<>>
             PROVE  StatusTold(Final(Selected(RowsSinceOpened(session), RowAbout(c)))) = status[c]
  BY Zenon DEF LogAgreesWithStatus, Final
<1>1. PICK p \in Seq(ManagerEvent) : Complete(p)
  BY DEF LogComplete
<1>2. session \in Session
  BY DEF LogInv, ManagerTyped
<1>3. published = p
  BY <1>1, ConcatEmptySeq DEF Complete
<1>4. PICK a \in Seq(LogRow), b \in Seq(LaterRow),
           q \in Seq(ManagerEvent), r \in Seq(ManagerEvent) :
             /\ files[session] = Append(a, Started) \o b
             /\ p = q \o r
             /\ Selected(b, ManagerRow) = RowsOf(r, session)
  BY <1>1, <1>2 DEF Complete, Recorded
<1>5. RowsSinceOpened(session) = RowsOf(r, session)
  BY <1>4, LastOpening
<1> DEFINE S == EventAbout(session, c)
           x == Selected(q, S)
           y == Selected(r, S)
<1>6. Selected(RowsSinceOpened(session), RowAbout(c)) = Rows(y)
  BY <1>5, RowsAboutAreOfEventsAbout
<1>7. x \in Seq(ManagerEvent \cap S) /\ y \in Seq(ManagerEvent \cap S)
  BY SelectedTyped
<1>8. Selected(published, S) = x \o y
  <2> HIDE DEF S
  <2> QED
    BY <1>3, <1>4, SelectedConcat
<1>9. Selected(published, S) # <<>> => StatusTold(Row(Final(Selected(published, S)))) = status[c]
  BY DEF StatusKnown, Tells
<1> HIDE DEF x, y, S
<1>10. y # <<>> /\ Final(Rows(y)) = Row(Final(y))
  BY <1>6, <1>7, FinalRow
<1>11. Final(x \o y) = Final(y) /\ x \o y # <<>>
  <2>1. Final(x \o y) = Final(y)
    BY <1>7, <1>10, FinalOfConcat
  <2>2. Parts(x, y)
    BY <1>7, ConcatHasParts, Zenon
  <2>3. Len(x \o y) # 0
    BY <1>7, <1>10, <2>2, EmptySeq DEF Parts
  <2> QED
    BY <2>1, <2>3
<1> QED
  BY <1>6, <1>8, <1>9, <1>10, <1>11

(***************************************************************************)
(* What was last published about a capability in the session is its status *)
(* at the manager, for any number of events.                               *)
(***************************************************************************)
THEOREM StatusIsKnown == Spec => []StatusKnown
<1>1. Init => StatusKnown
  <2> SUFFICES ASSUME Init PROVE StatusKnown
    OBVIOUS
  <2>1. config \in Configuration /\ session = 1 /\ 1 \in Session
    BY ConfigurationsAssumption, SessionsExist DEF Init
  <2>2. published = StartEvents(1) /\ status = StartStatus
    BY DEF Init
  <2> QED
    BY <2>1, <2>2, StartKnown DEF StatusKnown
<1>2. LogInv /\ StatusKnown /\ [Next]_vars => StatusKnown'
  <2> SUFFICES ASSUME LogInv, StatusKnown, [Next]_vars
               PROVE  StatusKnown'
    OBVIOUS
  <2>1. CASE UNCHANGED <<session, status, published>>
    BY <2>1 DEF StatusKnown
  <2>2. CASE ManagerSteps
    <3>1. CASE NewSession
      BY <3>1, SessionKnown
    <3>2. ASSUME NEW granted \in BOOLEAN, DecidesAll(granted)
          PROVE  StatusKnown'
      BY <3>2, DecisionKnown
    <3>3. ASSUME NEW c \in Policy, Asks(c) \/ Withdraws(c) \/ Expires(c)
                               \/ \E granted \in BOOLEAN : Decides(c, granted)
          PROVE  StatusKnown'
      BY <3>3, EachStepSays, ChangeKnown
    <3> QED
      BY <2>2, <3>1, <3>2, <3>3 DEF ManagerSteps
  <2>3. CASE LoggerSteps
    BY <2>1, <2>3, LoggerChanges
  <2>4. CASE UNCHANGED vars
    BY <2>1, <2>4 DEF vars, managerSide
  <2> QED
    BY <2>2, <2>3, <2>4 DEF Next
<1> QED
  BY LogInvariant, <1>1, <1>2, PTL DEF Spec

(***************************************************************************)
(* The last word of an open log about a capability is its status at the    *)
(* manager, once all events have arrived: an order of the rows, a lost row *)
(* or a row of another session would show here.                            *)
(***************************************************************************)
THEOREM LogAgreesWithStatusAlways == Spec => []LogAgreesWithStatus
<1>1. LogInv /\ LogComplete /\ StatusKnown => LogAgreesWithStatus
  BY LastWordIsStatus
<1> QED
  BY LogInvariant, LogIsComplete, StatusIsKnown, <1>1, PTL
=============================================================================
