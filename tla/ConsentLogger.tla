---------------------------- MODULE ConsentLogger ---------------------------
(***************************************************************************)
(* nodes/consent_logger_node.py with core/event_log.py: one CSV file per   *)
(* session, whose first row the logger writes itself and whose other rows  *)
(* are the events that fit a closed schema.                                *)
(*                                                                         *)
(* Every row is synchronised to disk before the callback ends, so files    *)
(* survives the process; everything else is the process's memory.  The     *)
(* disk may fail in any call that opens a file or appends to one.          *)
(***************************************************************************)
EXTENDS StudySetup, Sequences

CONSTANT Tokens    \* the capabilities whose name fits _CAPABILITY_PATTERN

ASSUME TokensAssumption == Tokens \subseteq Capability

VARIABLES
    activeSession,   \* _active_session; 0: ''
    logOf,           \* _session_log: the session of the open file; 0: None
    failed,          \* _session_failed
    age,             \* of the session: "none", "young" or "timed out"
    files            \* the rows on disk, by session

loggerVars == <<activeSession, logOf, failed, age, files>>

Enabled == Dynamic \/ Static        \* _enabled; the other parameters are valid

-----------------------------------------------------------------------------
(***************************************************************************)
(* create_anonymous_event: an event is logged if its fields fit its type.  *)
(* "none" is the empty string, responded that response_ms is not 0.        *)
(***************************************************************************)
LoggedTypes == {"session_started", "session_reset", "consent_requested",
    "consent_decided", "consent_revoked", "consent_expired",
    "capability_authorized", "capability_blocked", "capability_executed",
    "fallback_executed"}

DecisionsOf(type) ==
    CASE type = "consent_decided" -> {"granted", "refused"}
      [] type = "consent_revoked" -> {"revoked"}
      [] OTHER -> {"none"}

OutcomesOf(type) ==
    CASE type \in {"capability_authorized", "capability_executed"} -> {"success"}
      [] type = "capability_blocked" -> {"fallback", "abandoned"}
      [] type = "fallback_executed" -> {"fallback"}
      [] OTHER -> {"none"}

CapabilitiesOf(type) ==
    IF type \in {"session_started", "session_reset"} THEN {"none"} ELSE Tokens

FitsUnanswered(m) ==            \* mutant: response time looked at before the type
    /\ m.type \in LoggedTypes
    /\ m.capability \in CapabilitiesOf(m.type)
    /\ m.decision \in DecisionsOf(m.type)
    /\ m.outcome \in OutcomesOf(m.type)
    /\ ~m.responded

Fits(m) ==
    /\ m.type \in LoggedTypes
    /\ m.capability \in CapabilitiesOf(m.type)
    /\ m.decision \in DecisionsOf(m.type)
    /\ m.outcome \in OutcomesOf(m.type)
    /\ m.responded => m.type = "consent_decided"

\* to_row: without the session and condition all rows of a file share
RowAsReceived(m) == m           \* mutant: not reduced to the schema

Row(m) == [type |-> m.type, capability |-> m.capability, decision |-> m.decision,
           outcome |-> m.outcome]

Started == [type |-> "session_started", capability |-> "none",
            decision |-> "none", outcome |-> "none"]

Appended(s, row) == files' = [files EXCEPT ![s] = Append(@, row)]

\* A write or synchronisation that fails may or may not have left the row.
Tried(s, row) == Appended(s, row) \/ UNCHANGED files

-----------------------------------------------------------------------------
(***************************************************************************)
(* _on_session closes the file of the last session and opens the next.  If *)
(* that or its first row fails, no session is active, and the same message *)
(* would be tried again.                                                   *)
(***************************************************************************)
LoggerSame == UNCHANGED loggerVars

Opens(s) ==
    /\ Appended(s, Started)
    /\ activeSession' = s /\ logOf' = s
    /\ failed' = FALSE /\ age' = "young"

DoesNotOpen(s) ==
    /\ activeSession' = 0
    /\ failed' = TRUE /\ age' = "none"
    /\ \/ logOf' = 0 /\ UNCHANGED files
       \/ logOf' = s /\ Tried(s, Started)

LoggerOnSession(s) ==
    IF ~Enabled \/ s = activeSession THEN LoggerSame ELSE Opens(s) \/ DoesNotOpen(s)

\* _close_session(clear_identity=False): the session stays the active one.
FailClosed == failed' = TRUE /\ logOf' = 0 /\ age' = "none" /\ UNCHANGED activeSession

TimesOut == FailClosed /\ UNCHANGED files

(***************************************************************************)
(* _on_event and the timer.  The event that finds the session timed out    *)
(* closes the file, whether or not the timer has fired.                    *)
(***************************************************************************)
TimedOutNever == FALSE                      \* mutant: left to the timer

TimedOut == age = "timed out"

AcceptsAnySession(m) ==          \* mutant: late events go to the next file
    Enabled /\ ~failed /\ logOf # 0 /\ m.condition = config.condition

Accepts(m) ==
    /\ Enabled /\ ~failed /\ logOf # 0
    /\ m.session = activeSession
    /\ m.condition = config.condition

LoggerOnEvent(m) ==
    \/ ~Accepts(m) /\ LoggerSame
    \/ Accepts(m) /\ TimedOut /\ TimesOut
    \/ /\ Accepts(m) /\ ~TimedOut
       /\ IF m.type = "session_started" \/ ~Fits(m)
          THEN LoggerSame
          ELSE \/ Appended(logOf, Row(m)) /\ UNCHANGED <<activeSession, logOf, failed, age>>
               \/ FailClosed /\ Tried(logOf, Row(m))

LoggerTimer == logOf # 0 /\ ~failed /\ age = "timed out" /\ TimesOut

SessionAges == /\ age = "young" /\ age' = "timed out"
               /\ UNCHANGED <<activeSession, logOf, failed, files>>

-----------------------------------------------------------------------------
\* __init__ of a first and of a later process; the files are still there.
LoggerStarts ==
    /\ activeSession' = 0 /\ logOf' = 0 /\ failed' = FALSE /\ age' = "none"
    /\ UNCHANGED files

LoggerInit(sessions) ==
    /\ activeSession = 0 /\ logOf = 0 /\ failed = FALSE /\ age = "none"
    /\ files = [s \in sessions |-> <<>>]
=============================================================================
