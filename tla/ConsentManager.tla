--------------------------- MODULE ConsentManager ---------------------------
(***************************************************************************)
(* nodes/consent_manager_node.py: the node that owns the consent store and *)
(* the active session.                                                     *)
(*                                                                         *)
(* rclpy runs one callback at a time, so each callback is one action; its  *)
(* parameters are the message or service request it handles.  outbox is    *)
(* what the last step published, in order, and reply (of the store) what   *)
(* it answered to a consent check; ConsentSystem moves both into channels. *)
(*                                                                         *)
(* A session identifier is fresh each time one is generated: here a number *)
(* one larger than the last.                                               *)
(***************************************************************************)
EXTENDS ConsentStore, StudySetup, Sequences

CONSTANTS
    AllCapabilities,   \* STATIC_CAPABILITY_ID, which no policy entry has
    SortedPolicy       \* the policy's capabilities in sorted order

ASSUME AllCapabilitiesAssumption == AllCapabilities \in Capability \ Policy
ASSUME SortedAssumption ==
    /\ SortedPolicy \in Seq(Policy)
    /\ \A c \in Policy : \E i \in DOMAIN SortedPolicy : SortedPolicy[i] = c
ASSUME FirstSessionAssumption == MaxSession >= 1 /\ MaxRequest >= 1

VARIABLES
    up,            \* the node is running
    session,       \* _session_id
    static,        \* _static_request_id, _static_requests, _static_decided
    outbox         \* the messages published by the last step

managerVars == <<storeVars, config, up, session, static, outbox>>

-----------------------------------------------------------------------------
(***************************************************************************)
(* Messages.  A ConsentEvent carries the manager's own session.            *)
(***************************************************************************)
Decision == {"granted", "refused", "revoked", "none"}

Event(type, s, c, decision) ==
    [topic |-> "event", type |-> type, session |-> s, capability |-> c,
     decision |-> decision]

SessionMessage(s) == [topic |-> "session", session |-> s]

Prompt(id, s, c) ==
    [topic |-> "prompt", request |-> id, session |-> s, capability |-> c]

NoCapability == "none"     \* the empty capability_id of a session event

\* on_expire, called by every store method that finds the grant lapsed
ExpiryEventsForgotten(k) == <<>>            \* mutant: no on_expire callback

ExpiryEvents(k) ==
    IF Lapsed(k) THEN <<Event("consent_expired", session, k[2], "none")>>
                 ELSE <<>>

-----------------------------------------------------------------------------
(***************************************************************************)
(* Starting a session: at start-up and after a reset.  In the static       *)
(* condition, with a disclosure to show, every capability gets a pending   *)
(* request and the participant one combined prompt (_begin_static_consent).*)
(***************************************************************************)
BeginsStatic == Static /\ PolicyLoads /\ config.disclosure

NoStatic == [request |-> NoRequest, requests |-> <<>>, decided |-> FALSE]

StaticPart(n) ==
    IF BeginsStatic
    THEN [request |-> <<n, AllCapabilities>>,
          requests |-> [c \in Policy |-> <<n, c>>], decided |-> FALSE]
    ELSE NoStatic

\* The records of a new session s, the others being as in old.
OpenedRecords(n, s, old) ==
    [k \in Key |-> IF BeginsStatic /\ k[1] = s THEN PendingRecord(n, k[2])
                                               ELSE old[k]]

StartMessages(n, s) ==
    <<SessionMessage(s), Event("session_started", s, NoCapability, "none")>>
    \o IF BeginsStatic
       THEN <<Prompt(<<n, AllCapabilities>>, s, AllCapabilities),
              Event("consent_requested", s, AllCapabilities, "none")>>
       ELSE <<>>

RequestsToOpen == IF BeginsStatic THEN 1 ELSE 0

CanOpenSession == session < MaxSession /\ issued + RequestsToOpen <= MaxRequest

OpenSession(old) ==
    /\ CanOpenSession
    /\ session' = session + 1
    /\ issued' = issued + RequestsToOpen
    /\ records' = OpenedRecords(issued + 1, session + 1, old)
    /\ static' = StaticPart(issued + 1)

-----------------------------------------------------------------------------
(***************************************************************************)
(* _on_consent_request: open a request, or show an open one again.         *)
(***************************************************************************)
ManagerSame == UNCHANGED <<session, static>>

RequestIgnoredIfUnknown(c) == c \notin Loaded     \* mutant: in every condition

RequestIgnored(c) == ~Dynamic \/ c \notin Loaded

OnConsentRequest(c) ==
    LET k == <<session, c>> IN
    /\ reply' = NoReply
    /\ ManagerSame
    /\ \/ /\ RequestIgnored(c)
          /\ Unchanged
          /\ outbox' = <<>>
       \/ /\ ~RequestIgnored(c)
          /\ records[k].status = "PENDING"
          /\ Unchanged
          /\ outbox' = <<Prompt(records[k].request, session, c),
                         Event("consent_requested", session, c, "none")>>
       \/ /\ ~RequestIgnored(c)
          /\ records[k].status = "GRANTED" /\ ~Lapsed(k)
          /\ Unchanged
          /\ outbox' = <<>>
       \/ /\ ~RequestIgnored(c)
          /\ CreateRequests(session, {c})
          /\ outbox' = ExpiryEvents(k) \o
                <<Prompt(<<issued + 1, c>>, session, c),
                  Event("consent_requested", session, c, "none")>>

-----------------------------------------------------------------------------
(***************************************************************************)
(* The death of the process, with everything it held.                      *)
(***************************************************************************)
Die ==
    /\ up' = FALSE
    /\ records' = [k \in Key |-> NoRecord]
    /\ static' = NoStatic
    /\ outbox' = <<>>
    /\ UNCHANGED <<session, issued, verdicts, withdrawn>>

(***************************************************************************)
(* _on_decision.  response_ms is an unsigned field: when the wall clock    *)
(* was set back past the request, filling it in raises, nothing catches    *)
(* the exception and the node ends (response_ms in both branches).         *)
(***************************************************************************)
FromParticipant(d) ==
    /\ PolicyLoads
    /\ d.session = session
    /\ d.decision \in {"granted", "refused", "revoked"}

\* _record_static_decision
AnswersDisclosure(d) ==
    /\ Static /\ d.decision # "revoked"
    /\ d.capability = AllCapabilities /\ d.request = static.request
    /\ ~static.decided
    /\ CanDecide(session, static.requests)

AnswersRequestAnyCondition(d) ==        \* mutant: no branch for static
    /\ d.decision # "revoked"
    /\ d.capability \in Policy
    /\ CanDecide(session, [c \in {d.capability} |-> d.request])

AnswersRequest(d) ==
    /\ ~Static /\ d.decision # "revoked"
    /\ d.capability \in Policy
    /\ CanDecide(session, [c \in {d.capability} |-> d.request])

Withdraws(d) == d.decision = "revoked" /\ d.capability \in Policy

Accepted(d) == FromParticipant(d) /\
    (AnswersDisclosure(d) \/ AnswersRequest(d) \/ Withdraws(d))

DecidedEventsOfGrants(caps, decision) ==    \* mutant: refusals are not announced
    IF decision # "granted" THEN <<>>
    ELSE [i \in DOMAIN caps |-> Event("consent_decided", session, caps[i], decision)]

DecidedEvents(caps, decision) ==
    [i \in DOMAIN caps |-> Event("consent_decided", session, caps[i], decision)]

ClockRanBack(C) == \E c \in C : clock < records[<<session, c>>].requested

OnDisclosureAnswer(d) ==
    /\ FromParticipant(d) /\ AnswersDisclosure(d)
    /\ IF ClockRanBack(Policy)
       THEN Die
       ELSE /\ RecordDecision(session, static.requests,
                              d.decision = "granted", FALSE)
            /\ static' = [static EXCEPT !.decided = TRUE]
            /\ outbox' = DecidedEvents(SortedPolicy, d.decision)
            /\ UNCHANGED <<up, session>>

OnAnswer(d) ==
    /\ FromParticipant(d) /\ AnswersRequest(d)
    /\ IF ClockRanBack({d.capability})
       THEN Die
       ELSE /\ RecordDecision(session, [c \in {d.capability} |-> d.request],
                              d.decision = "granted", TRUE)
            /\ outbox' = DecidedEvents(<<d.capability>>, d.decision)
            /\ ManagerSame /\ UNCHANGED up

\* revoke, on the decision topic and through the revoke service
RevokeConsent(s, c) ==
    /\ ManagerSame /\ UNCHANGED up
    /\ \/ /\ Revoke(<<s, c>>)
          /\ outbox' = <<Event("consent_revoked", session, c, "revoked")>>
       \/ /\ RevokeRejected(<<s, c>>)
          /\ outbox' = ExpiryEvents(<<s, c>>)

OnDecision(d) ==
    /\ reply' = NoReply
    /\ \/ OnDisclosureAnswer(d)
       \/ OnAnswer(d)
       \/ FromParticipant(d) /\ Withdraws(d) /\ RevokeConsent(session, d.capability)
       \/ /\ ~Accepted(d)
          /\ outbox' = <<>>
          /\ Unchanged /\ ManagerSame /\ UNCHANGED up

-----------------------------------------------------------------------------
(***************************************************************************)
(* The services /consent/check, /consent/revoke and /consent/reset_session.*)
(* A reset ends the active session and opens the next in one callback; the *)
(* event that ends a session still carries its identifier.                 *)
(***************************************************************************)
OnCheck(s, c) ==
    /\ ManagerSame
    /\ IF PolicyLoads
       THEN /\ Check(s, c)
            /\ outbox' = IF c \in Policy THEN ExpiryEvents(<<s, c>>) ELSE <<>>
       ELSE /\ reply' = [status |-> "INVALID_CAPABILITY", session |-> s,
                         capability |-> c]
            /\ Unchanged
            /\ outbox' = <<>>

OnRevoke(s, c) ==
    /\ reply' = NoReply
    /\ \/ PolicyLoads /\ c \in Policy /\ RevokeConsent(s, c)
       \/ /\ c \notin Loaded
          /\ outbox' = <<>>
          /\ Unchanged /\ ManagerSame /\ UNCHANGED up

\* reset_session of the session that ends
ClearedTooLate ==                   \* mutant: after the session id has moved on
    [k \in Key |-> IF k[1] = session + 1 THEN NoRecord ELSE records[k]]

Cleared == [k \in Key |-> IF k[1] = session THEN NoRecord ELSE records[k]]

ResetRejected(s) == ~PolicyLoads \/ s # session

OnReset(s) ==
    /\ reply' = NoReply
    /\ \/ /\ ResetRejected(s)
          /\ outbox' = <<>>
          /\ Unchanged /\ ManagerSame
       \/ /\ ~ResetRejected(s)
          /\ OpenSession(Cleared)
          /\ outbox' = <<Event("session_reset", session, NoCapability, "none")>>
                       \o StartMessages(issued + 1, session + 1)
          /\ UNCHANGED <<verdicts, withdrawn>>

-----------------------------------------------------------------------------
(***************************************************************************)
(* __init__ of a first and of a later process, and the end of one.         *)
(***************************************************************************)
ManagerInit ==
    /\ config \in Configurations
    /\ clock = 0
    /\ up = TRUE
    /\ session = 1
    /\ issued = RequestsToOpen
    /\ records = OpenedRecords(1, 1, [k \in Key |-> NoRecord])
    /\ static = StaticPart(1)
    /\ outbox = StartMessages(1, 1)
    /\ verdicts = {} /\ withdrawn = {}
    /\ reply = NoReply

Crash == up /\ Die /\ reply' = NoReply

Restart ==
    /\ ~up
    /\ up' = TRUE
    /\ OpenSession([k \in Key |-> NoRecord])
    /\ outbox' = StartMessages(issued + 1, session + 1)
    /\ reply' = NoReply
    /\ UNCHANGED <<verdicts, withdrawn>>

-----------------------------------------------------------------------------
(***************************************************************************)
(* The node on its own: every message and service request a well-typed     *)
(* sender could produce, stale, replayed and misdirected ones included.    *)
(***************************************************************************)
DecisionMessage ==
    [request : (1 .. issued) \X Capability, session : 1 .. session,
     capability : Capability, decision : {"granted", "refused", "revoked", "other"}]

Handle ==
    /\ up
    /\ \/ \E c \in Capability : OnConsentRequest(c) /\ UNCHANGED up
       \/ \E d \in DecisionMessage : OnDecision(d)
       \/ \E s \in 1 .. session, c \in Capability : OnCheck(s, c) /\ UNCHANGED up
       \/ \E s \in 1 .. session, c \in Capability : OnRevoke(s, c)
       \/ \E s \in 1 .. session : OnReset(s) /\ UNCHANGED up
    /\ UNCHANGED clock

ClockMoves == /\ TimePasses
              /\ outbox' = <<>>
              /\ UNCHANGED <<up, session, static>>

ManagerNext == /\ \/ Handle
                  \/ ClockMoves
                  \/ Crash /\ UNCHANGED clock
                  \/ Restart /\ UNCHANGED clock
               /\ UNCHANGED config

ManagerSpec == ManagerInit /\ [][ManagerNext]_managerVars

-----------------------------------------------------------------------------
(***************************************************************************)
(* Every variable has its type.                                            *)
(***************************************************************************)
Message ==
    [topic : {"event"}, type : {"session_started", "session_reset",
        "consent_requested", "consent_decided", "consent_revoked",
        "consent_expired"},
     session : Session, capability : Capability \cup {NoCapability},
     decision : Decision]
    \cup [topic : {"session"}, session : Session]
    \cup [topic : {"prompt"}, request : RequestId, session : Session,
          capability : Capability]

ManagerTypeOK ==
    /\ StoreTypeOK
    /\ config \in Configurations
    /\ up \in BOOLEAN
    /\ session \in Session
    /\ \/ static = NoStatic
       \/ static \in [request : RequestId, requests : [Policy -> RequestId],
                      decided : BOOLEAN]
    /\ \A i \in DOMAIN outbox : outbox[i] \in Message

(***************************************************************************)
(* Only the active session has consent records.  The expiry event, which   *)
(* carries the manager's session and not the record's, relies on it, and   *)
(* so does the answer to a check of an old session: UNKNOWN.               *)
(***************************************************************************)
RecordsBelongToActiveSession ==
    \A k \in Key : k[1] # session => records[k] = NoRecord

(***************************************************************************)
(* The static condition is never half answered: until the disclosure is    *)
(* answered every capability is pending, and after it none is, and none    *)
(* carries a deadline ("avoiding a partially granted session").            *)
(***************************************************************************)
StaticDecidedTogether ==
    up /\ BeginsStatic =>
        \A c \in Policy :
            /\ (records[<<session, c>>].status = "PENDING") = ~static.decided
            /\ records[<<session, c>>].expires = Never

(***************************************************************************)
(* Outside the dynamic condition nobody is asked twice: a refusal or a     *)
(* withdrawal is final for its session.                                    *)
(***************************************************************************)
NoRepromptOutsideDynamic ==
    [][\A k \in Key :
          ~Dynamic /\ records[k].status \in Over /\ up' /\ session' = session
          => records'[k].status = records[k].status]_managerVars

(***************************************************************************)
(* The audit trail is complete: whenever the status of a key changes, the  *)
(* same callback publishes the event that says so, under the session the   *)
(* record belongs to.  (A process that dies takes its records with it and  *)
(* publishes nothing.)                                                     *)
(***************************************************************************)
Published(type, s, c, decision) ==
    \E i \in DOMAIN outbox' : outbox'[i] = Event(type, s, c, decision)

Announced(k, status) ==
    CASE status = "GRANTED" -> Published("consent_decided", k[1], k[2], "granted")
      [] status = "REFUSED" -> Published("consent_decided", k[1], k[2], "refused")
      [] status = "REVOKED" -> Published("consent_revoked", k[1], k[2], "revoked")
      [] status = "EXPIRED" -> Published("consent_expired", k[1], k[2], "none")
      [] status = "UNKNOWN" -> Published("session_reset", k[1], NoCapability, "none")
      [] status = "PENDING" ->
            /\ \E c \in {k[2], AllCapabilities} :
                  Published("consent_requested", k[1], c, "none")
            /\ Lapsed(k) => Published("consent_expired", k[1], k[2], "none")

EveryChangeIsAnnounced ==
    [][\A k \in Key :
          up /\ up' /\ records'[k].status # records[k].status
          => Announced(k, records'[k].status)]_managerVars
=============================================================================
