----------------------------- MODULE PrivacyGate ----------------------------
(***************************************************************************)
(* nodes/privacy_gate_node.py: the only path from a capability request to  *)
(* an authorisation.  It asks the manager about every request with an      *)
(* asynchronous service call, and while consent is open keeps the          *)
(* capability in _pending until the manager announces a decision.          *)
(*                                                                         *)
(* One callback runs at a time; each is an action.  gateOut is what the    *)
(* last step published or sent.  Requests for different capabilities do    *)
(* not affect each other, so the order within a batch is left out.         *)
(***************************************************************************)
EXTENDS StudySetup

VARIABLES
    gateSession,     \* _session_id; NoSession: ''
    pending,         \* _pending: waiting for a decision
    queued,          \* _queued: waiting for the session or the service
    inFlight,        \* _checks_in_flight: the session each check was made for
    serviceReady,    \* what service_is_ready() returns
    gateOut          \* the messages sent by the last step

gateVars == <<gateSession, pending, queued, inFlight, serviceReady, gateOut>>

NoSession == 0

NoOutput == [calls |-> {}, requested |-> {}, authorized |-> {}, blocked |-> {}]

-----------------------------------------------------------------------------
(***************************************************************************)
(* core/gate_logic.py: decide                                              *)
(***************************************************************************)
Decide(status) ==
    CASE status = "GRANTED" -> "ALLOW"
      [] status = "UNKNOWN" -> "REQUEST_CONSENT"
      [] status = "EXPIRED" -> IF Dynamic THEN "REQUEST_CONSENT" ELSE "FALLBACK"
      [] status = "PENDING" -> "WAIT"
      [] status = "INVALID_CAPABILITY" -> "DENY_UNKNOWN_CAPABILITY"
      [] status \in {"REFUSED", "REVOKED"} -> "FALLBACK"
      [] OTHER -> "FAILED"      \* no response, an exception, no such status

-----------------------------------------------------------------------------
(***************************************************************************)
(* _check, for each capability of C: queue it while there is no session or *)
(* no service, join a check that is in flight, or call the service.        *)
(***************************************************************************)
CanCallAnySession == serviceReady         \* mutant: before a session is known

CanCall == gateSession # NoSession /\ serviceReady

UncheckedAll(C) == C                      \* mutant: no early return

Unchecked(C) == {c \in C : inFlight[c] = NoSession}

StartChecks(C) ==
    LET called == Unchecked(C) IN
    /\ inFlight' = [c \in Policy |-> IF c \in called THEN gateSession
                                                     ELSE inFlight[c]]
    /\ queued' = queued \ called
    /\ gateOut' = [NoOutput EXCEPT !.calls =
                      {[session |-> gateSession, capability |-> c] : c \in called}]
    /\ UNCHANGED <<gateSession, pending>>

StartCheck(c) ==
    IF CanCall THEN StartChecks({c})
    ELSE /\ queued' = queued \cup {c}
         /\ gateOut' = NoOutput
         /\ UNCHANGED <<gateSession, pending, inFlight>>

\* _block
Block(c) ==
    /\ pending' = pending \ {c}
    /\ queued' = queued \ {c}
    /\ gateOut' = [NoOutput EXCEPT !.blocked = {c}]

Idle == /\ gateOut' = NoOutput
        /\ UNCHANGED <<gateSession, pending, queued, inFlight>>

-----------------------------------------------------------------------------
(***************************************************************************)
(* _on_session: another session discards everything that waits; either way *)
(* what is queued is retried.                                              *)
(***************************************************************************)
SessionChangedNever(s) == FALSE                     \* mutant: nothing discarded
SessionChangedAlways(s) == gateSession # NoSession   \* mutant: a repeat discards

SessionChanged(s) == gateSession \notin {NoSession, s}

GateOnSession(s) ==
    LET changed == SessionChanged(s) IN
    /\ gateSession' = s
    /\ pending' = IF changed THEN {} ELSE pending
    /\ LET waiting == IF changed THEN {} ELSE queued
           flying == [c \in Policy |-> IF changed THEN NoSession ELSE inFlight[c]]
           called == IF serviceReady
                     THEN {c \in waiting : flying[c] = NoSession} ELSE {}
       IN /\ queued' = waiting \ called
          /\ inFlight' = [c \in Policy |-> IF c \in called THEN s ELSE flying[c]]
          /\ gateOut' = [NoOutput EXCEPT !.calls =
                            {[session |-> s, capability |-> c] : c \in called}]
    /\ UNCHANGED serviceReady

(***************************************************************************)
(* _on_capability_request                                                  *)
(***************************************************************************)
OnCapabilityRequest(c) ==
    /\ UNCHANGED serviceReady
    /\ \/ /\ c \notin Loaded
          /\ Block(c)
          /\ UNCHANGED <<gateSession, inFlight>>
       \/ c \in Loaded /\ c \in pending /\ Idle
       \/ c \in Loaded /\ c \notin pending /\ StartCheck(c)

(***************************************************************************)
(* _on_check_complete, for the reply to a check of capability c made in    *)
(* session s.  A reply the gate no longer waits for is dropped.            *)
(***************************************************************************)
OnReply(c, status) ==
    \/ /\ Decide(status) = "ALLOW"
       /\ pending' = pending \ {c}
       /\ gateOut' = [NoOutput EXCEPT !.authorized = {c}]
       /\ UNCHANGED queued
    \/ /\ Decide(status) = "REQUEST_CONSENT"
       /\ pending' = pending \cup {c}
       /\ gateOut' = [NoOutput EXCEPT !.requested = {c}]
       /\ UNCHANGED queued
    \/ /\ Decide(status) = "WAIT"
       /\ pending' = pending \cup {c}
       /\ gateOut' = NoOutput
       /\ UNCHANGED queued
    \/ /\ Decide(status) \in {"FALLBACK", "DENY_UNKNOWN_CAPABILITY", "FAILED"}
       /\ Block(c)

OnCheckComplete(s, c, status) ==
    /\ UNCHANGED <<gateSession, serviceReady>>
    /\ IF inFlight[c] # s
       THEN Idle
       ELSE /\ inFlight' = [inFlight EXCEPT ![c] = NoSession]
            /\ IF s = gateSession THEN OnReply(c, status)
               ELSE gateOut' = NoOutput /\ UNCHANGED <<pending, queued>>

(***************************************************************************)
(* _on_consent_event: a decision wakes the capability that waits for it.   *)
(***************************************************************************)
OnConsentEvent(s, type, c) ==
    /\ UNCHANGED serviceReady
    /\ IF s = gateSession /\ type = "consent_decided" /\ c \in pending
       THEN StartCheck(c)
       ELSE Idle

(***************************************************************************)
(* _retry_queued_checks, every 0.25 s                                      *)
(***************************************************************************)
RetryQueuedChecks ==
    /\ CanCall /\ queued # {}
    /\ StartChecks(queued)
    /\ UNCHANGED serviceReady

\* Discovery of the manager's service, or of its loss (rclpy).
ServiceSeen(ready) == /\ serviceReady # ready
                      /\ serviceReady' = ready
                      /\ Idle

GateInit ==
    /\ gateSession = NoSession
    /\ pending = {} /\ queued = {}
    /\ inFlight = [c \in Policy |-> NoSession]
    /\ serviceReady = FALSE
    /\ gateOut = NoOutput
=============================================================================
