------------------------------ MODULE GateAlone -----------------------------
(***************************************************************************)
(* The privacy gate in an environment that promises nothing: any session   *)
(* identifier not seen before, any capability request, any consent event,  *)
(* any answer to a check, a service that comes and goes.  What holds here  *)
(* holds of the gate whatever the manager does.                            *)
(***************************************************************************)
EXTENDS PrivacyGate

CONSTANT MaxGateSession     \* bound: sessions announced in a run

ASSUME MaxGateSessionAssumption == MaxGateSession \in Nat

VARIABLE outstanding        \* the futures of call_async not yet completed

vars == <<config, gateVars, outstanding>>

Answer == {"UNKNOWN", "PENDING", "GRANTED", "REFUSED", "REVOKED", "EXPIRED",
           "INVALID_CAPABILITY", "no response"}

Event == {"consent_decided", "other"}

Init == config \in Configurations /\ GateInit /\ outstanding = {}

Sent == outstanding' = outstanding \cup gateOut'.calls

SessionArrives ==
    \E s \in {gateSession, gateSession + 1} \ {NoSession} :
        s <= MaxGateSession /\ GateOnSession(s) /\ Sent

RequestArrives == \E c \in Capability : OnCapabilityRequest(c) /\ Sent

ReplyArrives ==
    \E call \in outstanding, status \in Answer :
        /\ OnCheckComplete(call.session, call.capability, status)
        /\ outstanding' = outstanding \ {call}

EventArrives ==
    \E s \in 1 .. MaxGateSession, type \in Event, c \in Capability :
        OnConsentEvent(s, type, c) /\ Sent

TimerFires == RetryQueuedChecks /\ Sent

ServiceChanges == \E ready \in BOOLEAN : ServiceSeen(ready) /\ Sent

Next == /\ \/ SessionArrives \/ RequestArrives \/ ReplyArrives
           \/ EventArrives \/ TimerFires \/ ServiceChanges
        /\ UNCHANGED config

Spec == Init /\ [][Next]_vars

-----------------------------------------------------------------------------
(***************************************************************************)
(* Every variable has its type.                                            *)
(***************************************************************************)
CheckCall == [session : 1 .. MaxGateSession, capability : Policy]

TypeOK ==
    /\ config \in Configurations
    /\ gateSession \in 0 .. MaxGateSession
    /\ pending \subseteq Policy
    /\ queued \subseteq Policy
    /\ inFlight \in [Policy -> 0 .. MaxGateSession]
    /\ serviceReady \in BOOLEAN
    /\ gateOut \in [calls : SUBSET CheckCall, requested : SUBSET Policy,
                    authorized : SUBSET Policy, blocked : SUBSET Capability]
    /\ outstanding \subseteq CheckCall

(***************************************************************************)
(* A capability marked as being checked really has a future that will      *)
(* complete, made for the session the gate is in: a request that joins it  *)
(* (the early return of _check) joins an answer about this session.        *)
(***************************************************************************)
InFlightIsCurrent ==
    \A c \in Policy : inFlight[c] # NoSession =>
        /\ inFlight[c] = gateSession
        /\ [session |-> gateSession, capability |-> c] \in outstanding

(***************************************************************************)
(* The gate never has two futures for the same capability and session,     *)
(* so no reply can be taken for the reply to another call.                 *)
(***************************************************************************)
OneCallAtATime == [][gateOut'.calls \cap outstanding = {}]_vars

(***************************************************************************)
(* An accepted request is never dropped on the way between the three       *)
(* places it can wait in: it leaves them only by an authorisation, a block *)
(* or a change of session.                                                 *)
(***************************************************************************)
Waiting(c) == c \in pending \/ c \in queued \/ inFlight[c] # NoSession

NeverDropped ==
    [][\A c \in Policy :
          Waiting(c) /\ ~Waiting(c)' =>
              \/ c \in gateOut'.authorized \cup gateOut'.blocked
              \/ gateSession' # gateSession]_vars
=============================================================================
