--------------------------- MODULE GateAloneProofs --------------------------
(***************************************************************************)
(* Theorems about the privacy gate in an environment that promises         *)
(* nothing, for every policy and every number of sessions.                 *)
(***************************************************************************)
EXTENDS GateAlone, TLAPS

USE PolicyAssumption, ConfigurationsAssumption, MaxGateSessionAssumption

-----------------------------------------------------------------------------
(***************************************************************************)
(* The inductive invariant.  Besides InFlightIsCurrent it needs the        *)
(* converse: a future of the current session is marked in flight.  Futures *)
(* of older sessions may still be outstanding, those of later ones not.    *)
(***************************************************************************)
OutstandingIsMarked ==
    \A call \in outstanding :
        /\ call.session <= gateSession
        /\ call.session = gateSession => inFlight[call.capability] = gateSession

GateInv == TypeOK /\ InFlightIsCurrent /\ OutstandingIsMarked

\* The part of the type of the gate that a step must re-establish.
GateType ==
    /\ gateSession \in 0 .. MaxGateSession
    /\ pending \subseteq Policy
    /\ queued \subseteq Policy
    /\ inFlight \in [Policy -> 0 .. MaxGateSession]
    /\ serviceReady \in BOOLEAN
    /\ gateOut \in [calls : SUBSET CheckCall, requested : SUBSET Policy,
                    authorized : SUBSET Policy, blocked : SUBSET Capability]

\* A step that sends calls for the capabilities of K, in the session s.
Calls(s, K) == {[session |-> s, capability |-> c] : c \in K}

-----------------------------------------------------------------------------
LEMMA NoOutputType ==
    NoOutput \in [calls : SUBSET CheckCall, requested : SUBSET Policy,
                  authorized : SUBSET Policy, blocked : SUBSET Capability]
    /\ NoOutput.calls = {} /\ NoOutput.authorized = {} /\ NoOutput.blocked = {}
BY DEF NoOutput

LEMMA OutputType ==
    /\ \A K \in SUBSET CheckCall : LET o == [NoOutput EXCEPT !.calls = K] IN
         /\ o \in [calls : SUBSET CheckCall, requested : SUBSET Policy,
                   authorized : SUBSET Policy, blocked : SUBSET Capability]
         /\ o.calls = K
    /\ \A K \in SUBSET Policy : LET o == [NoOutput EXCEPT !.authorized = K] IN
         /\ o \in [calls : SUBSET CheckCall, requested : SUBSET Policy,
                   authorized : SUBSET Policy, blocked : SUBSET Capability]
         /\ o.calls = {} /\ o.authorized = K
    /\ \A K \in SUBSET Policy : LET o == [NoOutput EXCEPT !.requested = K] IN
         /\ o \in [calls : SUBSET CheckCall, requested : SUBSET Policy,
                   authorized : SUBSET Policy, blocked : SUBSET Capability]
         /\ o.calls = {}
    /\ \A K \in SUBSET Capability : LET o == [NoOutput EXCEPT !.blocked = K] IN
         /\ o \in [calls : SUBSET CheckCall, requested : SUBSET Policy,
                   authorized : SUBSET Policy, blocked : SUBSET Capability]
         /\ o.calls = {} /\ o.blocked = K
BY DEF NoOutput

-----------------------------------------------------------------------------
LEMMA CallsType ==
    \A s \in 1 .. MaxGateSession, K \in SUBSET Policy : Calls(s, K) \in SUBSET CheckCall
BY DEF Calls, CheckCall

-----------------------------------------------------------------------------
\* What is shown of every step: the invariant holds again, no call doubles an
\* outstanding one, and nothing that waits is forgotten.
Kept ==
    \A c \in Policy : Waiting(c) /\ ~Waiting(c)' =>
        \/ c \in gateOut'.authorized \cup gateOut'.blocked
        \/ gateSession' # gateSession

Good == GateInv' /\ gateOut'.calls \cap outstanding = {} /\ Kept

(***************************************************************************)
(* A step that sends no call and touches neither the session nor the       *)
(* checks in flight.                                                       *)
(***************************************************************************)
LEMMA QuietStep ==
    ASSUME GateInv, GateType', gateOut'.calls = {}, Kept,
           UNCHANGED <<config, gateSession, inFlight, outstanding>>
    PROVE  Good
BY DEF GateInv, TypeOK, GateType, InFlightIsCurrent, OutstandingIsMarked, Good

LEMMA IdleStep ==
    ASSUME GateInv, Idle, Sent, serviceReady' \in BOOLEAN, UNCHANGED config
    PROVE  Good
<1>1. gateOut' = NoOutput /\ gateOut'.calls = {} /\ UNCHANGED outstanding
  BY NoOutputType DEF Idle, Sent
<1>2. GateType'
  BY <1>1, NoOutputType DEF Idle, GateInv, TypeOK, GateType
<1>3. Kept
  BY DEF Idle, Kept, Waiting
<1> QED
  BY <1>1, <1>2, <1>3, QuietStep DEF Idle

(***************************************************************************)
(* _check past its two early returns (privacy_gate_node.py:118).           *)
(***************************************************************************)
LEMMA StartChecksStep ==
    ASSUME GateInv, NEW C \in SUBSET Policy, CanCall, StartChecks(C), Sent,
           UNCHANGED <<config, serviceReady>>
    PROVE  Good
<1> DEFINE called == Unchecked(C)
           calls == Calls(gateSession, called)
<1>1. /\ called \subseteq Policy
      /\ \A c \in called : inFlight[c] = NoSession
      /\ gateSession \in 1 .. MaxGateSession
  BY DEF Unchecked, CanCall, GateInv, TypeOK, NoSession
<1>2. calls \in SUBSET CheckCall
  BY <1>1 DEF Calls, CheckCall
<1>3. /\ gateOut' = [NoOutput EXCEPT !.calls = calls]
      /\ gateOut'.calls = calls /\ outstanding' = outstanding \cup calls
  BY <1>2, OutputType DEF StartChecks, Calls, Sent
<1>4. /\ inFlight' = [c \in Policy |-> IF c \in called THEN gateSession
                                                     ELSE inFlight[c]]
      /\ queued' = queued \ called
      /\ UNCHANGED <<gateSession, pending>>
  BY DEF StartChecks
<1> HIDE DEF called
<1>5. TypeOK'
  <2>1. gateOut' \in [calls : SUBSET CheckCall, requested : SUBSET Policy,
                      authorized : SUBSET Policy, blocked : SUBSET Capability]
    BY <1>2, <1>3, OutputType
  <2> QED
    BY <1>1, <1>2, <1>3, <1>4, <2>1 DEF GateInv, TypeOK
<1>6. InFlightIsCurrent'
  BY <1>1, <1>3, <1>4 DEF GateInv, TypeOK, InFlightIsCurrent, Calls, NoSession
<1>7. OutstandingIsMarked'
  <2> SUFFICES ASSUME NEW call \in outstanding'
               PROVE  /\ call.session <= gateSession
                      /\ call.session = gateSession =>
                            inFlight'[call.capability] = gateSession
    BY <1>4 DEF OutstandingIsMarked
  <2>1. CASE call \in outstanding
    <3>1. call.capability \in Policy
      BY <2>1 DEF GateInv, TypeOK, CheckCall
    <3> QED
      BY <1>4, <2>1, <3>1 DEF GateInv, OutstandingIsMarked
  <2>2. CASE call \in calls
    <3>1. PICK c \in called : call = [session |-> gateSession, capability |-> c]
      BY <2>2 DEF Calls
    <3>2. gateSession <= gateSession
      BY <1>1
    <3> QED
      BY <1>1, <1>4, <3>1, <3>2
  <2> QED
    BY <1>3, <2>1, <2>2
<1>8. calls \cap outstanding = {}
  <2> SUFFICES ASSUME NEW c \in called,
                      [session |-> gateSession, capability |-> c] \in outstanding
               PROVE  FALSE
    BY DEF Calls
  <2> QED
    BY <1>1 DEF GateInv, OutstandingIsMarked, NoSession
<1>9. Kept
  BY <1>1, <1>4 DEF Kept, Waiting, NoSession
<1> QED
  BY <1>3, <1>5, <1>6, <1>7, <1>8, <1>9 DEF Good, GateInv

LEMMA StartCheckStep ==
    ASSUME GateInv, NEW c \in Policy, StartCheck(c), Sent,
           UNCHANGED <<config, serviceReady>>
    PROVE  Good
<1>1. CASE CanCall
  BY <1>1, StartChecksStep DEF StartCheck
<1>2. CASE ~CanCall
  <2>1. /\ gateOut' = NoOutput /\ gateOut'.calls = {}
        /\ UNCHANGED <<gateSession, pending, inFlight, outstanding>>
        /\ queued' = queued \cup {c}
    BY <1>2, NoOutputType DEF StartCheck, Sent
  <2>2. GateType'
    BY <2>1, NoOutputType DEF GateInv, TypeOK, GateType
  <2>3. Kept
    BY <2>1 DEF Kept, Waiting
  <2> QED
    BY <2>1, <2>2, <2>3, QuietStep
<1> QED
  BY <1>1, <1>2

(***************************************************************************)
(* _on_session: another session empties the three places a capability can  *)
(* wait in; a repeated announcement leaves them.                           *)
(***************************************************************************)
LEMMA SessionStep ==
    ASSUME GateInv, NEW s \in 1 .. MaxGateSession,
           s \in {gateSession, gateSession + 1},
           GateOnSession(s), Sent, UNCHANGED config
    PROVE  Good
<1> DEFINE changed == SessionChanged(s)
           waiting == IF changed THEN {} ELSE queued
           flying == [c \in Policy |-> IF changed THEN NoSession ELSE inFlight[c]]
           called == IF serviceReady THEN {c \in waiting : flying[c] = NoSession}
                                     ELSE {}
           calls == Calls(s, called)
<1>1. /\ waiting \subseteq Policy /\ called \subseteq waiting
      /\ flying \in [Policy -> 0 .. MaxGateSession]
      /\ \A c \in called : flying[c] = NoSession
  BY DEF GateInv, TypeOK, NoSession
<1>2. /\ gateSession' = s
      /\ pending' = IF changed THEN {} ELSE pending
      /\ queued' = waiting \ called
      /\ inFlight' = [c \in Policy |-> IF c \in called THEN s ELSE flying[c]]
      /\ gateOut' = [NoOutput EXCEPT !.calls = calls]
      /\ UNCHANGED serviceReady
  BY DEF GateOnSession, Calls
<1>3. calls \in SUBSET CheckCall
  <2>1. called \in SUBSET Policy
    BY <1>1
  <2> QED
    BY <2>1, CallsType
<1>4. gateOut'.calls = calls /\ outstanding' = outstanding \cup calls
  BY <1>2, <1>3, OutputType DEF Sent
<1>5. /\ gateSession \in Nat /\ s \in Nat /\ gateSession <= s
      /\ changed => s # gateSession
      /\ ~changed => s = gateSession \/ gateSession = NoSession
  BY DEF SessionChanged, GateInv, TypeOK
<1>6. ASSUME NEW c \in Policy, flying[c] # NoSession
      PROVE  /\ ~changed /\ s = gateSession /\ flying[c] = s
             /\ inFlight[c] = s
             /\ [session |-> s, capability |-> c] \in outstanding
  BY <1>5, <1>6 DEF GateInv, InFlightIsCurrent, NoSession
<1>7. ASSUME NEW call \in outstanding
      PROVE  /\ call.capability \in Policy /\ call.session <= s
             /\ call.session = s =>
                   s = gateSession /\ ~changed /\ flying[call.capability] = s
  <2>1. call.capability \in Policy /\ call.session \in 1 .. MaxGateSession
        /\ call.session <= gateSession
    BY DEF GateInv, TypeOK, CheckCall, OutstandingIsMarked
  <2>2. ASSUME call.session = s PROVE s = gateSession /\ ~changed
    BY <1>5, <2>1, <2>2
  <2>3. ASSUME call.session = s PROVE inFlight[call.capability] = s
    BY <2>2, <2>3 DEF GateInv, OutstandingIsMarked
  <2> QED
    BY <1>5, <2>1, <2>2, <2>3
<1> HIDE DEF called, waiting, flying, changed
<1>8. TypeOK'
  <2>1. gateOut' \in [calls : SUBSET CheckCall, requested : SUBSET Policy,
                      authorized : SUBSET Policy, blocked : SUBSET Capability]
    BY <1>2, <1>3, OutputType
  <2> QED
    BY <1>1, <1>2, <1>3, <1>4, <2>1 DEF GateInv, TypeOK
<1>9. InFlightIsCurrent'
  <2> SUFFICES ASSUME NEW c \in Policy, inFlight'[c] # NoSession
               PROVE  /\ inFlight'[c] = s
                      /\ [session |-> s, capability |-> c] \in outstanding'
    BY <1>2 DEF InFlightIsCurrent
  <2>1. CASE c \in called
    BY <1>2, <1>4, <2>1 DEF Calls
  <2>2. CASE c \notin called
    BY <1>2, <1>4, <1>6, <2>2
  <2> QED
    BY <2>1, <2>2
<1>10. OutstandingIsMarked'
  <2> SUFFICES ASSUME NEW call \in outstanding'
               PROVE  /\ call.session <= s
                      /\ call.session = s => inFlight'[call.capability] = s
    BY <1>2 DEF OutstandingIsMarked
  <2>1. CASE call \in outstanding
    BY <1>2, <1>7, <2>1
  <2>2. CASE call \in calls
    BY <1>1, <1>2, <1>5, <2>2 DEF Calls
  <2> QED
    BY <1>4, <2>1, <2>2
<1>11. calls \cap outstanding = {}
  <2> SUFFICES ASSUME NEW c \in called,
                      [session |-> s, capability |-> c] \in outstanding
               PROVE  FALSE
    BY DEF Calls
  <2>1. flying[c] = NoSession /\ s # NoSession
    BY <1>1 DEF NoSession
  <2> QED
    BY <1>7, <2>1
<1>12. Kept
  <2> SUFFICES ASSUME NEW c \in Policy, Waiting(c), ~Waiting(c)',
                      gateSession' = gateSession
               PROVE  FALSE
    BY DEF Kept
  <2>1. ~changed
    BY <1>2, <1>5
  <2>2. waiting = queued /\ pending' = pending /\ flying[c] = inFlight[c]
    BY <1>2, <2>1 DEF waiting, flying
  <2> QED
    BY <1>2, <2>2 DEF Waiting, NoSession
<1> QED
  BY <1>4, <1>8, <1>9, <1>10, <1>11, <1>12 DEF Good, GateInv

(***************************************************************************)
(* _on_check_complete: the reply the gate waits for ends its check; any    *)
(* other is dropped.                                                       *)
(***************************************************************************)
LEMMA ReplyStep ==
    ASSUME GateInv, NEW call \in outstanding, NEW status \in Answer,
           OnCheckComplete(call.session, call.capability, status),
           outstanding' = outstanding \ {call}, UNCHANGED config
    PROVE  Good
<1> DEFINE c == call.capability
           s == call.session
<1>1. c \in Policy /\ c \in Capability /\ s # NoSession
      /\ call = [session |-> s, capability |-> c]
  BY DEF GateInv, TypeOK, CheckCall, NoSession
<1>2. OutstandingIsMarked /\ InFlightIsCurrent /\ TypeOK
  BY DEF GateInv
<1>3. UNCHANGED <<gateSession, serviceReady>>
  BY DEF OnCheckComplete
<1>4. CASE inFlight[c] # s
  <2>1. Idle
    BY <1>4 DEF OnCheckComplete
  <2>2. gateOut' = NoOutput /\ gateOut'.calls = {}
        /\ UNCHANGED <<gateSession, pending, queued, inFlight>>
    BY <2>1, NoOutputType DEF Idle
  <2>3. TypeOK'
    BY <1>2, <1>3, <2>2, NoOutputType DEF TypeOK
  <2>4. InFlightIsCurrent'
    BY <1>1, <1>2, <1>4, <2>2 DEF InFlightIsCurrent
  <2>5. OutstandingIsMarked'
    BY <1>2, <2>2 DEF OutstandingIsMarked
  <2>6. Kept
    BY <2>2 DEF Kept, Waiting
  <2> QED
    BY <2>2, <2>3, <2>4, <2>5, <2>6 DEF Good, GateInv
<1>5. CASE inFlight[c] = s
  <2>1. s = gateSession
    BY <1>1, <1>2, <1>5 DEF InFlightIsCurrent
  <2>2. inFlight' = [inFlight EXCEPT ![c] = NoSession] /\ OnReply(c, status)
    BY <1>5, <2>1 DEF OnCheckComplete
  <2>3. /\ pending' \subseteq Policy /\ queued' \subseteq Policy
        /\ gateOut' \in [calls : SUBSET CheckCall, requested : SUBSET Policy,
                          authorized : SUBSET Policy, blocked : SUBSET Capability]
        /\ gateOut'.calls = {}
        /\ \/ c \in pending'
           \/ c \in gateOut'.authorized \cup gateOut'.blocked
        /\ \A d \in Policy \ {c} :
              (d \in pending => d \in pending') /\ (d \in queued => d \in queued')
    BY <1>1, <1>2, <2>2, OutputType, NoOutputType DEF OnReply, Block, TypeOK
  <2>4. inFlight' \in [Policy -> 0 .. MaxGateSession] /\ inFlight'[c] = NoSession
        /\ \A d \in Policy \ {c} : inFlight'[d] = inFlight[d]
    BY <1>1, <1>2, <2>2 DEF TypeOK, NoSession
  <2>5. TypeOK'
    BY <1>2, <1>3, <2>3, <2>4 DEF TypeOK
  <2>6. InFlightIsCurrent'
    BY <1>1, <1>2, <1>3, <2>4 DEF InFlightIsCurrent
  <2>7. OutstandingIsMarked'
    <3> SUFFICES ASSUME NEW other \in outstanding, other # call
                 PROVE  /\ other.session <= gateSession
                        /\ other.session = gateSession =>
                              inFlight'[other.capability] = gateSession
      BY <1>3 DEF OutstandingIsMarked
    <3>1. other.capability \in Policy
          /\ other = [session |-> other.session, capability |-> other.capability]
      BY <1>2 DEF TypeOK, CheckCall
    <3>2. other.session # gateSession \/ other.capability # c
      BY <1>1, <2>1, <3>1
    <3> QED
      BY <1>2, <2>4, <3>1, <3>2 DEF OutstandingIsMarked
  <2>8. Kept
    BY <2>3, <2>4 DEF Kept, Waiting
  <2> QED
    BY <2>3, <2>5, <2>6, <2>7, <2>8 DEF Good, GateInv
<1> QED
  BY <1>4, <1>5

-----------------------------------------------------------------------------
LEMMA GateStarts == Init => GateInv
<1> SUFFICES ASSUME Init PROVE GateInv
  OBVIOUS
<1>1. inFlight \in [Policy -> 0 .. MaxGateSession] /\ gateSession \in 0 .. MaxGateSession
  BY DEF Init, GateInit, NoSession
<1>2. gateOut \in [calls : SUBSET CheckCall, requested : SUBSET Policy,
                   authorized : SUBSET Policy, blocked : SUBSET Capability]
  BY NoOutputType DEF Init, GateInit
<1>3. TypeOK
  BY <1>1, <1>2 DEF Init, GateInit, TypeOK
<1>4. InFlightIsCurrent /\ OutstandingIsMarked
  BY DEF Init, GateInit, InFlightIsCurrent, OutstandingIsMarked
<1> QED
  BY <1>3, <1>4 DEF GateInv

LEMMA GateStep == GateInv /\ [Next]_vars => GateInv' /\ (UNCHANGED vars \/ Good)
<1> SUFFICES ASSUME GateInv, [Next]_vars
             PROVE  GateInv' /\ (UNCHANGED vars \/ Good)
  OBVIOUS
<1>1. CASE SessionArrives /\ UNCHANGED config
  <2>1. PICK s \in {gateSession, gateSession + 1} \ {NoSession} :
          s <= MaxGateSession /\ GateOnSession(s) /\ Sent
    BY <1>1 DEF SessionArrives
  <2>2. s \in 1 .. MaxGateSession
    BY <2>1 DEF GateInv, TypeOK, NoSession
  <2> QED
    BY <1>1, <2>1, <2>2, SessionStep DEF Good
<1>2. CASE RequestArrives /\ UNCHANGED config
  <2>1. PICK c \in Capability : OnCapabilityRequest(c) /\ Sent
    BY <1>2 DEF RequestArrives
  <2>2. CASE c \notin Loaded
    <3>1. /\ Block(c) /\ UNCHANGED <<gateSession, inFlight, serviceReady>>
      BY <2>1, <2>2 DEF OnCapabilityRequest, Idle, StartCheck
    <3>2. /\ gateOut' \in [calls : SUBSET CheckCall, requested : SUBSET Policy,
                            authorized : SUBSET Policy, blocked : SUBSET Capability]
          /\ gateOut'.calls = {} /\ gateOut'.blocked = {c}
      BY <3>1, OutputType DEF Block
    <3>3. GateType' /\ UNCHANGED outstanding
      BY <2>1, <3>1, <3>2 DEF Block, Sent, GateInv, TypeOK, GateType
    <3>4. Kept
      BY <3>1, <3>2 DEF Block, Kept, Waiting
    <3> QED
      BY <1>2, <3>1, <3>2, <3>3, <3>4, QuietStep DEF Good
  <2>3. CASE c \in Loaded
    <3>1. c \in Policy
      BY <2>3 DEF Loaded
    <3>2. CASE Idle /\ UNCHANGED serviceReady
      BY <1>2, <2>1, <3>2, IdleStep DEF Good, GateInv, TypeOK
    <3>3. CASE StartCheck(c) /\ UNCHANGED serviceReady
      BY <1>2, <2>1, <3>1, <3>3, StartCheckStep DEF Good
    <3> QED
      BY <2>1, <2>3, <3>2, <3>3 DEF OnCapabilityRequest
  <2> QED
    BY <2>2, <2>3
<1>3. CASE ReplyArrives /\ UNCHANGED config
  BY <1>3, ReplyStep DEF ReplyArrives, Good
<1>4. CASE EventArrives /\ UNCHANGED config
  <2>1. PICK s \in 1 .. MaxGateSession, type \in Event, c \in Capability :
          OnConsentEvent(s, type, c) /\ Sent
    BY <1>4 DEF EventArrives
  <2>2. CASE s = gateSession /\ type = "consent_decided" /\ c \in pending
    BY <1>4, <2>1, <2>2, StartCheckStep DEF OnConsentEvent, Good, GateInv, TypeOK
  <2>3. CASE ~(s = gateSession /\ type = "consent_decided" /\ c \in pending)
    BY <1>4, <2>1, <2>3, IdleStep DEF OnConsentEvent, Good, GateInv, TypeOK
  <2> QED
    BY <2>2, <2>3
<1>5. CASE TimerFires /\ UNCHANGED config
  BY <1>5, StartChecksStep DEF TimerFires, RetryQueuedChecks, Good, GateInv, TypeOK
<1>6. CASE ServiceChanges /\ UNCHANGED config
  BY <1>6, IdleStep DEF ServiceChanges, ServiceSeen, Good
<1>7. CASE UNCHANGED vars
  BY <1>7 DEF vars, gateVars, GateInv, TypeOK, InFlightIsCurrent, OutstandingIsMarked
<1> QED
  BY <1>1, <1>2, <1>3, <1>4, <1>5, <1>6, <1>7 DEF Next

(***************************************************************************)
(* The inductive invariant of the gate.                                    *)
(***************************************************************************)
THEOREM GateInvariant == Spec => []GateInv
BY GateStarts, GateStep, PTL DEF Spec

(***************************************************************************)
(* Every variable of the gate keeps its type.                              *)
(***************************************************************************)
THEOREM GateTypeInvariant == Spec => []TypeOK
<1>1. GateInv => TypeOK
  BY DEF GateInv
<1> QED
  BY <1>1, GateInvariant, PTL

(***************************************************************************)
(* A check marked in flight has a future that will complete, made for the  *)
(* session the gate is in (privacy_gate_node.py:115).                      *)
(***************************************************************************)
THEOREM InFlightIsCurrentAlways == Spec => []InFlightIsCurrent
<1>1. GateInv => InFlightIsCurrent
  BY DEF GateInv
<1> QED
  BY <1>1, GateInvariant, PTL

(***************************************************************************)
(* The gate never has two futures for one capability and session.          *)
(***************************************************************************)
THEOREM OneCallAtATimeAlways == Spec => OneCallAtATime
<1>1. GateInv /\ [Next]_vars => [gateOut'.calls \cap outstanding = {}]_vars
  BY GateStep DEF Good
<1> QED
  BY <1>1, GateInvariant, PTL DEF Spec, OneCallAtATime

(***************************************************************************)
(* An accepted request leaves the gate only authorised, blocked or with    *)
(* its session, whatever messages, replies and events the gate receives.   *)
(***************************************************************************)
THEOREM NeverDroppedAlways == Spec => NeverDropped
<1>1. GateInv /\ [Next]_vars =>
        [\A c \in Policy :
           Waiting(c) /\ ~Waiting(c)' =>
              \/ c \in gateOut'.authorized \cup gateOut'.blocked
              \/ gateSession' # gateSession]_vars
  BY GateStep DEF Good, Kept
<1> QED
  BY <1>1, GateInvariant, PTL DEF Spec, NeverDropped
=============================================================================
