------------------------ MODULE ConsentSystemProofs -------------------------
(***************************************************************************)
(* Theorems about the consent store, the manager node, and the system they *)
(* are part of.  First the store, for every policy, every number of        *)
(* sessions and every bound.  What it promises, it still promises behind   *)
(* the callbacks of the node, in every condition, for any sequence of      *)
(* messages and service calls, and any crash; and behind the topics,       *)
(* however they delay and reorder, the gate authorises nothing else.       *)
(***************************************************************************)
EXTENDS ConsentSystem, SelectionProofs, FiniteSetTheorems

USE PolicyAssumption, ExpiryAssumption, BoundsAssumption

-----------------------------------------------------------------------------
(***************************************************************************)
(* Every method leaves a well-typed store (consent_state.py as a whole).   *)
(***************************************************************************)
LEMMA SettledType ==
    ASSUME StoreTypeOK, NEW k \in Key
    PROVE  Settled(k) \in Record
BY DEF StoreTypeOK, Settled, Record, Status

LEMMA PendingType ==
    ASSUME StoreTypeOK, issued < MaxRequest, NEW c \in Policy
    PROVE  PendingRecord(issued + 1, c) \in Record
BY DEF StoreTypeOK, PendingRecord, Record, Status, RequestId, Time, Never

LEMMA DecidedType ==
    ASSUME StoreTypeOK, NEW k \in Key, NEW granted \in BOOLEAN,
           NEW timed \in BOOLEAN
    PROVE  Decided(k, granted, timed) \in Record
<1>1. k[2] \in Policy /\ records[k] \in Record /\ clock \in Int
  BY DEF StoreTypeOK, Key, Time
<1>2. Deadline(k[2], timed) \in Int
  BY <1>1 DEF Deadline, Never
<1> QED
  BY <1>1, <1>2 DEF Decided, Record, Status

LEMMA RevokedType ==
    ASSUME StoreTypeOK, NEW k \in Key
    PROVE  Revoked(k) \in Record
<1>1. records[k] \in Record /\ clock \in Int
  BY DEF StoreTypeOK, Time
<1> QED
  BY <1>1 DEF Revoked, Record, Status

LEMMA NoRecordType == NoRecord \in Record
BY DEF NoRecord, Record, Status, Never

LEMMA StoreTypeInit == StoreInit => StoreTypeOK
BY NoRecordType DEF StoreInit, StoreTypeOK, Time

LEMMA StoreTypeStep == StoreTypeOK /\ [StoreNext]_storeVars => StoreTypeOK'
<1> SUFFICES ASSUME StoreTypeOK, [StoreNext]_storeVars
             PROVE  StoreTypeOK'
  OBVIOUS
<1>1. CASE CallCheck /\ UNCHANGED clock
  <2>1. PICK s \in Session, c \in Capability : Check(s, c)
    BY <1>1 DEF CallCheck
  <2>2. records' \in [Key -> Record]
    BY <2>1, SettledType DEF Check, Expire, Unchanged, StoreTypeOK, Key
  <2>3. CheckStatus(s, c) \in Status \cup {"INVALID_CAPABILITY"}
    <3>1. CASE c \in Policy
      BY <3>1, SettledType DEF CheckStatus, Key, Record
    <3> QED
      BY <3>1 DEF CheckStatus
  <2> QED
    BY <1>1, <2>1, <2>2, <2>3 DEF Check, Expire, Unchanged, StoreTypeOK
<1>2. CASE CallCreate /\ UNCHANGED clock
  <2>1. PICK s \in Session, C \in SUBSET Policy : CreateRequests(s, C)
    BY <1>2 DEF CallCreate
  <2>2. \A k \in Key : k[2] \in Policy
    BY DEF Key
  <2> QED
    BY <1>2, <2>1, <2>2, PendingType
    DEF CallCreate, CreateRequests, StoreTypeOK
<1>3. CASE CallReturnExisting /\ UNCHANGED clock
  BY <1>3, SettledType DEF CallReturnExisting, Expire, StoreTypeOK
<1>4. CASE CallDecide /\ UNCHANGED clock
  <2>0. PICK s \in Session, C \in SUBSET Policy, granted, timed \in BOOLEAN :
          \E group \in [C -> (1 .. issued) \X Policy] :
             RecordDecision(s, group, granted, timed) /\ reply' = NoReply
    BY <1>4 DEF CallDecide
  <2>1. PICK group \in [C -> (1 .. issued) \X Policy] :
          RecordDecision(s, group, granted, timed) /\ reply' = NoReply
    BY <2>0
  <2> DEFINE keys == {<<s, c>> : c \in DOMAIN group}
  <2>2. keys \subseteq Key /\ \A k \in keys : group[k[2]] \in RequestId
    BY DEF Key, RequestId, StoreTypeOK
  <2>3. records' \in [Key -> Record]
    BY <2>1, DecidedType DEF RecordDecision, StoreTypeOK
  <2>4. verdicts' \subseteq Verdict
    BY <2>1, <2>2 DEF RecordDecision, StoreTypeOK, Verdict, Time
  <2> QED
    BY <1>4, <2>1, <2>3, <2>4 DEF RecordDecision, StoreTypeOK
<1>5. CASE CallRevoke /\ UNCHANGED clock
  <2>1. PICK k \in Key : (Revoke(k) \/ RevokeRejected(k)) /\ reply' = NoReply
    BY <1>5 DEF CallRevoke
  <2>2. CASE Revoke(k)
    <3>1. records' \in [Key -> Record]
      BY <2>2, RevokedType DEF StoreTypeOK, Revoke
    <3>2. records[k].request \in RequestId \cup {NoRequest}
      BY DEF StoreTypeOK, Record
    <3> QED
      BY <1>5, <2>1, <2>2, <3>1, <3>2 DEF StoreTypeOK, Revoke
  <2>3. CASE RevokeRejected(k)
    BY <1>5, <2>1, <2>3, SettledType DEF RevokeRejected, Expire, StoreTypeOK
  <2> QED
    BY <2>1, <2>2, <2>3
<1>6. CASE CallReset /\ UNCHANGED clock
  BY <1>6, NoRecordType DEF CallReset, ResetSession, StoreTypeOK
<1>7. CASE StoreRecreated /\ UNCHANGED clock
  BY <1>7, NoRecordType DEF StoreRecreated, Recreate, StoreTypeOK
<1>8. CASE TimePasses
  BY <1>8 DEF TimePasses, AdvanceClock, StepClockBack, Unchanged, StoreTypeOK,
              Time
<1>9. CASE UNCHANGED storeVars
  BY <1>9 DEF storeVars, StoreTypeOK
<1> QED
  BY <1>1, <1>2, <1>3, <1>4, <1>5, <1>6, <1>7, <1>8, <1>9 DEF StoreNext, Call

(***************************************************************************)
(* Every variable of the store keeps its type.                             *)
(***************************************************************************)
THEOREM StoreTypeInvariant == StoreSpec => []StoreTypeOK
BY StoreTypeInit, StoreTypeStep, PTL DEF StoreSpec

-----------------------------------------------------------------------------
(***************************************************************************)
(* The part of StoreInv that does not mention the clock or the answers.    *)
(***************************************************************************)
Core ==
    /\ IdsAreIssued
    /\ IdsAreDistinct
    /\ OpenMeansUndecided
    /\ GrantedMeansYes
    /\ DecidedAtMostOnce

\* What a step that neither asks nor decides nor revokes does to a record.
KeptOrClosed(k) ==
    \/ records'[k] = records[k]
    \/ records'[k] = NoRecord
    \/ /\ records[k].status = "GRANTED"
       /\ records'[k].status = "EXPIRED"
       /\ records'[k].request = records[k].request

(***************************************************************************)
(* Keeping, forgetting and expiring records (check, reset_session, a       *)
(* restart, and the refused calls) cannot disturb Core.                    *)
(***************************************************************************)
LEMMA ClosingKeepsCore ==
    ASSUME Core, \A k \in Key : KeptOrClosed(k),
           UNCHANGED <<issued, verdicts, withdrawn>>
    PROVE  Core'
<1>1. ASSUME NEW k \in Key, HasRecord(k)'
      PROVE  HasRecord(k) /\ records'[k].request = records[k].request
  BY <1>1 DEF KeptOrClosed, HasRecord, NoRecord
<1>2. ASSUME NEW k \in Key, ~HasRecord(k)'
      PROVE  records'[k] = NoRecord
  BY <1>2 DEF KeptOrClosed, HasRecord, Core, IdsAreIssued
<1>3. ASSUME NEW k \in Key, records'[k].status \in {"PENDING", "GRANTED"}
      PROVE  records'[k] = records[k]
  BY <1>3 DEF KeptOrClosed, NoRecord
<1>4. IdsAreIssued'
  BY <1>1, <1>2 DEF Core, IdsAreIssued
<1>5. IdsAreDistinct'
  BY <1>1 DEF Core, IdsAreDistinct
<1>6. OpenMeansUndecided'
  BY <1>3 DEF Core, OpenMeansUndecided
<1>7. GrantedMeansYes'
  BY <1>3 DEF Core, GrantedMeansYes, Earned
<1>8. DecidedAtMostOnce'
  BY DEF Core, DecidedAtMostOnce
<1> QED
  BY <1>4, <1>5, <1>6, <1>7, <1>8 DEF Core

LEMMA ExpireCloses ==
    ASSUME StoreTypeOK, NEW k \in Key, Expire(k)
    PROVE  \A j \in Key : KeptOrClosed(j)
BY DEF StoreTypeOK, Expire, Settled, Lapsed, KeptOrClosed, Record

LEMMA ExpireKeepsCore ==
    ASSUME StoreTypeOK, Core, NEW k \in Key, Expire(k)
    PROVE  Core'
BY ExpireCloses, ClosingKeepsCore DEF Expire

(***************************************************************************)
(* create_request: the new identifiers are larger than every one in use.   *)
(***************************************************************************)
LEMMA CreateKeepsCore ==
    ASSUME StoreTypeOK, Core, NEW s \in Session, NEW C \in SUBSET Policy,
           CreateRequests(s, C)
    PROVE  Core'
<1> DEFINE new(k) == k[1] = s /\ k[2] \in C /\ NeedsPrompt(k)
<1>1. issued \in Nat /\ issued' = issued + 1
      /\ UNCHANGED <<verdicts, withdrawn>>
  BY DEF CreateRequests, StoreTypeOK
<1>2. ASSUME NEW k \in Key, new(k)
      PROVE  /\ records'[k].status = "PENDING"
             /\ records'[k].request = <<issued + 1, k[2]>>
  BY <1>2 DEF CreateRequests, PendingRecord
<1>3. ASSUME NEW k \in Key, ~new(k)
      PROVE  records'[k] = records[k]
  BY <1>3 DEF CreateRequests
<1> HIDE DEF new
<1>4. ASSUME NEW k \in Key, HasRecord(k)
      PROVE  /\ records[k].request[1] <= issued
             /\ records[k].request \in (1 .. issued') \X {k[2]}
  BY <1>1, <1>4 DEF Core, IdsAreIssued
<1>5. IdsAreIssued'
  <2>1. ASSUME NEW k \in Key, HasRecord(k)'
        PROVE  records'[k].request \in (1 .. issued') \X {k[2]}
    <3>1. CASE new(k)
      <4>1. issued + 1 \in 1 .. issued'
        BY <1>1
      <4>2. <<issued + 1, k[2]>> \in (1 .. issued') \X {k[2]}
        BY <4>1
      <4>3. records'[k].request = <<issued + 1, k[2]>>
        BY <1>2, <3>1
      <4> QED
        BY <4>2, <4>3
    <3>2. CASE ~new(k)
      BY <1>3, <1>4, <2>1, <3>2 DEF HasRecord
    <3> QED
      BY <3>1, <3>2
  <2>2. ASSUME NEW k \in Key, ~HasRecord(k)'
        PROVE  records'[k] = NoRecord
    BY <1>2, <1>3, <2>2 DEF HasRecord, Core, IdsAreIssued
  <2>3. ASSUME NEW v \in verdicts PROVE v.request[1] <= issued'
    <3>1. v.request[1] \in Int /\ v.request[1] <= issued
      BY DEF Core, IdsAreIssued, StoreTypeOK, Verdict, RequestId
    <3> QED
      BY <1>1, <3>1
  <2>4. ASSUME NEW id \in withdrawn PROVE id[1] <= issued'
    <3>1. id[1] \in Int /\ id[1] <= issued
      BY DEF Core, IdsAreIssued, StoreTypeOK, RequestId, NoRequest
    <3> QED
      BY <1>1, <3>1
  <2> QED
    BY <1>1, <2>1, <2>2, <2>3, <2>4 DEF IdsAreIssued
<1>6. IdsAreDistinct'
  <2> SUFFICES ASSUME NEW j \in Key, NEW k \in Key, HasRecord(j)',
                      HasRecord(k)', records'[j].request = records'[k].request
               PROVE  j = k
    BY DEF IdsAreDistinct
  <2>1. CASE new(j) /\ new(k)
    BY <1>2, <2>1 DEF new, Key
  <2>2. CASE ~new(j) /\ ~new(k)
    BY <1>3, <2>2 DEF Core, IdsAreDistinct, HasRecord
  <2>3. CASE new(j) /\ ~new(k)
    BY <1>1, <1>2, <1>3, <1>4, <2>3 DEF HasRecord
  <2>4. CASE ~new(j) /\ new(k)
    BY <1>1, <1>2, <1>3, <1>4, <2>4 DEF HasRecord
  <2> QED
    BY <2>1, <2>2, <2>3, <2>4
<1>7. OpenMeansUndecided'
  <2> SUFFICES ASSUME NEW k \in Key, records'[k].status = "PENDING"
               PROVE  /\ records'[k].request \notin withdrawn
                      /\ \A v \in verdicts : v.request # records'[k].request
    BY <1>1 DEF OpenMeansUndecided
  <2>1. CASE new(k)
    BY <1>1, <1>2, <2>1 DEF Core, IdsAreIssued
  <2>2. CASE ~new(k)
    BY <1>3, <2>2 DEF Core, OpenMeansUndecided
  <2> QED
    BY <2>1, <2>2
<1>8. GrantedMeansYes'
  <2>1. ASSUME NEW k \in Key, records'[k].status = "GRANTED"
        PROVE  records'[k] = records[k]
    BY <1>2, <1>3, <2>1
  <2> QED
    BY <1>1, <2>1 DEF Core, GrantedMeansYes, Earned
<1>9. DecidedAtMostOnce'
  BY <1>1 DEF Core, DecidedAtMostOnce
<1> QED
  BY <1>5, <1>6, <1>7, <1>8, <1>9 DEF Core

(***************************************************************************)
(* record_decision and record_group_decision: each member of the group is  *)
(* open, so that no verdict names its request yet.                         *)
(***************************************************************************)
LEMMA DecideKeepsCore ==
    ASSUME StoreTypeOK, Core, CallDecide
    PROVE  Core'
<1>0. PICK s \in Session, C \in SUBSET Policy, granted, timed \in BOOLEAN :
        \E group \in [C -> (1 .. issued) \X Policy] :
           RecordDecision(s, group, granted, timed)
  BY DEF CallDecide
<1> PICK group \in [C -> (1 .. issued) \X Policy] :
      RecordDecision(s, group, granted, timed)
  BY <1>0
<1> DEFINE keys == {<<s, c>> : c \in DOMAIN group}
           verdict(k) == [request |-> group[k[2]], key |-> k,
                          granted |-> granted, at |-> clock, timed |-> timed]
<1>1. /\ keys \subseteq Key
      /\ verdicts' = verdicts \cup {verdict(k) : k \in keys}
      /\ UNCHANGED <<issued, withdrawn>>
  BY DEF RecordDecision, Key
<1>2. ASSUME NEW k \in keys
      PROVE  /\ records[k].status = "PENDING"
             /\ records[k].request = group[k[2]]
             /\ verdict(k).request = records[k].request
  BY DEF RecordDecision, CanDecide, Awaits
<1>3. ASSUME NEW k \in keys
      PROVE  /\ records'[k].status = IF granted THEN "GRANTED" ELSE "REFUSED"
             /\ records'[k].request = records[k].request
             /\ granted => records'[k].expires = Deadline(k[2], timed)
  <2>1. k \in Key /\ records[k] \in Record
    BY <1>1 DEF StoreTypeOK
  <2>2. records'[k] = Decided(k, granted, timed)
    BY <2>1 DEF RecordDecision
  <2> QED
    BY <2>1, <2>2 DEF Decided, Record
<1>4. ASSUME NEW k \in Key, k \notin keys
      PROVE  records'[k] = records[k]
  BY <1>4 DEF RecordDecision
<1>5. ASSUME NEW v \in verdicts', v \notin verdicts
      PROVE  \E k \in keys : v = verdict(k) /\ v.request = records[k].request
  BY <1>1, <1>2, <1>5
<1>6. ASSUME NEW k \in keys
      PROVE  /\ k \in Key /\ HasRecord(k)
             /\ records[k].request \notin withdrawn
             /\ \A v \in verdicts : v.request # records[k].request
  BY <1>1, <1>2 DEF Core, OpenMeansUndecided, HasRecord
<1> HIDE DEF keys, verdict
<1>7. ASSUME NEW k \in Key
      PROVE  /\ HasRecord(k)' <=> HasRecord(k)
             /\ records'[k].request = records[k].request
  BY <1>2, <1>3, <1>4 DEF HasRecord
<1>8. IdsAreIssued'
  <2>1. ASSUME NEW k \in Key, ~HasRecord(k)
        PROVE  records'[k] = NoRecord
    BY <1>4, <1>6, <2>1 DEF Core, IdsAreIssued
  <2>2. ASSUME NEW v \in verdicts' PROVE v.request[1] <= issued
    <3>1. CASE v \in verdicts
      BY <3>1 DEF Core, IdsAreIssued
    <3>2. CASE v \notin verdicts
      <4>1. PICK k \in keys : v.request = records[k].request
        BY <1>5, <3>2
      <4>2. records[k].request \in (1 .. issued) \X {k[2]}
        BY <1>6 DEF Core, IdsAreIssued
      <4> QED
        BY <4>1, <4>2 DEF StoreTypeOK
    <3> QED
      BY <3>1, <3>2
  <2> QED
    BY <1>1, <1>7, <2>1, <2>2 DEF Core, IdsAreIssued
<1>9. IdsAreDistinct'
  BY <1>7 DEF Core, IdsAreDistinct
<1>10. OpenMeansUndecided'
  <2> SUFFICES ASSUME NEW k \in Key, records'[k].status = "PENDING"
               PROVE  /\ records'[k].request \notin withdrawn
                      /\ \A v \in verdicts' : v.request # records'[k].request
    BY <1>1 DEF OpenMeansUndecided
  <2>1. k \notin keys /\ records[k].status = "PENDING" /\ HasRecord(k)
    BY <1>3, <1>4 DEF HasRecord
  <2>2. ASSUME NEW v \in verdicts', v \notin verdicts
        PROVE  v.request # records[k].request
    BY <1>5, <1>6, <2>1, <2>2 DEF Core, IdsAreDistinct
  <2> QED
    BY <1>7, <2>1, <2>2 DEF Core, OpenMeansUndecided
<1>11. GrantedMeansYes'
  <2> SUFFICES ASSUME NEW k \in Key, records'[k].status = "GRANTED"
               PROVE  /\ records'[k].request \notin withdrawn
                      /\ \E v \in verdicts' :
                            /\ v.key = k /\ v.granted
                            /\ v.request = records'[k].request
                            /\ records'[k].expires = Earned(v)
    BY <1>1 DEF GrantedMeansYes, Earned
  <2>1. CASE k \in keys
    <3>1. granted
      BY <1>3, <2>1
    <3>2. /\ verdict(k) \in verdicts' /\ verdict(k).key = k
          /\ verdict(k).granted /\ verdict(k).request = records'[k].request
      BY <1>1, <1>2, <1>3, <2>1, <3>1 DEF verdict
    <3>3. records'[k].expires = Earned(verdict(k))
      BY <1>3, <2>1, <3>1 DEF verdict, Earned, Deadline
    <3> QED
      BY <1>6, <1>7, <2>1, <3>2, <3>3
  <2>2. CASE k \notin keys
    BY <1>1, <1>4, <2>2 DEF Core, GrantedMeansYes
  <2> QED
    BY <2>1, <2>2
<1>12. DecidedAtMostOnce'
  <2> SUFFICES ASSUME NEW v \in verdicts', NEW w \in verdicts',
                      v.request = w.request
               PROVE  v = w
    BY DEF DecidedAtMostOnce
  <2>1. CASE v \in verdicts /\ w \in verdicts
    BY <2>1 DEF Core, DecidedAtMostOnce
  <2>2. CASE v \notin verdicts /\ w \notin verdicts
    <3>1. PICK j \in keys : v = verdict(j) /\ v.request = records[j].request
      BY <1>5, <2>2
    <3>2. PICK k \in keys : w = verdict(k) /\ w.request = records[k].request
      BY <1>5, <2>2
    <3> QED
      BY <1>6, <3>1, <3>2 DEF Core, IdsAreDistinct
  <2>3. CASE (v \in verdicts) # (w \in verdicts)
    BY <1>5, <1>6, <2>3
  <2> QED
    BY <2>1, <2>2, <2>3
<1> QED
  BY <1>8, <1>9, <1>10, <1>11, <1>12 DEF Core

(***************************************************************************)
(* revoke: the grant that ends shares its request with no other record.    *)
(***************************************************************************)
LEMMA RevokeKeepsCore ==
    ASSUME StoreTypeOK, Core, NEW k \in Key, Revoke(k)
    PROVE  Core'
<1>1. /\ records[k].status = "GRANTED" /\ HasRecord(k)
      /\ UNCHANGED <<issued, verdicts>>
      /\ withdrawn' = withdrawn \cup {records[k].request}
  BY DEF Revoke, CanRevoke, Settled, Lapsed, HasRecord
<1>2. /\ records'[k].status = "REVOKED"
      /\ records'[k].request = records[k].request
  <2>1. records[k] \in Record /\ records'[k] = Revoked(k)
    BY DEF StoreTypeOK, Revoke
  <2> QED
    BY <2>1 DEF Revoked, Record
<1>3. ASSUME NEW j \in Key, j # k
      PROVE  /\ records'[j] = records[j]
             /\ HasRecord(j) => records[j].request # records[k].request
  BY <1>1, <1>3 DEF Revoke, StoreTypeOK, Core, IdsAreDistinct
<1>4. ASSUME NEW j \in Key
      PROVE  /\ HasRecord(j)' <=> HasRecord(j)
             /\ records'[j].request = records[j].request
  BY <1>1, <1>2, <1>3 DEF HasRecord
<1>5. IdsAreIssued'
  <2>1. records[k].request[1] <= issued
    BY <1>1 DEF Core, IdsAreIssued, StoreTypeOK
  <2> QED
    BY <1>1, <1>3, <1>4, <2>1 DEF Core, IdsAreIssued
<1>6. IdsAreDistinct'
  BY <1>4 DEF Core, IdsAreDistinct
<1>7. ASSUME NEW j \in Key, records'[j].status \in {"PENDING", "GRANTED"}
      PROVE  /\ j # k /\ records'[j] = records[j]
             /\ records[j].request # records[k].request
  BY <1>2, <1>3, <1>7 DEF HasRecord
<1>8. OpenMeansUndecided'
  BY <1>1, <1>7 DEF Core, OpenMeansUndecided
<1>9. GrantedMeansYes'
  BY <1>1, <1>7 DEF Core, GrantedMeansYes, Earned
<1>10. DecidedAtMostOnce'
  BY <1>1 DEF Core, DecidedAtMostOnce
<1> QED
  BY <1>5, <1>6, <1>8, <1>9, <1>10 DEF Core

(***************************************************************************)
(* Every step keeps Core.                                                  *)
(***************************************************************************)
LEMMA CoreInit == StoreInit => Core
BY DEF StoreInit, Core, IdsAreIssued, IdsAreDistinct, OpenMeansUndecided,
       GrantedMeansYes, DecidedAtMostOnce, HasRecord, NoRecord

LEMMA CoreStep == StoreTypeOK /\ Core /\ [StoreNext]_storeVars => Core'
<1> SUFFICES ASSUME StoreTypeOK, Core, [StoreNext]_storeVars
             PROVE  Core'
  OBVIOUS
<1>1. ASSUME Unchanged PROVE Core'
  BY <1>1, ClosingKeepsCore DEF Unchanged, KeptOrClosed
<1>2. CASE CallCheck
  <2>1. PICK s \in Session, c \in Capability : Check(s, c)
    BY <1>2 DEF CallCheck
  <2>2. CASE c \in Policy
    <3>1. <<s, c>> \in Key /\ Expire(<<s, c>>)
      BY <2>1, <2>2 DEF Check, Key
    <3> QED
      BY <3>1, ExpireKeepsCore
  <2> QED
    BY <1>1, <2>1, <2>2 DEF Check
<1>3. CASE CallCreate
  BY <1>3, CreateKeepsCore DEF CallCreate
<1>4. CASE CallReturnExisting
  BY <1>4, ExpireKeepsCore DEF CallReturnExisting
<1>5. CASE CallDecide
  BY <1>5, DecideKeepsCore
<1>6. CASE CallRevoke
  BY <1>6, RevokeKeepsCore, ExpireKeepsCore DEF CallRevoke, RevokeRejected
<1>7. CASE CallReset
  BY <1>7, ClosingKeepsCore DEF CallReset, ResetSession, KeptOrClosed
<1>8. CASE StoreRecreated
  BY <1>8, ClosingKeepsCore DEF StoreRecreated, Recreate, KeptOrClosed
<1>9. CASE TimePasses \/ UNCHANGED storeVars
  BY <1>1, <1>9 DEF TimePasses, storeVars, Unchanged
<1> QED
  BY <1>2, <1>3, <1>4, <1>5, <1>6, <1>7, <1>8, <1>9 DEF StoreNext, Call

(***************************************************************************)
(* A check answers GRANTED only for a grant that has not lapsed, and such  *)
(* a grant has the verdict that earned it.                                 *)
(***************************************************************************)
LEMMA CheckAllowsLiveConsent ==
    ASSUME StoreTypeOK, Core, UNCHANGED clock,
           NEW s \in Session, NEW c \in Capability, Check(s, c)
    PROVE  AllowedOnlyOnLiveConsent'
<1> SUFFICES ASSUME reply'.status = "GRANTED"
             PROVE  \E v \in verdicts' :
                       /\ v.key = <<reply'.session, reply'.capability>>
                       /\ v.granted
                       /\ v.request \notin withdrawn'
                       /\ v.request = records'[v.key].request
                       /\ InTime(v)'
  BY DEF AllowedOnlyOnLiveConsent
<1> DEFINE k == <<s, c>>
<1>1. /\ c \in Policy /\ k \in Key /\ Settled(k).status = "GRANTED"
      /\ k = <<reply'.session, reply'.capability>>
  BY DEF Check, CheckStatus, Key
<1>2. /\ records[k].status = "GRANTED" /\ ~Lapsed(k)
      /\ records[k] \in Record /\ Settled(k) = records[k]
  BY <1>1 DEF Settled, StoreTypeOK, Record
<1>3. records'[k] = records[k] /\ UNCHANGED <<verdicts, withdrawn>>
  BY <1>1, <1>2 DEF Check, Expire, StoreTypeOK
<1>4. PICK v \in verdicts : /\ v.key = k /\ v.granted
                            /\ v.request = records[k].request
                            /\ records[k].expires = Earned(v)
  BY <1>1, <1>2 DEF Core, GrantedMeansYes
<1>5. v.request \notin withdrawn
  BY <1>1, <1>2, <1>4 DEF Core, GrantedMeansYes
<1>6. InTime(v)
  <2>1. /\ v.at \in Nat /\ v.timed \in BOOLEAN /\ clock \in Nat
        /\ Expiry[v.key[2]] \in Nat
    BY <1>1, <1>4 DEF StoreTypeOK, Verdict, Time
  <2>2. records[k].expires = Never \/ clock < records[k].expires
    BY <1>2, <2>1 DEF Lapsed, Record
  <2> QED
    BY <1>4, <2>1, <2>2 DEF InTime, Earned, Never
<1> QED
  BY <1>1, <1>3, <1>4, <1>5, <1>6 DEF InTime

LEMMA AllowedStep ==
    ASSUME StoreInv, [StoreNext]_storeVars
    PROVE  AllowedOnlyOnLiveConsent'
<1>1. ASSUME reply' = NoReply PROVE AllowedOnlyOnLiveConsent'
  BY <1>1 DEF AllowedOnlyOnLiveConsent, NoReply
<1>2. CASE CallCheck /\ UNCHANGED clock
  BY <1>2, CheckAllowsLiveConsent
  DEF CallCheck, StoreInv, Core
<1>3. CASE UNCHANGED storeVars
  BY <1>3 DEF storeVars, StoreInv, AllowedOnlyOnLiveConsent, InTime
<1> QED
  BY <1>1, <1>2, <1>3
  DEF StoreNext, Call, CallCreate, CallReturnExisting, CallDecide, CallRevoke,
      CallReset, StoreRecreated, TimePasses

(***************************************************************************)
(* The inductive invariant of the store.                                   *)
(***************************************************************************)
THEOREM StoreInvariant == StoreSpec => []StoreInv
<1>1. StoreInit => StoreInv
  <2>1. StoreInit => AllowedOnlyOnLiveConsent
    BY DEF StoreInit, AllowedOnlyOnLiveConsent, NoReply
  <2> QED
    BY <2>1, StoreTypeInit, CoreInit DEF StoreInv, Core
<1>2. StoreInv /\ [StoreNext]_storeVars => StoreInv'
  BY StoreTypeStep, CoreStep, AllowedStep DEF StoreInv, Core
<1> QED
  BY <1>1, <1>2, PTL DEF StoreSpec

(***************************************************************************)
(* check() answers GRANTED only on a live consent (consent_state.py:92).   *)
(***************************************************************************)
THEOREM AllowedOnlyOnLiveConsentAlways == StoreSpec => []AllowedOnlyOnLiveConsent
<1>1. StoreInv => AllowedOnlyOnLiveConsent
  BY DEF StoreInv
<1> QED
  BY <1>1, StoreInvariant, PTL

(***************************************************************************)
(* A replayed or misdirected decision never settles a request twice        *)
(* (consent_state.py:149).                                                 *)
(***************************************************************************)
THEOREM DecidedAtMostOnceAlways == StoreSpec => []DecidedAtMostOnce
<1>1. StoreInv => DecidedAtMostOnce
  BY DEF StoreInv
<1> QED
  BY <1>1, StoreInvariant, PTL

(***************************************************************************)
(* A refused, revoked or expired request is never brought back: only a     *)
(* request with a new identifier can follow it.                            *)
(***************************************************************************)
LEMMA OverStep ==
    ASSUME StoreInv, [StoreNext]_storeVars, NEW k \in Key,
           records[k].status \in Over,
           records'[k].request = records[k].request
    PROVE  records'[k].status = records[k].status
<1>1. /\ records[k].request[1] \in 1 .. issued /\ issued \in Nat
      /\ records[k].status \notin {"PENDING", "GRANTED"}
      /\ ~CanRevoke(k)
  <2>1. records[k].request \in (1 .. issued) \X {k[2]}
    BY DEF StoreInv, IdsAreIssued, HasRecord, Over
  <2> QED
    BY <2>1 DEF StoreInv, StoreTypeOK, Over, CanRevoke, Settled, Lapsed
<1>2. ASSUME NEW j \in Key, Expire(j)
      PROVE  records'[k].status = records[k].status
  BY <1>1, <1>2 DEF Expire, Settled, Lapsed, StoreInv, StoreTypeOK
<1>3. CASE CallCheck
  BY <1>2, <1>3 DEF CallCheck, Check, Unchanged, Key
<1>4. CASE CallCreate
  <2>1. PICK s \in Session, C \in SUBSET Policy : CreateRequests(s, C)
    BY <1>4 DEF CallCreate
  <2>2. records'[k] = PendingRecord(issued + 1, k[2]) => FALSE
    BY <1>1 DEF PendingRecord
  <2> QED
    BY <2>1, <2>2 DEF CreateRequests
<1>5. CASE CallReturnExisting
  BY <1>2, <1>5 DEF CallReturnExisting
<1>6. CASE CallDecide
  <2>1. PICK s \in Session, C \in SUBSET Policy, granted, timed \in BOOLEAN :
          \E group \in [C -> (1 .. issued) \X Policy] :
             RecordDecision(s, group, granted, timed)
    BY <1>6 DEF CallDecide
  <2> QED
    BY <1>1, <2>1 DEF RecordDecision, CanDecide, Awaits
<1>7. CASE CallRevoke
  BY <1>1, <1>2, <1>7 DEF CallRevoke, Revoke, RevokeRejected, StoreInv, StoreTypeOK
<1>8. CASE CallReset \/ StoreRecreated
  BY <1>1, <1>8 DEF CallReset, ResetSession, StoreRecreated, Recreate, NoRecord,
                    NoRequest
<1>9. CASE TimePasses \/ UNCHANGED storeVars
  BY <1>9 DEF TimePasses, Unchanged, storeVars
<1> QED
  BY <1>3, <1>4, <1>5, <1>6, <1>7, <1>8, <1>9 DEF StoreNext, Call

(* A request that was refused, revoked or has expired is never brought back:   *)
(* only a new request follows it (consent_state.py, decide, revoke and the     *)
(* prune of expired records).                                                  *)
THEOREM OverMeansOverAlways == StoreSpec => OverMeansOver
<1>1. StoreInv /\ [StoreNext]_storeVars =>
        [\A k \in Key :
            records[k].status \in Over /\ records'[k].request = records[k].request
            => records'[k].status = records[k].status]_storeVars
  BY OverStep
<1> QED
  BY <1>1, StoreInvariant, PTL DEF StoreSpec, OverMeansOver

-----------------------------------------------------------------------------
(***************************************************************************)
(* The store implements the abstract lifecycle, for every policy, every    *)
(* number of sessions and every bound.                                     *)
(***************************************************************************)
\* The refinement mapping, named.
consentBar == [k \in Key |-> records[k].status]
untilBar == [k \in Key |-> records[k].expires]

-----------------------------------------------------------------------------
LEMMA InitRefines == StoreInit => Lifecycle!Init
BY DEF StoreInit, Lifecycle!Init, Lifecycle!Forever, NoRecord, Never

(***************************************************************************)
(* _expire_if_lapsed is Lapse when the grant's time has passed, and a      *)
(* stutter otherwise.                                                      *)
(***************************************************************************)
LEMMA ExpireRefines ==
    ASSUME StoreTypeOK, UNCHANGED clock, NEW k \in Key, Expire(k)
    PROVE  [Lifecycle!Next]_Lifecycle!vars
<1>1. CASE Lapsed(k)
  <2>1. /\ records'[k].status = "EXPIRED"
        /\ records'[k].expires = records[k].expires
    BY <1>1 DEF Expire, Settled, StoreTypeOK, Record
  <2>2. \A j \in Key : j # k => records'[j] = records[j]
    BY DEF Expire, StoreTypeOK
  <2>3. Lifecycle!Overdue(k)
    BY <1>1 DEF Lapsed, Lifecycle!Overdue, Lifecycle!Forever, Never
  <2>4. Lifecycle!Become({k}, "EXPIRED")
    BY <2>1, <2>2 DEF Lifecycle!Become
  <2>5. untilBar' = untilBar
    BY <2>1, <2>2 DEF untilBar
  <2> QED
    BY <2>3, <2>4, <2>5 DEF Lifecycle!Next, Lifecycle!Lapse, untilBar
<1>2. CASE ~Lapsed(k)
  BY <1>2 DEF Expire, Settled, StoreTypeOK, Lifecycle!vars
<1> QED
  BY <1>1, <1>2

(***************************************************************************)
(* create_request is Ask of the keys that need a prompt.                   *)
(***************************************************************************)
LEMMA CreateRefines ==
    ASSUME StoreTypeOK, UNCHANGED clock, NEW s \in Session,
           NEW C \in SUBSET Policy, CreateRequests(s, C)
    PROVE  Lifecycle!Ask
<1> DEFINE K == {k \in Key : k[1] = s /\ k[2] \in C /\ NeedsPrompt(k)}
<1>1. ASSUME NEW k \in K
      PROVE  /\ Lifecycle!MayAsk(k)
             /\ records'[k].status = "PENDING" /\ records'[k].expires = Never
  <2>1. Lifecycle!MayAsk(k)
    BY DEF NeedsPrompt, Promptable, Settled, Lapsed, Lifecycle!MayAsk,
           Lifecycle!Overdue, Lifecycle!Forever, Never
  <2> QED
    BY <2>1 DEF CreateRequests, PendingRecord
<1>2. \A k \in Key \ K : records'[k] = records[k]
  BY DEF CreateRequests
<1> HIDE DEF K
<1>3. K \in SUBSET Key
  BY DEF K
<1>4. Lifecycle!Become(K, "PENDING")
  BY <1>1, <1>2 DEF Lifecycle!Become
<1>5. untilBar' = [k \in Key |-> IF k \in K THEN Never ELSE untilBar[k]]
  BY <1>1, <1>2 DEF untilBar
<1> QED
  BY <1>1, <1>3, <1>4, <1>5 DEF Lifecycle!Ask, Lifecycle!Forever, Never, untilBar

(***************************************************************************)
(* A decision is Allow or Refuse of all the keys of its group.             *)
(***************************************************************************)
LEMMA DecideRefines ==
    ASSUME StoreTypeOK, UNCHANGED clock, CallDecide
    PROVE  Lifecycle!Allow \/ Lifecycle!Refuse
<1>0. PICK s \in Session, C \in SUBSET Policy, granted, timed \in BOOLEAN :
        \E group \in [C -> (1 .. issued) \X Policy] :
           RecordDecision(s, group, granted, timed)
  BY DEF CallDecide
<1> PICK group \in [C -> (1 .. issued) \X Policy] :
      RecordDecision(s, group, granted, timed)
  BY <1>0
<1> DEFINE K == {<<s, c>> : c \in DOMAIN group}
<1>1. K \in SUBSET Key /\ \A k \in K : records[k].status = "PENDING"
  BY DEF RecordDecision, CanDecide, Awaits, Key
<1>2. \A k \in Key \ K : records'[k] = records[k]
  BY DEF RecordDecision
<1>3. ASSUME NEW k \in K
      PROVE  /\ records'[k].status = IF granted THEN "GRANTED" ELSE "REFUSED"
             /\ records'[k].expires = IF granted THEN Deadline(k[2], timed)
                                      ELSE records[k].expires
  <2>1. k \in Key /\ records[k] \in Record
    BY <1>1 DEF StoreTypeOK
  <2>2. records'[k] = Decided(k, granted, timed)
    BY <2>1 DEF RecordDecision
  <2> QED
    BY <2>1, <2>2 DEF Decided, Record
<1>4. ASSUME NEW k \in K
      PROVE  Deadline(k[2], timed) = Never \/ Deadline(k[2], timed) > clock
  <2>1. k[2] \in Policy
    BY <1>1 DEF Key
  <2>2. Expiry[k[2]] \in Nat
    BY <2>1, ExpiryAssumption
  <2>3. clock \in Nat
    BY DEF StoreTypeOK, Time
  <2> QED
    BY <2>2, <2>3 DEF Deadline
<1> HIDE DEF K
<1>5. CASE granted
  <2>1. Lifecycle!Become(K, "GRANTED")
    BY <1>2, <1>3, <1>5 DEF Lifecycle!Become
  <2>2. \A k \in Key : IF k \in K THEN untilBar'[k] = Never \/ untilBar'[k] > clock
                                   ELSE untilBar'[k] = untilBar[k]
    BY <1>2, <1>3, <1>4, <1>5 DEF untilBar
  <2>3. DOMAIN untilBar' = Key
    BY DEF untilBar
  <2> QED
    BY <1>1, <2>1, <2>2, <2>3
    DEF Lifecycle!Allow, Lifecycle!Forever, Never, untilBar
<1>6. CASE ~granted
  <2>1. Lifecycle!Become(K, "REFUSED")
    BY <1>2, <1>3, <1>6 DEF Lifecycle!Become
  <2>2. untilBar' = untilBar
    BY <1>2, <1>3, <1>6 DEF untilBar
  <2> QED
    BY <1>1, <2>1, <2>2 DEF Lifecycle!Refuse, untilBar
<1> QED
  BY <1>5, <1>6

(***************************************************************************)
(* revoke is Withdraw.                                                     *)
(***************************************************************************)
LEMMA RevokeRefines ==
    ASSUME StoreTypeOK, UNCHANGED clock, NEW k \in Key, Revoke(k)
    PROVE  Lifecycle!Withdraw
<1>1. records[k].status = "GRANTED" /\ ~Lifecycle!Overdue(k)
  BY DEF Revoke, CanRevoke, Settled, Lapsed, Lifecycle!Overdue,
         Lifecycle!Forever, Never, StoreTypeOK, Record
<1>2. /\ records'[k].status = "REVOKED"
      /\ records'[k].expires = records[k].expires
  <2>1. records[k] \in Record /\ records'[k] = Revoked(k)
    BY DEF StoreTypeOK, Revoke
  <2> QED
    BY <2>1 DEF Revoked, Record
<1>3. \A j \in Key : j # k => records'[j] = records[j]
  BY DEF Revoke, StoreTypeOK
<1>4. Lifecycle!Become({k}, "REVOKED")
  BY <1>2, <1>3 DEF Lifecycle!Become
<1>5. untilBar' = untilBar
  BY <1>2, <1>3 DEF untilBar
<1> QED
  BY <1>1, <1>4, <1>5 DEF Lifecycle!Withdraw, untilBar

(***************************************************************************)
(* reset_session and a restart are Forget.                                 *)
(***************************************************************************)
LEMMA ForgetRefines ==
    ASSUME UNCHANGED clock, NEW K \in SUBSET Key,
           records' = [k \in Key |-> IF k \in K THEN NoRecord ELSE records[k]]
    PROVE  Lifecycle!Forget
<1>1. Lifecycle!Become(K, "UNKNOWN")
  BY DEF Lifecycle!Become, NoRecord
<1>2. untilBar' = [k \in Key |-> IF k \in K THEN Never ELSE untilBar[k]]
  BY DEF untilBar, NoRecord
<1> QED
  BY <1>1, <1>2 DEF Lifecycle!Forget, Lifecycle!Forever, Never, untilBar

LEMMA StepRefines ==
    StoreTypeOK /\ [StoreNext]_storeVars => [Lifecycle!Next]_Lifecycle!vars
<1> SUFFICES ASSUME StoreTypeOK, [StoreNext]_storeVars
             PROVE  [Lifecycle!Next]_Lifecycle!vars
  OBVIOUS
<1>1. CASE CallCheck /\ UNCHANGED clock
  <2>1. PICK s \in Session, c \in Capability : Check(s, c)
    BY <1>1 DEF CallCheck
  <2>2. CASE c \in Policy
    <3>1. <<s, c>> \in Key /\ Expire(<<s, c>>)
      BY <2>1, <2>2 DEF Check, Key
    <3> QED
      BY <1>1, <3>1, ExpireRefines
  <2>3. CASE c \notin Policy
    BY <1>1, <2>1, <2>3 DEF Check, Unchanged, Lifecycle!vars
  <2> QED
    BY <2>2, <2>3
<1>2. CASE CallCreate /\ UNCHANGED clock
  BY <1>2, CreateRefines DEF CallCreate, Lifecycle!Next
<1>3. CASE CallReturnExisting /\ UNCHANGED clock
  BY <1>3, ExpireRefines DEF CallReturnExisting
<1>4. CASE CallDecide /\ UNCHANGED clock
  BY <1>4, DecideRefines DEF Lifecycle!Next
<1>5. CASE CallRevoke /\ UNCHANGED clock
  BY <1>5, RevokeRefines, ExpireRefines
  DEF CallRevoke, RevokeRejected, Lifecycle!Next
<1>6. CASE CallReset /\ UNCHANGED clock
  <2>1. PICK s \in Session : ResetSession(s)
    BY <1>6 DEF CallReset
  <2> DEFINE K == {k \in Key : k[1] = s}
  <2>2. records' = [k \in Key |-> IF k \in K THEN NoRecord ELSE records[k]]
    BY <2>1 DEF ResetSession
  <2> QED
    BY <1>6, <2>2, ForgetRefines DEF Lifecycle!Next
<1>7. CASE StoreRecreated /\ UNCHANGED clock
  <2>1. records' = [k \in Key |-> IF k \in Key THEN NoRecord ELSE records[k]]
    BY <1>7 DEF StoreRecreated, Recreate
  <2> QED
    BY <1>7, <2>1, ForgetRefines DEF Lifecycle!Next
<1>8. CASE TimePasses
  <2>1. clock' # clock
    BY <1>8 DEF TimePasses, AdvanceClock, StepClockBack, StoreTypeOK, Time
  <2> QED
    BY <1>8, <2>1
    DEF TimePasses, Unchanged, Lifecycle!Next, Lifecycle!TimePasses
<1>9. CASE UNCHANGED storeVars
  BY <1>9 DEF storeVars, Lifecycle!vars
<1> QED
  BY <1>1, <1>2, <1>3, <1>4, <1>5, <1>6, <1>7, <1>8, <1>9 DEF StoreNext, Call

(***************************************************************************)
(* consent_state.py implements the lifecycle: whatever methods are called, *)
(* in whatever order, a status moves only along its transitions.           *)
(***************************************************************************)
THEOREM StoreRefinesLifecycle == StoreSpec => ImplementsLifecycle
BY InitRefines, StepRefines, StoreTypeInvariant, PTL
DEF StoreSpec, ImplementsLifecycle, Lifecycle!Spec

-----------------------------------------------------------------------------
(***************************************************************************)
(* The inductive invariant.                                                *)
(***************************************************************************)
StaticTypeOK ==
    \/ static = NoStatic
    \/ static \in [request : RequestId, requests : [Policy -> RequestId], decided : BOOLEAN]

\* StaticDecidedTogether, key by key.
StaticAnswer ==
    up /\ BeginsStatic =>
        /\ static \in [request : RequestId, requests : [Policy -> RequestId], decided : BOOLEAN]
        /\ \A c \in Policy :
              /\ records[<<session, c>>].status = "PENDING" <=> ~static.decided
              /\ records[<<session, c>>].expires = Never

NodeTypeOK ==
    /\ config \in Configurations /\ up \in BOOLEAN /\ session \in Session
    /\ StaticTypeOK
    /\ outbox \in Seq(Message)

ManagerInv ==
    /\ StoreInv
    /\ NodeTypeOK
    /\ RecordsBelongToActiveSession
    /\ StaticAnswer

LEMMA InvIsStoreInv == ManagerInv => StoreInv /\ StoreTypeOK /\ Core
BY DEF ManagerInv, StoreInv, Core

-----------------------------------------------------------------------------
(***************************************************************************)
(* What a callback does, whatever started it.  Each kind says what becomes *)
(* of the records and what is published.                                   *)
(***************************************************************************)
Invalid(r) == r \in [status : {"INVALID_CAPABILITY"}, session : Session, capability : Capability]

Quietly ==
    /\ Unchanged /\ UNCHANGED static
    /\ reply' = NoReply \/ Invalid(reply')
    /\ outbox' \in Seq(Message) /\ PublishedOn("session") = {}

Asks(c) ==
    /\ Dynamic /\ c \in Policy
    /\ CreateRequests(session, {c})
    /\ reply' = NoReply /\ UNCHANGED static
    /\ outbox' = ExpiryEvents(<<session, c>>) \o
                    <<Prompt(<<issued + 1, c>>, session, c),
                      Event("consent_requested", session, c, "none")>>

Decides(group, caps, decision, timed) ==
    /\ DOMAIN group \subseteq Policy /\ group \in [DOMAIN group -> (1 .. issued) \X Policy]
    /\ caps \in Seq(Policy)
    /\ \A c \in DOMAIN group : \E i \in DOMAIN caps : caps[i] = c
    /\ decision \in {"granted", "refused"} /\ timed \in BOOLEAN
    /\ RecordDecision(session, group, decision = "granted", timed)
    /\ reply' = NoReply
    /\ outbox' = DecidedEvents(caps, decision)
    /\ \/ ~Static /\ UNCHANGED static
       \/ /\ Static /\ DOMAIN group = Policy /\ ~timed
          /\ static \in [request : RequestId, requests : [Policy -> RequestId], decided : BOOLEAN]
          /\ static' = [static EXCEPT !.decided = TRUE]

Withdraw(k) ==
    /\ Revoke(k)
    /\ reply' = NoReply /\ UNCHANGED static
    /\ outbox' = <<Event("consent_revoked", session, k[2], "revoked")>>

\* A check, or a revocation that is refused, of a key of some session.
Looks(k) ==
    /\ Expire(k)
    /\ \/ reply' = NoReply /\ ~CanRevoke(k)
       \/ Check(k[1], k[2])
    /\ UNCHANGED static
    /\ outbox' = ExpiryEvents(k)

Callback ==
    /\ UNCHANGED <<clock, session, config, up>>
    /\ \/ Quietly
       \/ \E c \in Policy : Asks(c)
       \/ \E group, caps, decision, timed : Decides(group, caps, decision, timed)
       \/ \E k \in Key : Withdraw(k)
       \/ \E k \in Key : Looks(k)

Dies == Die /\ reply' = NoReply /\ UNCHANGED <<clock, config>>

\* A reset, or the start of another process: nothing of the past is left.
Opens ==
    /\ CanOpenSession
    /\ session' = session + 1
    /\ issued' = issued + RequestsToOpen
    /\ records' = [k \in Key |-> IF BeginsStatic /\ k[1] = session + 1
                                 THEN PendingRecord(issued + 1, k[2]) ELSE NoRecord]
    /\ static' = StaticPart(issued + 1)
    /\ up' = TRUE /\ reply' = NoReply
    /\ \/ ~up /\ outbox' = StartMessages(issued + 1, session + 1)
       \/ outbox' = <<Event("session_reset", session, NoCapability, "none")>>
                    \o StartMessages(issued + 1, session + 1)
    /\ UNCHANGED <<clock, config, verdicts, withdrawn>>

-----------------------------------------------------------------------------
(***************************************************************************)
(* Each handler is of one of these kinds.                                  *)
(***************************************************************************)
LEMMA MessagesAreTyped ==
    ASSUME NEW s \in Session, NEW c \in Capability, NEW d \in Decision,
           NEW id \in RequestId
    PROVE  /\ SessionMessage(s) \in Message
           /\ Prompt(id, s, c) \in Message
           /\ Event("consent_requested", s, c, "none") \in Message
           /\ Event("consent_revoked", s, c, "revoked") \in Message
           /\ Event("consent_expired", s, c, "none") \in Message
           /\ Event("consent_decided", s, c, d) \in Message
           /\ Event("session_started", s, NoCapability, "none") \in Message
           /\ Event("session_reset", s, NoCapability, "none") \in Message
BY DEF SessionMessage, Prompt, Event, Message, Decision

LEMMA ActiveRecord ==
    ASSUME ManagerInv, NEW c \in Policy
    PROVE  <<session, c>> \in Key /\ records[<<session, c>>] \in Record
BY DEF ManagerInv, StoreInv, StoreTypeOK, NodeTypeOK, Key

LEMMA OldSession ==
    ASSUME ManagerInv, NEW s \in 1 .. session
    PROVE  s \in Session
<1>1. session \in 1 .. MaxSession /\ MaxSession \in Nat
  BY BoundsAssumption DEF ManagerInv, NodeTypeOK, Session
<1> QED
  BY <1>1 DEF Session

LEMMA ConsentRequestKind ==
    ASSUME ManagerInv, NEW c \in Capability, OnConsentRequest(c), UNCHANGED <<clock, up, config>>
    PROVE  Callback
<1> DEFINE k == <<session, c>>
<1>1. reply' = NoReply /\ UNCHANGED <<session, static>>
  BY DEF OnConsentRequest, ManagerSame
<1>2. CASE Unchanged /\ outbox' = <<>>
  BY <1>1, <1>2 DEF Callback, Quietly, PublishedOn
<1>3. CASE /\ ~RequestIgnored(c) /\ records[k].status = "PENDING" /\ Unchanged
           /\ outbox' = <<Prompt(records[k].request, session, c),
                          Event("consent_requested", session, c, "none")>>
  <2>1. c \in Policy /\ session \in Session
    BY <1>3 DEF RequestIgnored, Loaded, ManagerInv, NodeTypeOK
  <2>2. k \in Key
    BY <2>1, ActiveRecord
  <2>3. HasRecord(k)
    BY <1>3 DEF HasRecord
  <2>4. records[k].request \in (1 .. issued) \X {c} /\ issued \in 0 .. MaxRequest
    BY <2>2, <2>3 DEF ManagerInv, StoreInv, StoreTypeOK, IdsAreIssued
  <2>5. records[k].request \in RequestId
    <3>1. 1 .. issued \subseteq 0 .. MaxRequest
      <4>1. issued \in Int /\ MaxRequest \in Int /\ issued <= MaxRequest
        BY <2>4, BoundsAssumption
      <4> QED
        BY <4>1
    <3>2. c \in Capability
      OBVIOUS
    <3> QED
      BY <2>4, <3>1, <3>2 DEF RequestId
  <2>6. outbox' \in Seq(Message)
    <3>1. Prompt(records[k].request, session, c) \in Message
          /\ Event("consent_requested", session, c, "none") \in Message
      BY <2>1, <2>5, MessagesAreTyped DEF Prompt, Event, Message, Decision
    <3> QED
      BY <1>3, <3>1
  <2>7. PublishedOn("session") = {}
    BY <1>3 DEF PublishedOn, Prompt, Event
  <2> QED
    BY <1>1, <1>3, <2>6, <2>7 DEF Callback, Quietly
<1>4. CASE /\ ~RequestIgnored(c) /\ CreateRequests(session, {c})
           /\ outbox' = ExpiryEvents(k) \o
                <<Prompt(<<issued + 1, c>>, session, c),
                  Event("consent_requested", session, c, "none")>>
  <2>1. Dynamic /\ c \in Policy
    BY <1>4 DEF RequestIgnored, Loaded
  <2> QED
    BY <1>1, <1>4, <2>1 DEF Callback, Asks
<1> QED
  BY <1>2, <1>3, <1>4 DEF OnConsentRequest

LEMMA CheckKind ==
    ASSUME ManagerInv, NEW s \in 1 .. session, NEW c \in Capability, OnCheck(s, c),
           UNCHANGED <<clock, up, config>>
    PROVE  Callback
<1>1. s \in Session /\ UNCHANGED <<session, static>>
  BY OldSession DEF OnCheck, ManagerSame
<1>2. CASE PolicyLoads /\ c \in Policy
  <2>1. <<s, c>> \in Key
    BY <1>1, <1>2 DEF Key
  <2>2. Check(s, c) /\ Expire(<<s, c>>) /\ outbox' = ExpiryEvents(<<s, c>>)
    BY <1>2 DEF OnCheck, Check
  <2> QED
    BY <1>1, <2>1, <2>2 DEF Callback, Looks
<1>3. CASE ~(PolicyLoads /\ c \in Policy)
  <2>1. Unchanged /\ outbox' = <<>>
        /\ reply' = [status |-> "INVALID_CAPABILITY", session |-> s, capability |-> c]
    BY <1>3 DEF OnCheck, Check, CheckStatus
  <2> QED
    BY <1>1, <2>1 DEF Callback, Quietly, Invalid, PublishedOn
<1> QED
  BY <1>2, <1>3

LEMMA RevokeKind ==
    ASSUME ManagerInv, NEW s \in Session, NEW c \in Policy, RevokeConsent(s, c), reply' = NoReply,
           UNCHANGED <<clock, config>>
    PROVE  Callback
<1>1. <<s, c>> \in Key /\ UNCHANGED <<session, static, up>>
  BY DEF Key, RevokeConsent, ManagerSame
<1>2. CASE Revoke(<<s, c>>) /\ outbox' = <<Event("consent_revoked", session, c, "revoked")>>
  BY <1>1, <1>2 DEF Callback, Withdraw
<1>3. CASE RevokeRejected(<<s, c>>) /\ outbox' = ExpiryEvents(<<s, c>>)
  BY <1>1, <1>3 DEF Callback, Looks, RevokeRejected
<1> QED
  BY <1>2, <1>3 DEF RevokeConsent

LEMMA ServiceRevokeKind ==
    ASSUME ManagerInv, NEW s \in 1 .. session, NEW c \in Capability, OnRevoke(s, c),
           UNCHANGED <<clock, config>>
    PROVE  Callback
<1>1. CASE c \in Policy /\ RevokeConsent(s, c)
  BY <1>1, OldSession, RevokeKind DEF OnRevoke
<1>2. CASE outbox' = <<>> /\ Unchanged /\ ManagerSame /\ UNCHANGED up
  BY <1>2 DEF OnRevoke, Callback, Quietly, ManagerSame, PublishedOn
<1> QED
  BY <1>1, <1>2 DEF OnRevoke

\* A group that can be decided names the requests on record.
LEMMA GroupIsIssued ==
    ASSUME ManagerInv, NEW group, DOMAIN group \subseteq Policy, CanDecide(session, group)
    PROVE  \A c \in DOMAIN group : group[c] \in (1 .. issued) \X Policy
<1> TAKE c \in DOMAIN group
<1> DEFINE k == <<session, c>>
<1>1. c \in Policy /\ k \in Key
  BY ActiveRecord
<1>2. records[k].request = group[c] /\ records[k].status = "PENDING"
  BY DEF CanDecide, Awaits
<1>3. group[c] \in (1 .. issued) \X {k[2]}
  BY <1>1, <1>2 DEF ManagerInv, StoreInv, IdsAreIssued, HasRecord
<1> QED
  BY <1>1, <1>3

LEMMA DisclosureKind ==
    ASSUME ManagerInv, NEW d, OnDisclosureAnswer(d), reply' = NoReply, UNCHANGED <<clock, config>>
    PROVE  Callback \/ Dies
<1> DEFINE group == static.requests
<1>1. Static /\ CanDecide(session, group) /\ d.decision \in {"granted", "refused"}
  BY DEF OnDisclosureAnswer, FromParticipant, AnswersDisclosure
<1>2. static \in [request : RequestId, requests : [Policy -> RequestId], decided : BOOLEAN]
  <2>1. static # NoStatic
    <3>1. ASSUME static = NoStatic PROVE FALSE
      <4>1. group = <<>>
        BY <3>1 DEF NoStatic
      <4>2. DOMAIN group # {}
        BY <1>1 DEF CanDecide
      <4> QED
        BY <4>1, <4>2
    <3> QED
      BY <3>1
  <2> QED
    BY <2>1 DEF ManagerInv, NodeTypeOK, StaticTypeOK
<1>3. DOMAIN group = Policy /\ group \in [DOMAIN group -> (1 .. issued) \X Policy]
  <2>1. DOMAIN group = Policy /\ group = [c \in Policy |-> group[c]]
    BY <1>2
  <2>2. \A c \in DOMAIN group : group[c] \in (1 .. issued) \X Policy
    BY <1>1, <2>1, GroupIsIssued
  <2> QED
    BY <2>1, <2>2
<1>4. CASE Die
  BY <1>4 DEF Dies
<1>5. CASE /\ RecordDecision(session, group, d.decision = "granted", FALSE)
           /\ static' = [static EXCEPT !.decided = TRUE]
           /\ outbox' = DecidedEvents(SortedPolicy, d.decision)
           /\ UNCHANGED <<up, session>>
  <2>1. Decides(group, SortedPolicy, d.decision, FALSE)
    BY <1>1, <1>2, <1>3, <1>5, SortedAssumption DEF Decides
  <2> QED
    BY <1>5, <2>1 DEF Callback
<1> QED
  BY <1>4, <1>5 DEF OnDisclosureAnswer

LEMMA AnswerKind ==
    ASSUME ManagerInv, NEW d, OnAnswer(d), reply' = NoReply, UNCHANGED <<clock, config>>
    PROVE  Callback \/ Dies
<1> DEFINE group == [c \in {d.capability} |-> d.request]
           caps == <<d.capability>>
<1>1. /\ ~Static /\ d.capability \in Policy /\ CanDecide(session, group)
      /\ d.decision \in {"granted", "refused"}
  BY DEF OnAnswer, FromParticipant, AnswersRequest
<1>2. DOMAIN group \subseteq Policy /\ group \in [DOMAIN group -> (1 .. issued) \X Policy]
  <2>1. \A c \in DOMAIN group : group[c] \in (1 .. issued) \X Policy
    BY <1>1, GroupIsIssued
  <2> QED
    BY <1>1, <2>1
<1>3. caps \in Seq(Policy) /\ \A c \in DOMAIN group : \E i \in DOMAIN caps : caps[i] = c
  BY <1>1
<1>4. CASE Die
  BY <1>4 DEF Dies
<1>5. CASE /\ RecordDecision(session, group, d.decision = "granted", TRUE)
           /\ outbox' = DecidedEvents(caps, d.decision)
           /\ ManagerSame /\ UNCHANGED up
  <2> HIDE DEF group, caps
  <2>1. Decides(group, caps, d.decision, TRUE)
    BY <1>1, <1>2, <1>3, <1>5 DEF Decides, ManagerSame
  <2> QED
    BY <1>5, <2>1 DEF Callback, ManagerSame
<1> QED
  BY <1>4, <1>5 DEF OnAnswer

LEMMA DecisionKind ==
    ASSUME ManagerInv, NEW d, OnDecision(d), UNCHANGED <<clock, config>>
    PROVE  Callback \/ Dies
<1>1. reply' = NoReply
  BY DEF OnDecision
<1>2. CASE OnDisclosureAnswer(d)
  BY <1>1, <1>2, DisclosureKind
<1>3. CASE OnAnswer(d)
  BY <1>1, <1>3, AnswerKind
<1>4. CASE FromParticipant(d) /\ Withdraws(d) /\ RevokeConsent(session, d.capability)
  <2>1. session \in Session /\ d.capability \in Policy
    BY <1>4 DEF Withdraws, ManagerInv, NodeTypeOK
  <2> QED
    BY <1>1, <1>4, <2>1, RevokeKind
<1>5. CASE outbox' = <<>> /\ Unchanged /\ ManagerSame /\ UNCHANGED up
  BY <1>1, <1>5 DEF Callback, Quietly, ManagerSame, PublishedOn
<1> QED
  BY <1>2, <1>3, <1>4, <1>5 DEF OnDecision

LEMMA ResetKind ==
    ASSUME ManagerInv, up, NEW s, OnReset(s), UNCHANGED <<clock, up, config>>
    PROVE  Callback \/ Opens
<1>1. reply' = NoReply
  BY DEF OnReset
<1>2. CASE outbox' = <<>> /\ Unchanged /\ ManagerSame
  BY <1>1, <1>2 DEF Callback, Quietly, ManagerSame, PublishedOn
<1>3. CASE /\ OpenSession(Cleared) /\ UNCHANGED <<verdicts, withdrawn>>
           /\ outbox' = <<Event("session_reset", session, NoCapability, "none")>>
                       \o StartMessages(issued + 1, session + 1)
  <2>1. \A k \in Key : Cleared[k] = NoRecord
    BY DEF Cleared, ManagerInv, RecordsBelongToActiveSession
  <2>2. records' = [k \in Key |-> IF BeginsStatic /\ k[1] = session + 1
                                 THEN PendingRecord(issued + 1, k[2]) ELSE NoRecord]
    BY <1>3, <2>1 DEF OpenSession, OpenedRecords
  <2> QED
    BY <1>1, <1>3, <2>2 DEF Opens, OpenSession
<1> QED
  BY <1>2, <1>3 DEF OnReset

LEMMA RestartKind ==
    ASSUME ManagerInv, Restart, UNCHANGED <<clock, config>>
    PROVE  Opens
<1>1. records' = [k \in Key |-> IF BeginsStatic /\ k[1] = session + 1
                               THEN PendingRecord(issued + 1, k[2]) ELSE NoRecord]
  BY DEF Restart, OpenSession, OpenedRecords
<1> QED
  BY <1>1 DEF Restart, Opens, OpenSession

LEMMA StepKinds ==
    ASSUME ManagerInv, ManagerNext
    PROVE  Callback \/ Dies \/ Opens \/ (ClockMoves /\ UNCHANGED config)
<1>1. UNCHANGED config
  BY DEF ManagerNext
<1>2. CASE Handle
  <2>1. UNCHANGED clock /\ up
    BY <1>2 DEF Handle
  <2>2. CASE \E c \in Capability : OnConsentRequest(c) /\ UNCHANGED up
    BY <1>1, <2>1, <2>2, ConsentRequestKind
  <2>3. CASE \E d \in DecisionMessage : OnDecision(d)
    BY <1>1, <2>1, <2>3, DecisionKind
  <2>4. CASE \E s \in 1 .. session, c \in Capability : OnCheck(s, c) /\ UNCHANGED up
    BY <1>1, <2>1, <2>4, CheckKind
  <2>5. CASE \E s \in 1 .. session, c \in Capability : OnRevoke(s, c)
    BY <1>1, <2>1, <2>5, ServiceRevokeKind
  <2>6. CASE \E s \in 1 .. session : OnReset(s) /\ UNCHANGED up
    BY <1>1, <2>1, <2>6, ResetKind
  <2> QED
    BY <1>2, <2>2, <2>3, <2>4, <2>5, <2>6 DEF Handle
<1>3. CASE Crash /\ UNCHANGED clock
  BY <1>1, <1>3 DEF Crash, Dies
<1>4. CASE Restart /\ UNCHANGED clock
  BY <1>1, <1>4, RestartKind
<1> QED
  BY <1>1, <1>2, <1>3, <1>4 DEF ManagerNext

-----------------------------------------------------------------------------
(***************************************************************************)
(* The store behind each kind of step.                                     *)
(***************************************************************************)
LEMMA StoreStepKeeps ==
    ASSUME StoreInv, [StoreNext]_storeVars
    PROVE  StoreInv'
<1>1. StoreTypeOK /\ Core
  BY DEF StoreInv, Core
<1>2. StoreTypeOK' /\ Core' /\ AllowedOnlyOnLiveConsent'
  BY <1>1, StoreTypeStep, CoreStep, AllowedStep
<1> QED
  BY <1>2 DEF StoreInv, Core

LEMMA QuietKeepsStore ==
    ASSUME ManagerInv, Quietly, UNCHANGED clock
    PROVE  StoreInv'
<1>1. Core'
  BY InvIsStoreInv, ClosingKeepsCore DEF Quietly, Unchanged, KeptOrClosed
<1>2. StoreTypeOK'
  BY InvIsStoreInv DEF Quietly, Unchanged, StoreTypeOK, Invalid
<1>3. AllowedOnlyOnLiveConsent'
  <2>1. reply'.status # "GRANTED"
    BY DEF Quietly, Invalid, NoReply
  <2> QED
    BY <2>1 DEF AllowedOnlyOnLiveConsent
<1> QED
  BY <1>1, <1>2, <1>3 DEF StoreInv, Core

LEMMA CallbackKeepsStore ==
    ASSUME ManagerInv, Callback
    PROVE  StoreInv'
<1>1. StoreInv /\ session \in Session /\ UNCHANGED clock
  BY DEF ManagerInv, NodeTypeOK, Callback
<1>2. CASE Quietly
  BY <1>1, <1>2, QuietKeepsStore
<1>3. ASSUME NEW c \in Policy, Asks(c) PROVE StoreInv'
  <2>1. {c} \in SUBSET Policy /\ CreateRequests(session, {c}) /\ reply' = NoReply
    BY <1>3 DEF Asks
  <2>2. CallCreate
    BY <1>1, <2>1 DEF CallCreate
  <2> QED
    BY <1>1, <2>2, StoreStepKeeps DEF StoreNext, Call
<1>4. ASSUME NEW group, NEW caps, NEW decision, NEW timed, Decides(group, caps, decision, timed)
      PROVE  StoreInv'
  <2>1. /\ DOMAIN group \in SUBSET Policy
        /\ group \in [DOMAIN group -> (1 .. issued) \X Policy]
        /\ RecordDecision(session, group, decision = "granted", timed)
        /\ timed \in BOOLEAN /\ (decision = "granted") \in BOOLEAN /\ reply' = NoReply
    BY <1>4 DEF Decides
  <2>2. CallDecide
    <3> DEFINE C == DOMAIN group
               granted == decision = "granted"
    <3>1. /\ C \in SUBSET Policy /\ group \in [C -> (1 .. issued) \X Policy]
          /\ RecordDecision(session, group, granted, timed)
          /\ timed \in BOOLEAN /\ granted \in BOOLEAN /\ reply' = NoReply
      BY <2>1
    <3> HIDE DEF C, granted
    <3>2. \E g \in [C -> (1 .. issued) \X Policy] :
             RecordDecision(session, g, granted, timed) /\ reply' = NoReply
      BY <3>1
    <3>3. \E s \in Session, D \in SUBSET Policy, gr, t \in BOOLEAN :
             \E g \in [D -> (1 .. issued) \X Policy] :
                RecordDecision(s, g, gr, t) /\ reply' = NoReply
      <4>1. session \in Session /\ C \in SUBSET Policy /\ granted \in BOOLEAN /\ timed \in BOOLEAN
        BY <1>1, <3>1
      <4> USE <4>1
      <4> WITNESS session \in Session, C \in SUBSET Policy, granted \in BOOLEAN, timed \in BOOLEAN
      <4> QED
        BY <3>2
    <3> QED
      BY <3>3, Zenon DEF CallDecide
  <2> QED
    BY <1>1, <2>2, StoreStepKeeps DEF StoreNext, Call
<1>5. ASSUME NEW k \in Key, Withdraw(k) PROVE StoreInv'
  <2>1. CallRevoke
    BY <1>5 DEF Withdraw, CallRevoke
  <2> QED
    BY <1>1, <2>1, StoreStepKeeps DEF StoreNext, Call
<1>6. ASSUME NEW k \in Key, Looks(k) PROVE StoreInv'
  <2>1. CASE reply' = NoReply /\ ~CanRevoke(k)
    <3>1. CallRevoke
      BY <1>6, <2>1 DEF Looks, CallRevoke, RevokeRejected
    <3> QED
      BY <1>1, <3>1, StoreStepKeeps DEF StoreNext, Call
  <2>2. CASE Check(k[1], k[2])
    <3>1. k[1] \in Session /\ k[2] \in Capability
      BY PolicyAssumption DEF Key
    <3>2. CallCheck
      BY <2>2, <3>1 DEF CallCheck
    <3> QED
      BY <1>1, <3>2, StoreStepKeeps DEF StoreNext, Call
  <2> QED
    BY <1>6, <2>1, <2>2 DEF Looks
<1> QED
  BY <1>2, <1>3, <1>4, <1>5, <1>6 DEF Callback

LEMMA DiesKeepsStore ==
    ASSUME ManagerInv, Dies
    PROVE  StoreInv'
<1>1. StoreRecreated /\ UNCHANGED clock
  BY DEF Dies, Die, StoreRecreated, Recreate
<1> QED
  BY <1>1, StoreStepKeeps DEF ManagerInv, StoreNext, Call

\* The requests of a static session are fresh, one for each capability.
LEMMA OpensKeepsStore ==
    ASSUME ManagerInv, Opens
    PROVE  StoreInv' /\ session' \in Session
<1>1. StoreInv /\ session' = session + 1 /\ reply' = NoReply /\ session' \in Session
  <2>1. session \in 1 .. MaxSession /\ session < MaxSession /\ MaxSession \in Nat
    BY BoundsAssumption DEF ManagerInv, NodeTypeOK, Session, Opens, CanOpenSession
  <2>2. session' = session + 1
    BY DEF Opens
  <2> QED
    BY <2>1, <2>2 DEF ManagerInv, Opens, Session
<1>2. CASE ~BeginsStatic
  <2>1. issued' = issued
    <3>1. issued \in 0 .. MaxRequest
      BY <1>1 DEF StoreInv, StoreTypeOK
    <3> QED
      BY <1>2, <3>1, BoundsAssumption DEF Opens, RequestsToOpen
  <2>2. records' = [k \in Key |-> NoRecord]
    BY <1>2 DEF Opens
  <2>3. StoreRecreated /\ UNCHANGED clock
    BY <2>1, <2>2 DEF Opens, StoreRecreated, Recreate
  <2> QED
    BY <1>1, <2>3, StoreStepKeeps DEF StoreNext, Call
<1>3. CASE BeginsStatic
  <2>1. /\ issued \in Nat /\ issued' = issued + 1 /\ issued' \in 0 .. MaxRequest
        /\ UNCHANGED <<clock, verdicts, withdrawn>>
    <3>1. issued \in 0 .. MaxRequest /\ MaxRequest \in Nat
      BY <1>1, BoundsAssumption DEF StoreInv, StoreTypeOK
    <3>2. issued' = issued + 1 /\ issued + 1 <= MaxRequest
      BY <1>3 DEF Opens, CanOpenSession, RequestsToOpen
    <3> QED
      BY <3>1, <3>2 DEF Opens
  <2>2. ASSUME NEW k \in Key
        PROVE  \/ k[1] # session' /\ records'[k] = NoRecord
               \/ /\ k[1] = session' /\ records'[k] = PendingRecord(issued + 1, k[2])
                  /\ records'[k].status = "PENDING"
                  /\ records'[k].request = <<issued + 1, k[2]>>
    BY <1>1, <1>3, <2>2 DEF Opens, PendingRecord
  <2>3. StoreTypeOK'
    <3>1. \A k \in Key : PendingRecord(issued + 1, k[2]) \in Record
      <4>1. issued < MaxRequest /\ \A k \in Key : k[2] \in Policy
        BY <2>1, BoundsAssumption DEF Key
      <4> QED
        BY <1>1, <4>1, PendingType DEF StoreInv
    <3>2. records' \in [Key -> Record]
      BY <1>1, <1>3, <3>1, NoRecordType DEF Opens
    <3> QED
      BY <1>1, <2>1, <3>2 DEF StoreInv, StoreTypeOK
  <2>4. IdsAreIssued'
    <3>1. ASSUME NEW k \in Key
          PROVE  (IF HasRecord(k) THEN records[k].request \in (1 .. issued) \X {k[2]}
                                 ELSE records[k] = NoRecord)'
      <4>1. issued + 1 \in 1 .. issued'
        BY <2>1
      <4>2. CASE k[1] # session' /\ records'[k] = NoRecord
        BY <4>2 DEF HasRecord, NoRecord
      <4>3. CASE records'[k].status = "PENDING" /\ records'[k].request = <<issued + 1, k[2]>>
        <5>1. records'[k].request \in (1 .. issued') \X {k[2]}
          BY <4>1, <4>3
        <5> QED
          BY <4>3, <5>1 DEF HasRecord
      <4> QED
        BY <2>2, <4>2, <4>3
    <3>2. ASSUME NEW v \in verdicts PROVE v.request[1] <= issued'
      <4>1. v.request[1] \in Int /\ v.request[1] <= issued
        BY <1>1 DEF StoreInv, IdsAreIssued, StoreTypeOK, Verdict, RequestId
      <4> QED
        BY <2>1, <4>1
    <3>3. ASSUME NEW id \in withdrawn PROVE id[1] <= issued'
      <4>1. id[1] \in Int /\ id[1] <= issued
        BY <1>1 DEF StoreInv, IdsAreIssued, StoreTypeOK, RequestId, NoRequest
      <4> QED
        BY <2>1, <4>1
    <3> QED
      BY <2>1, <3>1, <3>2, <3>3 DEF IdsAreIssued
  <2>5. IdsAreDistinct'
    BY <2>2 DEF IdsAreDistinct, HasRecord, NoRecord, Key
  <2>6. OpenMeansUndecided'
    <3> SUFFICES ASSUME NEW k \in Key, records'[k].status = "PENDING"
                 PROVE  /\ records'[k].request \notin withdrawn
                        /\ \A v \in verdicts : v.request # records'[k].request
      BY <2>1 DEF OpenMeansUndecided
    <3>1. records'[k].request = <<issued + 1, k[2]>>
      BY <2>2 DEF NoRecord
    <3> QED
      BY <1>1, <2>1, <3>1 DEF StoreInv, IdsAreIssued
  <2>7. GrantedMeansYes'
    BY <2>2 DEF GrantedMeansYes, NoRecord
  <2>8. DecidedAtMostOnce' /\ AllowedOnlyOnLiveConsent'
    BY <1>1, <2>1 DEF StoreInv, DecidedAtMostOnce, AllowedOnlyOnLiveConsent, NoReply
  <2> QED
    BY <1>1, <2>3, <2>4, <2>5, <2>6, <2>7, <2>8 DEF StoreInv
<1> QED
  BY <1>2, <1>3, <1>1

-----------------------------------------------------------------------------
(***************************************************************************)
(* The records of the session, and the static answer.                      *)
(***************************************************************************)
\* What a callback makes of a record: nothing, unless it is of the active
\* session; there it opens, decides, withdraws or expires it.
Becomes(k) ==
    \/ records'[k] = records[k]
    \/ /\ k[1] = session
       /\ \/ Dynamic /\ NeedsPrompt(k) /\ records'[k] = PendingRecord(issued + 1, k[2])
          \/ /\ records[k].status = "PENDING"
             /\ \E granted, timed \in BOOLEAN : records'[k] = Decided(k, granted, timed)
          \/ records[k].status = "GRANTED" /\ records'[k] = Revoked(k)
          \/ Lapsed(k) /\ records'[k] = Settled(k)

LEMMA OldSessionsAreEmpty ==
    ASSUME ManagerInv, NEW k \in Key, records[k].status # "UNKNOWN"
    PROVE  k[1] = session
BY DEF ManagerInv, RecordsBelongToActiveSession, NoRecord

LEMMA CallbackBecomes ==
    ASSUME ManagerInv, Callback, NEW k \in Key
    PROVE  Becomes(k)
<1>1. records \in [Key -> Record]
  BY DEF ManagerInv, StoreInv, StoreTypeOK
<1>2. CASE Quietly
  BY <1>2 DEF Quietly, Unchanged, Becomes
<1>3. ASSUME NEW c \in Policy, Asks(c) PROVE Becomes(k)
  <2>1. Dynamic /\ CreateRequests(session, {c})
    BY <1>3 DEF Asks
  <2> QED
    BY <2>1 DEF CreateRequests, Becomes
<1>4. ASSUME NEW group, NEW caps, NEW decision, NEW timed, Decides(group, caps, decision, timed)
      PROVE  Becomes(k)
  <2> DEFINE granted == decision = "granted"
             keys == {<<session, c>> : c \in DOMAIN group}
  <2>1. /\ granted \in BOOLEAN /\ timed \in BOOLEAN /\ CanDecide(session, group)
        /\ records'[k] = IF k \in keys THEN Decided(k, granted, timed) ELSE records[k]
    BY <1>4 DEF Decides, RecordDecision
  <2>2. k \in keys => k[1] = session /\ records[k].status = "PENDING"
    BY <2>1 DEF CanDecide, Awaits
  <2> HIDE DEF granted, keys
  <2>3. CASE k \in keys
    <3>1. \E g, t \in BOOLEAN : records'[k] = Decided(k, g, t)
      BY <2>1, <2>3
    <3> QED
      BY <2>2, <2>3, <3>1 DEF Becomes
  <2> QED
    BY <2>1, <2>3 DEF Becomes
<1>5. ASSUME NEW j \in Key, Withdraw(j) PROVE Becomes(k)
  <2>1. CanRevoke(j) /\ records' = [records EXCEPT ![j] = Revoked(j)]
    BY <1>5 DEF Withdraw, Revoke
  <2>2. records[j].status = "GRANTED"
    BY <1>1, <2>1 DEF CanRevoke, Settled, Record
  <2>3. j[1] = session
    BY <2>2, OldSessionsAreEmpty
  <2> QED
    BY <1>1, <2>1, <2>2, <2>3 DEF Becomes
<1>6. ASSUME NEW j \in Key, Looks(j) PROVE Becomes(k)
  <2>1. records' = [records EXCEPT ![j] = Settled(j)]
    BY <1>6 DEF Looks, Expire
  <2>2. CASE Lapsed(j)
    <3>1. j[1] = session
      BY <2>2, OldSessionsAreEmpty DEF Lapsed
    <3> QED
      BY <1>1, <2>1, <2>2, <3>1 DEF Becomes
  <2>3. CASE ~Lapsed(j)
    BY <1>1, <2>1, <2>3 DEF Settled, Becomes
  <2> QED
    BY <2>2, <2>3
<1> QED
  BY <1>2, <1>3, <1>4, <1>5, <1>6 DEF Callback

LEMMA CallbackKeepsSession ==
    ASSUME ManagerInv, Callback
    PROVE  RecordsBelongToActiveSession'
<1>1. session' = session
  BY DEF Callback
<1>2. ASSUME NEW k \in Key, k[1] # session
      PROVE  records'[k] = NoRecord
  <2>1. records[k] = NoRecord
    BY <1>2 DEF ManagerInv, RecordsBelongToActiveSession
  <2> QED
    BY <1>2, <2>1, CallbackBecomes DEF Becomes
<1> QED
  BY <1>1, <1>2 DEF RecordsBelongToActiveSession

LEMMA CallbackKeepsStatic ==
    ASSUME ManagerInv, Callback
    PROVE  StaticTypeOK' /\ StaticAnswer'
<1> DEFINE T == [request : RequestId, requests : [Policy -> RequestId], decided : BOOLEAN]
<1>1. UNCHANGED <<session, config, up>> /\ (BeginsStatic' <=> BeginsStatic)
  BY DEF Callback, BeginsStatic, Static, PolicyLoads
<1>2. StaticTypeOK /\ StaticAnswer
  BY DEF ManagerInv, NodeTypeOK
<1>3. CASE /\ Static
           /\ \E group, caps, decision, timed :
                 Decides(group, caps, decision, timed) /\ DOMAIN group = Policy /\ ~timed
           /\ static \in T /\ static' = [static EXCEPT !.decided = TRUE]
  <2>1. PICK group, caps, decision, timed :
           Decides(group, caps, decision, timed) /\ DOMAIN group = Policy /\ ~timed
    BY <1>3
  <2>2. static' \in T /\ static'.decided
    BY <1>3
  <2>3. ASSUME up, BeginsStatic, NEW c \in Policy
        PROVE  /\ records'[<<session, c>>].status # "PENDING"
               /\ records'[<<session, c>>].expires = Never
    <3> DEFINE k == <<session, c>>
    <3>1. k \in Key /\ records[k] \in Record
      BY ActiveRecord
    <3>2. records'[k] = Decided(k, decision = "granted", timed)
      BY <2>1, <3>1 DEF Decides, RecordDecision
    <3>3. records[k].expires = Never
      BY <1>2, <2>3 DEF StaticAnswer
    <3>4. Deadline(k[2], timed) = Never
      BY <2>1 DEF Deadline
    <3> QED
      BY <3>1, <3>2, <3>3, <3>4 DEF Decided, Record
  <2>4. StaticAnswer'
    BY <1>1, <2>2, <2>3 DEF StaticAnswer
  <2> QED
    BY <2>2, <2>4 DEF StaticTypeOK
<1>4. CASE /\ static' = static
           /\ Static => ~\E group, caps, decision, timed : Decides(group, caps, decision, timed)
  <2>1. ASSUME up, BeginsStatic, NEW c \in Policy
        PROVE  /\ records'[<<session, c>>].status = "PENDING"
                    <=> records[<<session, c>>].status = "PENDING"
               /\ records'[<<session, c>>].expires = Never
    <3> DEFINE k == <<session, c>>
    <3>1. k \in Key /\ records[k] \in Record
      BY ActiveRecord
    <3>2. Static /\ ~Dynamic /\ records[k].expires = Never
      BY <1>2, <2>1 DEF BeginsStatic, Static, Dynamic, StaticAnswer
    <3>3. ~Lapsed(k)
      BY <3>2 DEF Lapsed
    <3>4. \/ records'[k] = records[k]
          \/ records[k].status = "GRANTED" /\ records'[k] = Revoked(k)
      <4>1. CASE Quietly
        BY <4>1 DEF Quietly, Unchanged
      <4>2. CASE \E j \in Key : Withdraw(j) \/ Looks(j)
        BY <3>1, <3>3, <4>2 DEF Withdraw, Looks, Revoke, Expire, CanRevoke, Settled,
                                ManagerInv, StoreInv, StoreTypeOK
      <4> QED
        BY <1>4, <3>2, <4>1, <4>2 DEF Callback, Asks
    <3> QED
      BY <3>1, <3>2, <3>4 DEF Revoked, Record
  <2>2. StaticAnswer'
    BY <1>1, <1>2, <1>4, <2>1 DEF StaticAnswer
  <2> QED
    BY <1>2, <1>4, <2>2 DEF StaticTypeOK
<1>5. CASE ~Static /\ static' = static
  <2>1. ~BeginsStatic
    BY <1>5 DEF BeginsStatic
  <2> QED
    BY <1>1, <1>2, <1>5, <2>1 DEF StaticTypeOK, StaticAnswer
<1>6. static' = static \/ \E group, caps, decision, timed : Decides(group, caps, decision, timed)
  BY DEF Callback, Quietly, Asks, Withdraw, Looks
<1>7. ASSUME NEW group, NEW caps, NEW decision, NEW timed, Decides(group, caps, decision, timed)
      PROVE  StaticTypeOK' /\ StaticAnswer'
  <2>1. CASE ~Static /\ UNCHANGED static
    BY <1>5, <2>1
  <2>2. CASE /\ Static /\ DOMAIN group = Policy /\ ~timed
             /\ static \in T /\ static' = [static EXCEPT !.decided = TRUE]
    <3>1. \E g, cs, d, t : Decides(g, cs, d, t) /\ DOMAIN g = Policy /\ ~t
      BY <1>7, <2>2
    <3> HIDE DEF T
    <3> QED
      BY <1>3, <2>2, <3>1
  <2>3. \/ ~Static /\ UNCHANGED static
        \/ /\ Static /\ DOMAIN group = Policy /\ ~timed
           /\ static \in T /\ static' = [static EXCEPT !.decided = TRUE]
    BY <1>7 DEF Decides
  <2> QED
    BY <2>1, <2>2, <2>3
<1> QED
  BY <1>4, <1>6, <1>7

LEMMA OpensKeepsSession ==
    ASSUME ManagerInv, Opens
    PROVE  RecordsBelongToActiveSession' /\ StaticTypeOK' /\ StaticAnswer'
<1>1. session' = session + 1 /\ UNCHANGED config /\ (BeginsStatic' <=> BeginsStatic)
  BY DEF Opens, BeginsStatic, Static, PolicyLoads
<1>2. RecordsBelongToActiveSession'
  BY <1>1 DEF Opens, RecordsBelongToActiveSession
<1>3. CASE ~BeginsStatic
  BY <1>1, <1>2, <1>3 DEF Opens, StaticPart, StaticTypeOK, StaticAnswer
<1>4. CASE BeginsStatic
  <2> DEFINE T == [request : RequestId, requests : [Policy -> RequestId], decided : BOOLEAN]
  <2>1. static' = [request |-> <<issued + 1, AllCapabilities>>,
                   requests |-> [c \in Policy |-> <<issued + 1, c>>], decided |-> FALSE]
    BY <1>4 DEF Opens, StaticPart
  <2>2. issued + 1 \in 0 .. MaxRequest
    <3>1. issued \in Nat /\ issued + 1 <= MaxRequest /\ MaxRequest \in Nat
      BY <1>4, BoundsAssumption
         DEF Opens, CanOpenSession, RequestsToOpen, ManagerInv, StoreInv, StoreTypeOK
    <3> QED
      BY <3>1
  <2>3. static' \in T /\ ~static'.decided
    <3>1. AllCapabilities \in Capability /\ Policy \subseteq Capability
      BY AllCapabilitiesAssumption, PolicyAssumption
    <3>2. <<issued + 1, AllCapabilities>> \in RequestId
          /\ \A c \in Policy : <<issued + 1, c>> \in RequestId
      BY <2>2, <3>1 DEF RequestId
    <3> QED
      BY <2>1, <3>2
  <2>4. ASSUME NEW c \in Policy
        PROVE  /\ records'[<<session', c>>].status = "PENDING"
               /\ records'[<<session', c>>].expires = Never
    <3>1. <<session', c>> \in Key
      BY OpensKeepsStore DEF Key
    <3>2. records'[<<session', c>>] = PendingRecord(issued + 1, c)
      BY <1>1, <1>4, <3>1 DEF Opens
    <3> QED
      BY <3>2 DEF PendingRecord
  <2>5. StaticAnswer'
    BY <2>3, <2>4 DEF StaticAnswer
  <2> QED
    BY <1>2, <2>3, <2>5 DEF StaticTypeOK
<1> QED
  BY <1>3, <1>4

-----------------------------------------------------------------------------
(***************************************************************************)
(* What is published is well-formed.                                       *)
(***************************************************************************)
LEMMA ExpiryEventsAreTyped ==
    ASSUME ManagerInv, NEW k \in Key
    PROVE  ExpiryEvents(k) \in Seq(Message)
<1>1. k[2] \in Capability /\ session \in Session
  BY PolicyAssumption DEF Key, ManagerInv, NodeTypeOK
<1>2. Event("consent_expired", session, k[2], "none") \in Message
  BY <1>1 DEF Event, Message, Decision
<1> QED
  BY <1>2 DEF ExpiryEvents

LEMMA DecidedEventsAreTyped ==
    ASSUME ManagerInv, NEW caps \in Seq(Policy), NEW decision \in {"granted", "refused"}
    PROVE  DecidedEvents(caps, decision) \in Seq(Message)
<1>1. session \in Session
  BY DEF ManagerInv, NodeTypeOK
<1>2. \A i \in DOMAIN caps :
         Event("consent_decided", session, caps[i], decision) \in Message
  BY <1>1, PolicyAssumption DEF Event, Message, Decision
<1>3. DecidedEvents(caps, decision) \in [1 .. Len(caps) -> Message] /\ Len(caps) \in Nat
  BY <1>2 DEF DecidedEvents
<1> QED
  BY <1>3, SeqDef

LEMMA StartMessagesAreTyped ==
    ASSUME NEW n \in 0 .. MaxRequest, NEW s \in Session
    PROVE  StartMessages(n, s) \in Seq(Message)
<1>1. AllCapabilities \in Capability /\ <<n, AllCapabilities>> \in RequestId
  BY AllCapabilitiesAssumption DEF RequestId
<1>2. /\ SessionMessage(s) \in Message
      /\ Event("session_started", s, NoCapability, "none") \in Message
      /\ Prompt(<<n, AllCapabilities>>, s, AllCapabilities) \in Message
      /\ Event("consent_requested", s, AllCapabilities, "none") \in Message
  BY <1>1 DEF SessionMessage, Prompt, Event, Message, Decision
<1> QED
  BY <1>2 DEF StartMessages

LEMMA CallbackIsTyped ==
    ASSUME ManagerInv, Callback
    PROVE  outbox' \in Seq(Message)
<1>1. session \in Session
  BY DEF ManagerInv, NodeTypeOK
<1>2. CASE Quietly
  BY <1>2 DEF Quietly
<1>3. ASSUME NEW c \in Policy, Asks(c) PROVE outbox' \in Seq(Message)
  <2>1. ExpiryEvents(<<session, c>>) \in Seq(Message)
    BY ActiveRecord, ExpiryEventsAreTyped
  <2>2. <<issued + 1, c>> \in RequestId
    <3>1. issued \in Nat /\ issued < MaxRequest /\ MaxRequest \in Nat
      BY <1>3, BoundsAssumption DEF Asks, CreateRequests, ManagerInv, StoreInv, StoreTypeOK
    <3>2. issued + 1 \in 0 .. MaxRequest /\ c \in Capability
      BY <3>1, PolicyAssumption
    <3> QED
      BY <3>2 DEF RequestId
  <2>3. Prompt(<<issued + 1, c>>, session, c) \in Message
        /\ Event("consent_requested", session, c, "none") \in Message
    BY <1>1, <2>2, PolicyAssumption DEF Prompt, Event, Message, Decision
  <2>4. outbox' = ExpiryEvents(<<session, c>>) \o
                     <<Prompt(<<issued + 1, c>>, session, c),
                       Event("consent_requested", session, c, "none")>>
    BY <1>3 DEF Asks
  <2> QED
    BY <2>1, <2>3, <2>4
<1>4. ASSUME NEW group, NEW caps, NEW decision, NEW timed, Decides(group, caps, decision, timed)
      PROVE  outbox' \in Seq(Message)
  BY <1>4, DecidedEventsAreTyped DEF Decides
<1>5. ASSUME NEW k \in Key, Withdraw(k) PROVE outbox' \in Seq(Message)
  <2>1. Event("consent_revoked", session, k[2], "revoked") \in Message
    BY <1>1, PolicyAssumption DEF Key, Event, Message, Decision
  <2> QED
    BY <1>5, <2>1 DEF Withdraw
<1>6. ASSUME NEW k \in Key, Looks(k) PROVE outbox' \in Seq(Message)
  BY <1>6, ExpiryEventsAreTyped DEF Looks
<1> QED
  BY <1>2, <1>3, <1>4, <1>5, <1>6 DEF Callback

LEMMA ResetEventIsTyped ==
    ManagerInv => Event("session_reset", session, NoCapability, "none") \in Message
BY DEF ManagerInv, NodeTypeOK, Event, Message, Decision

LEMMA OpensIsTyped ==
    ASSUME ManagerInv, Opens
    PROVE  outbox' \in Seq(Message)
<1>0. StartMessages(issued + 1, session + 1) \in Seq(Message) => outbox' \in Seq(Message)
  <2> DEFINE start == StartMessages(issued + 1, session + 1)
             ends == <<Event("session_reset", session, NoCapability, "none")>>
  <2>1. outbox' = start \/ outbox' = ends \o start
    BY DEF Opens
  <2>2. ends \in Seq(Message)
    BY ResetEventIsTyped
  <2> HIDE DEF start, ends
  <2>3. start \in Seq(Message) => ends \o start \in Seq(Message)
    BY <2>2, ConcatProperties
  <2>4. start \in Seq(Message) => outbox' \in Seq(Message)
    BY <2>1, <2>3
  <2> QED
    BY <2>4 DEF start
<1>1. CASE BeginsStatic
  <2>1. issued + 1 \in 0 .. MaxRequest
    <3>1. issued \in Nat /\ issued + 1 <= MaxRequest /\ MaxRequest \in Nat
      BY <1>1, BoundsAssumption
         DEF Opens, CanOpenSession, RequestsToOpen, ManagerInv, StoreInv, StoreTypeOK
    <3> QED
      BY <3>1
  <2>2. session + 1 \in Session
    BY OpensKeepsStore DEF Opens
  <2>3. StartMessages(issued + 1, session + 1) \in Seq(Message)
    BY <2>1, <2>2, StartMessagesAreTyped
  <2> QED
    BY <1>0, <2>3
<1>2. CASE ~BeginsStatic
  <2>1. session + 1 \in Session
    BY OpensKeepsStore DEF Opens
  <2>2. StartMessages(issued + 1, session + 1)
           = <<SessionMessage(session + 1),
               Event("session_started", session + 1, NoCapability, "none")>>
    BY <1>2 DEF StartMessages
  <2>3. /\ SessionMessage(session + 1) \in Message
        /\ Event("session_started", session + 1, NoCapability, "none") \in Message
    BY <2>1 DEF SessionMessage, Event, Message, Decision
  <2> DEFINE first == SessionMessage(session + 1)
             second == Event("session_started", session + 1, NoCapability, "none")
  <2>4. <<first, second>> \in Seq(Message)
    <3>1. first \in Message /\ second \in Message
      BY <2>3
    <3> HIDE DEF first, second
    <3> QED
      BY <3>1
  <2> QED
    BY <1>0, <2>2, <2>4
<1> QED
  BY <1>1, <1>2

-----------------------------------------------------------------------------
(***************************************************************************)
(* The invariant is kept.                                                  *)
(***************************************************************************)
LEMMA ManagerStarts == ManagerInit => ManagerInv
<1> SUFFICES ASSUME ManagerInit
             PROVE  ManagerInv
  OBVIOUS
<1>1. /\ session = 1 /\ session \in Session /\ up = TRUE /\ config \in Configurations
      /\ clock = 0 /\ verdicts = {} /\ withdrawn = {} /\ reply = NoReply
      /\ issued = RequestsToOpen /\ static = StaticPart(1) /\ outbox = StartMessages(1, 1)
      /\ records = [k \in Key |-> IF BeginsStatic /\ k[1] = 1 THEN PendingRecord(1, k[2])
                                  ELSE NoRecord]
  BY BoundsAssumption, FirstSessionAssumption
     DEF ManagerInit, Session, OpenedRecords
<1>2. 1 \in 0 .. MaxRequest /\ 0 \in 0 .. MaxRequest /\ 0 \in Time /\ 1 \in Session
  BY BoundsAssumption, FirstSessionAssumption DEF Time, Session
<1>3. \A k \in Key : k[2] \in Policy /\ k[2] \in Capability /\ <<1, k[2]>> \in RequestId
  BY <1>2, PolicyAssumption DEF Key, RequestId
<1>4. ASSUME NEW k \in Key
      PROVE  \/ ~(BeginsStatic /\ k[1] = 1) /\ records[k] = NoRecord
             \/ /\ BeginsStatic /\ k[1] = 1 /\ issued = 1
                /\ records[k].status = "PENDING" /\ records[k].request = <<1, k[2]>>
                /\ records[k].expires = Never
  BY <1>1 DEF PendingRecord, RequestsToOpen
<1>5. StoreTypeOK
  <2>1. ASSUME NEW k \in Key PROVE PendingRecord(1, k[2]) \in Record
    BY <1>1, <1>3 DEF PendingRecord, Record, Status, Never
  <2>2. records \in [Key -> Record]
    BY <1>1, <2>1, NoRecordType
  <2>3. issued \in 0 .. MaxRequest
    BY <1>1, <1>2 DEF RequestsToOpen
  <2> QED
    BY <1>1, <1>2, <2>2, <2>3 DEF StoreTypeOK
<1>6. IdsAreIssued
  <2>1. ASSUME NEW k \in Key
        PROVE  IF HasRecord(k) THEN records[k].request \in (1 .. issued) \X {k[2]}
                               ELSE records[k] = NoRecord
    <3>1. CASE records[k] = NoRecord
      BY <3>1 DEF HasRecord, NoRecord
    <3>2. CASE /\ issued = 1 /\ records[k].status = "PENDING"
               /\ records[k].request = <<1, k[2]>>
      BY <3>2 DEF HasRecord
    <3> QED
      BY <1>4, <3>1, <3>2
  <2> QED
    BY <1>1, <2>1 DEF IdsAreIssued
<1>7. IdsAreDistinct
  BY <1>4 DEF IdsAreDistinct, HasRecord, NoRecord, Key
<1>8. OpenMeansUndecided /\ GrantedMeansYes /\ DecidedAtMostOnce /\ AllowedOnlyOnLiveConsent
  BY <1>1, <1>4 DEF OpenMeansUndecided, GrantedMeansYes, DecidedAtMostOnce,
                    AllowedOnlyOnLiveConsent, NoRecord, NoReply
<1>9. RecordsBelongToActiveSession
  BY <1>1, <1>4 DEF RecordsBelongToActiveSession
<1>10. StaticTypeOK /\ StaticAnswer
  <2>1. CASE ~BeginsStatic
    BY <1>1, <2>1 DEF StaticPart, StaticTypeOK, StaticAnswer
  <2>2. CASE BeginsStatic
    <3> DEFINE T == [request : RequestId, requests : [Policy -> RequestId], decided : BOOLEAN]
    <3>1. static = [request |-> <<1, AllCapabilities>>,
                    requests |-> [c \in Policy |-> <<1, c>>], decided |-> FALSE]
      BY <1>1, <2>2 DEF StaticPart
    <3>2. <<1, AllCapabilities>> \in RequestId /\ \A c \in Policy : <<1, c>> \in RequestId
      BY <1>2, AllCapabilitiesAssumption, PolicyAssumption DEF RequestId
    <3>3. static \in T /\ ~static.decided
      BY <3>1, <3>2
    <3>4. ASSUME NEW c \in Policy
          PROVE  /\ records[<<session, c>>].status = "PENDING"
                 /\ records[<<session, c>>].expires = Never
      <4>1. <<session, c>> \in Key
        BY <1>1 DEF Key
      <4> QED
        BY <1>1, <1>4, <2>2, <4>1
    <3>5. StaticAnswer
      BY <3>3, <3>4 DEF StaticAnswer
    <3> QED
      BY <3>3, <3>5 DEF StaticTypeOK
  <2> QED
    BY <2>1, <2>2
<1>11. outbox \in Seq(Message)
  BY <1>1, <1>2, StartMessagesAreTyped
<1>12. StoreInv
  BY <1>5, <1>6, <1>7, <1>8 DEF StoreInv
<1> QED
  BY <1>1, <1>9, <1>10, <1>11, <1>12 DEF ManagerInv, NodeTypeOK

LEMMA KindsKeepInv ==
    ASSUME ManagerInv,
           Callback \/ Dies \/ Opens \/ (ClockMoves /\ UNCHANGED config)
             \/ UNCHANGED managerVars
    PROVE  ManagerInv'
<1>1. CASE Callback
  <2>1. config' \in Configurations /\ up' \in BOOLEAN /\ session' \in Session
    BY <1>1 DEF Callback, ManagerInv, NodeTypeOK
  <2> QED
    BY <1>1, <2>1, CallbackKeepsStore, CallbackKeepsSession, CallbackKeepsStatic,
       CallbackIsTyped DEF ManagerInv, NodeTypeOK
<1>2. CASE Dies
  <2>1. /\ up' = FALSE /\ static' = NoStatic /\ outbox' = <<>> /\ UNCHANGED <<session, config>>
        /\ records' = [k \in Key |-> NoRecord]
    BY <1>2 DEF Dies, Die
  <2>2. NodeTypeOK'
    <3>1. StaticTypeOK'
      BY <2>1 DEF StaticTypeOK, NoStatic
    <3>2. outbox' \in Seq(Message)
      BY <2>1
    <3> QED
      BY <2>1, <3>1, <3>2 DEF ManagerInv, NodeTypeOK
  <2>3. RecordsBelongToActiveSession' /\ StaticAnswer'
    BY <2>1 DEF RecordsBelongToActiveSession, StaticAnswer
  <2> QED
    BY <1>2, <2>2, <2>3, DiesKeepsStore DEF ManagerInv
<1>3. CASE Opens
  <2>1. config' \in Configurations /\ up' \in BOOLEAN
    BY <1>3 DEF Opens, ManagerInv, NodeTypeOK
  <2> QED
    BY <1>3, <2>1, OpensKeepsStore, OpensKeepsSession, OpensIsTyped DEF ManagerInv, NodeTypeOK
<1>4. CASE ClockMoves /\ UNCHANGED config
  <2>1. StoreInv'
    BY <1>4, StoreStepKeeps DEF ClockMoves, ManagerInv, StoreNext
  <2>2. UNCHANGED <<records, up, session, static, config>> /\ outbox' = <<>>
    BY <1>4 DEF ClockMoves, TimePasses, Unchanged
  <2> QED
    BY <2>1, <2>2 DEF ManagerInv, NodeTypeOK, StaticTypeOK, NoStatic,
                      RecordsBelongToActiveSession, StaticAnswer, BeginsStatic, Static, PolicyLoads
<1>5. CASE UNCHANGED managerVars
  <2>1. UNCHANGED storeVars /\ UNCHANGED <<records, up, session, static, config, outbox>>
    BY <1>5 DEF managerVars, storeVars
  <2>2. StoreInv'
    BY <2>1, StoreStepKeeps DEF ManagerInv
  <2> QED
    BY <2>1, <2>2 DEF ManagerInv, NodeTypeOK, StaticTypeOK, NoStatic,
                      RecordsBelongToActiveSession, StaticAnswer, BeginsStatic, Static, PolicyLoads
<1> QED
  BY <1>1, <1>2, <1>3, <1>4, <1>5

LEMMA ManagerSteps == ManagerInv /\ [ManagerNext]_managerVars => ManagerInv'
<1> SUFFICES ASSUME ManagerInv, [ManagerNext]_managerVars
             PROVE  ManagerInv'
  OBVIOUS
<1>1. CASE ManagerNext
  <2>1. Callback \/ Dies \/ Opens \/ (ClockMoves /\ UNCHANGED config)
    BY <1>1, StepKinds
  <2> QED
    BY <2>1, KindsKeepInv
<1>2. CASE UNCHANGED managerVars
  BY <1>2, KindsKeepInv
<1> QED
  BY <1>1, <1>2

(***************************************************************************)
(* The inductive invariant of the manager.                                 *)
(***************************************************************************)
THEOREM ManagerInvariant == ManagerSpec => []ManagerInv
BY ManagerStarts, ManagerSteps, PTL DEF ManagerSpec

(***************************************************************************)
(* Every variable of the node keeps its type, the messages included.       *)
(***************************************************************************)
THEOREM ManagerTypeInvariant == ManagerSpec => []ManagerTypeOK
<1>1. ManagerInv => ManagerTypeOK
  <2> SUFFICES ASSUME ManagerInv
               PROVE  ManagerTypeOK
    OBVIOUS
  <2>1. \A i \in DOMAIN outbox : outbox[i] \in Message
    BY DEF ManagerInv, NodeTypeOK
  <2> QED
    BY <2>1, InvIsStoreInv DEF ManagerInv, NodeTypeOK, StaticTypeOK, ManagerTypeOK
<1> QED
  BY <1>1, ManagerInvariant, PTL

(***************************************************************************)
(* Behind the node, too, a check answers GRANTED only on a live consent    *)
(* (consent_manager_node.py, _on_check).                                   *)
(***************************************************************************)
THEOREM ManagerAllowsOnlyLiveConsent == ManagerSpec => []AllowedOnlyOnLiveConsent
<1>1. ManagerInv => AllowedOnlyOnLiveConsent
  BY DEF ManagerInv, StoreInv
<1> QED
  BY <1>1, ManagerInvariant, PTL

(***************************************************************************)
(* Only the active session has records: a reset erases them all.           *)
(***************************************************************************)
THEOREM RecordsBelongToActiveSessionAlways == ManagerSpec => []RecordsBelongToActiveSession
<1>1. ManagerInv => RecordsBelongToActiveSession
  BY DEF ManagerInv
<1> QED
  BY <1>1, ManagerInvariant, PTL

(***************************************************************************)
(* The combined disclosure is answered for every capability or for none.   *)
(***************************************************************************)
THEOREM StaticDecidedTogetherAlways == ManagerSpec => []StaticDecidedTogether
<1>1. ManagerInv => StaticDecidedTogether
  <2> SUFFICES ASSUME ManagerInv, up, BeginsStatic, NEW c \in Policy
               PROVE  /\ (records[<<session, c>>].status = "PENDING") = ~static.decided
                      /\ records[<<session, c>>].expires = Never
    BY DEF StaticDecidedTogether
  <2>1. /\ records[<<session, c>>].status = "PENDING" <=> ~static.decided
        /\ records[<<session, c>>].expires = Never
    BY DEF ManagerInv, StaticAnswer
  <2> QED
    BY <2>1
<1> QED
  BY <1>1, ManagerInvariant, PTL

(***************************************************************************)
(* Outside the dynamic condition, no step but a reset or a new process     *)
(* touches a request that was refused, withdrawn or has expired.           *)
(***************************************************************************)
THEOREM NoRepromptOutsideDynamicAlways == ManagerSpec => NoRepromptOutsideDynamic
<1>1. ASSUME ManagerInv, [ManagerNext]_managerVars, NEW k \in Key,
             ~Dynamic, records[k].status \in Over, up', session' = session
      PROVE  records'[k].status = records[k].status
  <2>1. CASE Callback
    BY <1>1, <2>1, CallbackBecomes DEF Becomes, Over, Lapsed
  <2>2. CASE Dies
    BY <1>1, <2>2 DEF Dies, Die
  <2>3. CASE Opens
    <3>1. session' = session + 1
      BY <2>3 DEF Opens
    <3>2. session \in Int
      BY <1>1 DEF ManagerInv, NodeTypeOK, Session
    <3> QED
      BY <1>1, <3>1, <3>2
  <2>4. CASE ClockMoves
    BY <2>4 DEF ClockMoves, TimePasses, Unchanged
  <2>5. CASE UNCHANGED managerVars
    BY <2>5 DEF managerVars, storeVars
  <2> QED
    BY <1>1, <2>1, <2>2, <2>3, <2>4, <2>5, StepKinds
<1>2. ManagerInv /\ [ManagerNext]_managerVars =>
        [\A k \in Key :
            ~Dynamic /\ records[k].status \in Over /\ up' /\ session' = session
            => records'[k].status = records[k].status]_managerVars
  BY <1>1
<1> QED
  BY <1>2, ManagerInvariant, PTL DEF ManagerSpec, NoRepromptOutsideDynamic

-----------------------------------------------------------------------------
(***************************************************************************)
(* The audit trail: each kind of step publishes what it changes.           *)
(***************************************************************************)
LEMMA AskIsAnnounced ==
    ASSUME ManagerInv, NEW c \in Policy, Asks(c), NEW k \in Key,
           records'[k].status # records[k].status
    PROVE  Announced(k, records'[k].status)
<1> DEFINE prompt == Prompt(<<issued + 1, c>>, session, c)
           request == Event("consent_requested", session, c, "none")
           expired == Event("consent_expired", session, k[2], "none")
<1>1. k = <<session, c>> /\ records'[k].status = "PENDING"
  BY DEF Asks, CreateRequests, PendingRecord, Key
<1>2. CASE Lapsed(k)
  <2>1. outbox' = <<expired>> \o <<prompt, request>>
    <3>1. ExpiryEvents(<<session, c>>) = <<expired>>
      BY <1>1, <1>2 DEF ExpiryEvents
    <3>2. outbox' = ExpiryEvents(<<session, c>>) \o <<prompt, request>>
      BY DEF Asks
    <3> QED
      BY <3>1, <3>2
  <2>2. outbox'[1] = expired /\ outbox'[3] = request /\ DOMAIN outbox' = 1 .. 3
    BY <2>1
  <2>3. Published("consent_expired", k[1], k[2], "none")
        /\ Published("consent_requested", k[1], k[2], "none")
    BY <1>1, <2>2 DEF Published
  <2> QED
    BY <1>1, <2>3 DEF Announced
<1>3. CASE ~Lapsed(k)
  <2>1. outbox' = <<prompt, request>>
    BY <1>1, <1>3 DEF Asks, ExpiryEvents
  <2>2. outbox'[2] = request /\ DOMAIN outbox' = 1 .. 2
    BY <2>1
  <2>3. Published("consent_requested", k[1], k[2], "none")
    BY <1>1, <2>2 DEF Published
  <2> QED
    BY <1>1, <1>3, <2>3 DEF Announced
<1> QED
  BY <1>2, <1>3

LEMMA DecisionIsAnnounced ==
    ASSUME ManagerInv, NEW group, NEW caps, NEW decision, NEW timed,
           Decides(group, caps, decision, timed), NEW k \in Key,
           records'[k].status # records[k].status
    PROVE  Announced(k, records'[k].status)
<1>1. PICK c \in DOMAIN group :
         k = <<session, c>> /\ records'[k] = Decided(k, decision = "granted", timed)
  BY DEF Decides, RecordDecision
<1>2. PICK i \in DOMAIN caps : caps[i] = c
  BY DEF Decides
<1>3. Published("consent_decided", k[1], k[2], decision)
  BY <1>1, <1>2 DEF Decides, DecidedEvents, Published
<1>4. records[k] \in Record /\ decision \in {"granted", "refused"}
  BY DEF ManagerInv, StoreInv, StoreTypeOK, Decides
<1>5. records'[k].status = IF decision = "granted" THEN "GRANTED" ELSE "REFUSED"
  BY <1>1, <1>4 DEF Decided, Record
<1>6. CASE decision = "granted"
  BY <1>3, <1>5, <1>6 DEF Announced
<1>7. CASE decision = "refused"
  BY <1>3, <1>5, <1>7 DEF Announced
<1> QED
  BY <1>4, <1>6, <1>7

LEMMA CallbackIsAnnounced ==
    ASSUME ManagerInv, Callback, NEW k \in Key, records'[k].status # records[k].status
    PROVE  Announced(k, records'[k].status)
<1>1. records \in [Key -> Record]
  BY DEF ManagerInv, StoreInv, StoreTypeOK
<1>2. CASE Quietly
  BY <1>2 DEF Quietly, Unchanged
<1>3. CASE \E c \in Policy : Asks(c)
  BY <1>3, AskIsAnnounced
<1>4. CASE \E group, caps, decision, timed : Decides(group, caps, decision, timed)
  BY <1>4, DecisionIsAnnounced
<1>5. ASSUME NEW j \in Key, Withdraw(j) PROVE Announced(k, records'[k].status)
  <2>1. k = j /\ records'[k].status = "REVOKED" /\ records[k].status = "GRANTED"
    BY <1>1, <1>5 DEF Withdraw, Revoke, Revoked, CanRevoke, Settled, Record
  <2>2. k[1] = session
    BY <2>1, OldSessionsAreEmpty
  <2>3. Published("consent_revoked", k[1], k[2], "revoked")
    BY <1>5, <2>1, <2>2 DEF Withdraw, Published
  <2> QED
    BY <2>1, <2>3 DEF Announced
<1>6. ASSUME NEW j \in Key, Looks(j) PROVE Announced(k, records'[k].status)
  <2>1. k = j /\ Lapsed(j) /\ records'[k].status = "EXPIRED"
    BY <1>1, <1>6 DEF Looks, Expire, Settled, Record
  <2>2. k[1] = session
    BY <2>1, OldSessionsAreEmpty DEF Lapsed
  <2>3. outbox' = <<Event("consent_expired", session, k[2], "none")>>
    BY <1>6, <2>1 DEF Looks, ExpiryEvents
  <2>4. Published("consent_expired", k[1], k[2], "none")
    BY <2>2, <2>3 DEF Published
  <2> QED
    BY <2>1, <2>4 DEF Announced
<1> QED
  BY <1>2, <1>3, <1>4, <1>5, <1>6 DEF Callback

LEMMA OpeningIsAnnounced ==
    ASSUME ManagerInv, up, Opens, NEW k \in Key, records'[k].status # records[k].status
    PROVE  Announced(k, records'[k].status)
<1> DEFINE ended == Event("session_reset", session, NoCapability, "none")
           request == Event("consent_requested", session + 1, AllCapabilities, "none")
<1>1. session \in Int /\ k[1] \in Int
  BY DEF ManagerInv, NodeTypeOK, Session, Key
<1>2. CASE BeginsStatic /\ k[1] = session + 1
  <2>1. records'[k].status = "PENDING"
    BY <1>2 DEF Opens, PendingRecord
  <2>2. ~Lapsed(k)
    <3>1. k[1] # session
      BY <1>1, <1>2
    <3>2. records[k] = NoRecord
      BY <3>1 DEF ManagerInv, RecordsBelongToActiveSession
    <3> QED
      BY <3>2 DEF Lapsed, NoRecord
  <2>3. outbox' = <<ended, SessionMessage(session + 1),
                    Event("session_started", session + 1, NoCapability, "none"),
                    Prompt(<<issued + 1, AllCapabilities>>, session + 1, AllCapabilities),
                    request>>
    BY <1>2 DEF Opens, StartMessages
  <2>4. outbox'[5] = request /\ 5 \in DOMAIN outbox'
    BY <2>3
  <2>5. Published("consent_requested", k[1], AllCapabilities, "none")
    BY <1>2, <2>4 DEF Published
  <2> QED
    BY <2>1, <2>2, <2>5 DEF Announced
<1>3. CASE ~(BeginsStatic /\ k[1] = session + 1)
  <2>1. records'[k].status = "UNKNOWN"
    BY <1>3 DEF Opens, NoRecord
  <2>2. k[1] = session
    BY <2>1, OldSessionsAreEmpty
  <2>3. outbox'[1] = ended /\ 1 \in DOMAIN outbox'
    BY DEF Opens, StartMessages
  <2>4. Published("session_reset", k[1], NoCapability, "none")
    BY <2>2, <2>3 DEF Published
  <2> QED
    BY <2>1, <2>4 DEF Announced
<1> QED
  BY <1>2, <1>3

(***************************************************************************)
(* Every change of a record is published by the callback that makes it,    *)
(* under the session of the record (consent_manager_node.py and on_expire  *)
(* of consent_state.py): the audit log can be replayed.                    *)
(***************************************************************************)
THEOREM EveryChangeIsAnnouncedAlways == ManagerSpec => EveryChangeIsAnnounced
<1>1. ASSUME ManagerInv, [ManagerNext]_managerVars, NEW k \in Key,
             up, up', records'[k].status # records[k].status
      PROVE  Announced(k, records'[k].status)
  <2>1. CASE Callback
    BY <1>1, <2>1, CallbackIsAnnounced
  <2>2. CASE Dies
    BY <1>1, <2>2 DEF Dies, Die
  <2>3. CASE Opens
    BY <1>1, <2>3, OpeningIsAnnounced
  <2>4. CASE ClockMoves
    BY <1>1, <2>4 DEF ClockMoves, TimePasses, Unchanged
  <2>5. CASE UNCHANGED managerVars
    BY <1>1, <2>5 DEF managerVars, storeVars
  <2> QED
    BY <1>1, <2>1, <2>2, <2>3, <2>4, <2>5, StepKinds
<1>2. ManagerInv /\ [ManagerNext]_managerVars =>
        [\A k \in Key :
            up /\ up' /\ records'[k].status # records[k].status
            => Announced(k, records'[k].status)]_managerVars
  BY <1>1
<1> QED
  BY <1>2, ManagerInvariant, PTL DEF ManagerSpec, EveryChangeIsAnnounced
-----------------------------------------------------------------------------
(***************************************************************************)
(* The system: manager, gate and terminal, and the topics between them.    *)
(*                                                                         *)
(* The inductive invariant adds to the manager's what the gate knows of    *)
(* sessions (it is behind, never ahead), that a check of its session is    *)
(* marked in flight and has one answer at most, that what was withdrawn    *)
(* and the clock only grow, and that a GRANTED on its way rests on a yes   *)
(* that counted when the check was sent.                                   *)
(***************************************************************************)
About(x, s, c) == x.session = s /\ x.capability = c

SessionsFollow ==
    /\ gateSession \in 0 .. session
    /\ sessionTopic \in {NoSession} \cup (gateSession + 1) .. session

GateTyped ==
    /\ pending \subseteq Policy /\ queued \subseteq Policy
    /\ inFlight \in [Policy -> {NoSession, gateSession}]

CallsTyped ==
    /\ requestTopic \in Seq(Capability)
    /\ checkCalls \subseteq [session : 1 .. gateSession, capability : Policy]
    /\ \A r \in checkReplies : r.session \in 1 .. gateSession /\ r.capability \in Policy

ChecksAreMarked ==
    \A x \in checkCalls \cup checkReplies :
        x.session = gateSession => inFlight[x.capability] = gateSession

OneAnswer ==
    \A r \in checkReplies :
        /\ \A q \in checkReplies :
              r.session = gateSession /\ About(q, r.session, r.capability) => q = r
        /\ \A x \in checkCalls :
              r.session = gateSession => ~About(x, r.session, r.capability)

SentBefore ==
    \A c \in Policy : /\ atCall[c].withdrawn \subseteq withdrawn
                      /\ atCall[c].clock \in Int /\ atCall[c].clock <= clock

Backed(c) == \E v \in verdicts : LiveYes(v, c) /\ InTimeAt(v, atCall[c].clock)

GrantsAreBacked ==
    \A r \in checkReplies :
        r.status = "GRANTED" /\ r.session = gateSession => Backed(r.capability)

SystemInv ==
    /\ ManagerInv
    /\ SessionsFollow /\ GateTyped /\ CallsTyped
    /\ ChecksAreMarked /\ OneAnswer
    /\ SentBefore /\ GrantsAreBacked

-----------------------------------------------------------------------------
(***************************************************************************)
(* What every step of the manager leaves: the past, and its announcement   *)
(* of a session exactly when it opens one.                                 *)
(***************************************************************************)
Grows ==
    /\ verdicts \subseteq verdicts' /\ withdrawn \subseteq withdrawn'
    /\ \/ session' = session /\ PublishedOn("session") = {}
       \/ /\ session' = session + 1 /\ PublishedOn("session") # {}
          /\ \A i \in PublishedOn("session") : outbox'[i].session = session + 1

LEMMA ExpiryAnnouncesNoSession ==
    ASSUME NEW k, outbox' = ExpiryEvents(k)
    PROVE  PublishedOn("session") = {}
BY DEF ExpiryEvents, Event, PublishedOn

LEMMA CallbackGrows ==
    ASSUME ManagerInv, Callback
    PROVE  Grows
<1>1. session' = session
  BY DEF Callback
<1>2. CASE Quietly
  BY <1>1, <1>2 DEF Quietly, Unchanged, Grows
<1>3. ASSUME NEW c \in Policy, Asks(c) PROVE Grows
  <2> DEFINE prompt == Prompt(<<issued + 1, c>>, session, c)
             request == Event("consent_requested", session, c, "none")
             expired == Event("consent_expired", session, c, "none")
  <2>1. \A i \in DOMAIN outbox' : outbox'[i] \in {prompt, request, expired}
    <3>1. CASE Lapsed(<<session, c>>)
      <4>1. outbox' = <<expired>> \o <<prompt, request>>
        BY <1>3, <3>1 DEF Asks, ExpiryEvents
      <4> HIDE DEF prompt, request, expired
      <4> QED
        BY <4>1
    <3>2. CASE ~Lapsed(<<session, c>>)
      <4>1. outbox' = <<prompt, request>>
        BY <1>3, <3>2 DEF Asks, ExpiryEvents
      <4> HIDE DEF prompt, request, expired
      <4> QED
        BY <4>1
    <3> QED
      BY <3>1, <3>2
  <2>2. prompt.topic # "session" /\ request.topic # "session" /\ expired.topic # "session"
    BY DEF Prompt, Event
  <2> HIDE DEF prompt, request, expired
  <2>3. PublishedOn("session") = {}
    BY <2>1, <2>2 DEF PublishedOn
  <2> QED
    BY <1>1, <1>3, <2>3 DEF Asks, CreateRequests, Grows
<1>4. ASSUME NEW group, NEW caps, NEW decision, NEW timed, Decides(group, caps, decision, timed)
      PROVE  Grows
  <2>1. PublishedOn("session") = {}
    BY <1>4 DEF Decides, DecidedEvents, Event, PublishedOn
  <2>2. verdicts \subseteq verdicts' /\ withdrawn' = withdrawn
    BY <1>4 DEF Decides, RecordDecision
  <2> QED
    BY <1>1, <2>1, <2>2 DEF Grows
<1>5. ASSUME NEW k \in Key, Withdraw(k) PROVE Grows
  <2>1. PublishedOn("session") = {}
    BY <1>5 DEF Withdraw, Event, PublishedOn
  <2> QED
    BY <1>1, <1>5, <2>1 DEF Withdraw, Revoke, Grows
<1>6. ASSUME NEW k \in Key, Looks(k) PROVE Grows
  <2>1. PublishedOn("session") = {}
    BY <1>6, ExpiryAnnouncesNoSession DEF Looks
  <2> QED
    BY <1>1, <1>6, <2>1 DEF Looks, Expire, Grows
<1> QED
  BY <1>2, <1>3, <1>4, <1>5, <1>6 DEF Callback

LEMMA OpensGrows ==
    ASSUME ManagerInv, Opens
    PROVE  Grows
<1> DEFINE s == session + 1
           Fitting == {m \in Message : m.topic = "session" => m.session = s}
           first == <<SessionMessage(s), Event("session_started", s, NoCapability, "none")>>
           start == StartMessages(issued + 1, s)
           ends == <<Event("session_reset", session, NoCapability, "none")>>
<1>1. s \in Session /\ session' = s /\ UNCHANGED <<verdicts, withdrawn>>
  BY OpensKeepsStore DEF Opens
<1>2. /\ first \in Seq(Fitting) /\ first[1] = SessionMessage(s) /\ Len(first) = 2
      /\ ends \in Seq(Fitting) /\ Len(ends) = 1
  <2>1. SessionMessage(s) \in Fitting
        /\ Event("session_started", s, NoCapability, "none") \in Fitting
    BY <1>1 DEF SessionMessage, Event, Message, Decision
  <2>2. Event("session_reset", session, NoCapability, "none") \in Fitting
    BY ResetEventIsTyped DEF Event
  <2> QED
    BY <2>1, <2>2
<1>3. start \in Seq(Fitting) /\ start[1] = SessionMessage(s) /\ Len(start) >= 1
  <2>1. CASE BeginsStatic
    <3> DEFINE rest == <<Prompt(<<issued + 1, AllCapabilities>>, s, AllCapabilities),
                         Event("consent_requested", s, AllCapabilities, "none")>>
    <3>1. issued + 1 \in 0 .. MaxRequest
      <4>1. issued \in Nat /\ issued + 1 <= MaxRequest /\ MaxRequest \in Nat
        BY <2>1, BoundsAssumption
           DEF Opens, CanOpenSession, RequestsToOpen, ManagerInv, StoreInv, StoreTypeOK
      <4> QED
        BY <4>1
    <3>2. AllCapabilities \in Capability /\ <<issued + 1, AllCapabilities>> \in RequestId
      BY <3>1, AllCapabilitiesAssumption DEF RequestId
    <3>3. Prompt(<<issued + 1, AllCapabilities>>, s, AllCapabilities) \in Fitting
          /\ Event("consent_requested", s, AllCapabilities, "none") \in Fitting
      BY <1>1, <3>2 DEF Prompt, Event, Message, Decision
    <3>4. rest \in Seq(Fitting) /\ Len(rest) = 2
      BY <3>3
    <3>5. start = first \o rest
      <4>1. start = first \o IF BeginsStatic THEN rest ELSE <<>>
        BY DEF StartMessages
      <4> HIDE DEF start, first, rest
      <4> QED
        BY <2>1, <4>1
    <3> HIDE DEF first, rest, start, Fitting
    <3>6. /\ first \o rest \in Seq(Fitting)
          /\ Len(first \o rest) = Len(first) + Len(rest)
          /\ \A i \in 1 .. Len(first) + Len(rest) : (first \o rest)[i] =
                IF i <= Len(first) THEN first[i] ELSE rest[i - Len(first)]
      BY <1>2, <3>4, ConcatProperties
    <3>7. Len(start) = 4 /\ start[1] = first[1]
      BY <1>2, <3>4, <3>5, <3>6
    <3> QED
      BY <1>2, <3>5, <3>6, <3>7
  <2>2. CASE ~BeginsStatic
    <3> DEFINE rest == <<Prompt(<<issued + 1, AllCapabilities>>, s, AllCapabilities),
                         Event("consent_requested", s, AllCapabilities, "none")>>
    <3>1. start = first \o <<>>
      <4>1. start = first \o IF BeginsStatic THEN rest ELSE <<>>
        BY DEF StartMessages
      <4> HIDE DEF start, first, rest
      <4> QED
        BY <2>2, <4>1
    <3> HIDE DEF first, start, ends, rest, Fitting
    <3>2. start = first
      BY <1>2, <3>1, ConcatEmptySeq
    <3>3. start \in Seq(Fitting) /\ start[1] = SessionMessage(s) /\ Len(start) = 2
      BY <1>2, <3>2, Zenon
    <3> HIDE DEF s
    <3> QED
      BY ONLY <3>3
  <2> QED
    BY <2>1, <2>2
<1>4. /\ outbox' \in Seq(Fitting)
      /\ \E i \in 1 .. Len(outbox') : outbox'[i] = SessionMessage(s)
  <2>1. outbox' = start \/ outbox' = ends \o start
    BY DEF Opens
  <2> HIDE DEF first, start, ends, Fitting
  <2>2. CASE outbox' = start
    <3>1. 1 \in 1 .. Len(start)
      BY <1>3, LenProperties
    <3> QED
      BY <1>3, <2>2, <3>1
  <2>3. CASE outbox' = ends \o start
    <3>1. /\ ends \o start \in Seq(Fitting)
          /\ Len(ends \o start) = Len(ends) + Len(start)
          /\ \A i \in 1 .. Len(ends) + Len(start) : (ends \o start)[i] =
                IF i <= Len(ends) THEN ends[i] ELSE start[i - Len(ends)]
      BY <1>2, <1>3, ConcatProperties
    <3>2. Len(start) \in Nat
      BY <1>3, LenProperties
    <3>3. 2 \in 1 .. Len(ends) + Len(start) /\ (ends \o start)[2] = start[1]
      BY <1>2, <1>3, <3>1, <3>2
    <3> QED
      BY <1>3, <2>3, <3>1, <3>3
  <2> QED
    BY <2>1, <2>2, <2>3
<1>5. /\ PublishedOn("session") # {}
      /\ \A i \in PublishedOn("session") : outbox'[i].session = s
  <2>1. SessionMessage(s).topic = "session"
    BY DEF SessionMessage
  <2>2. DOMAIN outbox' = 1 .. Len(outbox')
    BY <1>4, LenProperties
  <2>3. \A i \in DOMAIN outbox' : outbox'[i] \in Fitting
    BY <1>4, ElementOfSeq, <2>2
  <2>4. PublishedOn("session") # {}
    BY <1>4, <2>1, <2>2 DEF PublishedOn
  <2>5. \A i \in PublishedOn("session") : outbox'[i].session = s
    BY <2>3 DEF PublishedOn
  <2> QED
    BY <2>4, <2>5
<1> QED
  BY <1>1, <1>5 DEF Grows

LEMMA DiesGrows ==
    ASSUME Dies
    PROVE  Grows
BY DEF Dies, Die, Grows, PublishedOn

(***************************************************************************)
(* /consent/session keeps the latest announcement, which is ahead of the   *)
(* gate or has been taken.                                                 *)
(***************************************************************************)
LEMMA AnnouncementFollows ==
    ASSUME SystemInv, Grows, ManagerPublishes, gateSession' = gateSession
    PROVE  SessionsFollow' /\ session <= session' /\ session \in Nat
<1>1. session \in Nat /\ gateSession \in Nat /\ gateSession <= session
      /\ sessionTopic \in {NoSession} \cup (gateSession + 1) .. session
  BY BoundsAssumption DEF SystemInv, SessionsFollow, ManagerInv, NodeTypeOK, Session
<1>2. CASE session' = session /\ PublishedOn("session") = {}
  <2>1. sessionTopic' = sessionTopic
    BY <1>2 DEF ManagerPublishes, LatestOn, SessionMessage
  <2> QED
    BY <1>1, <1>2, <2>1 DEF SessionsFollow
<1>3. CASE /\ session' = session + 1 /\ PublishedOn("session") # {}
           /\ \A i \in PublishedOn("session") : outbox'[i].session = session + 1
  <2> DEFINE i == CHOOSE j \in PublishedOn("session") : TRUE
  <2>1. i \in PublishedOn("session")
    BY <1>3
  <2>2. sessionTopic' = outbox'[i].session
    BY <1>3 DEF ManagerPublishes, LatestOn
  <2>3. sessionTopic' = session + 1
    BY <1>3, <2>1, <2>2
  <2> QED
    BY <1>1, <1>3, <2>3 DEF SessionsFollow
<1> QED
  BY <1>2, <1>3 DEF Grows

-----------------------------------------------------------------------------
(***************************************************************************)
(* A step the gate takes no part in: calls and messages may be taken, or   *)
(* lost with the process.                                                  *)
(***************************************************************************)
LEMMA ClockIsInt == ManagerInv => clock \in Int
BY BoundsAssumption DEF ManagerInv, StoreInv, StoreTypeOK, Time

\* What was not withdrawn when a check was sent does not change any more.
LEMMA StaysBacked ==
    ASSUME NEW c, Backed(c), verdicts \subseteq verdicts', UNCHANGED <<gateSession, atCall>>
    PROVE  Backed(c)'
BY DEF Backed, LiveYes

LEMMA GateUntouched ==
    ASSUME SystemInv, ManagerInv', SessionsFollow', requestTopic' \in Seq(Capability),
           UNCHANGED <<gateSession, pending, queued, inFlight, atCall, checkReplies>>,
           checkCalls' \subseteq checkCalls,
           verdicts \subseteq verdicts', withdrawn \subseteq withdrawn', clock <= clock'
    PROVE  SystemInv'
<1>1. GateTyped' /\ CallsTyped'
  BY DEF SystemInv, GateTyped, CallsTyped
<1>2. ChecksAreMarked' /\ OneAnswer'
  BY DEF SystemInv, ChecksAreMarked, OneAnswer, About
<1>3. SentBefore'
  <2>1. clock \in Int /\ clock' \in Int
    BY BoundsAssumption DEF SystemInv, ManagerInv, StoreInv, StoreTypeOK, Time
  <2> QED
    BY <2>1 DEF SystemInv, SentBefore
<1>4. GrantsAreBacked'
  <2> SUFFICES ASSUME NEW r \in checkReplies', r.status = "GRANTED", r.session = gateSession'
               PROVE  Backed(r.capability)'
    BY DEF GrantsAreBacked
  <2>1. Backed(r.capability)
    BY DEF SystemInv, GrantsAreBacked
  <2> QED
    BY <2>1, StaysBacked
<1> QED
  BY <1>1, <1>2, <1>3, <1>4 DEF SystemInv

\* What the manager does, seen from outside.
Kinds == Callback \/ Dies \/ Opens

LEMMA KindsGrow ==
    ASSUME ManagerInv, Kinds
    PROVE  Grows /\ ManagerInv' /\ clock' = clock
<1>1. CASE Callback
  BY <1>1, CallbackGrows, KindsKeepInv DEF Callback
<1>2. CASE Dies
  BY <1>2, DiesGrows, KindsKeepInv DEF Dies
<1>3. CASE Opens
  BY <1>3, OpensGrows, KindsKeepInv DEF Opens
<1> QED
  BY <1>1, <1>2, <1>3 DEF Kinds

LEMMA ManagerMoves ==
    ASSUME SystemInv, Kinds, ManagerPublishes, requestTopic' \in Seq(Capability),
           UNCHANGED <<gateSession, pending, queued, inFlight, atCall, checkReplies>>,
           checkCalls' \subseteq checkCalls
    PROVE  SystemInv'
<1>1. Grows /\ ManagerInv' /\ clock' = clock /\ clock \in Int
  BY KindsGrow, ClockIsInt DEF SystemInv
<1>2. SessionsFollow'
  BY <1>1, AnnouncementFollows
<1>3. clock <= clock'
  BY <1>1
<1> QED
  BY <1>1, <1>2, <1>3, GateUntouched DEF Grows

(***************************************************************************)
(* The manager answers a check: GRANTED only on a yes that counts now, and *)
(* counted when the check was sent, since revocations stay and the clock   *)
(* runs on.                                                                *)
(***************************************************************************)
LEMMA AnswerIsBacked ==
    ASSUME SystemInv, Callback, NEW c \in Policy, reply'.status = "GRANTED",
           reply'.session = gateSession, reply'.capability = c,
           UNCHANGED <<gateSession, atCall>>
    PROVE  Backed(c)'
<1>1. ManagerInv' /\ Grows /\ clock' = clock
  BY KindsGrow DEF Kinds, SystemInv
<1>2. PICK v \in verdicts' :
         /\ v.key = <<gateSession, c>> /\ v.granted /\ v.request \notin withdrawn'
         /\ InTime(v)'
  <2>1. AllowedOnlyOnLiveConsent'
    BY <1>1 DEF ManagerInv, StoreInv
  <2> QED
    BY <2>1 DEF AllowedOnlyOnLiveConsent
<1>3. /\ atCall[c].withdrawn \subseteq withdrawn' /\ atCall[c].clock \in Int
      /\ atCall[c].clock <= clock' /\ clock' \in Int
  BY <1>1, ClockIsInt DEF SystemInv, SentBefore, Grows
<1>4. LiveYes(v, c)'
  BY <1>2, <1>3 DEF LiveYes
<1>5. InTimeAt(v, atCall[c].clock)
  <2>1. v.key[2] = c /\ v.at \in Int /\ Expiry[c] \in Int
    BY <1>1, <1>2, ExpiryAssumption, BoundsAssumption
       DEF ManagerInv, StoreInv, StoreTypeOK, Verdict, Time
  <2>2. ~v.timed \/ Expiry[c] = 0 \/ clock' < v.at + Expiry[c]
    BY <1>2, <2>1 DEF InTime
  <2> QED
    BY <1>3, <2>1, <2>2 DEF InTimeAt
<1> QED
  BY <1>4, <1>5 DEF Backed

LEMMA CheckIsAnswered ==
    ASSUME NEW s, NEW c, OnCheck(s, c)
    PROVE  About(reply', s, c)
BY DEF OnCheck, Check, About

LEMMA CheckMoves ==
    ASSUME SystemInv, ManagerTakesCheck
    PROVE  SystemInv'
<1>1. PICK call \in checkCalls :
        /\ OnCheck(call.session, call.capability) /\ UNCHANGED up
        /\ checkCalls' = checkCalls \ {call}
        /\ checkReplies' = checkReplies \cup {reply'}
        /\ ManagerStep
        /\ UNCHANGED <<requestTopic, decisionTopic>>
  BY DEF ManagerTakesCheck
<1> DEFINE s == call.session
           c == call.capability
<1>2. /\ UNCHANGED <<gateSession, pending, queued, inFlight, atCall, clock, config>>
      /\ ManagerPublishes
  BY <1>1 DEF ManagerStep, GateQuiet
<1>3. call \in [session : 1 .. gateSession, capability : Policy] /\ s \in 1 .. session
      /\ c \in Policy /\ c \in Capability /\ s \in 1 .. gateSession
  <2>1. call \in [session : 1 .. gateSession, capability : Policy]
    BY DEF SystemInv, CallsTyped
  <2>2. gateSession \in Int /\ session \in Int /\ gateSession <= session
    BY BoundsAssumption DEF SystemInv, SessionsFollow, ManagerInv, NodeTypeOK, Session
  <2> QED
    BY <2>1, <2>2, PolicyAssumption
<1>4. Callback /\ Kinds
  BY <1>1, <1>2, <1>3, CheckKind DEF SystemInv, Kinds
<1>5. ManagerInv' /\ Grows /\ SessionsFollow'
  BY <1>2, <1>4, KindsGrow, AnnouncementFollows DEF SystemInv
<1>6. reply'.session = s /\ reply'.capability = c
  BY <1>1, CheckIsAnswered DEF About
<1>7. GateTyped' /\ CallsTyped'
  BY <1>1, <1>2, <1>3, <1>6 DEF SystemInv, GateTyped, CallsTyped
<1>8. ChecksAreMarked'
  <2>1. s = gateSession => inFlight[c] = gateSession
    BY DEF SystemInv, ChecksAreMarked
  <2> QED
    BY <1>1, <1>2, <1>6, <2>1 DEF SystemInv, ChecksAreMarked
<1>9. OneAnswer'
  <2>1. \A x \in checkCalls : About(x, s, c) => x = call
    BY <1>3 DEF SystemInv, CallsTyped, About
  <2>2. \A r \in checkReplies : r.session = gateSession => ~About(call, r.session, r.capability)
    BY DEF SystemInv, OneAnswer
  <2> QED
    BY <1>1, <1>2, <1>6, <2>1, <2>2 DEF SystemInv, OneAnswer, About
<1>10. SentBefore'
  BY <1>2, <1>5 DEF SystemInv, SentBefore, Grows
<1>11. GrantsAreBacked'
  <2> SUFFICES ASSUME NEW r \in checkReplies', r.status = "GRANTED", r.session = gateSession'
               PROVE  Backed(r.capability)'
    BY DEF GrantsAreBacked
  <2>1. CASE r \in checkReplies
    <3>1. Backed(r.capability)
      BY <1>2, <2>1 DEF SystemInv, GrantsAreBacked
    <3> QED
      BY <1>2, <1>5, <3>1, StaysBacked DEF Grows
  <2>2. CASE r = reply'
    BY <1>2, <1>3, <1>4, <1>6, <2>2, AnswerIsBacked
  <2> QED
    BY <1>1, <2>1, <2>2
<1> QED
  BY <1>5, <1>7, <1>8, <1>9, <1>10, <1>11 DEF SystemInv

-----------------------------------------------------------------------------
(***************************************************************************)
(* The gate moves; the manager does not.                                   *)
(***************************************************************************)
LEMMA QuietManager ==
    ASSUME ManagerInv, ManagerQuiet
    PROVE  /\ ManagerInv' /\ UNCHANGED <<records, clock, verdicts, withdrawn, session>>
<1>1. Callback
  BY DEF ManagerQuiet, Callback, Quietly, PublishedOn, Unchanged
<1> QED
  BY <1>1, KindsGrow DEF Kinds, ManagerQuiet, Unchanged

LEMMA RequestAsSequence ==
    ASSUME NEW c \in Capability, NEW S, S = {} \/ S = {c}
    PROVE  SetToSeq(S) \in Seq(Capability)
<1>1. PICK n \in {0, 1} : n = Cardinality(S) /\ (n = 0 \/ S = {c})
  <2>1. Cardinality({}) = 0 /\ Cardinality({c}) = 1
    BY FS_EmptySet, FS_Singleton
  <2> QED
    BY <2>1
<1> DEFINE f == [i \in 1 .. n |-> c]
<1>2. f \in [1 .. n -> S] /\ IsInjective(f)
  BY <1>1 DEF IsInjective
<1>3. SetToSeq(S) \in [1 .. n -> S]
  BY <1>1, <1>2 DEF SetToSeq
<1>4. n \in Nat /\ SetToSeq(S) \in [1 .. n -> Capability]
  BY <1>1, <1>3
<1> QED
  BY <1>4, SeqDef

\* One call for each capability of K, in the gate's session.
Calls(s, K) == {[session |-> s, capability |-> c] : c \in K}

LEMMA OutputFields ==
    /\ NoOutput.calls = {} /\ NoOutput.requested = {} /\ NoOutput.authorized = {}
    /\ \A K : LET o == [NoOutput EXCEPT !.calls = K] IN
          o.calls = K /\ o.requested = {} /\ o.authorized = {}
    /\ \A K : LET o == [NoOutput EXCEPT !.requested = K] IN
          o.calls = {} /\ o.requested = K /\ o.authorized = {}
    /\ \A K : LET o == [NoOutput EXCEPT !.authorized = K] IN
          o.calls = {} /\ o.requested = {} /\ o.authorized = K
    /\ \A K : LET o == [NoOutput EXCEPT !.blocked = K] IN
          o.calls = {} /\ o.requested = {} /\ o.authorized = {}
BY DEF NoOutput

LEMMA RequestsStayTyped ==
    ASSUME SystemInv, GatePublishes,
           gateOut'.requested = {} \/ \E c \in Policy : gateOut'.requested = {c}
    PROVE  requestTopic' \in Seq(Capability)
<1>1. SetToSeq(gateOut'.requested) \in Seq(Capability)
  <2>1. CASE gateOut'.requested = {}
    <3>1. AllCapabilities \in Capability
      BY AllCapabilitiesAssumption
    <3> QED
      BY <2>1, <3>1, RequestAsSequence
  <2>2. CASE \E c \in Policy : gateOut'.requested = {c}
    BY <2>2, RequestAsSequence, PolicyAssumption
  <2> QED
    BY <2>1, <2>2
<1>2. requestTopic' = requestTopic \o SetToSeq(gateOut'.requested)
  BY DEF GatePublishes
<1>3. requestTopic \in Seq(Capability)
  BY DEF SystemInv, CallsTyped
<1> QED
  BY <1>1, <1>2, <1>3, ConcatProperties

(***************************************************************************)
(* _check and what leads to it (privacy_gate_node.py:110): calls are sent  *)
(* only for capabilities with no check in flight, so that none is awaiting *)
(* an answer already.                                                      *)
(***************************************************************************)
LEMMA CallsMove ==
    ASSUME SystemInv, ManagerQuiet, GatePublishes, NEW K \in SUBSET Policy,
           UNCHANGED <<gateSession, sessionTopic, checkReplies>>,
           pending' \subseteq Policy, queued' \subseteq Policy,
           K = {} \/ gateSession # NoSession,
           \A c \in K : inFlight[c] = NoSession,
           inFlight' = [c \in Policy |-> IF c \in K THEN gateSession ELSE inFlight[c]],
           gateOut'.calls = Calls(gateSession, K), gateOut'.requested = {}
    PROVE  SystemInv'
<1>1. /\ ManagerInv' /\ UNCHANGED <<records, clock, verdicts, withdrawn, session>>
      /\ clock \in Int /\ gateSession \in Nat /\ session \in Nat
  BY QuietManager, ClockIsInt, BoundsAssumption
     DEF SystemInv, SessionsFollow, ManagerInv, NodeTypeOK, Session
<1>2. SessionsFollow' /\ GateTyped'
  BY <1>1 DEF SystemInv, SessionsFollow, GateTyped
<1>3. checkCalls' = checkCalls \cup Calls(gateSession, K)
  BY DEF GatePublishes
<1>4. \A x \in Calls(gateSession, K) :
         /\ x \in [session : 1 .. gateSession, capability : Policy]
         /\ x.capability \in K /\ x.session = gateSession
  BY <1>1 DEF Calls, NoSession
<1>5. CallsTyped'
  BY <1>3, <1>4, RequestsStayTyped DEF SystemInv, CallsTyped
<1>6. ChecksAreMarked'
  <2>1. \A x \in checkCalls \cup checkReplies : x.capability \in Policy
    BY DEF SystemInv, CallsTyped
  <2> QED
    BY <1>3, <1>4, <2>1 DEF SystemInv, ChecksAreMarked
<1>7. \A r \in checkReplies : r.session = gateSession => r.capability \notin K
  BY <1>1 DEF SystemInv, ChecksAreMarked, CallsTyped, NoSession
<1>8. OneAnswer'
  <2>1. \A r \in checkReplies, x \in checkCalls' :
           r.session = gateSession => ~About(x, r.session, r.capability)
    BY <1>3, <1>4, <1>7 DEF SystemInv, OneAnswer, About
  <2> QED
    BY <2>1 DEF SystemInv, OneAnswer, About
<1>9. \A c \in Policy : atCall'[c] \in {atCall[c], [withdrawn |-> withdrawn, clock |-> clock]}
                        /\ (c \notin K => atCall'[c] = atCall[c])
  BY <1>4 DEF GatePublishes
<1>10. SentBefore'
  BY <1>1, <1>9 DEF SystemInv, SentBefore
<1>11. GrantsAreBacked'
  <2> SUFFICES ASSUME NEW r \in checkReplies', r.status = "GRANTED", r.session = gateSession'
               PROVE  Backed(r.capability)'
    BY DEF GrantsAreBacked
  <2>1. Backed(r.capability) /\ r.capability \in Policy /\ r.capability \notin K
    BY <1>7 DEF SystemInv, GrantsAreBacked, CallsTyped
  <2> QED
    BY <1>1, <1>9, <2>1 DEF Backed, LiveYes
<1> QED
  BY <1>1, <1>2, <1>5, <1>6, <1>8, <1>10, <1>11 DEF SystemInv

LEMMA NoCallMoves ==
    ASSUME SystemInv, ManagerQuiet, GatePublishes,
           UNCHANGED <<gateSession, sessionTopic, checkReplies, inFlight>>,
           pending' \subseteq Policy, queued' \subseteq Policy,
           gateOut'.calls = {}, gateOut'.requested = {}
    PROVE  SystemInv'
<1>1. gateOut'.calls = Calls(gateSession, {})
  BY DEF Calls
<1>2. inFlight' = [c \in Policy |-> IF c \in {} THEN gateSession ELSE inFlight[c]]
  BY DEF SystemInv, GateTyped
<1> QED
  BY <1>1, <1>2, CallsMove

\* The kinds of step the callbacks of the gate are made of.
LEMMA IdleMoves ==
    ASSUME SystemInv, ManagerQuiet, GatePublishes, Idle, UNCHANGED <<sessionTopic, checkReplies>>
    PROVE  SystemInv' /\ gateOut'.authorized = {}
BY NoCallMoves, OutputFields DEF Idle, SystemInv, GateTyped

LEMMA StartChecksMoves ==
    ASSUME SystemInv, ManagerQuiet, GatePublishes, NEW C \in SUBSET Policy, CanCall,
           StartChecks(C), UNCHANGED <<sessionTopic, checkReplies>>
    PROVE  SystemInv' /\ gateOut'.authorized = {}
<1> DEFINE K == Unchecked(C)
<1>1. K \in SUBSET Policy /\ \A c \in K : inFlight[c] = NoSession
  BY DEF Unchecked
<1>2. gateOut' = [NoOutput EXCEPT !.calls = Calls(gateSession, K)]
  BY DEF StartChecks, Calls
<1>3. /\ gateOut'.calls = Calls(gateSession, K) /\ gateOut'.requested = {}
      /\ gateOut'.authorized = {}
  BY <1>2, OutputFields
<1>4. /\ inFlight' = [c \in Policy |-> IF c \in K THEN gateSession ELSE inFlight[c]]
      /\ queued' \subseteq Policy /\ pending' \subseteq Policy /\ UNCHANGED gateSession
      /\ gateSession # NoSession
  BY DEF StartChecks, CanCall, SystemInv, GateTyped
<1> QED
  BY <1>1, <1>3, <1>4, CallsMove

LEMMA StartCheckMoves ==
    ASSUME SystemInv, ManagerQuiet, GatePublishes, NEW c \in Policy,
           StartCheck(c), UNCHANGED <<sessionTopic, checkReplies>>
    PROVE  SystemInv' /\ gateOut'.authorized = {}
<1>1. CASE CanCall
  BY <1>1, StartChecksMoves DEF StartCheck
<1>2. CASE ~CanCall
  BY <1>2, NoCallMoves, OutputFields DEF StartCheck, SystemInv, GateTyped
<1> QED
  BY <1>1, <1>2

(***************************************************************************)
(* _on_session: whatever is on its way belongs to an older session, and    *)
(* no mark of that is left (privacy_gate_node.py:71).                      *)
(***************************************************************************)
LEMMA SessionCalls ==
    ASSUME SystemInv, sessionTopic # NoSession, GateOnSession(sessionTopic)
    PROVE  \E K \in SUBSET Policy :
              /\ inFlight' = [c \in Policy |-> IF c \in K THEN sessionTopic ELSE NoSession]
              /\ gateOut'.calls = Calls(sessionTopic, K)
              /\ gateOut'.requested = {} /\ gateOut'.authorized = {}
              /\ gateSession' = sessionTopic
              /\ pending' \subseteq Policy /\ queued' \subseteq Policy
<1> DEFINE s == sessionTopic
           changed == SessionChanged(s)
           waiting == IF changed THEN {} ELSE queued
           flying == [c \in Policy |-> IF changed THEN NoSession ELSE inFlight[c]]
           K == IF serviceReady THEN {c \in waiting : flying[c] = NoSession} ELSE {}
<1>1. s # gateSession
  BY BoundsAssumption DEF SystemInv, SessionsFollow, ManagerInv, NodeTypeOK, Session
<1>2. flying = [c \in Policy |-> NoSession]
  <2>1. CASE changed
    BY <2>1
  <2>2. CASE ~changed
    <3>1. gateSession = NoSession
      BY <1>1, <2>2 DEF SessionChanged
    <3>2. \A c \in Policy : inFlight[c] = NoSession
      BY <3>1 DEF SystemInv, GateTyped
    <3> QED
      BY <2>2, <3>2
  <2> QED
    BY <2>1, <2>2
<1>3. K \in SUBSET Policy /\ waiting \subseteq Policy
  BY DEF SystemInv, GateTyped
<1>4. /\ gateSession' = s /\ queued' = waiting \ K
      /\ pending' = IF changed THEN {} ELSE pending
      /\ inFlight' = [c \in Policy |-> IF c \in K THEN s ELSE flying[c]]
      /\ gateOut' = [NoOutput EXCEPT !.calls = Calls(s, K)]
  BY DEF GateOnSession, Calls
<1> HIDE DEF changed, waiting, flying, K
<1>5. inFlight' = [c \in Policy |-> IF c \in K THEN s ELSE NoSession]
  BY <1>2, <1>4
<1>6. /\ gateOut'.calls = Calls(s, K)
      /\ gateOut'.requested = {} /\ gateOut'.authorized = {}
  BY <1>4, OutputFields
<1>7. pending' \subseteq Policy /\ queued' \subseteq Policy
  BY <1>3, <1>4 DEF SystemInv, GateTyped
<1> QED
  BY <1>3, <1>4, <1>5, <1>6, <1>7

LEMMA SessionMoves ==
    ASSUME SystemInv, GateTakesSession
    PROVE  SystemInv' /\ gateOut'.authorized = {}
<1> DEFINE s == sessionTopic
<1>1. /\ s # NoSession /\ GateOnSession(s) /\ sessionTopic' = NoSession
      /\ GatePublishes /\ ManagerQuiet /\ UNCHANGED checkReplies
  BY DEF GateTakesSession, GateStep
<1>2. PICK K \in SUBSET Policy :
         /\ inFlight' = [c \in Policy |-> IF c \in K THEN s ELSE NoSession]
         /\ gateOut'.calls = Calls(s, K)
         /\ gateOut'.requested = {} /\ gateOut'.authorized = {}
         /\ gateSession' = s
         /\ pending' \subseteq Policy /\ queued' \subseteq Policy
  BY <1>1, SessionCalls
<1>3. /\ ManagerInv' /\ UNCHANGED <<records, clock, verdicts, withdrawn, session>>
      /\ clock \in Int
  BY <1>1, QuietManager, ClockIsInt DEF SystemInv
<1>4. gateSession \in Nat /\ s \in Nat /\ session \in Nat /\ gateSession < s /\ s <= session
  BY <1>1, BoundsAssumption DEF SystemInv, SessionsFollow, ManagerInv, NodeTypeOK, Session
<1>5. SessionsFollow' /\ GateTyped'
  BY <1>1, <1>2, <1>3, <1>4 DEF SessionsFollow, GateTyped
<1>6. checkCalls' = checkCalls \cup Calls(s, K)
  BY <1>1, <1>2 DEF GatePublishes
<1>7. \A x \in Calls(s, K) :
         /\ x \in [session : 1 .. s, capability : Policy]
         /\ x.capability \in K /\ x.session = s
  BY <1>4 DEF Calls
<1>8. /\ \A x \in checkCalls : /\ x \in [session : 1 .. s, capability : Policy]
                               /\ x.session < s
      /\ \A r \in checkReplies : r.session \in 1 .. s /\ r.session < s /\ r.capability \in Policy
  BY <1>4 DEF SystemInv, CallsTyped
<1>9. CallsTyped'
  <2>1. requestTopic' \in Seq(Capability)
    BY <1>1, <1>2, RequestsStayTyped
  <2> QED
    BY <1>1, <1>2, <1>6, <1>7, <1>8, <2>1 DEF CallsTyped
<1>10. \A r \in checkReplies' : r.session # gateSession'
  BY <1>1, <1>2, <1>4, <1>8
<1>11. ChecksAreMarked'
  <2> SUFFICES ASSUME NEW x \in checkCalls' \cup checkReplies', x.session = gateSession'
               PROVE  inFlight'[x.capability] = gateSession'
    BY DEF ChecksAreMarked
  <2>1. x \in Calls(s, K)
    BY <1>1, <1>2, <1>4, <1>6, <1>8
  <2> QED
    BY <1>2, <1>7, <2>1
<1>12. OneAnswer' /\ GrantsAreBacked'
  BY <1>10 DEF OneAnswer, GrantsAreBacked
<1>13. SentBefore'
  <2>1. \A c \in Policy : atCall'[c] \in {atCall[c], [withdrawn |-> withdrawn, clock |-> clock]}
    BY <1>1 DEF GatePublishes
  <2> QED
    BY <1>3, <2>1 DEF SystemInv, SentBefore
<1> QED
  BY <1>2, <1>3, <1>5, <1>9, <1>11, <1>12, <1>13 DEF SystemInv

(***************************************************************************)
(* _on_check_complete (privacy_gate_node.py:129).                          *)
(***************************************************************************)
Good == \A c \in gateOut'.authorized : Backed(c)

LEMMA ReplyOutput ==
    ASSUME SystemInv, NEW c \in Policy, NEW status, OnReply(c, status)
    PROVE  /\ pending' \subseteq Policy /\ queued' \subseteq Policy
           /\ gateOut'.calls = {}
           /\ gateOut'.requested = {} \/ gateOut'.requested = {c}
           /\ \/ gateOut'.authorized = {}
              \/ gateOut'.authorized = {c} /\ status = "GRANTED"
<1>1. pending \subseteq Policy /\ queued \subseteq Policy
  BY DEF SystemInv, GateTyped
<1>2. CASE Decide(status) = "ALLOW" /\ pending' = pending \ {c} /\ UNCHANGED queued
           /\ gateOut' = [NoOutput EXCEPT !.authorized = {c}]
  <2>1. status = "GRANTED"
    BY <1>2 DEF Decide
  <2> QED
    BY <1>1, <1>2, <2>1, OutputFields
<1>3. CASE pending' = pending \cup {c} /\ UNCHANGED queued
           /\ gateOut' = [NoOutput EXCEPT !.requested = {c}]
  BY <1>1, <1>3, OutputFields
<1>4. CASE pending' = pending \cup {c} /\ UNCHANGED queued /\ gateOut' = NoOutput
  BY <1>1, <1>4, OutputFields
<1>5. CASE Block(c)
  BY <1>1, <1>5, OutputFields DEF Block
<1> QED
  BY <1>2, <1>3, <1>4, <1>5 DEF OnReply

LEMMA CompleteCases ==
    ASSUME NEW s, NEW c, NEW status, OnCheckComplete(s, c, status)
    PROVE  \/ Idle
           \/ /\ inFlight[c] = s /\ inFlight' = [inFlight EXCEPT ![c] = NoSession]
              /\ \/ s = gateSession /\ OnReply(c, status)
                 \/ gateOut' = NoOutput /\ UNCHANGED <<pending, queued>>
BY DEF OnCheckComplete

LEMMA ReplyMoves ==
    ASSUME SystemInv, GateTakesReply
    PROVE  SystemInv' /\ Good
<1>1. PICK r \in checkReplies :
         /\ OnCheckComplete(r.session, r.capability, r.status)
         /\ checkReplies' = checkReplies \ {r}
         /\ GateStep
         /\ UNCHANGED <<sessionTopic, eventTopic, asks>>
  BY DEF GateTakesReply
<1> DEFINE c == r.capability
           s == r.session
<1>2. /\ GatePublishes /\ ManagerQuiet /\ UNCHANGED <<gateSession, sessionTopic>>
      /\ c \in Policy /\ s \in 1 .. gateSession
  BY <1>1 DEF GateStep, OnCheckComplete, SystemInv, CallsTyped
<1>3. /\ pending' \subseteq Policy /\ queued' \subseteq Policy
      /\ gateOut'.calls = {}
      /\ gateOut'.requested = {} \/ gateOut'.requested = {c}
      /\ \/ gateOut'.authorized = {}
         \/ gateOut'.authorized = {c} /\ r.status = "GRANTED" /\ s = gateSession
  <2>1. CASE gateOut' = NoOutput /\ UNCHANGED <<pending, queued>>
    BY <2>1, OutputFields DEF SystemInv, GateTyped
  <2>2. CASE s = gateSession /\ OnReply(c, r.status)
    BY <1>2, <2>2, ReplyOutput
  <2> QED
    BY <1>1, <2>1, <2>2, CompleteCases DEF Idle
<1>4. Good
  <2>1. r.status = "GRANTED" /\ s = gateSession => Backed(c)
    BY DEF SystemInv, GrantsAreBacked
  <2> QED
    BY <1>3, <2>1 DEF Good
<1>5. /\ ManagerInv' /\ UNCHANGED <<records, clock, verdicts, withdrawn, session>>
  BY <1>2, QuietManager DEF SystemInv
<1>6. /\ checkCalls' = checkCalls
      /\ \A d \in Policy : atCall'[d] = atCall[d]
  BY <1>2, <1>3 DEF GatePublishes
<1>7. \/ inFlight' = inFlight
      \/ inFlight' = [inFlight EXCEPT ![c] = NoSession] /\ inFlight[c] = s
  BY <1>1, CompleteCases DEF Idle
<1>8. SessionsFollow' /\ GateTyped'
  BY <1>2, <1>3, <1>5, <1>7 DEF SystemInv, SessionsFollow, GateTyped
<1>9. CallsTyped'
  <2>1. requestTopic' \in Seq(Capability)
    BY <1>2, <1>3, RequestsStayTyped
  <2> QED
    BY <1>1, <1>2, <1>6, <2>1 DEF SystemInv, CallsTyped
<1>10. ChecksAreMarked'
  <2> SUFFICES ASSUME NEW x \in checkCalls' \cup checkReplies', x.session = gateSession'
               PROVE  inFlight'[x.capability] = gateSession'
    BY DEF ChecksAreMarked
  <2>1. (x \in checkReplies /\ x # r) \/ x \in checkCalls
    BY <1>1, <1>6
  <2>2. inFlight[x.capability] = gateSession /\ x.capability \in Policy
    BY <1>1, <1>2, <1>6 DEF SystemInv, ChecksAreMarked, CallsTyped
  <2>3. CASE inFlight' = inFlight
    BY <1>2, <2>2, <2>3
  <2>4. CASE inFlight' = [inFlight EXCEPT ![c] = NoSession] /\ inFlight[c] = s
    <3>1. s = gateSession
      BY <1>2, <2>4 DEF SystemInv, GateTyped, NoSession
    <3>2. ASSUME x \in checkReplies, x # r PROVE x.capability # c
      <4>1. ~About(x, s, c)
        BY <3>1, <3>2 DEF SystemInv, OneAnswer
      <4> QED
        BY <1>2, <3>1, <4>1 DEF About
    <3>3. ASSUME x \in checkCalls PROVE x.capability # c
      <4>1. ~About(x, s, c)
        BY <3>1, <3>3 DEF SystemInv, OneAnswer
      <4> QED
        BY <1>2, <3>1, <4>1 DEF About
    <3>4. x.capability # c
      BY <2>1, <3>2, <3>3
    <3> QED
      BY <1>2, <2>2, <2>4, <3>4 DEF SystemInv, GateTyped
  <2> QED
    BY <1>7, <2>3, <2>4
<1>11. OneAnswer'
  BY <1>1, <1>2, <1>6 DEF SystemInv, OneAnswer, About
<1>12. SentBefore'
  BY <1>5, <1>6 DEF SystemInv, SentBefore
<1>13. GrantsAreBacked'
  <2> SUFFICES ASSUME NEW q \in checkReplies', q.status = "GRANTED", q.session = gateSession'
               PROVE  Backed(q.capability)'
    BY DEF GrantsAreBacked
  <2>1. Backed(q.capability) /\ q.capability \in Policy
    BY <1>1, <1>2 DEF SystemInv, GrantsAreBacked, CallsTyped
  <2> QED
    BY <1>2, <1>5, <1>6, <2>1 DEF Backed, LiveYes
<1> QED
  BY <1>4, <1>5, <1>8, <1>9, <1>10, <1>11, <1>12, <1>13 DEF SystemInv

-----------------------------------------------------------------------------
(***************************************************************************)
(* Every step of the system.                                               *)
(***************************************************************************)
LEMMA RequestTaken ==
    ASSUME SystemInv, requestTopic # <<>>
    PROVE  Head(requestTopic) \in Capability /\ Tail(requestTopic) \in Seq(Capability)
<1>1. requestTopic \in Seq(Capability)
  BY DEF SystemInv, CallsTyped
<1> QED
  BY <1>1, HeadTailProperties

LEMMA ManagerSilent ==
    ASSUME GateQuiet
    PROVE  /\ UNCHANGED <<gateSession, pending, queued, inFlight>>
           /\ gateOut'.authorized = {} /\ Good
BY OutputFields DEF GateQuiet, Good

\* The manager handles anything but a check.
LEMMA ManagerStepMoves ==
    ASSUME SystemInv, ManagerStep, Kinds, requestTopic' \in Seq(Capability),
           UNCHANGED <<checkCalls, checkReplies>>
    PROVE  SystemInv' /\ Good
<1>1. UNCHANGED <<gateSession, pending, queued, inFlight, atCall>> /\ ManagerPublishes /\ Good
  BY ManagerSilent DEF ManagerStep
<1> QED
  BY <1>1, ManagerMoves

LEMMA ManagerTakesMoves ==
    ASSUME SystemInv, ManagerTakes
    PROVE  SystemInv' /\ Good
<1>1. CASE ManagerTakesRequest
  <2>1. /\ requestTopic # <<>> /\ OnConsentRequest(Head(requestTopic))
        /\ ManagerStep /\ UNCHANGED <<clock, up, config, checkCalls, checkReplies>>
        /\ requestTopic' = Tail(requestTopic)
    BY <1>1 DEF ManagerTakesRequest, ManagerStep
  <2>2. Kinds
    BY <2>1, RequestTaken, ConsentRequestKind DEF SystemInv, Kinds
  <2> QED
    BY <2>1, <2>2, RequestTaken, ManagerStepMoves
<1>2. CASE ManagerTakesDecision
  <2>1. /\ OnDecision(Head(decisionTopic))
        /\ ManagerStep /\ UNCHANGED <<clock, config, checkCalls, checkReplies, requestTopic>>
    BY <1>2 DEF ManagerTakesDecision, ManagerStep
  <2>2. Kinds
    BY <2>1, DecisionKind DEF SystemInv, Kinds
  <2> QED
    BY <2>1, <2>2, ManagerStepMoves DEF SystemInv, CallsTyped
<1>3. CASE ManagerTakesCheck
  <2>1. Good
    BY <1>3, ManagerSilent DEF ManagerTakesCheck, ManagerStep
  <2> QED
    BY <1>3, <2>1, CheckMoves
<1> QED
  BY <1>1, <1>2, <1>3 DEF ManagerTakes

LEMMA OutsideMoves ==
    ASSUME SystemInv, ParticipantRevokes \/ ExperimenterResets \/ ManagerRestarts
    PROVE  SystemInv' /\ Good
<1>1. session \in 1 .. session
  BY BoundsAssumption DEF SystemInv, ManagerInv, NodeTypeOK, Session
<1>2. CASE ParticipantRevokes
  <2>1. PICK c \in Policy : OnRevoke(session, c)
    BY <1>2 DEF ParticipantRevokes
  <2>2. ManagerStep /\ UNCHANGED <<clock, config, requestTopic, checkCalls, checkReplies>>
    BY <1>2 DEF ParticipantRevokes, ManagerStep
  <2>3. Kinds
    BY <1>1, <2>1, <2>2, ServiceRevokeKind, PolicyAssumption DEF SystemInv, Kinds
  <2> QED
    BY <2>2, <2>3, ManagerStepMoves DEF SystemInv, CallsTyped
<1>3. CASE ExperimenterResets
  <2>1. /\ OnReset(session) /\ ManagerStep /\ up
        /\ UNCHANGED <<clock, up, config, requestTopic, checkCalls, checkReplies>>
    BY <1>3 DEF ExperimenterResets, ManagerStep
  <2>2. Kinds
    BY <2>1, ResetKind DEF SystemInv, Kinds
  <2> QED
    BY <2>1, <2>2, ManagerStepMoves DEF SystemInv, CallsTyped
<1>4. CASE ManagerRestarts
  <2>1. /\ Restart /\ GateQuiet /\ ManagerPublishes
        /\ checkCalls' = {} /\ requestTopic' = <<>>
        /\ UNCHANGED <<clock, config, checkReplies, atCall>>
    BY <1>4 DEF ManagerRestarts
  <2>2. Kinds
    BY <2>1, RestartKind DEF SystemInv, Kinds
  <2>3. requestTopic' \in Seq(Capability) /\ checkCalls' \subseteq checkCalls
    BY <2>1
  <2> QED
    BY <2>1, <2>2, <2>3, ManagerSilent, ManagerMoves
<1> QED
  BY <1>2, <1>3, <1>4

LEMMA RestMoves ==
    ASSUME SystemInv,
           \/ TerminalTakesPrompt \/ ParticipantAnswers \/ TerminalInputCloses
           \/ ClockTicks \/ ManagerCrashes
    PROVE  SystemInv' /\ Good
<1>1. session \in Nat /\ clock \in Int
      /\ gateSession \in 0 .. session
      /\ sessionTopic \in {NoSession} \cup (gateSession + 1) .. session
      /\ requestTopic \in Seq(Capability)
  BY ClockIsInt, BoundsAssumption
     DEF SystemInv, SessionsFollow, CallsTyped, ManagerInv, NodeTypeOK, Session
<1>2. CASE TerminalTakesPrompt \/ ParticipantAnswers \/ TerminalInputCloses
  <2>1. /\ ManagerQuiet /\ GateQuiet
        /\ UNCHANGED <<sessionTopic, requestTopic, checkCalls, checkReplies, atCall>>
    BY <1>2 DEF TerminalTakesPrompt, ParticipantAnswers, TerminalInputCloses, Elsewhere
  <2>2. ManagerInv' /\ UNCHANGED <<clock, verdicts, withdrawn, session>>
    BY <2>1, QuietManager DEF SystemInv
  <2>3. UNCHANGED <<gateSession, pending, queued, inFlight>> /\ Good
    BY <2>1, ManagerSilent
  <2>4. SessionsFollow' /\ clock <= clock'
    BY <1>1, <2>1, <2>2, <2>3 DEF SessionsFollow
  <2> QED
    BY <1>1, <2>1, <2>2, <2>3, <2>4, GateUntouched
<1>3. CASE ClockTicks
  <2>1. /\ ClockMoves /\ GateQuiet /\ clock' > clock
        /\ UNCHANGED <<config, sessionTopic, requestTopic, checkCalls, checkReplies, atCall>>
    BY <1>3 DEF ClockTicks, channels
  <2>2. ManagerInv' /\ UNCHANGED <<verdicts, withdrawn, session>>
    BY <2>1, KindsKeepInv DEF SystemInv, ClockMoves, TimePasses, Unchanged
  <2>3. UNCHANGED <<gateSession, pending, queued, inFlight>> /\ Good
    BY <2>1, ManagerSilent
  <2>4. clock' \in Int
    BY <2>2, BoundsAssumption DEF ManagerInv, StoreInv, StoreTypeOK, Time
  <2>5. SessionsFollow' /\ clock <= clock'
    BY <1>1, <2>1, <2>2, <2>3, <2>4 DEF SessionsFollow
  <2> QED
    BY <1>1, <2>1, <2>2, <2>3, <2>5, GateUntouched
<1>4. CASE ManagerCrashes
  <2>1. /\ Dies /\ GateQuiet
        /\ UNCHANGED <<sessionTopic, requestTopic, checkCalls, checkReplies, atCall>>
    BY <1>4 DEF ManagerCrashes, Crash, Dies, channels
  <2>2. ManagerInv' /\ UNCHANGED <<clock, verdicts, withdrawn, session>>
    BY <2>1, KindsKeepInv DEF SystemInv, Dies, Die
  <2>3. UNCHANGED <<gateSession, pending, queued, inFlight>> /\ Good
    BY <2>1, ManagerSilent
  <2>4. SessionsFollow' /\ clock <= clock'
    BY <1>1, <2>1, <2>2, <2>3 DEF SessionsFollow
  <2> QED
    BY <1>1, <2>1, <2>2, <2>3, <2>4, GateUntouched
<1> QED
  BY <1>2, <1>3, <1>4

LEMMA GateTakesMoves ==
    ASSUME SystemInv, GateTakes \/ GateTakesAsk
    PROVE  SystemInv' /\ Good
<1>1. CASE GateTakesSession
  BY <1>1, SessionMoves DEF Good
<1>2. CASE GateTakesReply
  BY <1>2, ReplyMoves
<1>3. CASE GateTakesEvent
  <2> DEFINE e == Head(eventTopic)
  <2>1. /\ GatePublishes /\ ManagerQuiet /\ UNCHANGED <<sessionTopic, checkReplies>>
        /\ OnConsentEvent(e.session, e.type, e.capability)
    BY <1>3 DEF GateTakesEvent, GateStep
  <2>2. CASE Idle
    BY <2>1, <2>2, IdleMoves DEF Good
  <2>3. CASE e.capability \in pending /\ StartCheck(e.capability)
    <3>1. e.capability \in Policy
      BY <2>3 DEF SystemInv, GateTyped
    <3> QED
      BY <2>1, <2>3, <3>1, StartCheckMoves DEF Good
  <2> QED
    BY <2>1, <2>2, <2>3 DEF OnConsentEvent
<1>4. CASE GateRetries
  <2>1. /\ GatePublishes /\ ManagerQuiet /\ UNCHANGED <<sessionTopic, checkReplies>>
        /\ CanCall /\ StartChecks(queued) /\ queued \in SUBSET Policy
    BY <1>4 DEF GateRetries, RetryQueuedChecks, GateStep, SystemInv, GateTyped
  <2> QED
    BY <2>1, StartChecksMoves DEF Good
<1>5. CASE GateDiscovers
  <2>1. /\ GatePublishes /\ ManagerQuiet /\ UNCHANGED <<sessionTopic, checkReplies>> /\ Idle
    BY <1>5 DEF GateDiscovers, ServiceSeen, GateStep
  <2> QED
    BY <2>1, IdleMoves DEF Good
<1>6. CASE GateTakesAsk
  <2>1. PICK c \in Capability : OnCapabilityRequest(c)
    BY <1>6 DEF GateTakesAsk
  <2>2. GatePublishes /\ ManagerQuiet /\ UNCHANGED <<sessionTopic, checkReplies>>
    BY <1>6 DEF GateTakesAsk, GateStep
  <2>3. CASE Block(c) /\ UNCHANGED <<gateSession, inFlight>>
    <3>1. pending' \subseteq Policy /\ queued' \subseteq Policy
          /\ gateOut'.calls = {} /\ gateOut'.requested = {} /\ gateOut'.authorized = {}
      BY <2>3, OutputFields DEF Block, SystemInv, GateTyped
    <3> QED
      BY <2>2, <2>3, <3>1, NoCallMoves DEF Good
  <2>4. CASE Idle
    BY <2>2, <2>4, IdleMoves DEF Good
  <2>5. CASE c \in Loaded /\ StartCheck(c)
    <3>1. c \in Policy
      BY <2>5 DEF Loaded
    <3> QED
      BY <2>2, <2>5, <3>1, StartCheckMoves DEF Good
  <2> QED
    BY <2>1, <2>3, <2>4, <2>5 DEF OnCapabilityRequest
<1> QED
  BY <1>1, <1>2, <1>3, <1>4, <1>5, <1>6 DEF GateTakes

LEMMA SystemStarts == Init => SystemInv
<1> SUFFICES ASSUME Init
             PROVE  SystemInv
  OBVIOUS
<1>1. ManagerInv /\ session = 1
  BY ManagerStarts DEF Init, ManagerInit
<1>2. /\ gateSession = 0 /\ sessionTopic = 1 /\ pending = {} /\ queued = {}
      /\ inFlight = [c \in Policy |-> NoSession]
      /\ requestTopic = <<>> /\ checkCalls = {} /\ checkReplies = {}
      /\ atCall = [c \in Policy |-> [withdrawn |-> {}, clock |-> 0]]
      /\ clock = 0
  BY DEF Init, GateInit, NoSession, ManagerInit
<1>3. SessionsFollow /\ GateTyped /\ CallsTyped /\ SentBefore
  BY <1>1, <1>2 DEF SessionsFollow, GateTyped, CallsTyped, SentBefore
<1>4. ChecksAreMarked /\ OneAnswer /\ GrantsAreBacked
  BY <1>2 DEF ChecksAreMarked, OneAnswer, GrantsAreBacked
<1> QED
  BY <1>1, <1>3, <1>4 DEF SystemInv

LEMMA StepMoves ==
    ASSUME SystemInv, Next
    PROVE  SystemInv' /\ Good
BY ManagerTakesMoves, GateTakesMoves, OutsideMoves, RestMoves DEF Next, Outside

LEMMA StutterMoves ==
    ASSUME SystemInv, UNCHANGED vars
    PROVE  SystemInv'
<1>1. /\ UNCHANGED managerVars /\ UNCHANGED <<verdicts, withdrawn, clock, session>>
      /\ UNCHANGED <<gateSession, pending, queued, inFlight, sessionTopic>>
      /\ UNCHANGED <<requestTopic, checkCalls, checkReplies, atCall>>
  BY DEF vars, managerVars, storeVars, gateVars, channels
<1>2. ManagerInv'
  BY <1>1, KindsKeepInv DEF SystemInv
<1>3. SessionsFollow' /\ clock <= clock'
  BY <1>1, ClockIsInt DEF SystemInv, SessionsFollow
<1> QED
  BY <1>1, <1>2, <1>3, GateUntouched DEF SystemInv, CallsTyped

(***************************************************************************)
(* The inductive invariant of manager, gate and the topics between them.   *)
(***************************************************************************)
THEOREM SystemInvariant == Spec => []SystemInv
<1>1. SystemInv /\ [Next]_vars => SystemInv'
  BY StepMoves, StutterMoves
<1> QED
  BY <1>1, SystemStarts, PTL DEF Spec

(***************************************************************************)
(* However messages are delayed, and whatever is revoked, reset, crashed   *)
(* or restarted meanwhile, the gate authorises a capability only on a yes  *)
(* of its session that counted when it sent the check                      *)
(* (privacy_gate_node.py, _on_check_complete).                             *)
(***************************************************************************)
THEOREM AuthorizedOnLiveConsentAlways == Spec => AuthorizedOnLiveConsent
<1>1. SystemInv /\ [Next]_vars =>
        [\A c \in gateOut'.authorized :
            \E v \in verdicts : LiveYes(v, c) /\ InTimeAt(v, atCall[c].clock)]_vars
  BY StepMoves DEF Good, Backed
<1> QED
  BY <1>1, SystemInvariant, PTL DEF Spec, AuthorizedOnLiveConsent

-----------------------------------------------------------------------------
(***************************************************************************)
(* The types of the system: beside the invariant, what reaches the screen. *)
(***************************************************************************)
PromptRecord ==
    [topic : {"prompt"}, request : RequestId, session : Session, capability : Capability]

TerminalTyped ==
    /\ promptTopic = NoPrompt \/ promptTopic \in PromptRecord
    /\ showing = NoPrompt \/ showing \in PromptRecord
    /\ answered \subseteq RequestId
    /\ asks \in 0 .. MaxAsks

LEMMA PublishedPromptIsTyped ==
    ASSUME ManagerInv', ManagerPublishes, TerminalTyped
    PROVE  promptTopic' = NoPrompt \/ promptTopic' \in PromptRecord
<1>1. CASE PublishedOn("prompt") = {}
  BY <1>1 DEF ManagerPublishes, LatestOn, TerminalTyped
<1>2. CASE PublishedOn("prompt") # {}
  <2> DEFINE i == CHOOSE j \in PublishedOn("prompt") : TRUE
  <2>1. i \in PublishedOn("prompt") /\ promptTopic' = outbox'[i]
    BY <1>2 DEF ManagerPublishes, LatestOn
  <2>2. promptTopic' \in Message /\ promptTopic'.topic = "prompt"
    BY <2>1, ElementOfSeq, LenProperties DEF PublishedOn, ManagerInv, NodeTypeOK
  <2> QED
    BY <2>2 DEF Message, PromptRecord
<1> QED
  BY <1>1, <1>2

LEMMA TerminalMoves ==
    ASSUME SystemInv', TerminalTyped, [Next]_vars
    PROVE  TerminalTyped'
<1>1. ManagerInv'
  BY DEF SystemInv
<1>2. CASE \/ ManagerTakes \/ ParticipantRevokes \/ ExperimenterResets \/ ManagerRestarts
  <2>1. ManagerPublishes /\ UNCHANGED <<showing, answered, asks>>
    BY <1>2 DEF ManagerTakes, ManagerTakesRequest, ManagerTakesDecision, ManagerTakesCheck,
                ParticipantRevokes, ExperimenterResets, ManagerRestarts, ManagerStep, terminalVars
  <2> QED
    BY <1>1, <2>1, PublishedPromptIsTyped DEF TerminalTyped
<1>3. CASE GateTakes \/ GateTakesAsk
  <2>1. UNCHANGED <<promptTopic, showing, answered>>
    BY <1>3 DEF GateTakes, GateTakesSession, GateTakesEvent, GateTakesReply, GateRetries,
                GateDiscovers, GateTakesAsk, GateStep, terminalVars
  <2>2. UNCHANGED asks \/ (asks < MaxAsks /\ asks' = asks + 1)
    BY <1>3 DEF GateTakes, GateTakesSession, GateTakesEvent, GateTakesReply, GateRetries,
                GateDiscovers, GateTakesAsk
  <2> QED
    BY <2>1, <2>2, MaxAsksAssumption DEF TerminalTyped
<1>4. CASE TerminalTakesPrompt \/ TerminalInputCloses
  BY <1>4 DEF TerminalTakesPrompt, TerminalInputCloses, Elsewhere, TerminalTyped
<1>5. CASE ParticipantAnswers
  <2>1. showing # NoPrompt /\ showing' = NoPrompt /\ UNCHANGED <<promptTopic, asks>>
        /\ answered' = answered \cup {showing.request}
    BY <1>5 DEF ParticipantAnswers, Elsewhere
  <2>2. showing.request \in RequestId
    BY <2>1 DEF TerminalTyped, PromptRecord
  <2> QED
    BY <2>1, <2>2 DEF TerminalTyped
<1>6. CASE ClockTicks \/ ManagerCrashes \/ UNCHANGED vars
  BY <1>6 DEF ClockTicks, ManagerCrashes, vars, channels, terminalVars, TerminalTyped
<1> QED
  BY <1>2, <1>3, <1>4, <1>5, <1>6 DEF Next, Outside

LEMMA TerminalStarts == Init => TerminalTyped
<1> SUFFICES ASSUME Init
             PROVE  TerminalTyped
  OBVIOUS
<1>1. /\ promptTopic \in {NoPrompt, Prompt(<<1, AllCapabilities>>, 1, AllCapabilities)}
      /\ showing = NoPrompt /\ answered = {} /\ asks = 0
  BY DEF Init
<1>2. 1 \in Session /\ AllCapabilities \in Capability /\ <<1, AllCapabilities>> \in RequestId
  BY FirstSessionAssumption, BoundsAssumption, AllCapabilitiesAssumption
     DEF Session, RequestId
<1>3. Prompt(<<1, AllCapabilities>>, 1, AllCapabilities) \in PromptRecord
  BY <1>2 DEF Prompt, PromptRecord
<1> QED
  BY <1>1, <1>3, MaxAsksAssumption DEF TerminalTyped

(***************************************************************************)
(* Every step keeps manager, gate, terminal and topics well typed.         *)
(***************************************************************************)
THEOREM SystemTypeInvariant == Spec => []SystemTypeOK
<1>1. TerminalTyped /\ SystemInv' /\ [Next]_vars => TerminalTyped'
  BY TerminalMoves
<1>2. SystemInv /\ TerminalTyped => SystemTypeOK
  <2> SUFFICES ASSUME SystemInv, TerminalTyped
               PROVE  SystemTypeOK
    OBVIOUS
  <2>1. ManagerTypeOK
    <3>1. \A i \in DOMAIN outbox : outbox[i] \in Message
      BY DEF SystemInv, ManagerInv, NodeTypeOK
    <3> QED
      BY <3>1, InvIsStoreInv DEF SystemInv, ManagerInv, NodeTypeOK, StaticTypeOK, ManagerTypeOK
  <2>2. session \in 1 .. MaxSession /\ MaxSession \in Nat /\ gateSession \in 0 .. session
        /\ sessionTopic \in {NoSession} \cup (gateSession + 1) .. session
    BY BoundsAssumption DEF SystemInv, SessionsFollow, ManagerInv, NodeTypeOK, Session
  <2>3. gateSession \in 0 .. MaxSession /\ sessionTopic \in 0 .. MaxSession
        /\ 1 .. gateSession \subseteq Session
    BY <2>2 DEF Session, NoSession
  <2>4. inFlight \in [Policy -> 0 .. MaxSession] /\ pending \subseteq Policy /\ queued \subseteq Policy
    BY <2>2, <2>3 DEF SystemInv, GateTyped, NoSession
  <2>5. \A r \in checkCalls \cup checkReplies : r.session \in Session /\ r.capability \in Policy
    BY <2>3 DEF SystemInv, CallsTyped
  <2>6. PromptMessage \subseteq PromptRecord
    BY DEF PromptMessage, TerminalTyped
  <2> QED
    BY <2>1, <2>3, <2>4, <2>5, <2>6 DEF SystemTypeOK, TerminalTyped, PromptRecord
<1> QED
  BY <1>1, <1>2, SystemInvariant, TerminalStarts, PTL DEF Spec

-----------------------------------------------------------------------------
(***************************************************************************)
(* One session of the dynamic condition.  A capability the gate waits for  *)
(* is in one place at a time: asked about on /consent/request, open at the *)
(* manager, decided on /consent/event, being checked, or queued for a      *)
(* check.  So no check ever finds the request open, and the news of an     *)
(* answer always finds the gate waiting.                                   *)
(***************************************************************************)
OneDynamicSession ==
    /\ Disturbances \cap {"reset", "crash"} = {}
    /\ \A f \in Configurations : f.condition = "dynamic" /\ f.policyLoads

\* What a topic says about capabilities; f takes a message to its capability.
Distinct(q, f) == \A i, j \in DOMAIN q : f[q[i]] = f[q[j]] => i = j
Carries(q, f, c) == \E i \in DOMAIN q : f[q[i]] = c

NewsEvent == [topic : {"event"}, type : {"consent_decided"}, session : {1},
              capability : Policy, decision : Decision]

Requested == [c \in Policy |-> c]
DecidedOf == [e \in NewsEvent |-> e.capability]

Asked(c) == Carries(requestTopic, Requested, c)
News(c) == Carries(eventTopic, DecidedOf, c)
Now(c) == records[<<session, c>>].status
Askable == {"UNKNOWN", "EXPIRED"}
Checked(c) == inFlight[c] # NoSession
Rests(c) == c \in pending /\ ~Checked(c) /\ c \notin queued

Fits(r, c) == /\ r.status # "PENDING"
              /\ r.status \in Askable => Now(c) \in Askable

OneWakeUp(c) ==
    /\ Asked(c) => Rests(c) /\ ~News(c) /\ Now(c) \in Askable
    /\ Now(c) = "PENDING" => Rests(c) /\ ~News(c)
    /\ News(c) => Rests(c)
    /\ Checked(c) => serviceReady = TRUE /\ c \notin queued
    /\ c \in pending => \/ Asked(c) \/ Now(c) = "PENDING" \/ News(c)
                        \/ Checked(c) \/ c \in queued
    /\ \A r \in checkReplies : r.capability = c => Fits(r, c)

OneSession == up = TRUE /\ session = 1 /\ Dynamic /\ PolicyLoads

GateJoined == pending # {} => gateSession = 1

RequestedInPast ==
    \A k \in Key : records[k].status = "PENDING" => records[k].requested <= clock

TopicsSayOnce ==
    /\ requestTopic \in Seq(Policy) /\ Distinct(requestTopic, Requested)
    /\ eventTopic \in Seq(NewsEvent) /\ Distinct(eventTopic, DecidedOf)

WakeInv ==
    /\ OneSession /\ GateJoined /\ RequestedInPast /\ TopicsSayOnce
    /\ \A c \in Policy : OneWakeUp(c)

-----------------------------------------------------------------------------
LEMMA TailCarries ==
    ASSUME NEW M, NEW q \in Seq(M), q # <<>>, NEW f, Distinct(q, f)
    PROVE  /\ Head(q) \in M /\ Tail(q) \in Seq(M) /\ Distinct(Tail(q), f)
           /\ Carries(q, f, f[Head(q)])
           /\ \A c : Carries(Tail(q), f, c) <=> Carries(q, f, c) /\ c # f[Head(q)]
<1> DEFINE n == Len(q)
           t == Tail(q)
<1>1. /\ n \in Nat /\ n >= 1 /\ DOMAIN q = 1 .. n /\ Head(q) = q[1] /\ Head(q) \in M
      /\ t \in Seq(M) /\ DOMAIN t = 1 .. n - 1
      /\ \A i \in 1 .. n - 1 : t[i] = q[i + 1]
  <2>1. n \in Nat /\ DOMAIN q = 1 .. n /\ n # 0
    BY EmptySeq, LenProperties
  <2>2. Head(q) \in M /\ t \in Seq(M) /\ Len(t) = n - 1
        /\ \A i \in 1 .. Len(t) : t[i] = q[i + 1]
    BY HeadTailProperties
  <2>3. DOMAIN t = 1 .. n - 1
    BY <2>2, LenProperties
  <2>4. Head(q) = q[1]
    OBVIOUS
  <2> HIDE DEF n, t
  <2> QED
    BY <2>1, <2>2, <2>3, <2>4
<1> HIDE DEF n, t
<1>2. Distinct(t, f)
  <2> SUFFICES ASSUME NEW i \in 1 .. n - 1, NEW j \in 1 .. n - 1, f[t[i]] = f[t[j]]
               PROVE  i = j
    BY <1>1 DEF Distinct
  <2>1. i + 1 \in 1 .. n /\ j + 1 \in 1 .. n /\ f[q[i + 1]] = f[q[j + 1]]
    BY <1>1
  <2>2. i + 1 = j + 1
    BY <1>1, <2>1 DEF Distinct
  <2> QED
    BY <1>1, <2>2
<1>3. 1 \in DOMAIN q /\ Carries(q, f, f[Head(q)])
  <2>1. 1 \in DOMAIN q
    BY <1>1
  <2> QED
    BY <1>1, <2>1 DEF Carries
<1>4. ASSUME NEW c, Carries(t, f, c) PROVE Carries(q, f, c) /\ c # f[Head(q)]
  <2>1. PICK i \in 1 .. n - 1 : f[t[i]] = c
    BY <1>1, <1>4 DEF Carries
  <2>2. i + 1 \in 1 .. n /\ f[q[i + 1]] = c /\ i + 1 # 1
    BY <1>1, <2>1
  <2>3. f[q[1]] # c
    BY <1>1, <1>3, <2>2 DEF Distinct
  <2> QED
    BY <1>1, <2>2, <2>3 DEF Carries
<1>5. ASSUME NEW c, Carries(q, f, c), c # f[Head(q)] PROVE Carries(t, f, c)
  <2>1. PICK i \in 1 .. n : f[q[i]] = c
    BY <1>1, <1>5 DEF Carries
  <2>2. i # 1
    BY <1>1, <1>5, <2>1
  <2>3. i - 1 \in 1 .. n - 1 /\ (i - 1) + 1 = i
    BY <1>1, <2>2
  <2>4. t[i - 1] = q[i]
    BY <1>1, <2>3
  <2> QED
    BY <1>1, <2>1, <2>3, <2>4 DEF Carries
<1> QED
  BY <1>1, <1>2, <1>3, <1>4, <1>5 DEF t

LEMMA AppendCarries ==
    ASSUME NEW M, NEW q \in Seq(M), NEW x \in M, NEW f, Distinct(q, f), ~Carries(q, f, f[x])
    PROVE  /\ Append(q, x) \in Seq(M) /\ Distinct(Append(q, x), f)
           /\ \A c : Carries(Append(q, x), f, c) <=> Carries(q, f, c) \/ c = f[x]
<1> DEFINE n == Len(q)
           t == Append(q, x)
<1>1. /\ n \in Nat /\ DOMAIN q = 1 .. n /\ t \in Seq(M) /\ DOMAIN t = 1 .. n + 1
      /\ t[n + 1] = x /\ \A i \in 1 .. n : t[i] = q[i]
  <2>1. n \in Nat /\ DOMAIN q = 1 .. n
    BY LenProperties
  <2>2. t \in Seq(M) /\ Len(t) = n + 1 /\ t[n + 1] = x /\ \A i \in 1 .. n : t[i] = q[i]
    BY AppendProperties
  <2>3. DOMAIN t = 1 .. n + 1
    BY <2>2, LenProperties
  <2> HIDE DEF n, t
  <2> QED
    BY <2>1, <2>2, <2>3
<1> HIDE DEF n, t
<1>2. \A i \in 1 .. n : f[q[i]] # f[x]
  BY <1>1 DEF Carries
<1>3. \A i \in 1 .. n + 1 : i \in 1 .. n \/ i = n + 1
  BY <1>1
<1>4. 1 .. n \subseteq 1 .. n + 1 /\ n + 1 \in 1 .. n + 1
  BY <1>1
<1>5. Distinct(t, f)
  BY <1>1, <1>2, <1>3 DEF Distinct
<1>6. \A c : Carries(t, f, c) <=> Carries(q, f, c) \/ c = f[x]
  BY <1>1, <1>3, <1>4 DEF Carries
<1> QED
  BY <1>1, <1>5, <1>6 DEF t

-----------------------------------------------------------------------------
(***************************************************************************)
(* A step that leaves a capability where it is.                            *)
(***************************************************************************)
Settles(c) ==
    \/ Now(c)' = Now(c)
    \/ Now(c) = "GRANTED" /\ Now(c)' \in {"EXPIRED", "REVOKED"}

Calm(c) ==
    /\ Asked(c)' <=> Asked(c)
    /\ News(c)' <=> News(c)
    /\ c \in pending' <=> c \in pending
    /\ c \in queued' <=> c \in queued
    /\ inFlight'[c] = inFlight[c]
    /\ serviceReady = TRUE => serviceReady' = TRUE
    /\ \A r \in checkReplies' : r.capability = c => r \in checkReplies \/ Fits(r, c)'
    /\ Settles(c)

LEMMA CalmKeeps ==
    ASSUME NEW c, OneWakeUp(c), Calm(c)
    PROVE  OneWakeUp(c)'
<1>1. Rests(c)' <=> Rests(c)
  BY DEF Calm, Rests, Checked
<1>2. /\ Now(c) \in Askable => Now(c)' \in Askable
      /\ Now(c)' = "PENDING" <=> Now(c) = "PENDING"
      /\ Now(c)' \in Askable /\ Now(c)' # Now(c) => Now(c) = "GRANTED"
  BY DEF Calm, Settles, Askable
<1>3. Checked(c)' <=> Checked(c)
  BY DEF Calm, Checked
<1>4. /\ Asked(c)' <=> Asked(c)
      /\ News(c)' <=> News(c)
      /\ c \in pending' <=> c \in pending
      /\ c \in queued' <=> c \in queued
      /\ serviceReady = TRUE => serviceReady' = TRUE
  BY DEF Calm
<1>5. ASSUME NEW r \in checkReplies', r.capability = c PROVE Fits(r, c)'
  <2>1. r \in checkReplies => Fits(r, c)
    BY <1>5 DEF OneWakeUp
  <2> QED
    BY <1>2, <1>5, <2>1 DEF Fits, Calm
<1> QED
  BY <1>1, <1>2, <1>3, <1>4, <1>5, Zenon DEF OneWakeUp

\* The gate does nothing, and its replies are those there were.
LEMMA ManagerCalm ==
    ASSUME NEW c, UNCHANGED <<pending, queued, inFlight, serviceReady>>,
           Asked(c)' <=> Asked(c), News(c)' <=> News(c), Settles(c),
           \A r \in checkReplies' : r.capability = c => r \in checkReplies \/ Fits(r, c)'
    PROVE  Calm(c)
BY DEF Calm

(***************************************************************************)
(* What the manager publishes.                                             *)
(***************************************************************************)
LEMMA NoNews ==
    ASSUME ManagerPublishes, NEW M, outbox' \in Seq(M), M \cap DecidedEvent = {},
           eventTopic \in Seq(NewsEvent)
    PROVE  eventTopic' = eventTopic
<1>1. Selected(outbox', DecidedEvent) = <<>>
  BY SelectedOfOthers
<1>2. eventTopic' = eventTopic \o Selected(outbox', DecidedEvent)
  BY DEF ManagerPublishes
<1> QED
  BY <1>1, <1>2, ConcatEmptySeq

LEMMA EmptyIsNoNews ==
    ASSUME ManagerPublishes, outbox' = <<>>, eventTopic \in Seq(NewsEvent)
    PROVE  eventTopic' = eventTopic
<1>1. outbox' \in Seq({})
  BY EmptySeq
<1> QED
  BY <1>1, NoNews

LEMMA ExpiryIsNoNews ==
    ASSUME NEW k, NEW e, e \notin DecidedEvent
    PROVE  /\ Event("consent_expired", session, k[2], "none") \notin DecidedEvent
           /\ ExpiryEvents(k) \in Seq({Event("consent_expired", session, k[2], "none"), e})
<1> DEFINE x == Event("consent_expired", session, k[2], "none")
<1>1. x \notin DecidedEvent
  BY DEF Event, DecidedEvent
<1>2. <<x>> \in Seq({x, e}) /\ <<>> \in Seq({x, e})
  <2> HIDE DEF x
  <2> QED
    BY EmptySeq
<1>3. ExpiryEvents(k) = <<x>> \/ ExpiryEvents(k) = <<>>
  BY DEF ExpiryEvents
<1> QED
  BY <1>1, <1>2, <1>3

LEMMA ExpiryTellsNoNews ==
    ASSUME ManagerPublishes, NEW k, outbox' = ExpiryEvents(k), eventTopic \in Seq(NewsEvent)
    PROVE  eventTopic' = eventTopic
<1> DEFINE x == Event("consent_expired", session, k[2], "none")
<1>1. x \notin DecidedEvent
  BY DEF Event, DecidedEvent
<1>2. outbox' \in Seq({x, x})
  BY <1>1, ExpiryIsNoNews
<1>3. {x, x} \cap DecidedEvent = {}
  BY <1>1
<1> HIDE DEF x
<1> QED
  BY <1>2, <1>3, NoNews

LEMMA OneNews ==
    ASSUME ManagerPublishes, NEW e \in NewsEvent \cap DecidedEvent, outbox' = <<e>>,
           eventTopic \in Seq(NewsEvent)
    PROVE  eventTopic' = Append(eventTopic, e)
<1>1. Selected(outbox', DecidedEvent) = <<e>>
  BY SelectedOfOne
<1>2. eventTopic' = eventTopic \o Selected(outbox', DecidedEvent)
  BY DEF ManagerPublishes
<1>3. Append(eventTopic, e) = eventTopic \o <<e>>
  BY AppendIsConcat
<1> QED
  BY <1>1, <1>2, <1>3

-----------------------------------------------------------------------------
(***************************************************************************)
(* The manager's steps.                                                    *)
(***************************************************************************)
\* A callback of the manager touches neither the gate nor the session.
ManagerActs ==
    /\ ManagerPublishes
    /\ UNCHANGED <<pending, queued, inFlight, serviceReady, gateSession>>
    /\ UNCHANGED <<config, clock, session>> /\ up' = TRUE

LEMMA WakeContext ==
    ASSUME SystemInv, WakeInv
    PROVE  /\ session = 1 /\ PolicyLoads /\ Loaded = Policy /\ Dynamic /\ ~Static
           /\ pending \subseteq Policy /\ queued \subseteq Policy
           /\ \A c \in Policy : <<session, c>> \in Key /\ records[<<session, c>>] \in Record
           /\ clock \in Int
<1>1. session = 1 /\ PolicyLoads /\ Dynamic
  BY DEF WakeInv, OneSession
<1>2. Loaded = Policy /\ ~Static
  BY <1>1 DEF Loaded, Dynamic, Static
<1>3. pending \subseteq Policy /\ queued \subseteq Policy
  BY DEF SystemInv, GateTyped
<1> QED
  BY <1>1, <1>2, <1>3, ActiveRecord, ClockIsInt DEF SystemInv

LEMMA SessionStays ==
    ASSUME OneSession, UNCHANGED <<config, session>>, up' = TRUE
    PROVE  OneSession'
BY DEF OneSession, Dynamic, PolicyLoads

\* No check of a capability at rest is under way, nor answered.
LEMMA RestsUnchecked ==
    ASSUME SystemInv, WakeInv, NEW c \in Policy, ~Checked(c)
    PROVE  \A x \in checkCalls \cup checkReplies : x.capability # c
<1> SUFFICES ASSUME NEW x \in checkCalls \cup checkReplies, x.capability = c
             PROVE  FALSE
  OBVIOUS
<1>1. gateSession \in 0 .. 1 /\ x.session \in 1 .. gateSession
  BY DEF SystemInv, SessionsFollow, CallsTyped, WakeInv, OneSession
<1>2. x.session = gateSession /\ gateSession # 0
  BY <1>1
<1>3. inFlight[c] = gateSession
  BY <1>2 DEF SystemInv, ChecksAreMarked
<1> QED
  BY <1>2, <1>3 DEF Checked, NoSession

LEMMA RequestWakes ==
    ASSUME SystemInv, WakeInv, ManagerTakesRequest
    PROVE  WakeInv'
<1>0. PICK c, k : c = Head(requestTopic) /\ k = <<session, c>>
  OBVIOUS
<1>1. /\ requestTopic # <<>> /\ OnConsentRequest(c) /\ requestTopic' = Tail(requestTopic)
      /\ ManagerActs /\ UNCHANGED checkReplies
  BY <1>0 DEF ManagerTakesRequest, ManagerStep, GateQuiet, ManagerActs, OnConsentRequest,
         ManagerSame, WakeInv, OneSession
<1>2. /\ requestTopic \in Seq(Policy) /\ Distinct(requestTopic, Requested)
      /\ eventTopic \in Seq(NewsEvent) /\ Distinct(eventTopic, DecidedOf)
  BY DEF WakeInv, TopicsSayOnce
<1>3. /\ c \in Policy /\ requestTopic' \in Seq(Policy) /\ Distinct(requestTopic', Requested)
      /\ Asked(c) /\ \A d \in Policy : Asked(d)' <=> Asked(d) /\ d # c
  <2>1. PICK h, t : h = c /\ t = Tail(requestTopic)
    OBVIOUS
  <2>2. /\ h \in Policy /\ t \in Seq(Policy) /\ Distinct(t, Requested)
        /\ Carries(requestTopic, Requested, Requested[h])
        /\ \A d : Carries(t, Requested, d)
                  <=> Carries(requestTopic, Requested, d) /\ d # Requested[h]
    BY <1>0, <1>1, <1>2, <2>1, TailCarries
  <2>3. Requested[h] = h
    BY <2>2 DEF Requested
  <2>4. requestTopic' = t
    BY <1>1, <2>1
  <2> QED
    BY <2>1, <2>2, <2>3, <2>4 DEF Asked
<1>4. Rests(c) /\ ~News(c) /\ Now(c) \in Askable
  BY <1>3 DEF WakeInv, OneWakeUp
<1>5. /\ session = 1 /\ Loaded = Policy /\ Dynamic /\ k \in Key /\ records[k] \in Record
      /\ clock \in Int
  BY <1>0, <1>3, WakeContext
<1>6. ~RequestIgnored(c) /\ records[k].status \in Askable
  BY <1>0, <1>3, <1>4, <1>5 DEF RequestIgnored, Now
<1>7. /\ CreateRequests(session, {c})
      /\ outbox' = ExpiryEvents(k) \o
            <<Prompt(<<issued + 1, c>>, session, c),
              Event("consent_requested", session, c, "none")>>
  <2>1. records[k].status # "PENDING" /\ records[k].status # "GRANTED"
    BY <1>6 DEF Askable
  <2> QED
    BY <1>0, <1>1, <1>6, <2>1 DEF OnConsentRequest
<1>8. eventTopic' = eventTopic
  <2> DEFINE p == Prompt(<<issued + 1, c>>, session, c)
             e == Event("consent_requested", session, c, "none")
  <2>1. ExpiryEvents(k) = <<>>
    BY <1>6 DEF ExpiryEvents, Lapsed, Askable
  <2>2. <<p, e>> \in Seq({p, e})
    <3> HIDE DEF p, e
    <3> QED
      OBVIOUS
  <2>3. outbox' = <<p, e>>
    <3> HIDE DEF p, e
    <3>1. outbox' = <<>> \o <<p, e>>
      BY <1>7, <2>1 DEF p, e
    <3> QED
      BY <2>2, <3>1, ConcatEmptySeq
  <2>4. p \notin DecidedEvent /\ e \notin DecidedEvent
    BY DEF Prompt, Event, DecidedEvent
  <2>5. {p, e} \cap DecidedEvent = {}
    BY <2>4
  <2> HIDE DEF p, e
  <2> QED
    BY <1>1, <1>2, <2>2, <2>3, <2>5, NoNews DEF ManagerActs
<1>9. /\ \A j \in Key : records'[j] = IF j = k THEN PendingRecord(issued + 1, c) ELSE records[j]
      /\ UNCHANGED session
  <2>1. NeedsPrompt(k)
    BY <1>0, <1>7 DEF CreateRequests
  <2>2. \A j \in Key : j[1] = session /\ j[2] \in {c} <=> j = k
    BY <1>0 DEF Key
  <2>3. \A j \in Key : records'[j] = IF j[1] = session /\ j[2] \in {c} /\ NeedsPrompt(j)
                                     THEN PendingRecord(issued + 1, j[2]) ELSE records[j]
    BY <1>7 DEF CreateRequests
  <2> QED
    BY <1>1, <2>1, <2>2, <2>3 DEF ManagerActs
<1>10. records'[k].status = "PENDING" /\ records'[k].requested = clock
  BY <1>5, <1>9 DEF PendingRecord
<1>11. OneSession' /\ GateJoined'
  BY <1>1, SessionStays DEF WakeInv, ManagerActs, GateJoined
<1>12. RequestedInPast'
  BY <1>1, <1>5, <1>9, <1>10 DEF WakeInv, RequestedInPast, ManagerActs
<1>13. TopicsSayOnce'
  BY <1>2, <1>3, <1>8 DEF TopicsSayOnce
<1>14. News(c)' <=> News(c)
  BY <1>8 DEF News
<1>15. OneWakeUp(c)'
  <2>1. Now(c)' = "PENDING"
    BY <1>0, <1>9, <1>10 DEF Now
  <2>2. Rests(c)' /\ ~News(c)' /\ ~Asked(c)' /\ ~Checked(c)'
    BY <1>1, <1>3, <1>4, <1>14 DEF Rests, Checked, ManagerActs
  <2>3. \A r \in checkReplies' : r.capability # c
    BY <1>1, <1>3, <1>4, RestsUnchecked DEF Rests
  <2> QED
    BY <2>1, <2>2, <2>3, Zenon DEF OneWakeUp
<1>16. ASSUME NEW d \in Policy, d # c PROVE OneWakeUp(d)'
  <2>1. Now(d)' = Now(d)
    <3>1. <<session, d>> \in Key /\ <<session, d>> # k
      BY <1>0, <1>16, WakeContext
    <3> QED
      BY <1>9, <3>1 DEF Now
  <2>2. News(d)' <=> News(d)
    BY <1>8 DEF News
  <2>3. Calm(d)
    BY <1>1, <1>3, <1>16, <2>1, <2>2, ManagerCalm DEF Settles, ManagerActs
  <2> QED
    BY <1>16, <2>3, CalmKeeps DEF WakeInv
<1> QED
  BY <1>11, <1>12, <1>13, <1>15, <1>16 DEF WakeInv


\* A grant may have lapsed, or been withdrawn.
SettlesKey(k) ==
    \/ records'[k] = records[k]
    \/ records[k].status = "GRANTED" /\ records'[k].status \in {"EXPIRED", "REVOKED"}

LEMMA SettlesWakes ==
    ASSUME SystemInv, WakeInv, ManagerActs, UNCHANGED <<requestTopic, eventTopic>>,
           \A k \in Key : SettlesKey(k),
           \A r \in checkReplies' : r \in checkReplies \/ Fits(r, r.capability)'
    PROVE  WakeInv'
<1>1. OneSession' /\ GateJoined' /\ TopicsSayOnce'
  BY SessionStays DEF WakeInv, ManagerActs, GateJoined, TopicsSayOnce
<1>2. RequestedInPast'
  <2> SUFFICES ASSUME NEW k \in Key, records'[k].status = "PENDING"
               PROVE  records'[k].requested <= clock'
    BY DEF RequestedInPast
  <2>1. records'[k] = records[k] /\ clock' = clock
    BY DEF SettlesKey, ManagerActs
  <2> QED
    BY <2>1 DEF WakeInv, RequestedInPast
<1>3. ASSUME NEW c \in Policy PROVE OneWakeUp(c)'
  <2>1. Settles(c)
    <3>1. SettlesKey(<<session, c>>) /\ session' = session
      BY WakeContext DEF ManagerActs
    <3> QED
      BY <3>1 DEF SettlesKey, Settles, Now
  <2>2. (News(c)' <=> News(c)) /\ (Asked(c)' <=> Asked(c))
    BY DEF News, Asked
  <2>3. Calm(c)
    BY <2>1, <2>2, ManagerCalm DEF ManagerActs
  <2> QED
    BY <2>3, CalmKeeps DEF WakeInv
<1> QED
  BY <1>1, <1>2, <1>3 DEF WakeInv

LEMMA RevocationWakes ==
    ASSUME SystemInv, WakeInv, ManagerActs, NEW c \in Policy, RevokeConsent(session, c),
           UNCHANGED <<requestTopic, checkReplies>>
    PROVE  WakeInv'
<1>1. PICK k : k = <<session, c>>
  OBVIOUS
<1>2. k \in Key /\ records[k] \in Record /\ records \in [Key -> Record] /\ k[2] = c
  BY <1>1, WakeContext DEF SystemInv, ManagerInv, StoreInv, StoreTypeOK
<1>3. ManagerPublishes /\ eventTopic \in Seq(NewsEvent)
  BY DEF ManagerActs, WakeInv, TopicsSayOnce
<1>4. CASE Revoke(k) /\ outbox' = <<Event("consent_revoked", session, c, "revoked")>>
  <2>1. records[k].status = "GRANTED"
    BY <1>2, <1>4 DEF Revoke, CanRevoke, Settled, Lapsed, Record
  <2>2. \A j \in Key : SettlesKey(j)
    BY <1>2, <1>4, <2>1 DEF Revoke, Revoked, SettlesKey, Record
  <2>3. eventTopic' = eventTopic
    <3> DEFINE e == Event("consent_revoked", session, c, "revoked")
    <3>1. {e} \cap DecidedEvent = {}
      BY DEF Event, DecidedEvent
    <3>2. outbox' \in Seq({e})
      <4>1. outbox' = <<e>>
        BY <1>4
      <4> HIDE DEF e
      <4> QED
        BY <4>1
    <3> HIDE DEF e
    <3> QED
      BY <1>3, <3>1, <3>2, NoNews
  <2> QED
    BY <2>2, <2>3, SettlesWakes
<1>5. CASE RevokeRejected(k) /\ outbox' = ExpiryEvents(k)
  <2>1. \A j \in Key : SettlesKey(j)
    BY <1>2, <1>5 DEF RevokeRejected, Expire, Settled, Lapsed, SettlesKey, Record
  <2>2. eventTopic' = eventTopic
    BY <1>3, <1>5, ExpiryTellsNoNews
  <2> QED
    BY <2>1, <2>2, SettlesWakes
<1> QED
  BY <1>1, <1>4, <1>5 DEF RevokeConsent

\* The answer to an open request: the manager closes it and says so.
LEMMA AnswerWakes ==
    ASSUME SystemInv, WakeInv, ManagerPublishes, NEW d, OnAnswer(d),
           UNCHANGED <<pending, queued, inFlight, serviceReady, gateSession>>,
           UNCHANGED <<config, clock, requestTopic, checkReplies>>
    PROVE  WakeInv'
<1>1. PICK c, k : c = d.capability /\ k = <<session, c>>
  OBVIOUS
<1>2. /\ session = 1 /\ c \in Policy /\ k \in Key /\ records[k] \in Record /\ clock \in Int
      /\ d.decision \in {"granted", "refused"}
  BY <1>1, WakeContext DEF OnAnswer, AnswersRequest, FromParticipant
<1>3. records[k].status = "PENDING" /\ Now(c) = "PENDING"
  BY <1>1 DEF OnAnswer, AnswersRequest, CanDecide, Awaits, Now
<1>4. records[k].requested <= clock /\ records[k].requested \in Int
  BY <1>2, <1>3 DEF WakeInv, RequestedInPast, Record, Time
<1>5. ~ClockRanBack({d.capability})
  BY <1>1, <1>2, <1>4 DEF ClockRanBack
<1>6. /\ RecordDecision(session, [x \in {d.capability} |-> d.request],
                        d.decision = "granted", TRUE)
      /\ outbox' = DecidedEvents(<<d.capability>>, d.decision)
      /\ UNCHANGED <<session, up>>
  BY <1>5 DEF OnAnswer, ManagerSame
<1>7. ManagerActs
  BY <1>6 DEF ManagerActs, WakeInv, OneSession
<1>8. \A j \in Key : IF j = k THEN records'[j].status \in {"GRANTED", "REFUSED"}
                              ELSE records'[j] = records[j]
  <2>1. PICK g : g = (d.decision = "granted")
    OBVIOUS
  <2>2. \A j \in Key : records'[j] = IF j \in {<<session, x>> : x \in {c}}
                                     THEN Decided(j, g, TRUE) ELSE records[j]
    BY <1>1, <1>6, <2>1 DEF RecordDecision
  <2>3. Decided(k, g, TRUE).status \in {"GRANTED", "REFUSED"}
    BY <1>2 DEF Decided, Record
  <2> QED
    BY <1>1, <2>2, <2>3
<1>9. PICK e : e = Event("consent_decided", session, c, d.decision)
  OBVIOUS
<1>10. e \in NewsEvent /\ e \in DecidedEvent /\ e.capability = c
  <2>1. c \in Capability /\ 1 \in Session
    BY <1>2, WakeContext DEF Key
  <2> QED
    BY <1>2, <1>9, <2>1 DEF NewsEvent, Event, Decision, DecidedEvent, Message
<1>11. eventTopic' = Append(eventTopic, e)
  <2>1. outbox' = <<e>>
    BY <1>1, <1>6, <1>9 DEF DecidedEvents
  <2> QED
    BY <1>10, <2>1, OneNews DEF WakeInv, TopicsSayOnce
<1>12. Rests(c) /\ ~News(c) /\ ~Asked(c)
  BY <1>2, <1>3 DEF WakeInv, OneWakeUp, Askable
<1>13. /\ eventTopic' \in Seq(NewsEvent) /\ Distinct(eventTopic', DecidedOf)
       /\ \A x : News(x)' <=> News(x) \/ x = c
  <2>1. DecidedOf[e] = c
    BY <1>10 DEF DecidedOf
  <2>2. /\ eventTopic \in Seq(NewsEvent) /\ Distinct(eventTopic, DecidedOf)
        /\ ~Carries(eventTopic, DecidedOf, DecidedOf[e])
    BY <1>12, <2>1 DEF WakeInv, TopicsSayOnce, News
  <2>3. PICK t : t = Append(eventTopic, e)
    OBVIOUS
  <2>4. /\ t \in Seq(NewsEvent) /\ Distinct(t, DecidedOf)
        /\ \A x : Carries(t, DecidedOf, x) <=> Carries(eventTopic, DecidedOf, x) \/ x = c
    BY <1>10, <2>1, <2>2, <2>3, AppendCarries
  <2> QED
    BY <1>11, <2>3, <2>4 DEF News
<1>14. OneSession' /\ GateJoined'
  BY <1>7, SessionStays DEF WakeInv, ManagerActs, GateJoined
<1>15. RequestedInPast'
  BY <1>7, <1>8 DEF WakeInv, RequestedInPast, ManagerActs
<1>16. TopicsSayOnce'
  BY <1>13 DEF WakeInv, TopicsSayOnce
<1>17. OneWakeUp(c)'
  <2>1. Now(c)' \in {"GRANTED", "REFUSED"}
    BY <1>1, <1>2, <1>6, <1>8 DEF Now
  <2>2. Rests(c)' /\ News(c)' /\ ~Asked(c)' /\ ~Checked(c)'
    BY <1>7, <1>12, <1>13 DEF Rests, Checked, ManagerActs, Asked
  <2>3. \A r \in checkReplies' : r.capability # c
    BY <1>2, <1>12, RestsUnchecked DEF Rests
  <2>4. Now(c)' # "PENDING"
    BY <2>1
  <2> QED
    BY <2>2, <2>3, <2>4, Zenon DEF OneWakeUp
<1>18. ASSUME NEW x \in Policy, x # c PROVE OneWakeUp(x)'
  <2>1. Now(x)' = Now(x)
    <3>1. <<session, x>> \in Key /\ <<session, x>> # k
      BY <1>1, <1>18, WakeContext
    <3> QED
      BY <1>6, <1>8, <3>1 DEF Now
  <2>2. (Asked(x)' <=> Asked(x)) /\ (News(x)' <=> News(x))
    BY <1>13, <1>18 DEF Asked
  <2>3. Calm(x)
    BY <1>7, <2>1, <2>2, ManagerCalm DEF Settles, ManagerActs
  <2> QED
    BY <1>18, <2>3, CalmKeeps DEF WakeInv
<1> QED
  BY <1>14, <1>15, <1>16, <1>17, <1>18 DEF WakeInv

LEMMA DecisionWakes ==
    ASSUME SystemInv, WakeInv, ManagerTakesDecision
    PROVE  WakeInv'
<1>1. PICK d : d = Head(decisionTopic)
  OBVIOUS
<1>2. /\ OnDecision(d) /\ ManagerPublishes
      /\ UNCHANGED <<pending, queued, inFlight, serviceReady, gateSession>>
      /\ UNCHANGED <<config, clock, requestTopic, checkReplies>>
  BY <1>1 DEF ManagerTakesDecision, ManagerStep, GateQuiet
<1>3. ASSUME OnDisclosureAnswer(d) PROVE FALSE
  BY <1>3, WakeContext DEF OnDisclosureAnswer, AnswersDisclosure
<1>4. CASE OnAnswer(d)
  BY <1>2, <1>4, AnswerWakes
<1>5. CASE Withdraws(d) /\ RevokeConsent(session, d.capability)
  <2>1. d.capability \in Policy
    BY <1>5 DEF Withdraws
  <2>2. ManagerActs
    BY <1>2, <1>5 DEF ManagerActs, RevokeConsent, ManagerSame, WakeInv, OneSession
  <2> QED
    BY <1>2, <1>5, <2>1, <2>2, RevocationWakes
<1>6. CASE outbox' = <<>> /\ Unchanged /\ ManagerSame /\ UNCHANGED up
  <2>1. ManagerActs
    BY <1>2, <1>6 DEF ManagerActs, ManagerSame, WakeInv, OneSession
  <2>2. eventTopic' = eventTopic
    BY <1>2, <1>6, EmptyIsNoNews DEF WakeInv, TopicsSayOnce
  <2>3. \A k \in Key : SettlesKey(k)
    BY <1>6 DEF SettlesKey, Unchanged
  <2> QED
    BY <1>2, <2>1, <2>2, <2>3, SettlesWakes
<1> QED
  BY <1>2, <1>3, <1>4, <1>5, <1>6 DEF OnDecision

\* A check never finds the request open, and what it finds stays so.
LEMMA CheckWakes ==
    ASSUME SystemInv, WakeInv, ManagerTakesCheck
    PROVE  WakeInv'
<1>1. PICK call \in checkCalls :
        /\ OnCheck(call.session, call.capability) /\ UNCHANGED <<up, requestTopic>>
        /\ checkReplies' = checkReplies \cup {reply'}
        /\ ManagerStep
  BY DEF ManagerTakesCheck
<1>2. PICK c, k : c = call.capability /\ k = <<session, c>>
  OBVIOUS
<1>3. /\ c \in Policy /\ call.session = session /\ gateSession = 1 /\ session = 1
      /\ PolicyLoads
  <2>1. call \in [session : 1 .. gateSession, capability : Policy] /\ gateSession \in 0 .. 1
    BY DEF SystemInv, CallsTyped, SessionsFollow, WakeInv, OneSession
  <2> QED
    BY <1>2, <2>1, WakeContext
<1>4. k \in Key /\ records[k] \in Record /\ records \in [Key -> Record] /\ k[2] = c
  BY <1>2, <1>3, WakeContext DEF SystemInv, ManagerInv, StoreInv, StoreTypeOK
<1>5. /\ reply' = [status |-> Settled(k).status, session |-> session, capability |-> c]
      /\ Expire(k) /\ outbox' = ExpiryEvents(k) /\ UNCHANGED session
  BY <1>1, <1>2, <1>3 DEF OnCheck, Check, CheckStatus, ManagerSame
<1>6. ManagerActs
  BY <1>1, <1>5 DEF ManagerActs, ManagerStep, GateQuiet, WakeInv, OneSession
<1>7. eventTopic' = eventTopic
  BY <1>5, <1>6, ExpiryTellsNoNews DEF ManagerActs, WakeInv, TopicsSayOnce
<1>8. \A j \in Key : SettlesKey(j)
  BY <1>4, <1>5 DEF Expire, Settled, Lapsed, SettlesKey, Record
<1>9. PICK r : r = reply'
  OBVIOUS
<1>10. Fits(r, c)'
  <2>1. inFlight[c] = gateSession
    BY <1>1, <1>2, <1>3 DEF SystemInv, ChecksAreMarked
  <2>2. Checked(c)
    BY <1>3, <2>1 DEF Checked, NoSession
  <2>3. records[k].status # "PENDING"
    BY <1>2, <1>3, <2>2 DEF WakeInv, OneWakeUp, Rests, Now
  <2>4. reply'.status = records'[k].status /\ records'[k].status = Now(c)'
    BY <1>2, <1>4, <1>5 DEF Expire, Now
  <2>5. records'[k].status # "PENDING"
    BY <1>4, <1>8, <2>3 DEF SettlesKey
  <2> QED
    BY <1>9, <2>4, <2>5 DEF Fits
<1>11. \A x \in checkReplies' : x \in checkReplies \/ Fits(x, x.capability)'
  <2>1. r.capability = c
    BY <1>5, <1>9
  <2> QED
    BY <1>1, <1>9, <1>10, <2>1
<1> QED
  BY <1>1, <1>6, <1>7, <1>8, <1>11, SettlesWakes

LEMMA WithdrawalWakes ==
    ASSUME SystemInv, WakeInv, ParticipantRevokes
    PROVE  WakeInv'
<1>1. PICK c \in Policy : OnRevoke(session, c)
  BY DEF ParticipantRevokes
<1>2. ManagerStep /\ UNCHANGED <<requestTopic, checkReplies>>
  BY DEF ParticipantRevokes
<1>3. RevokeConsent(session, c)
  BY <1>1, WakeContext DEF OnRevoke
<1>4. ManagerActs
  BY <1>2, <1>3 DEF ManagerActs, ManagerStep, GateQuiet, RevokeConsent, ManagerSame,
                    WakeInv, OneSession
<1> QED
  BY <1>2, <1>3, <1>4, RevocationWakes

-----------------------------------------------------------------------------
(***************************************************************************)
(* The gate's steps.                                                       *)
(***************************************************************************)
LEMMA SequenceOfOne == ASSUME NEW c PROVE SetToSeq({c}) = <<c>>
<1>1. Cardinality({c}) = 1
  BY FS_Singleton
<1>2. [i \in 1 .. 1 |-> c] \in [1 .. 1 -> {c}] /\ IsInjective([i \in 1 .. 1 |-> c])
  BY DEF IsInjective
<1>3. SetToSeq({c}) \in [1 .. 1 -> {c}]
  BY <1>1, <1>2 DEF SetToSeq
<1> QED
  BY <1>3

LEMMA SequenceOfNone == SetToSeq({}) = <<>>
<1>1. Cardinality({}) = 0
  BY FS_EmptySet
<1>2. [i \in 1 .. 0 |-> i] \in [1 .. 0 -> {}] /\ IsInjective([i \in 1 .. 0 |-> i])
  BY DEF IsInjective
<1>3. SetToSeq({}) \in [1 .. 0 -> {}]
  BY <1>1, <1>2 DEF SetToSeq
<1> QED
  BY <1>3

LEMMA NothingRequested ==
    ASSUME WakeInv, GatePublishes, gateOut'.requested = {}
    PROVE  requestTopic' = requestTopic
<1>1. requestTopic' = requestTopic \o SetToSeq({}) /\ requestTopic \in Seq(Policy)
  BY DEF GatePublishes, WakeInv, TopicsSayOnce
<1> QED
  BY <1>1, SequenceOfNone, ConcatEmptySeq

\* The manager does nothing.
LEMMA GateFrame ==
    ASSUME WakeInv, ManagerQuiet
    PROVE  /\ OneSession' /\ RequestedInPast'
           /\ \A c : Now(c)' = Now(c)
<1>1. UNCHANGED <<records, clock, config, up, session>>
  BY DEF ManagerQuiet, Unchanged
<1>2. up' = TRUE
  BY <1>1 DEF WakeInv, OneSession
<1> QED
  BY <1>1, <1>2, SessionStays DEF WakeInv, RequestedInPast, Now

\* The gate acts on nothing but the capabilities of K.
GateActs(K) ==
    /\ ManagerQuiet
    /\ checkReplies' \subseteq checkReplies
    /\ serviceReady => serviceReady'
    /\ \A c \in Policy \ K : /\ Asked(c)' <=> Asked(c)
                             /\ News(c)' <=> News(c)
                             /\ c \in pending' <=> c \in pending
                             /\ c \in queued' <=> c \in queued
                             /\ inFlight'[c] = inFlight[c]

LEMMA GateActsWakes ==
    ASSUME SystemInv, WakeInv, NEW K, GateActs(K), GateJoined', TopicsSayOnce',
           \A c \in Policy \cap K : OneWakeUp(c)'
    PROVE  WakeInv'
<1>1. OneSession' /\ RequestedInPast' /\ \A c : Now(c)' = Now(c)
  BY GateFrame DEF GateActs
<1>2. ASSUME NEW c \in Policy \ K PROVE OneWakeUp(c)'
  <2>1. Calm(c)
    BY <1>1 DEF Calm, GateActs, Settles
  <2> QED
    BY <2>1, CalmKeeps DEF WakeInv
<1> QED
  BY <1>1, <1>2 DEF WakeInv

\* What a reply says of the record stays true while the manager rests.
LEMMA RepliesStayFit ==
    ASSUME WakeInv, ManagerQuiet, checkReplies' \subseteq checkReplies, NEW c \in Policy
    PROVE  \A r \in checkReplies' : r.capability = c => Fits(r, c)'
<1>1. Now(c)' = Now(c)
  BY GateFrame
<1> QED
  BY <1>1 DEF WakeInv, OneWakeUp, Fits

LEMMA SilentTopics ==
    ASSUME WakeInv, GatePublishes, gateOut'.requested = {}, UNCHANGED eventTopic
    PROVE  /\ TopicsSayOnce'
           /\ \A c : (Asked(c)' <=> Asked(c)) /\ (News(c)' <=> News(c))
<1>1. requestTopic' = requestTopic
  BY NothingRequested
<1> QED
  BY <1>1 DEF WakeInv, TopicsSayOnce, Asked, News

\* A check in flight is one the gate could make.
LEMMA CheckedCanCall ==
    ASSUME SystemInv, WakeInv, NEW c \in Policy, Checked(c)
    PROVE  CanCall /\ gateSession # NoSession
<1>1. gateSession # NoSession
  BY DEF SystemInv, GateTyped, Checked
<1>2. serviceReady
  BY DEF WakeInv, OneWakeUp
<1> QED
  BY <1>1, <1>2 DEF CanCall

LEMMA StartCheckPlaces ==
    ASSUME SystemInv, WakeInv, NEW c \in Policy, StartCheck(c), UNCHANGED serviceReady
    PROVE  /\ pending' = pending /\ gateSession' = gateSession /\ gateOut'.requested = {}
           /\ \/ Checked(c)' /\ serviceReady' /\ c \notin queued'
              \/ ~Checked(c)' /\ c \in queued'
           /\ \A d \in Policy \ {c} : /\ d \in queued' <=> d \in queued
                                      /\ inFlight'[d] = inFlight[d]
<1>1. CASE CanCall
  <2>1. StartChecks({c}) /\ serviceReady /\ gateSession # NoSession
    BY <1>1 DEF StartCheck, CanCall
  <2>2. gateOut'.requested = {}
    BY <2>1, OutputFields DEF StartChecks
  <2>3. CASE Checked(c)
    <3>1. Unchecked({c}) = {} /\ c \notin queued
      BY <2>3 DEF Unchecked, Checked, WakeInv, OneWakeUp
    <3>2. queued' = queued /\ \A d \in Policy : inFlight'[d] = inFlight[d]
      BY <2>1, <3>1 DEF StartChecks
    <3> QED
      BY <2>1, <2>2, <2>3, <3>1, <3>2 DEF StartChecks, Checked
  <2>4. CASE ~Checked(c)
    <3>1. Unchecked({c}) = {c}
      BY <2>4 DEF Unchecked, Checked
    <3>2. /\ queued' = queued \ {c} /\ inFlight'[c] = gateSession
          /\ \A d \in Policy \ {c} : inFlight'[d] = inFlight[d]
      BY <2>1, <3>1 DEF StartChecks
    <3> QED
      BY <2>1, <2>2, <3>2 DEF StartChecks, Checked
  <2> QED
    BY <2>3, <2>4
<1>2. CASE ~CanCall
  <2>1. ~Checked(c)
    BY <1>2, CheckedCanCall
  <2> QED
    BY <1>2, <2>1, OutputFields DEF StartCheck, Checked
<1> QED
  BY <1>1, <1>2

LEMMA AskWakes ==
    ASSUME SystemInv, WakeInv, GateTakesAsk
    PROVE  WakeInv'
<1>1. PICK c \in Capability : OnCapabilityRequest(c)
  BY DEF GateTakesAsk
<1>2. /\ GatePublishes /\ ManagerQuiet /\ UNCHANGED <<eventTopic, checkReplies>>
      /\ UNCHANGED serviceReady
  BY <1>1 DEF GateTakesAsk, GateStep, OnCapabilityRequest
<1>3. CASE c \notin Policy /\ Block(c) /\ UNCHANGED <<gateSession, inFlight>>
  <2>1. gateOut'.requested = {}
    BY <1>3, OutputFields DEF Block
  <2>2. GateActs({})
    BY <1>2, <1>3, <2>1, SilentTopics DEF GateActs, Block
  <2>3. GateJoined'
    BY <1>3 DEF WakeInv, GateJoined, Block
  <2> QED
    BY <1>2, <2>1, <2>2, <2>3, SilentTopics, GateActsWakes
<1>4. CASE Idle
  <2>1. gateOut'.requested = {}
    BY <1>4, OutputFields DEF Idle
  <2>2. GateActs({})
    BY <1>2, <1>4, <2>1, SilentTopics DEF GateActs, Idle
  <2>3. GateJoined'
    BY <1>4 DEF WakeInv, GateJoined, Idle
  <2> QED
    BY <1>2, <2>1, <2>2, <2>3, SilentTopics, GateActsWakes
<1>5. CASE c \in Policy /\ c \notin pending /\ StartCheck(c)
  <2>1. /\ pending' = pending /\ gateSession' = gateSession /\ gateOut'.requested = {}
        /\ \/ Checked(c)' /\ serviceReady' /\ c \notin queued'
           \/ ~Checked(c)' /\ c \in queued'
        /\ \A d \in Policy \ {c} : /\ d \in queued' <=> d \in queued
                                   /\ inFlight'[d] = inFlight[d]
    BY <1>2, <1>5, StartCheckPlaces
  <2>2. TopicsSayOnce' /\ \A d : (Asked(d)' <=> Asked(d)) /\ (News(d)' <=> News(d))
    BY <1>2, <2>1, SilentTopics
  <2>3. GateActs({c})
    BY <1>2, <2>1, <2>2 DEF GateActs
  <2>4. GateJoined'
    BY <2>1 DEF WakeInv, GateJoined
  <2>5. ~Asked(c) /\ ~News(c) /\ Now(c) # "PENDING"
    BY <1>5 DEF WakeInv, OneWakeUp, Rests
  <2>6. Now(c)' = Now(c)
    BY <1>2, GateFrame
  <2>7. \A r \in checkReplies' : r.capability = c => Fits(r, c)'
    BY <1>2, <1>5, RepliesStayFit
  <2>8. OneWakeUp(c)'
    BY <1>5, <2>1, <2>2, <2>5, <2>6, <2>7 DEF OneWakeUp
  <2> QED
    BY <2>2, <2>3, <2>4, <2>8, GateActsWakes
<1> QED
  BY <1>1, <1>3, <1>4, <1>5, WakeContext DEF OnCapabilityRequest

\* The news of an answer finds the gate waiting for it.
LEMMA EventWakes ==
    ASSUME SystemInv, WakeInv, GateTakesEvent
    PROVE  WakeInv'
<1>1. PICK e, c, t : e = Head(eventTopic) /\ c = e.capability /\ t = Tail(eventTopic)
  OBVIOUS
<1>2. /\ OnConsentEvent(e.session, e.type, c) /\ GatePublishes /\ ManagerQuiet
      /\ eventTopic # <<>> /\ eventTopic' = t /\ UNCHANGED <<checkReplies, serviceReady>>
  BY <1>1 DEF GateTakesEvent, GateStep, OnConsentEvent
<1>3. /\ e \in NewsEvent /\ t \in Seq(NewsEvent) /\ Distinct(t, DecidedOf)
      /\ c \in Policy /\ News(c) /\ \A d : News(d)' <=> News(d) /\ d # c
  <2>1. eventTopic \in Seq(NewsEvent) /\ Distinct(eventTopic, DecidedOf)
    BY DEF WakeInv, TopicsSayOnce
  <2>2. /\ e \in NewsEvent /\ t \in Seq(NewsEvent) /\ Distinct(t, DecidedOf)
        /\ Carries(eventTopic, DecidedOf, DecidedOf[e])
        /\ \A d : Carries(t, DecidedOf, d)
                  <=> Carries(eventTopic, DecidedOf, d) /\ d # DecidedOf[e]
    BY <1>1, <1>2, <2>1, TailCarries
  <2>3. DecidedOf[e] = c /\ c \in Policy
    BY <1>1, <2>2 DEF DecidedOf, NewsEvent
  <2> QED
    BY <1>2, <2>2, <2>3 DEF News
<1>4. c \in pending /\ ~Asked(c) /\ Now(c) # "PENDING"
  BY <1>3 DEF WakeInv, OneWakeUp, Rests
<1>5. gateSession = 1 /\ e.session = 1 /\ e.type = "consent_decided"
  BY <1>3, <1>4 DEF WakeInv, GateJoined, NewsEvent
<1>6. StartCheck(c)
  BY <1>2, <1>4, <1>5 DEF OnConsentEvent
<1>7. /\ pending' = pending /\ gateSession' = gateSession /\ gateOut'.requested = {}
      /\ \/ Checked(c)' /\ serviceReady' /\ c \notin queued'
         \/ ~Checked(c)' /\ c \in queued'
      /\ \A d \in Policy \ {c} : /\ d \in queued' <=> d \in queued
                                 /\ inFlight'[d] = inFlight[d]
  BY <1>2, <1>3, <1>6, StartCheckPlaces
<1>8. requestTopic' = requestTopic
  BY <1>2, <1>7, NothingRequested
<1>9. TopicsSayOnce' /\ \A d : Asked(d)' <=> Asked(d)
  BY <1>2, <1>3, <1>8 DEF WakeInv, TopicsSayOnce, Asked
<1>10. GateActs({c}) /\ GateJoined'
  BY <1>2, <1>3, <1>7, <1>9 DEF GateActs, GateJoined, WakeInv
<1>11. OneWakeUp(c)'
  <2>1. Now(c)' = Now(c)
    BY <1>2, GateFrame
  <2>2. \A r \in checkReplies' : r.capability = c => Fits(r, c)'
    BY <1>2, <1>3, RepliesStayFit
  <2> QED
    BY <1>3, <1>4, <1>7, <1>9, <2>1, <2>2 DEF OneWakeUp
<1> QED
  BY <1>9, <1>10, <1>11, GateActsWakes

LEMMA RetryWakes ==
    ASSUME SystemInv, WakeInv, GateRetries
    PROVE  WakeInv'
<1>1. /\ StartChecks(queued) /\ gateSession # NoSession /\ serviceReady
      /\ GatePublishes /\ ManagerQuiet /\ UNCHANGED <<eventTopic, checkReplies, serviceReady>>
  BY DEF GateRetries, RetryQueuedChecks, CanCall, GateStep
<1>2. queued \subseteq Policy /\ \A c \in queued : ~Checked(c)
  BY WakeContext DEF WakeInv, OneWakeUp
<1>3. Unchecked(queued) = queued
  BY <1>2 DEF Unchecked, Checked
<1>4. /\ pending' = pending /\ gateSession' = gateSession /\ queued' = {}
      /\ \A c \in Policy : inFlight'[c] = IF c \in queued THEN gateSession ELSE inFlight[c]
  BY <1>1, <1>3 DEF StartChecks
<1>5. gateOut'.requested = {}
  BY <1>1, OutputFields DEF StartChecks
<1>6. TopicsSayOnce' /\ \A c : (Asked(c)' <=> Asked(c)) /\ (News(c)' <=> News(c))
  BY <1>1, <1>5, SilentTopics
<1>7. GateActs(queued) /\ GateJoined'
  BY <1>1, <1>4, <1>6 DEF GateActs, GateJoined, WakeInv
<1>8. ASSUME NEW c \in Policy \cap queued PROVE OneWakeUp(c)'
  <2>1. ~Asked(c) /\ ~News(c) /\ Now(c) # "PENDING"
    BY DEF WakeInv, OneWakeUp, Rests
  <2>2. Now(c)' = Now(c)
    BY <1>1, GateFrame
  <2>3. Checked(c)' /\ c \notin queued' /\ serviceReady'
    BY <1>1, <1>4 DEF Checked
  <2>4. \A r \in checkReplies' : r.capability = c => Fits(r, c)'
    BY <1>1, RepliesStayFit
  <2> QED
    BY <1>6, <2>1, <2>2, <2>3, <2>4 DEF OneWakeUp
<1> QED
  BY <1>6, <1>7, <1>8, GateActsWakes

LEMMA DiscoveryWakes ==
    ASSUME SystemInv, WakeInv, GateDiscovers
    PROVE  WakeInv'
<1>1. /\ serviceReady' = up /\ Idle
      /\ GatePublishes /\ ManagerQuiet /\ UNCHANGED <<eventTopic, checkReplies>>
  BY DEF GateDiscovers, ServiceSeen, GateStep
<1>2. gateOut'.requested = {}
  BY <1>1, OutputFields DEF Idle
<1>3. serviceReady'
  BY <1>1 DEF WakeInv, OneSession
<1>4. TopicsSayOnce' /\ \A c : (Asked(c)' <=> Asked(c)) /\ (News(c)' <=> News(c))
  BY <1>1, <1>2, SilentTopics
<1>5. GateActs({}) /\ GateJoined'
  BY <1>1, <1>3, <1>4 DEF GateActs, Idle, GateJoined, WakeInv
<1> QED
  BY <1>4, <1>5, GateActsWakes

\* The only announcement there is: the gate joins, and asks what is queued.
LEMMA JoinWakes ==
    ASSUME SystemInv, WakeInv, GateTakesSession
    PROVE  WakeInv'
<1>1. /\ GateOnSession(sessionTopic) /\ sessionTopic # NoSession
      /\ GatePublishes /\ ManagerQuiet /\ UNCHANGED <<eventTopic, checkReplies, serviceReady>>
  BY DEF GateTakesSession, GateOnSession, GateStep
<1>2. gateSession = 0 /\ sessionTopic = 1
  BY <1>1 DEF SystemInv, SessionsFollow, WakeInv, OneSession, NoSession
<1>3. /\ pending = {} /\ queued \subseteq Policy /\ checkReplies = {}
      /\ \A c \in Policy : inFlight[c] = NoSession
  BY <1>2 DEF WakeInv, GateJoined, SystemInv, GateTyped, CallsTyped, NoSession
<1>4. PICK called : called = IF serviceReady THEN queued ELSE {}
  OBVIOUS
<1>5. /\ pending' = {} /\ gateSession' = 1 /\ queued' = queued \ called
      /\ \A c \in Policy : inFlight'[c] = IF c \in called THEN 1 ELSE NoSession
      /\ gateOut' = [NoOutput EXCEPT !.calls = Calls(1, called)]
  <2>1. ~SessionChanged(sessionTopic)
    BY <1>2 DEF SessionChanged, NoSession
  <2>2. \A c \in queued : [d \in Policy |-> inFlight[d]][c] = NoSession
    BY <1>3
  <2>3. called = IF serviceReady
                 THEN {c \in queued : [d \in Policy |-> inFlight[d]][c] = NoSession} ELSE {}
    BY <1>4, <2>2
  <2> QED
    BY <1>1, <1>2, <1>3, <2>1, <2>3 DEF GateOnSession, Calls
<1>6. gateOut'.requested = {}
  BY <1>5, OutputFields
<1>7. TopicsSayOnce' /\ \A c : (Asked(c)' <=> Asked(c)) /\ (News(c)' <=> News(c))
  BY <1>1, <1>6, SilentTopics
<1>8. GateActs(Policy) /\ GateJoined'
  BY <1>1, <1>5 DEF GateActs, GateJoined
<1>9. ASSUME NEW c \in Policy PROVE OneWakeUp(c)'
  <2>1. ~Asked(c) /\ ~News(c) /\ Now(c) # "PENDING"
    BY <1>3 DEF WakeInv, OneWakeUp, Rests
  <2>2. Now(c)' = Now(c)
    BY <1>1, GateFrame
  <2>3. Checked(c)' => c \notin queued' /\ serviceReady'
    BY <1>1, <1>4, <1>5 DEF Checked
  <2>4. \A r \in checkReplies' : r.capability = c => Fits(r, c)'
    BY <1>1, <1>3
  <2> QED
    BY <1>5, <1>7, <2>1, <2>2, <2>3, <2>4 DEF OneWakeUp
<1> QED
  BY <1>7, <1>8, <1>9, GateActsWakes

\* No reply says PENDING, and one that makes the gate ask is still true.
LEMMA ReplyWakes ==
    ASSUME SystemInv, WakeInv, GateTakesReply
    PROVE  WakeInv'
<1>1. PICK r \in checkReplies :
        /\ OnCheckComplete(r.session, r.capability, r.status)
        /\ checkReplies' = checkReplies \ {r}
        /\ GatePublishes /\ ManagerQuiet /\ UNCHANGED <<eventTopic, serviceReady>>
  BY DEF GateTakesReply, GateStep, OnCheckComplete
<1>2. PICK c : c = r.capability
  OBVIOUS
<1>3. c \in Policy /\ r.session = gateSession /\ gateSession = 1
  <2>1. r.session \in 1 .. gateSession /\ r.capability \in Policy /\ gateSession \in 0 .. 1
    BY DEF SystemInv, CallsTyped, SessionsFollow, WakeInv, OneSession
  <2> QED
    BY <1>2, <2>1
<1>4. inFlight[c] = gateSession /\ Checked(c)
  <2>1. inFlight[c] = gateSession
    BY <1>2, <1>3 DEF SystemInv, ChecksAreMarked
  <2> QED
    BY <1>3, <2>1 DEF Checked, NoSession
<1>5. ~Asked(c) /\ ~News(c) /\ Now(c) # "PENDING" /\ c \notin queued /\ Fits(r, c)
  BY <1>2, <1>3, <1>4 DEF WakeInv, OneWakeUp, Rests
<1>6. OnReply(c, r.status) /\ gateSession' = gateSession
      /\ ~Checked(c)' /\ \A d \in Policy \ {c} : inFlight'[d] = inFlight[d]
  <2>1. OnReply(c, r.status) /\ inFlight' = [inFlight EXCEPT ![c] = NoSession]
        /\ gateSession' = gateSession
    BY <1>1, <1>2, <1>3, <1>4 DEF OnCheckComplete
  <2>2. inFlight'[c] = NoSession /\ \A d \in Policy \ {c} : inFlight'[d] = inFlight[d]
    BY <1>3, <2>1 DEF SystemInv, GateTyped
  <2> QED
    BY <2>1, <2>2 DEF Checked
<1>7. Now(c)' = Now(c)
  BY <1>1, GateFrame
<1>8. \A q \in checkReplies' : q.capability = c => Fits(q, c)'
  BY <1>1, <1>3, RepliesStayFit
<1>9. GateJoined'
  BY <1>3, <1>6 DEF GateJoined
<1>10. ASSUME \/ /\ pending' = pending \ {c} /\ UNCHANGED queued
                 /\ gateOut' = [NoOutput EXCEPT !.authorized = {c}]
              \/ Block(c)
       PROVE  WakeInv'
  <2>1. gateOut'.requested = {} /\ pending' = pending \ {c}
        /\ (queued' = queued \/ queued' = queued \ {c})
    BY <1>10, OutputFields DEF Block
  <2>2. TopicsSayOnce' /\ \A d : (Asked(d)' <=> Asked(d)) /\ (News(d)' <=> News(d))
    BY <1>1, <2>1, SilentTopics
  <2>3. GateActs({c})
    BY <1>1, <1>6, <2>1, <2>2 DEF GateActs
  <2>4. OneWakeUp(c)'
    <3>1. c \notin pending' /\ ~Asked(c)' /\ ~News(c)' /\ Now(c)' # "PENDING"
      BY <1>5, <1>7, <2>1, <2>2
    <3> QED
      BY <1>6, <1>8, <3>1 DEF OneWakeUp
  <2> QED
    BY <1>9, <2>2, <2>3, <2>4, GateActsWakes
<1>11. CASE /\ Decide(r.status) = "REQUEST_CONSENT"
            /\ pending' = pending \cup {c} /\ UNCHANGED queued
            /\ gateOut' = [NoOutput EXCEPT !.requested = {c}]
  <2>1. r.status \in Askable
    BY <1>11 DEF Decide, Askable
  <2>2. Now(c) \in Askable
    BY <1>5, <2>1 DEF Fits
  <2>3. requestTopic \in Seq(Policy) /\ Distinct(requestTopic, Requested)
        /\ ~Carries(requestTopic, Requested, Requested[c]) /\ Requested[c] = c
    BY <1>3, <1>5 DEF WakeInv, TopicsSayOnce, Asked, Requested
  <2>4. PICK t : t = Append(requestTopic, c)
    OBVIOUS
  <2>5. requestTopic' = t
    <3>1. requestTopic' = requestTopic \o SetToSeq({c})
      BY <1>1, <1>11, OutputFields DEF GatePublishes
    <3> QED
      BY <1>3, <2>3, <2>4, <3>1, SequenceOfOne, AppendIsConcat
  <2>6. /\ t \in Seq(Policy) /\ Distinct(t, Requested)
        /\ \A d : Carries(t, Requested, d) <=> Carries(requestTopic, Requested, d) \/ d = c
    BY <1>3, <2>3, <2>4, AppendCarries
  <2>7. TopicsSayOnce'
    BY <1>1, <2>5, <2>6 DEF WakeInv, TopicsSayOnce
  <2>8. \A d : (Asked(d)' <=> Asked(d) \/ d = c) /\ (News(d)' <=> News(d))
    BY <1>1, <2>5, <2>6 DEF Asked, News
  <2>9. GateActs({c})
    BY <1>1, <1>6, <1>11, <2>8 DEF GateActs
  <2>10. OneWakeUp(c)'
    <3>1. Rests(c)' /\ Asked(c)' /\ ~News(c)' /\ Now(c)' \in Askable /\ Now(c)' # "PENDING"
      BY <1>5, <1>6, <1>7, <1>11, <2>2, <2>8 DEF Rests
    <3> QED
      BY <1>6, <1>8, <3>1 DEF OneWakeUp
  <2> QED
    BY <1>9, <2>7, <2>9, <2>10, GateActsWakes
<1>12. ASSUME Decide(r.status) = "WAIT" PROVE FALSE
  <2>1. r.status = "PENDING"
    BY <1>12 DEF Decide
  <2> QED
    BY <1>5, <2>1 DEF Fits
<1> QED
  BY <1>6, <1>10, <1>11, <1>12 DEF OnReply

-----------------------------------------------------------------------------
(***************************************************************************)
(* The other steps leave everything where it is.                           *)
(***************************************************************************)
LEMMA NothingWakes ==
    ASSUME SystemInv, WakeInv, clock' \in Int, clock <= clock',
           UNCHANGED <<records, config, up, session, gateSession, pending, queued>>,
           UNCHANGED <<inFlight, serviceReady, requestTopic, eventTopic, checkReplies>>
    PROVE  WakeInv'
<1>1. OneSession' /\ GateJoined' /\ TopicsSayOnce'
  BY SessionStays DEF WakeInv, OneSession, GateJoined, TopicsSayOnce
<1>2. RequestedInPast'
  <2> SUFFICES ASSUME NEW k \in Key, records[k].status = "PENDING"
               PROVE  records[k].requested <= clock'
    BY DEF RequestedInPast
  <2>1. records[k].requested \in Int /\ clock \in Int
    BY ClockIsInt DEF SystemInv, ManagerInv, StoreInv, StoreTypeOK, Record, Time
  <2>2. records[k].requested <= clock
    BY DEF WakeInv, RequestedInPast
  <2> QED
    BY <2>1, <2>2
<1>3. ASSUME NEW c \in Policy PROVE OneWakeUp(c)'
  <2>1. Now(c)' = Now(c) /\ (Asked(c)' <=> Asked(c)) /\ (News(c)' <=> News(c))
    BY DEF Now, Asked, News
  <2>2. Calm(c)
    BY <2>1, ManagerCalm DEF Settles
  <2> QED
    BY <2>2, CalmKeeps DEF WakeInv
<1> QED
  BY <1>1, <1>2, <1>3 DEF WakeInv

LEMMA RestWakes ==
    ASSUME SystemInv, WakeInv,
           \/ TerminalTakesPrompt \/ ParticipantAnswers \/ TerminalInputCloses
           \/ ClockTicks \/ UNCHANGED vars
    PROVE  WakeInv'
<1>1. clock \in Int
  BY ClockIsInt DEF SystemInv
<1>2. CASE TerminalTakesPrompt \/ ParticipantAnswers \/ TerminalInputCloses
  <2>1. Elsewhere
    BY <1>2 DEF TerminalTakesPrompt, ParticipantAnswers, TerminalInputCloses
  <2>2. /\ UNCHANGED <<records, clock, config, up, session, gateSession, pending, queued>>
        /\ UNCHANGED <<inFlight, serviceReady, requestTopic, eventTopic, checkReplies>>
    <3>1. eventTopic' = eventTopic
      BY <2>1 DEF Elsewhere
    <3> QED
      BY <2>1, <3>1 DEF Elsewhere, ManagerQuiet, GateQuiet, Unchanged
  <2> QED
    BY <1>1, <2>2, NothingWakes
<1>3. CASE ClockTicks
  <2>1. /\ UNCHANGED <<records, config, up, session, gateSession, pending, queued>>
        /\ UNCHANGED <<inFlight, serviceReady, requestTopic, eventTopic, checkReplies>>
        /\ clock' > clock
    BY <1>3 DEF ClockTicks, ClockMoves, TimePasses, GateQuiet, Unchanged, channels
  <2>2. clock' \in Int
    <3>1. SystemInv'
      BY <1>3, RestMoves
    <3> QED
      BY <3>1, BoundsAssumption DEF SystemInv, ManagerInv, StoreInv, StoreTypeOK, Time
  <2> QED
    BY <1>1, <2>1, <2>2, NothingWakes
<1>4. CASE UNCHANGED vars
  <2>1. /\ UNCHANGED <<records, clock, config, up, session, gateSession, pending, queued>>
        /\ UNCHANGED <<inFlight, serviceReady, requestTopic, eventTopic, checkReplies>>
    BY <1>4 DEF vars, managerVars, storeVars, gateVars, channels
  <2> QED
    BY <1>1, <2>1, NothingWakes
<1> QED
  BY <1>2, <1>3, <1>4

LEMMA WakeStarts ==
    ASSUME OneDynamicSession, Init
    PROVE  WakeInv
<1>1. /\ config \in Configurations /\ clock = 0 /\ up = TRUE /\ session = 1
      /\ pending = {} /\ queued = {} /\ inFlight = [c \in Policy |-> NoSession]
      /\ eventTopic = <<>> /\ requestTopic = <<>> /\ checkReplies = {}
  BY DEF Init, ManagerInit, GateInit
<1>2. Dynamic /\ PolicyLoads /\ ~BeginsStatic
  BY <1>1 DEF OneDynamicSession, Dynamic, PolicyLoads, BeginsStatic, Static
<1>3. \A k \in Key : records[k].status = "UNKNOWN"
  BY <1>2 DEF Init, ManagerInit, OpenedRecords, NoRecord
<1>4. TopicsSayOnce /\ \A c : ~Asked(c) /\ ~News(c)
  BY <1>1, EmptySeq DEF TopicsSayOnce, Distinct, Asked, News, Carries
<1>5. ASSUME NEW c \in Policy PROVE OneWakeUp(c)
  <2>1. Now(c) = "UNKNOWN"
    <3>1. <<session, c>> \in Key
      BY SystemStarts, ActiveRecord DEF SystemInv
    <3> QED
      BY <1>3, <3>1 DEF Now
  <2>2. ~Checked(c)
    BY <1>1 DEF Checked
  <2> QED
    BY <1>1, <1>4, <2>1, <2>2 DEF OneWakeUp
<1> QED
  BY <1>1, <1>2, <1>3, <1>4, <1>5 DEF WakeInv, OneSession, GateJoined, RequestedInPast

LEMMA StepWakes ==
    ASSUME OneDynamicSession, SystemInv, WakeInv, [Next]_vars
    PROVE  WakeInv'
<1>1. ~ExperimenterResets /\ ~ManagerCrashes /\ ~ManagerRestarts
  BY DEF OneDynamicSession, ExperimenterResets, ManagerCrashes, ManagerRestarts, Restart,
         WakeInv, OneSession
<1>2. CASE ManagerTakes
  BY <1>2, RequestWakes, DecisionWakes, CheckWakes DEF ManagerTakes
<1>3. CASE GateTakes
  BY <1>3, JoinWakes, EventWakes, ReplyWakes, RetryWakes, DiscoveryWakes DEF GateTakes
<1>4. CASE Outside
  BY <1>1, <1>4, AskWakes, WithdrawalWakes, RestWakes DEF Outside
<1> QED
  BY <1>2, <1>3, <1>4, RestWakes DEF Next

(***************************************************************************)
(* In one session of the dynamic condition, for any capabilities, any      *)
(* delays, revocations and expiries, and however requests for different    *)
(* capabilities interleave, the gate never waits for an answer whose news  *)
(* is not to come (privacy_gate_node.py, _on_check_complete and            *)
(* _on_consent_event).                                                     *)
(***************************************************************************)
THEOREM NoLostWakeUpAlways ==
    ASSUME OneDynamicSession
    PROVE  Spec => []NoLostWakeUp
<1>1. Init => WakeInv
  BY WakeStarts
<1>2. SystemInv /\ WakeInv /\ [Next]_vars => WakeInv'
  BY StepWakes
<1>3. SystemInv /\ WakeInv => NoLostWakeUp
  <2> SUFFICES ASSUME SystemInv, WakeInv, NEW c \in pending
               PROVE  WillWake(c)
    BY DEF NoLostWakeUp
  <2>1. c \in Policy /\ gateSession = 1 /\ session = 1
    BY WakeContext DEF WakeInv, GateJoined
  <2>2. \/ Asked(c) \/ Now(c) = "PENDING" \/ News(c) \/ Checked(c) \/ c \in queued
    BY <2>1 DEF WakeInv, OneWakeUp
  <2>3. requestTopic \in Seq(Policy) /\ eventTopic \in Seq(NewsEvent)
    BY DEF WakeInv, TopicsSayOnce
  <2>4. ASSUME Asked(c) PROVE WillWake(c)
    <3>1. PICK i \in DOMAIN requestTopic : Requested[requestTopic[i]] = c
      BY <2>4 DEF Asked, Carries
    <3>2. requestTopic[i] \in Policy
      BY <2>3, <3>1, ElementOfSeq, LenProperties
    <3>3. requestTopic[i] = c
      BY <3>1, <3>2 DEF Requested
    <3> QED
      BY <3>3 DEF WillWake
  <2>5. ASSUME News(c) PROVE WillWake(c)
    <3>1. PICK i \in DOMAIN eventTopic : DecidedOf[eventTopic[i]] = c
      BY <2>5 DEF News, Carries
    <3>2. eventTopic[i] \in NewsEvent
      BY <2>3, <3>1, ElementOfSeq, LenProperties
    <3>3. eventTopic[i].capability = c
      BY <3>1, <3>2 DEF DecidedOf
    <3> QED
      BY <3>3 DEF WillWake
  <2> QED
    BY <2>1, <2>2, <2>4, <2>5 DEF WillWake, Now, Checked
<1> QED
  BY <1>1, <1>2, <1>3, SystemInvariant, PTL DEF Spec
=============================================================================
