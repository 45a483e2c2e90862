---------------------------- MODULE ConsentStore ----------------------------
(***************************************************************************)
(* core/consent_state.py: the table that owns every consent decision.      *)
(*                                                                         *)
(* The store is a passive object: its methods run one at a time, inside    *)
(* the callbacks of the consent manager.  Each method is an action here.   *)
(* A key (session, capability) with no record is the record NoRecord,      *)
(* whose status is UNKNOWN, the answer check() gives for it.               *)
(*                                                                         *)
(* The clock is time.time(), read at every method call: a wall clock, that *)
(* normally advances and that may be set back (StepClockBack).  A grant    *)
(* expires lazily: nothing happens when its time passes; the next method   *)
(* that touches the record finds it lapsed (Settled).                      *)
(***************************************************************************)
EXTENDS PrivacyPolicy

CONSTANTS
    MaxSession,    \* bound: sessions a run may use
    MaxClock,      \* bound: largest value of the clock
    MaxRequest     \* bound: consent requests a run may create

ASSUME BoundsAssumption ==
    MaxSession \in Nat /\ MaxClock \in Nat /\ MaxRequest \in Nat

VARIABLES
    records,       \* [Key -> Record], the dict _records
    clock,         \* what time.time() returns
    issued,        \* number of request identifiers generated so far
    verdicts,      \* history: the participant decisions that were applied
    withdrawn,     \* history: the requests whose grant was revoked
    reply          \* the answer of the check made by the last step, if any

storeVars == <<records, clock, issued, verdicts, withdrawn, reply>>

Session == 1 .. MaxSession
Key == Session \X Policy

Status == {"UNKNOWN", "PENDING", "GRANTED", "REFUSED", "REVOKED", "EXPIRED"}
Promptable == {"UNKNOWN", "REFUSED", "REVOKED", "EXPIRED"}

Time == 0 .. MaxClock
Never == -1                \* None in decided_at and expires_at

(***************************************************************************)
(* A request_id is a fresh uuid.  Here it is the number of the call that   *)
(* created it, with the capability it was created for.                     *)
(***************************************************************************)
RequestId == (0 .. MaxRequest) \X Capability
NoRequest == <<0, "none">>     \* the request_id of no record

Record == [request : RequestId \cup {NoRequest}, status : Status,
           requested : Int, decided : Int, expires : Int]

NoRecord == [request |-> NoRequest, status |-> "UNKNOWN",
             requested |-> Never, decided |-> Never, expires |-> Never]

PendingRecord(n, c) == [request |-> <<n, c>>, status |-> "PENDING",
                        requested |-> clock, decided |-> Never,
                        expires |-> Never]

Verdict == [request : RequestId, key : Key, granted : BOOLEAN,
            at : Time, timed : BOOLEAN]

NoReply == [status |-> "NONE", session |-> 0, capability |-> "none"]

-----------------------------------------------------------------------------
(***************************************************************************)
(* _expire_if_lapsed                                                       *)
(***************************************************************************)
LapsedTooLate(k) == /\ records[k].status = "GRANTED"      \* mutant: > for >=
                    /\ records[k].expires # Never
                    /\ clock > records[k].expires

Lapsed(k) == /\ records[k].status = "GRANTED"
             /\ records[k].expires # Never
             /\ clock >= records[k].expires

Settled(k) == IF Lapsed(k) THEN [records[k] EXCEPT !.status = "EXPIRED"]
                           ELSE records[k]

Expire(k) == /\ records' = [records EXCEPT ![k] = Settled(k)]
             /\ UNCHANGED <<issued, verdicts, withdrawn>>

Unchanged == UNCHANGED <<records, issued, verdicts, withdrawn>>

-----------------------------------------------------------------------------
(***************************************************************************)
(* check: answers for any capability identifier and any session.           *)
(***************************************************************************)
CheckStatus(s, c) ==
    IF c \in Policy THEN Settled(<<s, c>>).status ELSE "INVALID_CAPABILITY"

Check(s, c) ==
    /\ reply' = [status |-> CheckStatus(s, c), session |-> s, capability |-> c]
    /\ IF c \in Policy THEN Expire(<<s, c>>) ELSE Unchanged

(***************************************************************************)
(* create_request, called for each capability of C in a row: an unexpired  *)
(* grant and an open request are returned as they are; every other record  *)
(* is replaced by a fresh pending one.                                     *)
(***************************************************************************)
NeedsPromptUnlessPending(k) ==                  \* mutant: downgrades a grant
    Settled(k).status # "PENDING"

NeedsPrompt(k) == Settled(k).status \in Promptable

CreateRequests(s, C) ==
    /\ \E c \in C : NeedsPrompt(<<s, c>>)
    /\ issued < MaxRequest
    /\ issued' = issued + 1
    /\ records' = [k \in Key |->
                     IF k[1] = s /\ k[2] \in C /\ NeedsPrompt(k)
                     THEN PendingRecord(issued + 1, k[2]) ELSE records[k]]
    /\ UNCHANGED <<verdicts, withdrawn>>

(***************************************************************************)
(* record_decision and record_group_decision.  A group is a function from  *)
(* capabilities to the request each decision names; one decision is a      *)
(* group of one.  Every member is validated before any is changed.         *)
(***************************************************************************)
AwaitsWhateverStatus(k, id) == records[k].request = id   \* mutant: no PENDING

Awaits(k, id) == records[k].request = id /\ records[k].status = "PENDING"

CanDecide(s, group) ==
    /\ DOMAIN group # {}
    /\ \A c \in DOMAIN group : Awaits(<<s, c>>, group[c])

Deadline(c, timed) ==
    IF timed /\ Expiry[c] > 0 THEN clock + Expiry[c] ELSE Never

Decided(k, granted, timed) ==
    [records[k] EXCEPT
        !.status = IF granted THEN "GRANTED" ELSE "REFUSED",
        !.decided = clock,
        !.expires = IF granted THEN Deadline(k[2], timed) ELSE @]

RecordDecision(s, group, granted, timed) ==
    LET keys == {<<s, c>> : c \in DOMAIN group} IN
    /\ CanDecide(s, group)
    /\ records' = [k \in Key |-> IF k \in keys THEN Decided(k, granted, timed)
                                               ELSE records[k]]
    /\ verdicts' = verdicts \cup
          {[request |-> group[k[2]], key |-> k, granted |-> granted,
            at |-> clock, timed |-> timed] : k \in keys}
    /\ UNCHANGED <<issued, withdrawn>>

(***************************************************************************)
(* revoke: only an unexpired grant can be withdrawn.  A lapsed one becomes *)
(* EXPIRED and the call is refused.                                        *)
(***************************************************************************)
CanRevoke(k) == Settled(k).status = "GRANTED"

RevokeOnPaper(k) ==                \* mutant: reported, but the grant stays
    /\ CanRevoke(k)
    /\ withdrawn' = withdrawn \cup {records[k].request}
    /\ UNCHANGED <<records, issued, verdicts>>

Revoked(k) == [records[k] EXCEPT !.status = "REVOKED", !.decided = clock]

Revoke(k) ==
    /\ CanRevoke(k)
    /\ records' = [records EXCEPT ![k] = Revoked(k)]
    /\ withdrawn' = withdrawn \cup {records[k].request}
    /\ UNCHANGED <<issued, verdicts>>

RevokeRejected(k) == ~CanRevoke(k) /\ Expire(k)

(***************************************************************************)
(* reset_session                                                           *)
(***************************************************************************)
ResetSession(s) ==
    /\ records' = [k \in Key |-> IF k[1] = s THEN NoRecord ELSE records[k]]
    /\ UNCHANGED <<issued, verdicts, withdrawn>>

(***************************************************************************)
(* __init__: a manager that is started again has an empty store.           *)
(***************************************************************************)
Recreate ==
    /\ records' = [k \in Key |-> NoRecord]
    /\ UNCHANGED <<issued, verdicts, withdrawn>>

-----------------------------------------------------------------------------
(***************************************************************************)
(* The wall clock.                                                         *)
(***************************************************************************)
AdvanceClock ==
    /\ clock < MaxClock
    /\ clock' = clock + 1

StepClockBack ==
    \E t \in Time : t < clock /\ clock' = t

TimePasses == /\ AdvanceClock \/ StepClockBack
              /\ reply' = NoReply
              /\ Unchanged

-----------------------------------------------------------------------------
StoreInit ==
    /\ records = [k \in Key |-> NoRecord]
    /\ clock = 0
    /\ issued = 0
    /\ verdicts = {}
    /\ withdrawn = {}
    /\ reply = NoReply

(***************************************************************************)
(* The store on its own: any caller may call any method, with any request  *)
(* identifier generated so far (a stale or replayed one included).         *)
(***************************************************************************)
CallCheck == \E s \in Session, c \in Capability : Check(s, c)

CallCreate == \E s \in Session, C \in SUBSET Policy :
    CreateRequests(s, C) /\ reply' = NoReply

\* create_request on a record that needs no prompt, and get_record
CallReturnExisting ==
    \E k \in Key : ~NeedsPrompt(k) /\ Expire(k) /\ reply' = NoReply

CallDecide ==
    \E s \in Session, C \in SUBSET Policy, granted, timed \in BOOLEAN :
        \E group \in [C -> (1 .. issued) \X Policy] :
            RecordDecision(s, group, granted, timed) /\ reply' = NoReply

CallRevoke == \E k \in Key : (Revoke(k) \/ RevokeRejected(k)) /\ reply' = NoReply

CallReset == \E s \in Session : ResetSession(s) /\ reply' = NoReply

StoreRecreated == Recreate /\ reply' = NoReply

Call == /\ \/ CallCheck \/ CallCreate \/ CallReturnExisting
           \/ CallDecide \/ CallRevoke \/ CallReset \/ StoreRecreated
        /\ UNCHANGED clock

StoreNext == Call \/ TimePasses

StoreSpec == StoreInit /\ [][StoreNext]_storeVars

-----------------------------------------------------------------------------
(***************************************************************************)
(* Every variable has its type.                                            *)
(***************************************************************************)
StoreTypeOK ==
    /\ records \in [Key -> Record]
    /\ clock \in Time
    /\ issued \in 0 .. MaxRequest
    /\ verdicts \subseteq Verdict
    /\ withdrawn \subseteq RequestId \cup {NoRequest}
    /\ reply = NoReply \/ reply \in [status : Status \cup {"INVALID_CAPABILITY"},
                                    session : Session, capability : Capability]

(***************************************************************************)
(* check() allows a capability only on a live consent: the participant     *)
(* said yes to the request now on record for exactly this session and      *)
(* capability, has not withdrawn that yes, and its time has not passed.    *)
(***************************************************************************)
InTime(v) == ~v.timed \/ Expiry[v.key[2]] = 0 \/ clock < v.at + Expiry[v.key[2]]

AllowedOnlyOnLiveConsent ==
    reply.status = "GRANTED" =>
        \E v \in verdicts :
            /\ v.key = <<reply.session, reply.capability>>
            /\ v.granted
            /\ v.request \notin withdrawn
            /\ v.request = records[v.key].request
            /\ InTime(v)

(***************************************************************************)
(* A request is decided at most once, whatever decisions are replayed,     *)
(* misdirected or sent late (record_decision's contract).                  *)
(***************************************************************************)
DecidedAtMostOnce ==
    \A v, w \in verdicts : v.request = w.request => v = w

(***************************************************************************)
(* Once a request was refused, revoked or has expired, nothing brings it   *)
(* back: its key is permitted again only through a new request.            *)
(***************************************************************************)
Over == {"REFUSED", "REVOKED", "EXPIRED"}

OverMeansOver ==
    [][\A k \in Key :
          records[k].status \in Over /\ records'[k].request = records[k].request
          => records'[k].status = records[k].status]_storeVars

(***************************************************************************)
(* Why the invariants above hold: identifiers are fresh and belong to one  *)
(* key, an open request has no verdict yet, and a grant carries the        *)
(* deadline its verdict earned.  This conjunction is inductive.            *)
(***************************************************************************)
HasRecord(k) == records[k].status # "UNKNOWN"

IdsAreIssued ==
    /\ \A k \in Key : IF HasRecord(k) THEN records[k].request \in (1 .. issued) \X {k[2]}
                                      ELSE records[k] = NoRecord
    /\ \A v \in verdicts : v.request[1] <= issued
    /\ \A id \in withdrawn : id[1] <= issued

IdsAreDistinct ==
    \A j, k \in Key :
        HasRecord(j) /\ HasRecord(k) /\ records[j].request = records[k].request
        => j = k

OpenMeansUndecided ==
    \A k \in Key : records[k].status = "PENDING" =>
        /\ records[k].request \notin withdrawn
        /\ \A v \in verdicts : v.request # records[k].request

Earned(v) == IF v.timed /\ Expiry[v.key[2]] > 0 THEN v.at + Expiry[v.key[2]]
                                              ELSE Never

GrantedMeansYes ==
    \A k \in Key : records[k].status = "GRANTED" =>
        /\ records[k].request \notin withdrawn
        /\ \E v \in verdicts :
              /\ v.key = k /\ v.granted /\ v.request = records[k].request
              /\ records[k].expires = Earned(v)

StoreInv ==
    /\ StoreTypeOK
    /\ IdsAreIssued
    /\ IdsAreDistinct
    /\ OpenMeansUndecided
    /\ GrantedMeansYes
    /\ DecidedAtMostOnce
    /\ AllowedOnlyOnLiveConsent

(***************************************************************************)
(* The store implements the lifecycle the documentation draws.             *)
(***************************************************************************)
Lifecycle == INSTANCE ConsentLifecycle
    WITH consent <- [k \in Key |-> records[k].status],
         until <- [k \in Key |-> records[k].expires],
         now <- clock

ImplementsLifecycle == Lifecycle!Spec
=============================================================================
