-------------------------- MODULE ConsentLifecycle --------------------------
(***************************************************************************)
(* What the consent store promises, without records, request identifiers   *)
(* or methods: the status of each key moves only along the transitions     *)
(* below, a grant may carry a deadline, and once that has passed the grant *)
(* can only lapse or be asked for again.                                   *)
(***************************************************************************)
EXTENDS Integers

CONSTANT Key          \* (session, capability) pairs

VARIABLES
    consent,          \* the status of each key
    until,            \* the deadline of its latest grant, or Forever
    now               \* the clock

vars == <<consent, until, now>>

Forever == -1

Overdue(k) == consent[k] = "GRANTED" /\ until[k] # Forever /\ now >= until[k]

MayAsk(k) == Overdue(k) \/ consent[k] \in {"UNKNOWN", "REFUSED", "REVOKED", "EXPIRED"}

Become(K, status) ==
    consent' = [k \in Key |-> IF k \in K THEN status ELSE consent[k]]

Init == /\ consent = [k \in Key |-> "UNKNOWN"]
        /\ until = [k \in Key |-> Forever]
        /\ now = 0

Ask == \E K \in SUBSET Key :
    /\ \A k \in K : MayAsk(k)
    /\ Become(K, "PENDING")
    /\ until' = [k \in Key |-> IF k \in K THEN Forever ELSE until[k]]
    /\ UNCHANGED now

\* One answer may settle several open questions; a yes is valid for a while.
Allow == \E K \in SUBSET Key :
    /\ \A k \in K : consent[k] = "PENDING"
    /\ Become(K, "GRANTED")
    /\ DOMAIN until' = Key
    /\ \A k \in Key : IF k \in K THEN until'[k] = Forever \/ until'[k] > now
                                 ELSE until'[k] = until[k]
    /\ UNCHANGED now

Refuse == \E K \in SUBSET Key :
    /\ \A k \in K : consent[k] = "PENDING"
    /\ Become(K, "REFUSED")
    /\ UNCHANGED <<until, now>>

Withdraw == \E k \in Key :
    /\ consent[k] = "GRANTED" /\ ~Overdue(k)
    /\ Become({k}, "REVOKED")
    /\ UNCHANGED <<until, now>>

Lapse == \E k \in Key :
    /\ Overdue(k)
    /\ Become({k}, "EXPIRED")
    /\ UNCHANGED <<until, now>>

Forget == \E K \in SUBSET Key :
    /\ Become(K, "UNKNOWN")
    /\ until' = [k \in Key |-> IF k \in K THEN Forever ELSE until[k]]
    /\ UNCHANGED now

TimePasses == now' # now /\ UNCHANGED <<consent, until>>

Next == \/ Ask \/ Allow \/ Refuse \/ Withdraw \/ Lapse \/ Forget
        \/ TimePasses

Spec == Init /\ [][Next]_vars
=============================================================================
