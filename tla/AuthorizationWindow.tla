------------------------- MODULE AuthorizationWindow ------------------------
(***************************************************************************)
(* sensors/sensor_guard_logic.py: the bounded grant under which a guard    *)
(* lets a sensor be used.  Its clock is monotonic and only compared with   *)
(* one deadline, so a window is "closed" (no deadline), "open" (the        *)
(* deadline lies ahead) or "lapsed" (it has passed and nobody has looked). *)
(***************************************************************************)
Window == {"closed", "open", "lapsed"}

\* is_active, and the window it leaves
IsActiveForEver(w) == w # "closed"          \* mutant: the deadline is not read

IsActive(w) == w = "open"
AfterLook(w) == IF IsActive(w) THEN w ELSE "closed"

(***************************************************************************)
(* handle_event: what closes the window of capability own.                 *)
(***************************************************************************)
ClosesIgnoringExpiry(type, c, own) ==       \* mutant: one event type missing
    \/ type \in {"session_reset", "session_started"}
    \/ c = own /\ type \in {"consent_revoked", "capability_blocked"}

Closes(type, c, own) ==
    \/ type \in {"session_reset", "session_started"}
    \/ c = own /\ type \in {"consent_revoked", "consent_expired",
                            "capability_blocked"}

\* The result of handle_event: a grant, lapsed or not, was there to close.
Changes(w, type, c, own) == w # "closed" /\ Closes(type, c, own)

\* The events a guard may see: those that close, and one that does not.
EventType == {"session_reset", "session_started", "consent_revoked",
              "consent_expired", "capability_blocked", "consent_decided"}
=============================================================================
