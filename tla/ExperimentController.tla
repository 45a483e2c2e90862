------------------------ MODULE ExperimentController ------------------------
(***************************************************************************)
(* nodes/experiment_controller_node.py: a reset of the study is a reset of *)
(* the world and then, if that succeeded, of the consent session.  Each    *)
(* step is an asynchronous call of a service.  A request that is refused   *)
(* (a reset in progress, no session, a service missing) changes nothing.   *)
(***************************************************************************)
EXTENDS Naturals

VARIABLES
    known,         \* _session_id; 0: ''
    phase,         \* "idle" (~_reset_in_progress), or the service called
    call,          \* that call: "none", "sent", "succeeded" or "failed"
    resetOf,       \* the session named in the call of /consent/reset_session
    controlStatus  \* the last message of /study/control_status

controllerVars == <<known, phase, call, resetOf, controlStatus>>

\* _on_session
ControllerOnSession(s) == known' = s /\ UNCHANGED <<phase, call, resetOf, controlStatus>>

\* _on_reset, accepted
AcceptsReset ==
    /\ phase = "idle" /\ known # 0
    /\ phase' = "world" /\ call' = "sent"
    /\ controlStatus' = "reset_requested"
    /\ UNCHANGED <<known, resetOf>>

\* _fail_reset
FailResetStaysBusy ==                       \* mutant: _reset_in_progress stays set
    /\ call' = "none" /\ controlStatus' = "reset_failed"
    /\ UNCHANGED <<known, phase, resetOf>>

FailReset ==
    /\ phase' = "idle" /\ call' = "none"
    /\ controlStatus' = "reset_failed"
    /\ UNCHANGED <<known, resetOf>>

\* result is not None and result.success, and no exception
WorldIsResetAnyway == TRUE                  \* mutant: the result is not looked at
WorldIsReset == call = "succeeded"

\* _on_world_reset
OnWorldReset ==
    /\ phase = "world" /\ call \in {"succeeded", "failed"}
    /\ \/ ~WorldIsReset /\ FailReset
       \/ /\ WorldIsReset
          /\ phase' = "consent" /\ call' = "sent"
          /\ resetOf' = known
          /\ controlStatus' = "gazebo_reset_complete"
          /\ UNCHANGED known

\* _on_consent_reset
OnConsentReset ==
    /\ phase = "consent" /\ call \in {"succeeded", "failed"}
    /\ \/ call = "failed" /\ FailReset
       \/ /\ call = "succeeded"
          /\ phase' = "idle" /\ call' = "none"
          /\ controlStatus' = "reset_complete"
          /\ UNCHANGED <<known, resetOf>>

\* A service answers.
Answered(result) == call' = result /\ UNCHANGED <<known, phase, resetOf, controlStatus>>

ControllerInit ==
    /\ known = 0 /\ phase = "idle" /\ call = "none" /\ resetOf = 0
    /\ controlStatus = "none"
=============================================================================
