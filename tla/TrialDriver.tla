---------------------------- MODULE TrialDriver -----------------------------
(***************************************************************************)
(* research/trial_driver_node.py with research/decision_policies.py: the   *)
(* automated participant of a research trial.  It answers each prompt by a *)
(* fixed strategy after a short delay, notes what the scenario publishes,  *)
(* and when that is complete writes one summary, a file named after the    *)
(* session.                                                                *)
(*                                                                         *)
(* The counters of events and statuses, the odometry, the flag of the      *)
(* dashboard and the times are left out: they are copied into the summary  *)
(* and never looked at.                                                    *)
(***************************************************************************)
EXTENDS Integers, Sequences

CONSTANTS
    Asked,         \* SCENARIO_STAGES: the capability of each, in order
    StageNumber,   \* and its number
    HighPrivacy,   \* _HIGH_PRIVACY_CAPABILITIES
    AllTogether    \* 'all_capabilities'

ASSUME DriverAssumption ==
    /\ Asked \in Seq({Asked[i] : i \in DOMAIN Asked})
    /\ StageNumber \in Seq(1 .. 7) /\ Len(StageNumber) = Len(Asked)
    /\ \A i, j \in DOMAIN Asked : Asked[i] = Asked[j] => i = j
    /\ \A i \in DOMAIN Asked : Asked[i] # AllTogether

VARIABLES
    strategy,        \* _strategy
    drvSession,      \* _session_id; 0: ''
    scheduled,       \* _pending_decision, or Nothing
    taken,           \* _answered_request_ids
    decisions,       \* _prompts: what was decided, in order
    results,         \* _stage_results: the outcome of each stage, or "none"
    drvComplete,     \* _scenario_complete, and _scenario_completed_at is set
    finalized,       \* _finalized
    drvOut           \* the decision published by the last step, or Nothing

driverVars == <<strategy, drvSession, scheduled, taken, decisions, results,
                drvComplete, finalized, drvOut>>

Nothing == [session |-> 0, key |-> AllTogether, granted |-> FALSE]

NoResults == [i \in DOMAIN Asked |-> "none"]

-----------------------------------------------------------------------------
\* DECISION_STRATEGIES
Strategy == {"grant_all", "refuse_all", "alternate", "risk_weighted"}

\* _stage_for_capability; the combined disclosure counts as stage 1
StageOf(key) ==
    IF key = AllTogether THEN 1
    ELSE StageNumber[CHOOSE i \in DOMAIN Asked : Asked[i] = key]

\* synthetic_decision
SyntheticDecisionPerStage(key) ==    \* mutant: the combined disclosure is stage 1
    \/ strategy = "grant_all"
    \/ strategy = "alternate" /\ StageOf(key) % 2 = 1
    \/ strategy = "risk_weighted" /\ key \notin HighPrivacy

SyntheticDecision(key) ==
    \/ strategy = "grant_all"
    \/ strategy = "alternate" /\ key # AllTogether /\ StageOf(key) % 2 = 1
    \/ strategy = "risk_weighted" /\ key \notin HighPrivacy \cup {AllTogether}

-----------------------------------------------------------------------------
\* _on_session
StartsAfreshKeepingPrompts ==              \* mutant: _prompts not cleared
    /\ scheduled' = Nothing /\ taken' = {} /\ UNCHANGED decisions
    /\ results' = NoResults
    /\ drvComplete' = FALSE /\ finalized' = FALSE

StartsAfreshFinalized ==                   \* mutant: _finalized not reset
    /\ scheduled' = Nothing /\ taken' = {} /\ decisions' = <<>>
    /\ results' = NoResults
    /\ drvComplete' = FALSE /\ UNCHANGED finalized

StartsAfresh ==
    /\ scheduled' = Nothing /\ taken' = {} /\ decisions' = <<>>
    /\ results' = NoResults
    /\ drvComplete' = FALSE /\ finalized' = FALSE

KnownSession(s) == s = drvSession

DriverOnSession(s) ==
    /\ drvOut' = Nothing /\ UNCHANGED strategy
    /\ IF KnownSession(s)
       THEN UNCHANGED <<drvSession, scheduled, taken, decisions, results,
                        drvComplete, finalized>>
       ELSE drvSession' = s /\ StartsAfresh

\* _on_prompt
Answers(p) == p.session = drvSession /\ p.request \notin taken

DriverOnPrompt(p) ==
    /\ drvOut' = Nothing
    /\ IF Answers(p)
       THEN LET granted == SyntheticDecision(p.key) IN
            /\ scheduled' = [session |-> p.session, key |-> p.key, granted |-> granted]
            /\ taken' = taken \cup {p.request}
            /\ decisions' = Append(decisions, [key |-> p.key, granted |-> granted])
       ELSE UNCHANGED <<scheduled, taken, decisions>>
    /\ UNCHANGED <<strategy, drvSession, results, drvComplete, finalized>>

\* _tick: the decision that is due
DriverDecides ==
    /\ scheduled # Nothing
    /\ drvOut' = scheduled
    /\ scheduled' = Nothing
    /\ UNCHANGED <<strategy, drvSession, taken, decisions, results, drvComplete,
                   finalized>>

\* _on_scenario_status
OutcomeNoted(status) == IF status = "executed" THEN "success" ELSE "fallback"

DriverOnStatus(m) ==
    /\ drvOut' = Nothing
    /\ drvComplete' = (drvComplete \/ m.status = "complete")
    /\ results' = IF m.status \in {"executed", "fallback"}
                  THEN [results EXCEPT ![m.stage] = OutcomeNoted(m.status)]
                  ELSE results
    /\ UNCHANGED <<strategy, drvSession, scheduled, taken, decisions, finalized>>

\* _tick, 0.5 s after the scenario was complete: _write_summary
SummaryDueAlways == drvComplete            \* mutant: _finalized not looked at
SummaryDue == drvComplete /\ ~finalized

DriverWrites ==
    /\ SummaryDue
    /\ finalized' = TRUE
    /\ drvOut' = Nothing
    /\ UNCHANGED <<strategy, drvSession, scheduled, taken, decisions, results,
                   drvComplete>>

DriverInit ==
    /\ strategy \in Strategy
    /\ drvSession = 0 /\ scheduled = Nothing /\ taken = {} /\ decisions = <<>>
    /\ results = NoResults
    /\ drvComplete = FALSE /\ finalized = FALSE
    /\ drvOut = Nothing
=============================================================================
