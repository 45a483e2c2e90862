----------------------------- MODULE StudySetup -----------------------------
(***************************************************************************)
(* What the launch files fix before any node runs: the privacy policy and  *)
(* the consent condition.  Every node reads the same parameters and loads  *)
(* the same policy file, so one variable stands for all their copies; it   *)
(* is chosen at start and never changes.                                   *)
(***************************************************************************)
EXTENDS PrivacyPolicy

CONSTANT Configurations     \* the configurations a run starts from

(***************************************************************************)
(* condition: validate_consent_mode maps every other value to "invalid".   *)
(* policyLoads: load_policy succeeds; if not, manager and gate run without *)
(* a policy.  disclosure: the static_disclosure text is not blank.         *)
(***************************************************************************)
Configuration == [condition : {"static", "dynamic", "invalid"},
                  policyLoads : BOOLEAN, disclosure : BOOLEAN]

ASSUME ConfigurationsAssumption == Configurations \subseteq Configuration

VARIABLE config

Dynamic == config.condition = "dynamic"
Static == config.condition = "static"
PolicyLoads == config.policyLoads

\* The policy as a node sees it.
Loaded == IF PolicyLoads THEN Policy ELSE {}
=============================================================================
