---------------------------- MODULE PrivacyPolicy ---------------------------
(***************************************************************************)
(* What the rest of the system uses of a loaded privacy policy             *)
(* (core/policy_loader.py): which capabilities it defines and for how long *)
(* a consent to each of them lasts.                                        *)
(***************************************************************************)
EXTENDS Integers, FiniteSets

CONSTANTS
    Capability,    \* every capability identifier a message may carry
    Policy,        \* those the policy defines
    Expiry         \* expiry_seconds of each of them; 0: the whole session

ASSUME PolicyAssumption == Policy \subseteq Capability
ASSUME ExpiryAssumption == Expiry \in [Policy -> Nat]
=============================================================================
