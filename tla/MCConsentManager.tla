-------------------------- MODULE MCConsentManager --------------------------
EXTENDS ConsentManager, TLC

CONSTANTS memory, speech, all

Expiries == memory :> 1 @@ speech :> 0

TwoCapabilities == <<memory, speech>>

Setup(condition, policyLoads, disclosure) ==
    [condition |-> condition, policyLoads |-> policyLoads,
     disclosure |-> disclosure]

EverySetup == Configuration
=============================================================================
