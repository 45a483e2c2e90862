--------------------------- MODULE MCConsentSystem --------------------------
EXTENDS ConsentSystem

CONSTANTS memory, speech, all

WholeSession == memory :> 0
Timed == memory :> 1
WholeSessionBoth == memory :> 0 @@ speech :> 0

OneCapability == <<memory>>
TwoCapabilities == <<memory, speech>>

Setup(condition, disclosure) ==
    [condition |-> condition, policyLoads |-> TRUE, disclosure |-> disclosure]

DynamicOnly == {Setup("dynamic", FALSE)}
StaticOnly == {Setup("static", TRUE)}
Both == DynamicOnly \cup StaticOnly
=============================================================================
