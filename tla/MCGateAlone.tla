----------------------------- MODULE MCGateAlone ----------------------------
EXTENDS GateAlone, TLC

CONSTANTS memory, speech, undefined

NoExpiry == memory :> 0 @@ speech :> 0

Setup(condition, policyLoads) ==
    [condition |-> condition, policyLoads |-> policyLoads, disclosure |-> FALSE]

Setups == {Setup("dynamic", TRUE), Setup("static", TRUE), Setup("dynamic", FALSE)}

Capabilities == Permutations({memory, speech})
=============================================================================
