----------------------------- MODULE MCSessionLog ---------------------------
EXTENDS SessionLog, TLC

CONSTANTS memory, oddName, all

Expiries == memory :> 1

OneCapability == <<memory>>

Setup(condition) == [condition |-> condition, policyLoads |-> TRUE, disclosure |-> TRUE]

EveryCondition == {Setup("dynamic"), Setup("static"), Setup("invalid")}
=============================================================================
