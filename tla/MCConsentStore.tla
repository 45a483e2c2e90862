--------------------------- MODULE MCConsentStore ---------------------------
EXTENDS ConsentStore, TLC

CONSTANTS memory, undefined

Expiries == memory :> 2
=============================================================================
