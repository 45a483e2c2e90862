---------------------------- MODULE MCSpeechChain ---------------------------
EXTENDS SpeechChain

CONSTANTS speech, other
=============================================================================
