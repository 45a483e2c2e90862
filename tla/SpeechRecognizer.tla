--------------------------- MODULE SpeechRecognizer -------------------------
(***************************************************************************)
(* nodes/offline_speech_recognizer_node.py: an utterance lasts from the    *)
(* status capture_started to a status that ends the capture; the result of *)
(* a complete capture is published, that of any other is discarded.        *)
(***************************************************************************)
EXTENDS Integers

VARIABLES
    decoder,      \* PocketSphinx is installed and works
    listening,    \* _listening
    heard,        \* the captures whose audio the utterance holds
    recOut        \* what the last step published

recVars == <<decoder, listening, heard, recOut>>

Quiet == [transcript |-> {}, completion |-> "none"]
Completes(result) == recOut' = [Quiet EXCEPT !.completion = result]
Deaf == recOut' = Quiet /\ UNCHANGED <<listening, heard>>

EndingsOfConsent == {"capture_complete", "capture_stopped_by_consent"}  \* mutant

Endings == {"capture_complete", "capture_failed", "capture_stopped_by_consent",
            "capture_stopped_by_session_change", "shutdown"}

\* _finish; the decoder may make nothing of what it heard
Finish(publishResult) ==
    /\ listening' = FALSE
    /\ heard' = {}
    /\ \/ /\ publishResult /\ heard # {}
          /\ recOut' = [transcript |-> heard, completion |-> "success"]
       \/ Completes("failed")

StartUtterance == listening' = TRUE /\ heard' = {} /\ recOut' = Quiet

OnStatus(status) ==
    /\ UNCHANGED decoder
    /\ \/ /\ ~decoder
          /\ IF status \in {"capture_started", "unavailable"}
             THEN Completes("failed") /\ UNCHANGED <<listening, heard>>
             ELSE Deaf
       \/ decoder /\ status = "capture_started" /\ StartUtterance
       \/ decoder /\ listening /\ status \in Endings
          /\ Finish(status = "capture_complete")
       \/ /\ decoder /\ status = "unavailable"
          /\ Completes("failed") /\ UNCHANGED <<listening, heard>>
       \/ /\ decoder /\ status \notin {"capture_started", "unavailable"}
          /\ ~(listening /\ status \in Endings)
          /\ Deaf

OnAudio(chunk) ==
    /\ heard' = IF decoder /\ listening THEN heard \cup {chunk} ELSE heard
    /\ recOut' = Quiet
    /\ UNCHANGED <<decoder, listening>>

RecognizerInit ==
    decoder \in BOOLEAN /\ listening = FALSE /\ heard = {} /\ recOut = Quiet
=============================================================================
