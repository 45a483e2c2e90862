----------------------------- MODULE SpeechChain ----------------------------
(***************************************************************************)
(* The microphone guard and the speech recognizer, with the two topics     *)
(* between them, in an environment that authorizes, blocks and revokes as  *)
(* it likes.  Nothing orders audio and status; a reader that falls behind  *)
(* loses the oldest audio (history depth).                                 *)
(***************************************************************************)
EXTENDS MicrophoneGuard, SpeechRecognizer

CONSTANTS
    OtherCapability,    \* a capability that is not the microphone's
    AudioDepth,         \* history depth of the audio topic (10 in the code)
    MaxStatus           \* bound: status messages under way

ASSUME ChainAssumption ==
    /\ AudioDepth \in Nat \ {0} /\ MaxStatus \in Nat
    /\ OtherCapability # Microphone

VARIABLES
    statusTopic,    \* /sensors/microphone/status
    audioTopic,     \* /privacy/speech_input/audio
    withdrawn       \* history: the captures that ran when the guard was told
                    \* that their consent is over

vars == <<micVars, recVars, statusTopic, audioTopic, withdrawn>>

Init == /\ MicrophoneInit /\ RecognizerInit
        /\ statusTopic = <<"inactive">> /\ audioTopic = <<>>
        /\ withdrawn = {}

Kept(q) == IF Len(q) > AudioDepth THEN Tail(q) ELSE q

Published ==
    /\ Len(statusTopic) < MaxStatus
    /\ statusTopic' = IF micOut'.status = "none" THEN statusTopic
                      ELSE Append(statusTopic, micOut'.status)
    /\ audioTopic' = IF micOut'.audio = NoCapture THEN audioTopic
                     ELSE Kept(Append(audioTopic, micOut'.audio))

\* An event that ends the consent to the microphone, and only such, is noted.
Withdraw(ends) ==
    withdrawn' = IF ends /\ process # NoCapture THEN withdrawn \cup {process}
                 ELSE withdrawn

EndsConsent(type, c) ==
    \/ type \in {"session_reset", "session_started"}
    \/ c = Microphone /\ type # "consent_decided"

AuthorizationArrives(c) == OnAuthorized(c) /\ Withdraw(FALSE)
BlockArrives(c) == OnBlocked(c) /\ Withdraw(c = Microphone)
EventArrives(type, c) ==
    /\ OnConsentEvent(type, c)
    /\ Withdraw(EndsConsent(type, c))
SessionArrives == OnSession /\ Withdraw(TRUE)
GuardEnds == Shutdown /\ Withdraw(FALSE)

Callback ==
    \/ \E c \in {Microphone, OtherCapability} :
          \/ AuthorizationArrives(c) \/ BlockArrives(c)
          \/ \E type \in EventType : EventArrives(type, c)
    \/ SessionArrives \/ GuardEnds

Tick == (TickBegins \/ TickPublishes \/ TickEnds \/ CaptureStopped) /\ Withdraw(FALSE)
Capture == 1 .. MaxCapture
Read == \E c \in Capture :
    (ReaderStarts(c) \/ ReaderReads(c) \/ ReaderPuts(c)) /\ Withdraw(FALSE)
World == (Lapse \/ DeviceFails) /\ Withdraw(FALSE)

StatusArrives ==
    /\ statusTopic # <<>>
    /\ OnStatus(Head(statusTopic))
    /\ statusTopic' = Tail(statusTopic)
    /\ UNCHANGED <<micVars, audioTopic, withdrawn>>

AudioArrives ==
    /\ audioTopic # <<>>
    /\ OnAudio(Head(audioTopic))
    /\ audioTopic' = Tail(audioTopic)
    /\ UNCHANGED <<micVars, statusTopic, withdrawn>>

GuardSteps(A) == A /\ Published /\ UNCHANGED recVars

Next == \/ GuardSteps(Callback) \/ GuardSteps(Tick)
        \/ GuardSteps(Read) \/ GuardSteps(World)
        \/ StatusArrives \/ AudioArrives

Spec == Init /\ [][Next]_vars

(***************************************************************************)
(* The tick's timer fires, the stop it began ends, both threads run, time  *)
(* passes, messages arrive.  Nothing is assumed of the environment: it     *)
(* need not revoke, and the device need not fail.                          *)
(***************************************************************************)
Fairness == /\ WF_vars(GuardSteps(Tick)) /\ WF_vars(GuardSteps(Read))
            /\ WF_vars(GuardSteps(Lapse /\ Withdraw(FALSE)))
            /\ WF_vars(StatusArrives) /\ WF_vars(AudioArrives)

FairSpec == Spec /\ Fairness

-----------------------------------------------------------------------------
(***************************************************************************)
(* Every variable has its type.                                            *)
(***************************************************************************)
Status == Endings \cup {"inactive", "blocked", "unavailable", "capture_started"}

GuardTypeOK ==
    /\ process \in Capture \cup {NoCapture}
    /\ recording \subseteq Capture
    /\ window \in Window
    /\ chunks \in BoundedSeq(Capture, QueueSize)
    /\ ending \in Status \cup {"none"}
    /\ reader \in [Capture -> {"starting", "reading", "holding", "ended"}]
    /\ spin \in [at : {"idle", "publishing", "joining", "down"},
                 left : 0 .. ChunksPerTick]
    /\ captures \in Capture \cup {0}
    /\ micOut \in [status : Status \cup {"none"}, audio : Capture \cup {NoCapture}]

RecognizerTypeOK ==
    /\ decoder \in BOOLEAN /\ listening \in BOOLEAN
    /\ heard \subseteq Capture
    /\ recOut \in [transcript : SUBSET Capture,
                   completion : {"none", "success", "failed"}]

TopicTypeOK ==
    /\ statusTopic \in Seq(Status)
    /\ audioTopic \in BoundedSeq(Capture, AudioDepth)

ChainTypeOK ==
    /\ GuardTypeOK /\ RecognizerTypeOK /\ TopicTypeOK
    /\ withdrawn \subseteq Capture

(***************************************************************************)
(* No arecord process runs that the guard does not know of and will stop:  *)
(* at most one exists, and none outside a capture (docs/phase9: the        *)
(* microphone process does not exist before authorization).                *)
(***************************************************************************)
NoUnknownRecording == recording \subseteq {process}

(***************************************************************************)
(* What is published is audio of the capture that runs, never a chunk that *)
(* an earlier capture left in the queue or that its reader thread was      *)
(* still holding when it was stopped.                                      *)
(***************************************************************************)
OnlyCurrentAudio == [][micOut'.audio # NoCapture => micOut'.audio = process']_vars

(***************************************************************************)
(* Once the guard has handled an event that ends the consent, no chunk of  *)
(* that capture is published any more.                                     *)
(***************************************************************************)
SilentOnceWithdrawn == [][micOut'.audio \notin withdrawn]_vars

(***************************************************************************)
(* A capture comes to an end, and with it the recording: the tick notices  *)
(* the deadline whatever the reader thread and the device do.              *)
(***************************************************************************)
CaptureEnds == process # NoCapture ~> recording = {} /\ process = NoCapture

(***************************************************************************)
(* A recognizer that listens reports a result in the end, unless the guard *)
(* was stopped by /capability/blocked, a status the recognizer does not    *)
(* know: then it listens until the next capture.                           *)
(***************************************************************************)
ListeningEnds == listening ~> ~listening \/ ending = "blocked"
=============================================================================
