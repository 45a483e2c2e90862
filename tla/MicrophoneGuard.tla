--------------------------- MODULE MicrophoneGuard --------------------------
(***************************************************************************)
(* nodes/microphone_guard_node.py: arecord runs only while speech_input is *)
(* authorized; a reader thread moves its output into a bounded queue, and  *)
(* a tick every 0.05 s publishes it.                                       *)
(*                                                                         *)
(* Callbacks run one at a time on the spinning thread.  The reader thread, *)
(* the arecord process and the passing of time run beside them, so the two *)
(* callbacks that look at those more than once (_tick, _stop_capture) are  *)
(* several steps; spin says where the spinning thread stands.  A chunk of  *)
(* audio is the number of the capture that recorded it.                    *)
(***************************************************************************)
EXTENDS AuthorizationWindow, Integers, SequencesExt

CONSTANTS
    Microphone,      \* the capability speech_input
    QueueSize,       \* maxsize of _chunks (20 in the code)
    ChunksPerTick,   \* chunks a tick publishes (5 in the code)
    MaxCapture       \* bound: captures opened in a run

ASSUME MicrophoneAssumption ==
    /\ QueueSize \in Nat \ {0}
    /\ ChunksPerTick \in Nat \ {0}
    /\ MaxCapture \in Nat

VARIABLES
    process,     \* _process: the capture it runs for, or NoCapture
    recording,   \* the captures whose arecord is alive
    window,      \* _window
    chunks,      \* _chunks
    ending,      \* _ending_reason; "none": None
    reader,      \* the reader thread of each capture: where it stands
    spin,        \* the spinning thread: where it stands, chunks left to publish
    captures,    \* captures opened so far
    micOut       \* what the last step published

micVars == <<process, recording, window, chunks, ending, reader, spin, captures, micOut>>

NoCapture == 0
Nothing == [status |-> "none", audio |-> NoCapture]
Silent == micOut' = Nothing
Reports(status) == micOut' = [Nothing EXCEPT !.status = status]

Idle == [at |-> "idle", left |-> 0]
Spinning == spin = Idle

-----------------------------------------------------------------------------
(***************************************************************************)
(* _stop_capture: terminate arecord, wait for the reader, forget the       *)
(* chunks, report.  The wait of one second for the reader is ten times as  *)
(* long as anything it may still do, and SIGKILL ends what SIGTERM does    *)
(* not; neither time limit is reached.                                     *)
(***************************************************************************)
StopCapture(reason) ==
    /\ process' = NoCapture
    /\ recording' = recording \ {process}
    /\ window' = "closed"
    /\ ending' = reason
    /\ spin' = [Idle EXCEPT !.at = "joining"]
    /\ Silent
    /\ UNCHANGED <<chunks, reader, captures>>

JoinedAtOnce == TRUE                    \* mutant: the reader is not joined

Joined == \A c \in DOMAIN reader : reader[c] = "ended"

NoChunks == <<>>                        \* _discard_chunks

CaptureStopped ==
    /\ spin.at = "joining" /\ Joined
    /\ chunks' = NoChunks
    /\ spin' = IF ending = "shutdown" THEN [Idle EXCEPT !.at = "down"] ELSE Idle
    /\ Reports(ending)
    /\ UNCHANGED <<process, recording, window, ending, reader, captures>>

-----------------------------------------------------------------------------
(***************************************************************************)
(* _on_authorized: the device may be missing, fail to open, or open.       *)
(***************************************************************************)
OpensOnEveryGrant(c) == c = Microphone      \* mutant: a second arecord

Opens(c) == c = Microphone /\ process = NoCapture

Unavailable ==
    /\ chunks' \in {chunks, NoChunks}   \* no arecord; cannot be run
    /\ Reports("unavailable")
    /\ UNCHANGED <<process, recording, window, ending, reader, spin, captures>>

OpenCapture ==
    /\ captures < MaxCapture
    /\ captures' = captures + 1
    /\ process' = captures'
    /\ recording' = recording \cup {captures'}
    /\ chunks' = NoChunks
    /\ window' = "open"
    /\ ending' = "none"
    /\ reader' = [reader EXCEPT ![captures'] = "starting"]
    /\ Reports("capture_started")
    /\ UNCHANGED spin

Ignored == Silent /\ UNCHANGED <<process, recording, window, chunks, ending,
                                 reader, spin, captures>>

OnAuthorized(c) ==
    /\ Spinning
    /\ \/ Opens(c) /\ (OpenCapture \/ Unavailable)
       \/ ~Opens(c) /\ Ignored

(***************************************************************************)
(* The other subscriptions.  /capability/blocked always stops and reports; *)
(* a session message does only if a capture runs, a consent event only if  *)
(* there was a grant to close.                                             *)
(***************************************************************************)
OnBlocked(c) ==
    /\ Spinning
    /\ IF c = Microphone THEN StopCapture("blocked") ELSE Ignored

OnConsentEvent(type, c) ==
    /\ Spinning
    /\ IF Changes(window, type, c, Microphone)
       THEN StopCapture("capture_stopped_by_consent")
       ELSE Ignored

OnSession ==
    /\ Spinning
    /\ IF process # NoCapture
       THEN StopCapture("capture_stopped_by_session_change")
       ELSE Ignored

\* destroy_node, when the node is told to end
Shutdown == Spinning /\ StopCapture("shutdown")

-----------------------------------------------------------------------------
(***************************************************************************)
(* _tick: close a lapsed capture; publish up to five chunks, asking before *)
(* each whether the grant still holds; close a capture whose arecord has   *)
(* ended.                                                                  *)
(***************************************************************************)
TickBegins ==
    /\ Spinning
    /\ process # NoCapture \/ chunks # <<>>     \* else the tick does nothing
    /\ IF process # NoCapture /\ ~IsActive(window)
       THEN StopCapture("capture_complete")
       ELSE /\ spin' = [at |-> "publishing", left |-> ChunksPerTick]
            /\ Silent
            /\ UNCHANGED <<process, recording, window, chunks, ending, reader, captures>>

TickPublishes ==
    /\ spin.at = "publishing" /\ spin.left > 0 /\ chunks # <<>>
    /\ chunks' = Tail(chunks)
    /\ spin' = [spin EXCEPT !.left = @ - 1]
    /\ window' = IF process # NoCapture THEN AfterLook(window) ELSE window
    /\ IF process # NoCapture /\ IsActive(window)
       THEN micOut' = [Nothing EXCEPT !.audio = Head(chunks)]
       ELSE Silent
    /\ UNCHANGED <<process, recording, ending, reader, captures>>

CaptureFailed ==
    process # NoCapture /\ process \notin recording /\ ending = "none"

TickEnds ==
    /\ spin.at = "publishing"
    /\ spin.left = 0 \/ chunks = <<>>
    /\ IF CaptureFailed
       THEN StopCapture("capture_failed")
       ELSE /\ spin' = Idle /\ Silent
            /\ UNCHANGED <<process, recording, window, chunks, ending, reader, captures>>

-----------------------------------------------------------------------------
(***************************************************************************)
(* _read_audio, the reader thread.  poll() and the blocking read follow    *)
(* each other; a read may still return what arecord left in the pipe.      *)
(***************************************************************************)
ReaderUnchanged == UNCHANGED <<process, recording, window, ending, spin, captures>>

GoesOn(c) == IF c \in recording THEN "reading" ELSE "ended"

ReaderStarts(c) ==
    /\ reader[c] = "starting"
    /\ reader' = [reader EXCEPT ![c] = IF process = c THEN GoesOn(c) ELSE "ended"]
    /\ Silent /\ ReaderUnchanged /\ UNCHANGED chunks

ReaderReads(c) ==
    /\ reader[c] = "reading"
    /\ \/ reader' = [reader EXCEPT ![c] = "holding"]
       \/ c \notin recording /\ reader' = [reader EXCEPT ![c] = "ended"]
    /\ Silent /\ ReaderUnchanged /\ UNCHANGED chunks

\* put with a timeout: a chunk that finds the queue full is dropped
EnqueuedAlways(q, x) == Append(q, x)        \* mutant: an unbounded queue

Enqueued(q, x) == IF Len(q) < QueueSize THEN Append(q, x) ELSE q

ReaderPuts(c) ==
    /\ reader[c] = "holding"
    /\ chunks' = Enqueued(chunks, c)
    /\ reader' = [reader EXCEPT ![c] = GoesOn(c)]
    /\ Silent /\ ReaderUnchanged

\* The deadline of the window passes.
Lapse ==
    /\ window = "open"
    /\ window' = "lapsed"
    /\ Silent
    /\ UNCHANGED <<process, recording, chunks, ending, reader, spin, captures>>

\* arecord ends by itself: the device was unplugged or failed.
DeviceFails ==
    /\ recording # {}
    /\ recording' = {}
    /\ Silent
    /\ UNCHANGED <<process, window, chunks, ending, reader, spin, captures>>

MicrophoneInit ==
    /\ process = NoCapture /\ recording = {} /\ captures = 0
    /\ window = "closed"
    /\ chunks = <<>>
    /\ ending = "none"
    /\ reader = [c \in 1 .. MaxCapture |-> "ended"]
    /\ spin = Idle
    /\ micOut = [Nothing EXCEPT !.status = "inactive"]
=============================================================================
