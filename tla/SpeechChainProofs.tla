------------------------- MODULE SpeechChainProofs --------------------------
(***************************************************************************)
(* The microphone guard beside its reader threads, for a queue of any      *)
(* length, any number of chunks a tick and any number of captures: one     *)
(* recording, and only audio of the capture that runs and is still         *)
(* consented to.  The recognizer and the topics do not matter for this.    *)
(***************************************************************************)
EXTENDS SpeechChain, TLAPS

(***************************************************************************)
(* The inductive invariant.  A capture is joined before anything else      *)
(* happens: outside the join the reader threads, the queue and arecord     *)
(* belong to the capture that runs, if any.  A capture whose consent is    *)
(* over runs on only if its window had been closed before.                 *)
(***************************************************************************)
CapturesTyped ==
    /\ captures \in 0 .. MaxCapture /\ process \in 0 .. captures
    /\ recording \subseteq 1 .. captures /\ withdrawn \subseteq 1 .. captures
    /\ chunks \in Seq(Capture)
    /\ \A c \in Capture : reader[c] # "ended" => c <= captures
    /\ DOMAIN reader = Capture

JoinedFirst ==
    /\ spin.at \in {"joining", "down"} => process = NoCapture
    /\ spin.at # "joining" =>
          /\ \A c \in Capture : reader[c] # "ended" => c = process
          /\ \A i \in 1 .. Len(chunks) : chunks[i] = process

WithdrawnIsClosed == process \in withdrawn => window = "closed"

PublishedIsCurrent ==
    micOut.audio # NoCapture => micOut.audio = process /\ process \notin withdrawn

GuardInv ==
    /\ CapturesTyped /\ NoUnknownRecording /\ JoinedFirst
    /\ WithdrawnIsClosed /\ PublishedIsCurrent

\* What the action properties say of one step.
WellSpoken ==
    micOut'.audio # NoCapture => micOut'.audio = process' /\ micOut'.audio \notin withdrawn

-----------------------------------------------------------------------------
LEMMA SilentHasNoAudio ==
    ASSUME Silent \/ \E status : Reports(status)
    PROVE  micOut'.audio = NoCapture
BY DEF Silent, Reports, Nothing

LEMMA WithdrawnGrows ==
    ASSUME CapturesTyped, NEW ends, Withdraw(ends)
    PROVE  /\ withdrawn' \subseteq 1 .. captures
           /\ withdrawn' \subseteq withdrawn \cup {process}
           /\ ~ends => withdrawn' = withdrawn
BY DEF Withdraw, CapturesTyped, NoCapture

(***************************************************************************)
(* A step that leaves captures, queue and threads alone, but may forget    *)
(* the recording, and lets the window lapse or be closed.                  *)
(***************************************************************************)
LEMMA QuietStep ==
    ASSUME GuardInv, UNCHANGED <<process, captures, chunks, reader, withdrawn>>,
           recording' \subseteq recording,
           spin'.at = spin.at \/ (spin.at \in {"idle", "publishing"} /\ spin'.at \in {"idle", "publishing"}),
           window' = window \/ window = "open" \/ window' = "closed",
           micOut'.audio = NoCapture
    PROVE  GuardInv' /\ WellSpoken
<1>1. CapturesTyped'
  BY DEF GuardInv, CapturesTyped
<1>2. NoUnknownRecording'
  BY DEF GuardInv, NoUnknownRecording
<1>3. JoinedFirst'
  BY DEF GuardInv, JoinedFirst
<1>4. WithdrawnIsClosed'
  BY DEF GuardInv, WithdrawnIsClosed
<1> QED
  BY <1>1, <1>2, <1>3, <1>4 DEF GuardInv, PublishedIsCurrent, WellSpoken

(***************************************************************************)
(* Stopping ends the recording and what runs: nothing is left but to join. *)
(***************************************************************************)
LEMMA StopKeeps ==
    ASSUME GuardInv, NEW reason, StopCapture(reason), NEW ends, Withdraw(ends)
    PROVE  GuardInv' /\ WellSpoken
<1>1. /\ process' = NoCapture /\ window' = "closed" /\ spin'.at = "joining"
      /\ recording' = recording \ {process}
      /\ UNCHANGED <<chunks, reader, captures>> /\ micOut'.audio = NoCapture
  BY SilentHasNoAudio DEF StopCapture, Idle
<1>2. withdrawn' \subseteq 1 .. captures
  BY WithdrawnGrows DEF GuardInv
<1>3. CapturesTyped'
  BY <1>1, <1>2 DEF GuardInv, CapturesTyped, NoCapture
<1>4. NoUnknownRecording' /\ JoinedFirst' /\ WithdrawnIsClosed'
  BY <1>1 DEF GuardInv, NoUnknownRecording, JoinedFirst, WithdrawnIsClosed
<1> QED
  BY <1>1, <1>3, <1>4 DEF GuardInv, PublishedIsCurrent, WellSpoken

LEMMA StoppedKeeps ==
    ASSUME GuardInv, CaptureStopped, UNCHANGED withdrawn
    PROVE  GuardInv' /\ WellSpoken
<1>1. /\ spin.at = "joining" /\ process = NoCapture
      /\ \A c \in Capture : reader[c] = "ended"
  BY DEF CaptureStopped, Joined, GuardInv, JoinedFirst, CapturesTyped
<1>2. /\ chunks' = <<>> /\ spin'.at # "joining" /\ micOut'.audio = NoCapture
      /\ UNCHANGED <<process, recording, window, reader, captures>>
  BY SilentHasNoAudio DEF CaptureStopped, NoChunks, Idle
<1>3. CapturesTyped'
  BY <1>2 DEF GuardInv, CapturesTyped
<1>4. NoUnknownRecording' /\ JoinedFirst' /\ WithdrawnIsClosed'
  BY <1>1, <1>2 DEF GuardInv, NoUnknownRecording, JoinedFirst, WithdrawnIsClosed
<1> QED
  BY <1>2, <1>3, <1>4 DEF GuardInv, PublishedIsCurrent, WellSpoken

-----------------------------------------------------------------------------
(***************************************************************************)
(* An authorization opens a capture nobody has seen before, and finds the  *)
(* queue empty and every thread of an earlier one ended.                   *)
(***************************************************************************)
LEMMA AuthorizationKeeps ==
    ASSUME GuardInv, NEW c, AuthorizationArrives(c)
    PROVE  GuardInv' /\ WellSpoken
<1>1. Spinning /\ spin.at = "idle" /\ UNCHANGED withdrawn
  BY DEF AuthorizationArrives, OnAuthorized, Spinning, Idle, Withdraw
<1>2. CASE process = NoCapture /\ OpenCapture
  <2>1. /\ captures < MaxCapture /\ captures' = captures + 1 /\ process' = captures'
        /\ recording' = recording \cup {captures'} /\ chunks' = <<>> /\ window' = "open"
        /\ reader' = [reader EXCEPT ![captures'] = "starting"]
        /\ spin' = spin /\ micOut'.audio = NoCapture
    BY <1>2, SilentHasNoAudio DEF OpenCapture, NoChunks
  <2>2. captures \in 0 .. MaxCapture /\ captures' \in Capture /\ MaxCapture \in Nat
    BY <2>1, MicrophoneAssumption DEF GuardInv, CapturesTyped, Capture
  <2>3. recording = {}
    BY <1>2, <2>2 DEF GuardInv, CapturesTyped, NoUnknownRecording, NoCapture
  <2>4. \A d \in Capture : reader[d] = "ended"
    BY <1>1, <1>2, <2>2 DEF GuardInv, JoinedFirst, NoCapture, Capture
  <2>5. CapturesTyped'
    <3>1. captures' \in 0 .. MaxCapture /\ process' \in 0 .. captures'
      BY <2>1, <2>2
    <3>2. recording' \subseteq 1 .. captures' /\ withdrawn' \subseteq 1 .. captures'
      <4>1. withdrawn \subseteq 1 .. captures
        BY DEF GuardInv, CapturesTyped
      <4> QED
        BY <1>1, <2>1, <2>2, <2>3, <4>1
    <3>3. DOMAIN reader' = Capture
      BY <2>1 DEF GuardInv, CapturesTyped
    <3>4. \A d \in Capture : reader'[d] # "ended" => d <= captures'
      BY <2>1, <2>2, <2>4 DEF GuardInv, CapturesTyped
    <3> QED
      BY <2>1, <3>1, <3>2, <3>3, <3>4 DEF CapturesTyped
  <2>6. NoUnknownRecording'
    BY <2>1, <2>3 DEF NoUnknownRecording
  <2>7. JoinedFirst'
    BY <1>1, <2>1, <2>2, <2>4 DEF JoinedFirst, GuardInv, CapturesTyped
  <2>8. WithdrawnIsClosed'
    BY <1>1, <2>1, <2>2 DEF GuardInv, CapturesTyped, WithdrawnIsClosed
  <2> QED
    BY <2>1, <2>5, <2>6, <2>7, <2>8 DEF GuardInv, PublishedIsCurrent, WellSpoken
<1>3. CASE process = NoCapture /\ Unavailable
  <2>1. /\ chunks' \in {chunks, <<>>} /\ micOut'.audio = NoCapture
        /\ UNCHANGED <<process, recording, window, reader, spin, captures>>
    BY <1>3, SilentHasNoAudio DEF Unavailable, NoChunks
  <2>2. CapturesTyped'
    <3>1. chunks' \in Seq(Capture)
      <4>1. chunks \in Seq(Capture) /\ <<>> \in Seq(Capture)
        BY DEF GuardInv, CapturesTyped
      <4> QED
        BY <2>1, <4>1
    <3> QED
      BY <1>1, <2>1, <3>1 DEF GuardInv, CapturesTyped
  <2>3. NoUnknownRecording' /\ JoinedFirst' /\ WithdrawnIsClosed'
    BY <1>1, <2>1 DEF GuardInv, NoUnknownRecording, JoinedFirst, WithdrawnIsClosed
  <2> QED
    BY <2>1, <2>2, <2>3 DEF GuardInv, PublishedIsCurrent, WellSpoken
<1>4. CASE Ignored
  BY <1>1, <1>4, QuietStep, SilentHasNoAudio DEF Ignored
<1> QED
  BY <1>2, <1>3, <1>4 DEF AuthorizationArrives, OnAuthorized, Opens

(***************************************************************************)
(* A callback that the guard ignores although it ends the consent: no      *)
(* capture runs, or the window has been closed already.                    *)
(***************************************************************************)
LEMMA IgnoredKeeps ==
    ASSUME GuardInv, Ignored, NEW ends, Withdraw(ends),
           ends => process = NoCapture \/ window = "closed"
    PROVE  GuardInv' /\ WellSpoken
<1>1. /\ UNCHANGED <<process, recording, window, chunks, reader, spin, captures>>
      /\ micOut'.audio = NoCapture
  BY SilentHasNoAudio DEF Ignored
<1>2. withdrawn' \subseteq 1 .. captures /\ withdrawn' \subseteq withdrawn \cup {process}
      /\ (~ends => withdrawn' = withdrawn)
  BY WithdrawnGrows DEF GuardInv
<1>3. CapturesTyped'
  BY <1>1, <1>2 DEF GuardInv, CapturesTyped
<1>4. NoUnknownRecording' /\ JoinedFirst'
  BY <1>1 DEF GuardInv, NoUnknownRecording, JoinedFirst
<1>5. WithdrawnIsClosed'
  <2>1. CASE ends /\ process = NoCapture
    BY <1>1, <1>2, <2>1 DEF NoCapture, WithdrawnIsClosed, GuardInv, CapturesTyped
  <2>2. CASE window = "closed"
    BY <1>1, <2>2 DEF WithdrawnIsClosed
  <2>3. CASE ~ends
    BY <1>1, <1>2, <2>3 DEF GuardInv, WithdrawnIsClosed
  <2> QED
    BY <2>1, <2>2, <2>3
<1> QED
  BY <1>1, <1>3, <1>4, <1>5 DEF GuardInv, PublishedIsCurrent, WellSpoken

LEMMA CallbackKeeps ==
    ASSUME GuardInv, Callback
    PROVE  GuardInv' /\ WellSpoken
<1>1. ASSUME NEW c, AuthorizationArrives(c) PROVE GuardInv' /\ WellSpoken
  BY <1>1, AuthorizationKeeps
<1>2. ASSUME NEW c, BlockArrives(c) PROVE GuardInv' /\ WellSpoken
  BY <1>2, StopKeeps, IgnoredKeeps DEF BlockArrives, OnBlocked
<1>3. ASSUME NEW type \in EventType, NEW c, EventArrives(type, c)
      PROVE  GuardInv' /\ WellSpoken
  <2>1. Withdraw(EndsConsent(type, c))
    BY <1>3 DEF EventArrives
  <2>2. CASE StopCapture("capture_stopped_by_consent")
    BY <2>1, <2>2, StopKeeps
  <2>3. CASE Ignored /\ ~Changes(window, type, c, Microphone)
    <3>1. EndsConsent(type, c) => window = "closed"
      BY <2>3 DEF EndsConsent, Changes, Closes, EventType
    <3> QED
      BY <2>1, <2>3, <3>1, IgnoredKeeps
  <2> QED
    BY <1>3, <2>2, <2>3 DEF EventArrives, OnConsentEvent
<1>4. CASE SessionArrives
  BY <1>4, StopKeeps, IgnoredKeeps DEF SessionArrives, OnSession
<1>5. CASE GuardEnds
  BY <1>5, StopKeeps DEF GuardEnds, Shutdown
<1> QED
  BY <1>1, <1>2, <1>3, <1>4, <1>5 DEF Callback

-----------------------------------------------------------------------------
(***************************************************************************)
(* The tick.  What it publishes is the head of the queue, under an open    *)
(* window.                                                                 *)
(***************************************************************************)
LEMMA TickKeeps ==
    ASSUME GuardInv, Tick
    PROVE  GuardInv' /\ WellSpoken
<1>1. Withdraw(FALSE) /\ UNCHANGED withdrawn
  BY DEF Tick, Withdraw
<1>2. CASE TickBegins
  <2>1. CASE StopCapture("capture_complete")
    BY <1>1, <2>1, StopKeeps
  <2>2. CASE /\ Spinning /\ spin' = [at |-> "publishing", left |-> ChunksPerTick] /\ Silent
             /\ UNCHANGED <<process, recording, window, chunks, reader, captures>>
    BY <1>1, <2>2, QuietStep, SilentHasNoAudio DEF Spinning, Idle
  <2> QED
    BY <1>2, <2>1, <2>2 DEF TickBegins
<1>3. CASE TickPublishes
  <2>1. /\ spin.at = "publishing" /\ chunks # <<>> /\ chunks' = Tail(chunks)
        /\ UNCHANGED <<process, recording, reader, captures>>
    BY <1>3 DEF TickPublishes
  <2>2. spin'.at \in {"publishing", spin.at} \/ spin'.at = spin.at
    BY <1>3 DEF TickPublishes
  <2>3. chunks \in Seq(Capture) /\ \A i \in 1 .. Len(chunks) : chunks[i] = process
    BY <2>1 DEF GuardInv, CapturesTyped, JoinedFirst
  <2>4. /\ Head(chunks) = process
        /\ Tail(chunks) \in Seq(Capture)
        /\ \A i \in 1 .. Len(Tail(chunks)) : Tail(chunks)[i] = process
    BY <2>1, <2>3
  <2>5. micOut'.audio = NoCapture \/ (micOut'.audio = process /\ window = "open")
    BY <1>3, <2>4 DEF TickPublishes, Silent, Nothing, IsActive
  <2>6. window' = window \/ window' = "closed"
    BY <1>3 DEF TickPublishes, AfterLook
  <2>7. WellSpoken /\ PublishedIsCurrent'
    BY <1>1, <2>1, <2>5 DEF WellSpoken, PublishedIsCurrent, GuardInv, WithdrawnIsClosed
  <2>8. CapturesTyped'
    BY <1>1, <2>1, <2>4 DEF GuardInv, CapturesTyped
  <2>9. JoinedFirst'
    BY <2>1, <2>2, <2>4 DEF GuardInv, JoinedFirst
  <2>10. NoUnknownRecording' /\ WithdrawnIsClosed'
    BY <1>1, <2>1, <2>6 DEF GuardInv, NoUnknownRecording, WithdrawnIsClosed
  <2> QED
    BY <2>7, <2>8, <2>9, <2>10 DEF GuardInv
<1>4. CASE TickEnds
  <2>1. CASE StopCapture("capture_failed")
    BY <1>1, <2>1, StopKeeps
  <2>2. CASE /\ spin.at = "publishing" /\ spin' = Idle /\ Silent
             /\ UNCHANGED <<process, recording, window, chunks, reader, captures>>
    BY <1>1, <2>2, QuietStep, SilentHasNoAudio DEF Idle
  <2> QED
    BY <1>4, <2>1, <2>2 DEF TickEnds
<1>5. CASE CaptureStopped
  BY <1>1, <1>5, StoppedKeeps
<1> QED
  BY <1>2, <1>3, <1>4, <1>5 DEF Tick

(***************************************************************************)
(* The reader threads: one that has ended does nothing, and one that has   *)
(* not is joined or belongs to the capture that runs.                      *)
(***************************************************************************)
LEMMA ReadKeeps ==
    ASSUME GuardInv, Read
    PROVE  GuardInv' /\ WellSpoken
<1>1. PICK c \in Capture : (ReaderStarts(c) \/ ReaderReads(c) \/ ReaderPuts(c)) /\ Withdraw(FALSE)
  BY DEF Read
<1>2. /\ UNCHANGED <<process, recording, window, spin, captures, withdrawn>>
      /\ micOut'.audio = NoCapture
  BY <1>1, SilentHasNoAudio
     DEF ReaderStarts, ReaderReads, ReaderPuts, ReaderUnchanged, Withdraw
<1>3. /\ reader[c] # "ended" /\ DOMAIN reader = Capture
      /\ \E at : reader' = [reader EXCEPT ![c] = at]
  BY <1>1 DEF ReaderStarts, ReaderReads, ReaderPuts, GuardInv, CapturesTyped
<1>4. chunks' = chunks \/ chunks' = Append(chunks, c)
  BY <1>1 DEF ReaderStarts, ReaderReads, ReaderPuts, Enqueued
<1>5. CapturesTyped'
  <2>1. chunks \in Seq(Capture) /\ c <= captures
    BY <1>3 DEF GuardInv, CapturesTyped
  <2>2. chunks' \in Seq(Capture)
    BY <1>1, <1>4, <2>1
  <2> QED
    BY <1>2, <1>3, <2>1, <2>2 DEF GuardInv, CapturesTyped
<1>6. JoinedFirst'
  <2>1. CASE spin.at = "joining"
    BY <1>2, <2>1 DEF GuardInv, JoinedFirst
  <2>2. CASE spin.at # "joining"
    <3>1. c = process
      BY <1>3, <2>2 DEF GuardInv, JoinedFirst
    <3>2. chunks \in Seq(Capture) /\ \A i \in 1 .. Len(chunks) : chunks[i] = process
      BY <2>2 DEF GuardInv, CapturesTyped, JoinedFirst
    <3>3. \A i \in 1 .. Len(chunks') : chunks'[i] = process
      BY <1>1, <1>4, <3>1, <3>2
    <3>4. \A d \in Capture : reader'[d] # "ended" => d = process
      BY <1>3, <2>2, <3>1 DEF GuardInv, JoinedFirst
    <3> QED
      BY <1>2, <3>3, <3>4 DEF GuardInv, JoinedFirst
  <2> QED
    BY <2>1, <2>2
<1>7. NoUnknownRecording' /\ WithdrawnIsClosed'
  BY <1>2 DEF GuardInv, NoUnknownRecording, WithdrawnIsClosed
<1> QED
  BY <1>2, <1>5, <1>6, <1>7 DEF GuardInv, PublishedIsCurrent, WellSpoken

LEMMA WorldKeeps ==
    ASSUME GuardInv, World
    PROVE  GuardInv' /\ WellSpoken
BY QuietStep, SilentHasNoAudio DEF World, Lapse, DeviceFails, Withdraw

-----------------------------------------------------------------------------
LEMMA GuardStarts == Init => GuardInv
<1> SUFFICES ASSUME Init
             PROVE  GuardInv
  OBVIOUS
<1> USE MicrophoneAssumption DEF Init, MicrophoneInit, Nothing, NoCapture, Capture
<1>1. CapturesTyped
  BY DEF CapturesTyped
<1>2. NoUnknownRecording /\ JoinedFirst /\ WithdrawnIsClosed /\ PublishedIsCurrent
  BY DEF NoUnknownRecording, JoinedFirst, WithdrawnIsClosed, PublishedIsCurrent, Idle
<1> QED
  BY <1>1, <1>2 DEF GuardInv

\* What does not touch the guard leaves what it last published.
LEMMA OthersKeep ==
    ASSUME GuardInv, UNCHANGED <<micVars, withdrawn>>
    PROVE  GuardInv' /\ WellSpoken
BY DEF GuardInv, CapturesTyped, NoUnknownRecording, JoinedFirst, WithdrawnIsClosed,
       PublishedIsCurrent, WellSpoken, micVars

LEMMA GuardStepsKeep == GuardInv /\ [Next]_vars => GuardInv' /\ WellSpoken
<1> SUFFICES ASSUME GuardInv, [Next]_vars
             PROVE  GuardInv' /\ WellSpoken
  OBVIOUS
<1>1. CASE StatusArrives \/ AudioArrives \/ UNCHANGED vars
  BY <1>1, OthersKeep DEF StatusArrives, AudioArrives, vars
<1> QED
  BY <1>1, CallbackKeeps, TickKeeps, ReadKeeps, WorldKeeps DEF Next, GuardSteps

(***************************************************************************)
(* What belongs to the capture that runs, whatever the two threads and     *)
(* arecord do between the looks of a callback (microphone_guard_node.py).  *)
(***************************************************************************)
THEOREM GuardInvariant == Spec => []GuardInv
BY GuardStarts, GuardStepsKeep, PTL DEF Spec

(***************************************************************************)
(* The microphone process exists only within a capture, and one at a time  *)
(* (_on_authorized, _stop_capture).                                        *)
(***************************************************************************)
THEOREM NoUnknownRecordingAlways == Spec => []NoUnknownRecording
<1>1. GuardInv => NoUnknownRecording
  BY DEF GuardInv
<1> QED
  BY <1>1, GuardInvariant, PTL

(***************************************************************************)
(* Only audio of the capture that runs is published (_tick, _read_audio).  *)
(***************************************************************************)
THEOREM OnlyCurrentAudioAlways == Spec => OnlyCurrentAudio
<1>1. GuardInv /\ [Next]_vars => [micOut'.audio # NoCapture => micOut'.audio = process']_vars
  BY GuardStepsKeep DEF WellSpoken
<1> QED
  BY <1>1, GuardInvariant, PTL DEF Spec, OnlyCurrentAudio

(***************************************************************************)
(* Nothing of a capture is published once its consent is over              *)
(* (_on_consent_event, _on_blocked, _on_session).                          *)
(***************************************************************************)
THEOREM SilentOnceWithdrawnAlways == Spec => SilentOnceWithdrawn
<1>1. GuardInv /\ [Next]_vars => [micOut'.audio \notin withdrawn]_vars
  <2> SUFFICES ASSUME GuardInv, [Next]_vars
               PROVE  micOut'.audio \notin withdrawn
    OBVIOUS
  <2>1. NoCapture \notin withdrawn
    BY DEF GuardInv, CapturesTyped, NoCapture
  <2> QED
    BY <2>1, GuardStepsKeep DEF WellSpoken
<1> QED
  BY <1>1, GuardInvariant, PTL DEF Spec, SilentOnceWithdrawn

-----------------------------------------------------------------------------
(***************************************************************************)
(* The types, of the queue and of the topics too: neither grows beyond     *)
(* its bound.                                                              *)
(***************************************************************************)
LEMMA BoundedSequences ==
    ASSUME NEW S, NEW n \in Nat, NEW q
    PROVE  q \in BoundedSeq(S, n) <=> q \in Seq(S) /\ Len(q) <= n
<1>1. ASSUME q \in BoundedSeq(S, n)
      PROVE  q \in Seq(S) /\ Len(q) <= n
  <2>1. PICK m \in 0 .. n : q \in [1 .. m -> S]
    BY <1>1 DEF BoundedSeq, SeqOf
  <2>2. m \in Nat /\ m <= n
    BY <2>1
  <2> QED
    BY <2>1, <2>2
<1>2. ASSUME q \in Seq(S), Len(q) <= n
      PROVE  q \in BoundedSeq(S, n)
  <2>1. Len(q) \in 0 .. n /\ q \in [1 .. Len(q) -> S]
    BY <1>2
  <2> QED
    BY <2>1 DEF BoundedSeq, SeqOf
<1> QED
  BY <1>1, <1>2

LEMMA BoundedTail ==
    ASSUME NEW S, NEW n \in Nat, NEW q \in BoundedSeq(S, n), q # <<>>
    PROVE  Head(q) \in S /\ Tail(q) \in BoundedSeq(S, n)
<1>1. q \in Seq(S) /\ Len(q) <= n
  BY BoundedSequences
<1>2. Head(q) \in S /\ Tail(q) \in Seq(S) /\ Len(Tail(q)) <= n
  BY <1>1
<1> QED
  BY <1>2, BoundedSequences

LEMMA EmptyIsBounded ==
    ASSUME NEW S, NEW n \in Nat
    PROVE  <<>> \in BoundedSeq(S, n)
<1>1. <<>> \in Seq(S) /\ Len(<<>>) <= n
  OBVIOUS
<1> QED
  BY <1>1, BoundedSequences

\* put on a full queue drops the chunk, a full topic its oldest message.
LEMMA EnqueuedIsBounded ==
    ASSUME NEW q \in BoundedSeq(Capture, QueueSize), NEW c \in Capture
    PROVE  Enqueued(q, c) \in BoundedSeq(Capture, QueueSize)
<1>1. QueueSize \in Nat /\ q \in Seq(Capture) /\ Len(q) <= QueueSize
  BY MicrophoneAssumption, BoundedSequences
<1>2. CASE Len(q) < QueueSize
  <2>1. Append(q, c) \in Seq(Capture) /\ Len(Append(q, c)) <= QueueSize
    BY <1>1, <1>2
  <2> QED
    BY <1>1, <1>2, <2>1, BoundedSequences DEF Enqueued
<1> QED
  BY <1>2 DEF Enqueued

LEMMA KeptIsBounded ==
    ASSUME NEW q \in BoundedSeq(Capture, AudioDepth), NEW c \in Capture
    PROVE  Kept(Append(q, c)) \in BoundedSeq(Capture, AudioDepth)
<1> DEFINE r == Append(q, c)
<1>1. AudioDepth \in Nat /\ q \in Seq(Capture) /\ Len(q) <= AudioDepth
  BY ChainAssumption, BoundedSequences
<1>2. r \in Seq(Capture) /\ Len(r) = Len(q) + 1 /\ r # <<>>
  BY <1>1
<1> HIDE DEF r
<1>3. CASE Len(r) > AudioDepth
  <2>1. Tail(r) \in Seq(Capture) /\ Len(Tail(r)) <= AudioDepth
    BY <1>1, <1>2, <1>3
  <2>2. Tail(r) \in BoundedSeq(Capture, AudioDepth)
    BY <1>1, <2>1, BoundedSequences
  <2>3. Kept(r) \in BoundedSeq(Capture, AudioDepth)
    BY <1>3, <2>2 DEF Kept
  <2> QED
    BY <2>3 DEF r
<1>4. CASE ~(Len(r) > AudioDepth)
  <2>1. r \in BoundedSeq(Capture, AudioDepth)
    BY <1>1, <1>2, <1>4, BoundedSequences
  <2>2. Kept(r) \in BoundedSeq(Capture, AudioDepth)
    BY <1>4, <2>1 DEF Kept
  <2> QED
    BY <2>2 DEF r
<1> QED
  BY <1>3, <1>4

-----------------------------------------------------------------------------
LEMMA ReasonsAreStatus ==
    /\ {"capture_complete", "capture_failed", "capture_stopped_by_consent",
        "capture_stopped_by_session_change", "shutdown", "blocked", "unavailable",
        "capture_started", "inactive"} \subseteq Status
    /\ "none" \notin Status
BY DEF Status, Endings

LEMMA NoNewsIsTyped ==
    ASSUME Silent \/ \E status \in Status \cup {"none"} : Reports(status)
    PROVE  micOut' \in [status : Status \cup {"none"}, audio : Capture \cup {NoCapture}]
BY DEF Silent, Reports, Nothing

LEMMA StopKeepsTypes ==
    ASSUME GuardTypeOK, NEW reason \in Status, StopCapture(reason)
    PROVE  GuardTypeOK'
BY NoNewsIsTyped, MicrophoneAssumption DEF StopCapture, GuardTypeOK, Idle, Window

LEMMA IgnoredKeepsTypes ==
    ASSUME GuardTypeOK, Ignored
    PROVE  GuardTypeOK'
BY NoNewsIsTyped DEF Ignored, GuardTypeOK

LEMMA OpenKeepsTypes ==
    ASSUME GuardTypeOK, OpenCapture \/ Unavailable
    PROVE  GuardTypeOK'
<1>1. <<>> \in BoundedSeq(Capture, QueueSize)
  BY EmptyIsBounded, MicrophoneAssumption
<1>2. micOut' \in [status : Status \cup {"none"}, audio : Capture \cup {NoCapture}]
  BY NoNewsIsTyped, ReasonsAreStatus DEF OpenCapture, Unavailable
<1>3. CASE OpenCapture
  <2>1. captures' \in Capture
    BY <1>3, MicrophoneAssumption DEF OpenCapture, GuardTypeOK, Capture
  <2> QED
    BY <1>1, <1>2, <1>3, <2>1 DEF OpenCapture, NoChunks, GuardTypeOK, Window
<1>4. CASE Unavailable
  BY <1>1, <1>2, <1>4 DEF Unavailable, NoChunks, GuardTypeOK
<1> QED
  BY <1>3, <1>4

LEMMA CallbackKeepsTypes ==
    ASSUME GuardTypeOK, Callback
    PROVE  GuardTypeOK'
<1>1. \/ OpenCapture \/ Unavailable \/ Ignored
      \/ \E reason \in Status : StopCapture(reason)
  BY ReasonsAreStatus
     DEF Callback, AuthorizationArrives, BlockArrives, EventArrives, SessionArrives, GuardEnds,
         OnAuthorized, OnBlocked, OnConsentEvent, OnSession, Shutdown
<1> QED
  BY <1>1, OpenKeepsTypes, IgnoredKeepsTypes, StopKeepsTypes

LEMMA TickKeepsTypes ==
    ASSUME GuardTypeOK, Tick
    PROVE  GuardTypeOK'
<1>1. QueueSize \in Nat /\ ChunksPerTick \in Nat /\ 0 \in 0 .. ChunksPerTick
  BY MicrophoneAssumption
<1>2. CASE \E reason \in Status : StopCapture(reason)
  BY <1>2, StopKeepsTypes
<1>3. CASE /\ Silent /\ spin' \in {Idle, [at |-> "publishing", left |-> ChunksPerTick]}
           /\ UNCHANGED <<process, recording, window, chunks, ending, reader, captures>>
  BY <1>1, <1>3, NoNewsIsTyped DEF GuardTypeOK, Idle
<1>4. CASE TickPublishes
  <2>1. chunks # <<>> /\ chunks' = Tail(chunks) /\ chunks \in BoundedSeq(Capture, QueueSize)
    BY <1>4 DEF TickPublishes, GuardTypeOK
  <2>2. Head(chunks) \in Capture /\ chunks' \in BoundedSeq(Capture, QueueSize)
    BY <1>1, <2>1, BoundedTail
  <2>3. micOut' \in [status : Status \cup {"none"}, audio : Capture \cup {NoCapture}]
    BY <1>4, <2>2 DEF TickPublishes, Silent, Nothing
  <2>4. window' \in Window
    BY <1>4 DEF TickPublishes, GuardTypeOK, AfterLook, Window
  <2>5. spin' \in [at : {"idle", "publishing", "joining", "down"}, left : 0 .. ChunksPerTick]
    <3>1. spin.left - 1 \in 0 .. ChunksPerTick
      BY <1>1, <1>4 DEF TickPublishes, GuardTypeOK
    <3> QED
      BY <1>4, <3>1 DEF TickPublishes, GuardTypeOK
  <2> QED
    BY <1>4, <2>2, <2>3, <2>4, <2>5 DEF TickPublishes, GuardTypeOK
<1>5. CASE CaptureStopped
  <2>1. chunks' \in BoundedSeq(Capture, QueueSize)
    BY <1>1, <1>5, EmptyIsBounded DEF CaptureStopped, NoChunks
  <2>2. micOut' \in [status : Status \cup {"none"}, audio : Capture \cup {NoCapture}]
    BY <1>5, NoNewsIsTyped DEF CaptureStopped, GuardTypeOK
  <2>3. spin' \in [at : {"idle", "publishing", "joining", "down"}, left : 0 .. ChunksPerTick]
    BY <1>1, <1>5 DEF CaptureStopped, Idle
  <2> QED
    BY <1>5, <2>1, <2>2, <2>3 DEF CaptureStopped, GuardTypeOK
<1>6. CASE TickBegins \/ TickEnds
  <2>1. \/ \E reason \in Status : StopCapture(reason)
        \/ /\ Silent /\ spin' \in {Idle, [at |-> "publishing", left |-> ChunksPerTick]}
           /\ UNCHANGED <<process, recording, window, chunks, ending, reader, captures>>
    BY <1>6, ReasonsAreStatus DEF TickBegins, TickEnds
  <2> QED
    BY <1>2, <1>3, <2>1
<1> QED
  BY <1>4, <1>5, <1>6 DEF Tick

LEMMA ReadKeepsTypes ==
    ASSUME GuardTypeOK, Read
    PROVE  GuardTypeOK'
<1>1. PICK c \in Capture : ReaderStarts(c) \/ ReaderReads(c) \/ ReaderPuts(c)
  BY DEF Read
<1>2. /\ Silent /\ UNCHANGED <<process, recording, window, ending, spin, captures>>
      /\ \E at \in {"starting", "reading", "holding", "ended"} : reader' = [reader EXCEPT ![c] = at]
  BY <1>1 DEF ReaderStarts, ReaderReads, ReaderPuts, ReaderUnchanged, GoesOn
<1>3. chunks' \in BoundedSeq(Capture, QueueSize)
  <2>1. chunks' = chunks \/ chunks' = Enqueued(chunks, c)
    BY <1>1 DEF ReaderStarts, ReaderReads, ReaderPuts
  <2> QED
    BY <2>1, EnqueuedIsBounded DEF GuardTypeOK
<1>4. micOut' \in [status : Status \cup {"none"}, audio : Capture \cup {NoCapture}]
  BY <1>2, NoNewsIsTyped
<1> QED
  BY <1>2, <1>3, <1>4 DEF GuardTypeOK

LEMMA WorldKeepsTypes ==
    ASSUME GuardTypeOK, World
    PROVE  GuardTypeOK'
BY NoNewsIsTyped DEF World, Lapse, DeviceFails, GuardTypeOK, Window

LEMMA PublishedKeepsTypes ==
    ASSUME TopicTypeOK, GuardTypeOK', Published
    PROVE  TopicTypeOK'
<1> DEFINE out == micOut'
<1>1. /\ out.status \in Status \cup {"none"} /\ out.audio \in Capture \cup {NoCapture}
  BY DEF GuardTypeOK
<1>2. /\ statusTopic' = IF out.status = "none" THEN statusTopic
                        ELSE Append(statusTopic, out.status)
      /\ audioTopic' = IF out.audio = NoCapture THEN audioTopic
                       ELSE Kept(Append(audioTopic, out.audio))
  BY DEF Published
<1> HIDE DEF out
<1>3. statusTopic' \in Seq(Status)
  <2>1. statusTopic \in Seq(Status)
    BY DEF TopicTypeOK
  <2> QED
    BY <1>1, <1>2, <2>1
<1>4. audioTopic' \in BoundedSeq(Capture, AudioDepth)
  BY <1>1, <1>2, KeptIsBounded DEF TopicTypeOK
<1> QED
  BY <1>3, <1>4 DEF TopicTypeOK

LEMMA WithdrawnKeepsType ==
    ASSUME GuardTypeOK, withdrawn \subseteq Capture, NEW ends, Withdraw(ends)
    PROVE  withdrawn' \subseteq Capture
BY DEF Withdraw, GuardTypeOK

LEMMA GuardStepsKeepTypes ==
    ASSUME ChainTypeOK,
           GuardSteps(Callback) \/ GuardSteps(Tick) \/ GuardSteps(Read) \/ GuardSteps(World)
    PROVE  ChainTypeOK'
<1>1. GuardTypeOK'
  BY CallbackKeepsTypes, TickKeepsTypes, ReadKeepsTypes, WorldKeepsTypes
     DEF GuardSteps, ChainTypeOK
<1>2. TopicTypeOK'
  BY <1>1, PublishedKeepsTypes DEF GuardSteps, ChainTypeOK
<1>3. RecognizerTypeOK'
  BY DEF GuardSteps, ChainTypeOK, RecognizerTypeOK, recVars
<1>4. withdrawn' \subseteq Capture
  <2>1. \E ends : Withdraw(ends)
    BY DEF GuardSteps, Callback, Tick, Read, World, AuthorizationArrives, BlockArrives,
           EventArrives, SessionArrives, GuardEnds
  <2> QED
    BY <2>1, WithdrawnKeepsType DEF ChainTypeOK
<1> QED
  BY <1>1, <1>2, <1>3, <1>4 DEF ChainTypeOK

LEMMA StatusKeepsTypes ==
    ASSUME ChainTypeOK, StatusArrives
    PROVE  ChainTypeOK'
<1>1. RecognizerTypeOK'
  <2>1. listening \in BOOLEAN /\ decoder \in BOOLEAN /\ heard \subseteq Capture
    BY DEF ChainTypeOK, RecognizerTypeOK
  <2>2. listening' = listening \/ listening' = TRUE \/ listening' = FALSE
    BY DEF StatusArrives, OnStatus, Deaf, StartUtterance, Finish
  <2>3. (heard' = heard \/ heard' = {}) /\ decoder' = decoder
    BY DEF StatusArrives, OnStatus, Deaf, StartUtterance, Finish
  <2>4. listening' \in BOOLEAN /\ decoder' \in BOOLEAN
    BY <2>1, <2>2, <2>3, Zenon
  <2>5. \/ recOut' = [transcript |-> {}, completion |-> "none"]
        \/ recOut' = [transcript |-> {}, completion |-> "failed"]
        \/ recOut' = [transcript |-> heard, completion |-> "success"]
    <3>1. \/ recOut' = Quiet \/ Completes("failed")
          \/ recOut' = [transcript |-> heard, completion |-> "success"]
      BY DEF StatusArrives, OnStatus, Deaf, StartUtterance, Finish
    <3> QED
      BY <3>1 DEF Completes, Quiet
  <2>6. recOut' \in [transcript : SUBSET Capture, completion : {"none", "success", "failed"}]
    BY <2>1, <2>5
  <2> QED
    BY <2>1, <2>3, <2>4, <2>6 DEF RecognizerTypeOK
<1>2. TopicTypeOK'
  <2>1. statusTopic # <<>> /\ statusTopic' = Tail(statusTopic) /\ statusTopic \in Seq(Status)
    BY DEF StatusArrives, ChainTypeOK, TopicTypeOK
  <2>2. statusTopic' \in Seq(Status)
    BY <2>1
  <2> QED
    BY <2>2 DEF StatusArrives, ChainTypeOK, TopicTypeOK
<1>3. GuardTypeOK' /\ withdrawn' \subseteq Capture
  BY DEF StatusArrives, ChainTypeOK, GuardTypeOK, micVars
<1> QED
  BY <1>1, <1>2, <1>3 DEF ChainTypeOK

LEMMA AudioKeepsTypes ==
    ASSUME ChainTypeOK, AudioArrives
    PROVE  ChainTypeOK'
<1>1. Head(audioTopic) \in Capture /\ audioTopic' \in BoundedSeq(Capture, AudioDepth)
  <2>1. /\ audioTopic # <<>> /\ audioTopic' = Tail(audioTopic)
        /\ audioTopic \in BoundedSeq(Capture, AudioDepth) /\ AudioDepth \in Nat
    BY ChainAssumption DEF AudioArrives, ChainTypeOK, TopicTypeOK
  <2> QED
    BY <2>1, BoundedTail
<1>2. RecognizerTypeOK'
  BY <1>1 DEF AudioArrives, OnAudio, Quiet, ChainTypeOK, RecognizerTypeOK
<1>3. TopicTypeOK' /\ GuardTypeOK' /\ withdrawn' \subseteq Capture
  BY <1>1 DEF AudioArrives, ChainTypeOK, TopicTypeOK, GuardTypeOK, micVars
<1> QED
  BY <1>2, <1>3 DEF ChainTypeOK

LEMMA TypesStart == Init => ChainTypeOK
<1> SUFFICES ASSUME Init
             PROVE  ChainTypeOK
  OBVIOUS
<1>1. <<>> \in BoundedSeq(Capture, QueueSize) /\ <<>> \in BoundedSeq(Capture, AudioDepth)
  BY EmptyIsBounded, MicrophoneAssumption, ChainAssumption
<1>2. GuardTypeOK
  BY <1>1, ReasonsAreStatus, MicrophoneAssumption
     DEF Init, MicrophoneInit, GuardTypeOK, Idle, Nothing, Window, Capture
<1>3. RecognizerTypeOK
  BY DEF Init, RecognizerInit, Quiet, RecognizerTypeOK
<1>4. TopicTypeOK
  BY <1>1, ReasonsAreStatus DEF Init, TopicTypeOK
<1> QED
  BY <1>2, <1>3, <1>4 DEF Init, ChainTypeOK

LEMMA TypesStep == ChainTypeOK /\ [Next]_vars => ChainTypeOK'
<1> SUFFICES ASSUME ChainTypeOK, [Next]_vars
             PROVE  ChainTypeOK'
  OBVIOUS
<1>1. CASE UNCHANGED vars
  BY <1>1 DEF ChainTypeOK, GuardTypeOK, RecognizerTypeOK, TopicTypeOK, vars, micVars, recVars
<1> QED
  BY <1>1, GuardStepsKeepTypes, StatusKeepsTypes, AudioKeepsTypes DEF Next

(***************************************************************************)
(* Every step of guard and recognizer keeps the types; the queue of chunks *)
(* and the audio topic stay within their bounds (_read_audio).             *)
(***************************************************************************)
THEOREM ChainTypeInvariant == Spec => []ChainTypeOK
BY TypesStart, TypesStep, PTL DEF Spec
=============================================================================
