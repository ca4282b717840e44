--------------------------------- MODULE Asr ----------------------------------
(***************************************************************************)
(* The ASR object of one channel of a Transcriber: the state it keeps      *)
(* about its provider, the segments it numbers, the audio it holds back,   *)
(* and what each event of a provider does to it.  The handlers are         *)
(* functions from the ASR before the event to the ASR after it, so that a  *)
(* provider whose call emits several events composes them in their order.  *)
(*                                                                         *)
(* The providers are the modules AmazonTranscriber, MicrosoftTranscriber   *)
(* and RealtimeTranscriber; the transitions and the stop of an ASR, which  *)
(* call them, are in AsrLifecycle.                                         *)
(***************************************************************************)
EXTENDS Naturals, Sequences

CONSTANTS
    Providers,      \* the provider types a profile may name
    MaxBuffer,      \* packets that MAX_AUDIO_BUFFER seconds of audio hold: the slots
    MinBuffer,      \* packets that MIN_AUDIO_BUFFER milliseconds of audio take
    MaxStarts,      \* bound on the starts of the provider
    MaxResults,     \* bound on the results of the provider
    MaxFaults       \* bound on the failures of its service

ASSUME ProvidersAssumption == Providers \subseteq {"amazon", "microsoft", "vllm", "openai", "linto", "none"}
ASSUME AsrLimits == MaxBuffer \in Nat \ {0} /\ MinBuffer \in Nat \ {0}
                 /\ MaxStarts \in Nat /\ MaxResults \in Nat /\ MaxFaults \in Nat

VARIABLES
    kind,       \* the type of the provider; "none" cannot be loaded
    asr,        \* the ASR, see Asrs
    call,       \* the call of the provider that a transition awaits
    starts,     \* starts of the provider so far: the latest one is the current generation
    results,    \* results the provider has delivered so far
    faults,     \* failures of its service so far
    sent        \* what the provider has sent to its service, see Transmissions

States == {"connecting", "ready", "error", "closed", "transcribing"}

\* A caption that is published: its segment, whether it is the canonical one, and
\* whether the provider was started again since the connection it comes from.
Captions == [what : {"none", "partial", "final", "error"}, segment : Nat, primary : BOOLEAN,
             stale : BOOLEAN]
NoCaption == [what |-> "none", segment |-> 0, primary |-> TRUE, stale |-> FALSE]

\* A CircularBuffer: its memory, and how much of it is in use.
CircularBuffers == [slots : [1 .. MaxBuffer -> Nat], pointer : 0 .. MaxBuffer]

Asrs == [state       : States,
         paused      : BOOLEAN,
         flushed     : BOOLEAN,
         segmentId   : Nat,
         lastPrimary : Nat,           \* _lastPrimarySegmentId
         buffer      : CircularBuffers,
         overwritten : BOOLEAN,       \* history: see Adds
         latest      : Captions,      \* the caption that was published last
         source      : Nat,           \* segment of the latest published primary caption
         over        : BOOLEAN]       \* the listeners of the ASR are removed

NewAsr == [state |-> "closed", paused |-> FALSE, flushed |-> FALSE, segmentId |-> 1,
           lastPrimary |-> 1, latest |-> NoCaption, source |-> 1, over |-> FALSE, overwritten |-> FALSE,
           buffer |-> [slots |-> [i \in 1 .. MaxBuffer |-> 0], pointer |-> 0]]

-----------------------------------------------------------------------------
(* handleASREvents *)

\* emit('partial') or emit('final'), which the StreamingServer publishes while it
\* listens.
Publish(a, caption) ==
    IF a.over THEN a
    ELSE [a EXCEPT !.latest = caption,
                   !.source = IF caption.primary /\ caption.what # "error" THEN caption.segment ELSE @]

OnConnecting(a) == [a EXCEPT !.state = "connecting"]

OnReady(a) == [a EXCEPT !.state = "ready"]

OnClosed(a) == [a EXCEPT !.state = "closed"]

\* The error is published as a caption of its own.
OnError(a) ==
    [Publish(a, [what |-> "error", segment |-> a.segmentId, primary |-> TRUE, stale |-> FALSE])
        EXCEPT !.segmentId = @ + 1, !.state = "error"]

\* Mutant: a secondary result goes to the segment that is current.
SegmentIdFor_Current(a, primary) == a.segmentId

\* _segmentIdFor: a secondary result joins the segment of the latest primary one.
SegmentIdFor(a, primary) == IF primary THEN a.segmentId ELSE a.lastPrimary

\* 'transcribing', with a text.
OnTranscribing(a, primary, stale) ==
    LET segment == SegmentIdFor(a, primary)
    IN  [Publish(a, [what |-> "partial", segment |-> segment, primary |-> primary, stale |-> stale])
            EXCEPT !.state = "transcribing", !.lastPrimary = segment]

\* 'transcribed', with a text: only a primary final ends the segment.
OnTranscribed(a, primary, stale) ==
    LET segment == SegmentIdFor(a, primary)
    IN  [Publish(a, [what |-> "final", segment |-> segment, primary |-> primary, stale |-> stale])
            EXCEPT !.lastPrimary = segment, !.segmentId = IF primary THEN @ + 1 ELSE @]

-----------------------------------------------------------------------------
(* Audio *)

\* CircularBuffer.add, for packets that all have the size of one slot: a packet that
\* does not fit is written at the start, and then it is all there is to read.
Add(buffer, packet) ==
    LET slot == IF buffer.pointer < MaxBuffer THEN buffer.pointer + 1 ELSE 1
    IN  [slots |-> [buffer.slots EXCEPT ![slot] = packet], pointer |-> slot]

\* What a view of the first n slots shows when it is read.
View(buffer, n) == [i \in 1 .. n |-> buffer.slots[i]]

\* getAudioBuffer(), which makes such a view.
GetAudioBuffer(buffer) == View(buffer, buffer.pointer)

\* flush(): the memory stays as it is.
FlushBuffer(buffer) == [buffer EXCEPT !.pointer = 0]

\* The last packet sent, and whether each packet so far was newer than the one before.
Transmissions == [last : Nat, ordered : BOOLEAN]

\* The provider sends packets to its service.
Sends(packets) ==
    sent' = IF packets = <<>> THEN sent
            ELSE [last    |-> packets[Len(packets)],
                  ordered |-> /\ sent.ordered /\ packets[1] > sent.last
                              /\ \A i \in 2 .. Len(packets) : packets[i] > packets[i - 1]]

-----------------------------------------------------------------------------
(* Calls of the provider *)

\* A new generation of connections.
NextStart == starts < MaxStarts /\ starts' = starts + 1

\* A result comes from the service.  (Bound: none of interest once nobody listens.)
NextResult == ~asr.over /\ results < MaxResults /\ results' = results + 1

\* The service fails.
NextFault == faults < MaxFaults /\ faults' = faults + 1

\* The promise of the call is settled; a flush that timed out no longer waits for it.
Settled(outcome) == IF call = "pending" THEN outcome ELSE call
=============================================================================
