------------------------- MODULE MicrosoftTranscriber -------------------------
(***************************************************************************)
(* The Microsoft provider: one recognizer, or in dual mode a primary one   *)
(* for diarization and a secondary one for translations, each with its     *)
(* listener, which remembers the epoch it was made in.  start() is         *)
(* synchronous; stop() takes the recognizers out and then closes them one  *)
(* by one, and a 'canceled' of the service makes the listener call stop()  *)
(* itself, outside the transitions of the ASR.                             *)
(*                                                                         *)
(* The Speech SDK is external: it calls the listener back in any order,    *)
(* also after the stop of the recognizer was asked for, and need not       *)
(* acknowledge a stop.  A recognizer is closed when it has.                *)
(***************************************************************************)
EXTENDS Asr

VARIABLE ms     \* the transcriber, see Transcribers

\* A recognizer is named by its epoch and its role.
Recognizers == [epoch : 1 .. MaxStarts, primary : BOOLEAN]

\* A stop() under way: the recognizers it has still to close, and whether it was
\* called by a transition or by a listener.
Stops == [todo : Seq(Recognizers), awaited : BOOLEAN]

MicrosoftTranscribers ==
    [dual        : BOOLEAN,               \* diarization with translations
     epoch       : 0 .. MaxStarts,
     stopping    : BOOLEAN,
     recognizers : Seq(Recognizers),
     at          : [Recognizers -> {"unused", "starting", "live", "failed", "closed"}],
     timers      : SUBSET Recognizers,    \* the _startupTimeout that are armed
     stops       : SUBSET Stops]

NewMicrosoft(dual) ==
    [dual |-> dual, epoch |-> 0, stopping |-> FALSE, recognizers |-> <<>>,
     at |-> [r \in Recognizers |-> "unused"], timers |-> {}, stops |-> {}]

\* Mutant: a callback of an older generation is not recognized as such.
IsStale_Never(r) == FALSE

\* _isStale of the listener of recognizer r.
IsStale(r) == r.epoch # ms.epoch

Elements(seq) == {seq[i] : i \in 1 .. Len(seq)}

\* start(): the recognizers of a new epoch, each with its startup timeout.
MicrosoftStart(a) ==
    LET epoch == ms.epoch + 1
        made  == <<[epoch |-> epoch, primary |-> TRUE]>>
                     \o (IF ms.dual THEN <<[epoch |-> epoch, primary |-> FALSE]>> ELSE <<>>)
    IN  /\ asr' = a
        /\ NextStart
        /\ ms' = [ms EXCEPT !.stopping = FALSE, !.epoch = epoch, !.recognizers = made,
                            !.at = [r \in Recognizers |->
                                        IF r \in Elements(made) THEN "starting" ELSE @[r]],
                            !.timers = @ \cup Elements(made)]
        /\ UNCHANGED call

\* stop(): the recognizers are taken out at once and then closed in turn.
Closing(m, awaited) ==
    [m EXCEPT !.recognizers = <<>>, !.stopping = TRUE,
              !.timers = @ \ Elements(m.recognizers),
              !.stops = IF m.recognizers = <<>> THEN @
                        ELSE @ \cup {[todo |-> m.recognizers, awaited |-> awaited]}]

\* With none to close it is over at once, and 'closed' is emitted.
MicrosoftStop(a) ==
    /\ ms' = Closing(ms, TRUE)
    /\ asr' = IF ms.recognizers = <<>> THEN OnClosed(a) ELSE a
    /\ call' = IF ms.recognizers = <<>> THEN call ELSE "pending"
    /\ UNCHANGED starts

\* The service acknowledges the stop of the recognizer that stop() is at.  After the
\* last one 'closed' is emitted, whatever has been started meanwhile.
StopAck(s) ==
    LET rest   == Tail(s.todo)
        closed == [ms EXCEPT !.at[Head(s.todo)] = "closed", !.stops = @ \ {s}]
    IN  /\ IF rest # <<>>
           THEN /\ ms' = [closed EXCEPT !.stops = @ \cup {[s EXCEPT !.todo = rest]}]
                /\ UNCHANGED <<asr, call>>
           ELSE /\ ms' = closed
                /\ asr' = OnClosed(asr)
                /\ call' = IF s.awaited THEN Settled("resolved") ELSE call
        /\ UNCHANGED <<starts, results, faults, sent>>

\* onStartSuccess: only the primary recognizer makes the ASR ready.
StartSuccess(r) ==
    /\ ms.at[r] = "starting"
    /\ ms' = [ms EXCEPT !.at[r] = "live", !.timers = @ \ {r}]
    /\ asr' = IF IsStale(r) \/ ~r.primary THEN asr ELSE OnReady(asr)
    /\ UNCHANGED <<call, starts, results, faults, sent>>

\* onStartError, also of the secondary recognizer.
StartError(r) ==
    /\ ms.at[r] = "starting"
    /\ ms' = [ms EXCEPT !.at[r] = "failed", !.timers = @ \ {r}]
    /\ asr' = IF IsStale(r) THEN asr ELSE OnError(asr)
    /\ NextFault
    /\ UNCHANGED <<call, starts, results, sent>>

\* 15 seconds without an answer to the start.
StartupTimeout(r) ==
    /\ r \in ms.timers
    /\ ms' = [ms EXCEPT !.timers = @ \ {r}]
    /\ asr' = IF IsStale(r) THEN asr ELSE OnError(asr)
    /\ NextFault
    /\ UNCHANGED <<call, starts, results, sent>>

\* handleCanceled of the primary listener: it reports the error and stops the
\* transcriber, unless a stop is under way; that of the secondary one goes on.
Canceled(r) ==
    /\ ms.at[r] \in {"starting", "live", "closed"}
    /\ IF IsStale(r)
       THEN /\ ms' = [ms EXCEPT !.at[r] = "failed", !.timers = @ \ {r}]
            /\ UNCHANGED asr
       ELSE IF ~r.primary \/ ms.stopping
       THEN /\ ms' = [ms EXCEPT !.at[r] = "failed"]
            /\ UNCHANGED asr
       ELSE /\ ms' = Closing([ms EXCEPT !.at[r] = "failed", !.timers = @ \ {r}], FALSE)
            /\ asr' = OnError(asr)
    /\ NextFault
    /\ UNCHANGED <<call, starts, results, sent>>

\* handleSessionStopped: only that of the primary listener closes the ASR.
SessionStopped(r) ==
    /\ ms.at[r] \in {"live", "closed"}
    /\ ms' = [ms EXCEPT !.at[r] = "failed"]
    /\ asr' = IF IsStale(r) \/ ~r.primary THEN asr ELSE OnClosed(asr)
    /\ NextFault
    /\ UNCHANGED <<call, starts, results, sent>>

\* handleRecognizing
Recognizing(r) ==
    /\ ms.at[r] \in {"live", "closed"}
    /\ NextResult
    /\ asr' = IF IsStale(r) THEN asr ELSE OnTranscribing(asr, r.primary, r.epoch # starts)
    /\ UNCHANGED <<ms, call, starts, faults, sent>>

\* handleRecognized
Recognized(r) ==
    /\ ms.at[r] \in {"live", "closed"}
    /\ NextResult
    /\ asr' = IF IsStale(r) THEN asr ELSE OnTranscribed(asr, r.primary, r.epoch # starts)
    /\ UNCHANGED <<ms, call, starts, faults, sent>>

\* transcribe(): without a recognizer the audio is dropped.
MicrosoftTranscribe(a, packets) ==
    /\ asr' = a
    /\ IF ms.recognizers # <<>> THEN Sends(packets) ELSE UNCHANGED sent
    /\ UNCHANGED ms

MicrosoftNext ==
    \/ \E s \in ms.stops : StopAck(s)
    \/ \E r \in Recognizers :
           \/ StartSuccess(r) \/ StartError(r) \/ StartupTimeout(r)
           \/ Canceled(r) \/ SessionStopped(r) \/ Recognizing(r) \/ Recognized(r)

\* Recognizers that may still act.
MicrosoftStreams == {r \in Recognizers : ms.at[r] \in {"starting", "live"}}
=============================================================================
