----------------------------- MODULE AsrLifecycle -----------------------------
(***************************************************************************)
(* The life of one ASR: its transitions (init, pause, resume and flush)    *)
(* run one after another on _transitionLock and call the provider; the     *)
(* snapshots of the broker that pause and resume it; the audio it gets;    *)
(* and its orderly stop by the StreamingServer.                            *)
(*                                                                         *)
(* The first element of the chain is the transition that runs or is to     *)
(* run next; step says where it stands: before its start, in the await of  *)
(* the provider, or in the time in which stragglers settle.                *)
(***************************************************************************)
EXTENDS AmazonTranscriber, MicrosoftTranscriber, RealtimeTranscriber

CONSTANTS
    MaxAudio,       \* bound on the packets of the stream
    MaxSnapshots    \* bound on the snapshots

ASSUME LifecycleLimits == MaxAudio \in Nat /\ MaxSnapshots \in Nat

VARIABLES
    chain,      \* the transitions queued on _transitionLock
    step,       \* of the first one
    teardown,   \* how far _stopAsr is
    known,      \* _sessionStatusSnapshot of the session
    born,       \* the same when the ASR was created
    skipped,    \* a pause has left the provider alone, for the state was "error" or "closed"
    audio,      \* packets so far
    snapshots   \* snapshots so far

provider  == <<amz, ms, rt, starts, results, faults, sent>>
lifecycle == <<chain, step, teardown, known, born, skipped, audio, snapshots>>
vars      == <<kind, asr, call, provider, lifecycle>>

TypeOK ==
    /\ kind \in Providers
    /\ asr \in Asrs
    /\ call \in {"none", "pending", "resolved"}
    /\ starts \in 0 .. MaxStarts
    /\ results \in 0 .. MaxResults
    /\ faults \in 0 .. MaxFaults
    /\ sent \in Transmissions
    /\ amz \in Transcribers
    /\ ms \in MicrosoftTranscribers
    /\ rt \in RealtimeTranscribers
    /\ chain \in Seq({"init", "pause", "resume", "flush"})
    /\ step \in {"queued", "start", "stop", "settle"}
    /\ teardown \in {"live", "stopping", "marked", "disposed"}
    /\ known \in {"active", "paused", "absent"}
    /\ born \in {"active", "paused"}
    /\ skipped \in BOOLEAN
    /\ audio \in 0 .. MaxAudio
    /\ snapshots \in 0 .. MaxSnapshots

\* The constructor of the ASR, which queues init().
Init ==
    /\ kind \in Providers
    /\ asr = NewAsr
    /\ call = "none"
    /\ starts = 0
    /\ results = 0
    /\ faults = 0
    /\ sent = [last |-> 0, ordered |-> TRUE]
    /\ amz = NewAmazon
    /\ \E dual \in (IF kind = "microsoft" THEN BOOLEAN ELSE {FALSE}) : ms = NewMicrosoft(dual)
    /\ rt = NewRealtime
    /\ chain = <<"init">>
    /\ step = "queued"
    /\ teardown = "live"
    /\ known \in {"active", "paused"}
    /\ born = known
    /\ skipped = FALSE
    /\ audio = 0
    /\ snapshots = 0

-----------------------------------------------------------------------------
(* The provider that loadAsr has found *)

Realtime == kind \in {"vllm", "openai", "linto"}

ProviderStart(a) ==
    /\ \/ kind = "amazon" /\ AmazonStart(a) /\ UNCHANGED <<ms, rt>>
       \/ kind = "microsoft" /\ MicrosoftStart(a) /\ UNCHANGED <<amz, rt>>
       \/ Realtime /\ RealtimeStart(a, rt) /\ UNCHANGED <<call, amz, ms>>
    /\ UNCHANGED <<results, faults, sent>>

ProviderStop(a) ==
    /\ \/ kind = "amazon" /\ AmazonStop(a) /\ UNCHANGED <<ms, rt>>
       \/ kind = "microsoft" /\ MicrosoftStop(a) /\ UNCHANGED <<amz, rt>>
       \/ Realtime /\ RealtimeStop(a) /\ UNCHANGED <<amz, ms>>
    /\ UNCHANGED <<results, faults, sent>>

ProviderTranscribe(a, packets) ==
    /\ \/ kind = "amazon" /\ AmazonTranscribe(a, packets) /\ UNCHANGED <<ms, rt>>
       \/ kind = "microsoft" /\ MicrosoftTranscribe(a, packets) /\ UNCHANGED <<amz, rt>>
       \/ Realtime /\ RealtimeTranscribe(a, packets) /\ UNCHANGED <<amz, ms>>
    /\ UNCHANGED <<call, starts, results, faults>>

Idle == UNCHANGED <<call, provider>>

\* A call that is over when it returns: its await lets no other event in.
StartReturns == kind # "amazon"
StopReturns  == Realtime \/ (kind = "microsoft" /\ ms.recognizers = <<>>)

-----------------------------------------------------------------------------
(* Transitions *)

Runs(transition, at) == chain # <<>> /\ Head(chain) = transition /\ step = at

\* The transition is over; the next one may start.
Advance == chain' = Tail(chain) /\ step' = "queued"

\* It goes on with what it awaits.
Awaits(what) == step' = what /\ UNCHANGED chain

\* init(): a provider that cannot be loaded leaves the ASR without one.
BeginInit ==
    /\ Runs("init", "queued")
    /\ IF kind = "none"
       THEN asr' = [asr EXCEPT !.state = "error"] /\ Idle /\ Advance
       ELSE /\ ProviderStart(OnConnecting(asr))
            /\ IF StartReturns THEN Advance ELSE Awaits("start")
    /\ UNCHANGED <<kind, teardown, known, born, skipped, audio, snapshots>>

\* The start() of an init or of a resume is over, which only Amazon's takes time for.
Started ==
    /\ step = "start" /\ call = "resolved"
    /\ call' = "none"
    /\ Advance
    /\ UNCHANGED <<kind, asr, provider, teardown, known, born, skipped, audio, snapshots>>

\* Mutant: the provider is stopped only once it is ready.
StopsOnPause_NotConnecting(a) == kind # "none" /\ a.state \in {"ready", "transcribing"}

\* Whether pause() stops the provider.
StopsOnPause(a) == kind # "none" /\ a.state \in {"ready", "transcribing", "connecting"}

\* pause()
BeginPause ==
    /\ Runs("pause", "queued")
    /\ LET a == [asr EXCEPT !.paused = TRUE, !.buffer = FlushBuffer(@)]
       IN  IF asr.paused
           THEN UNCHANGED <<asr, skipped>> /\ Idle /\ Advance
           ELSE IF StopsOnPause(asr)
           THEN /\ IF StopReturns THEN ProviderStop(OnClosed(a)) /\ Advance
                                  ELSE ProviderStop(a) /\ Awaits("stop")
                /\ UNCHANGED skipped
           ELSE /\ asr' = OnClosed(a) /\ Idle /\ Advance
                /\ skipped' = (skipped \/ asr.state \in {"error", "closed"})
    /\ UNCHANGED <<kind, teardown, known, born, audio, snapshots>>

\* The stop() of a pause is over.
Paused ==
    /\ Runs("pause", "stop") /\ call = "resolved"
    /\ asr' = OnClosed(asr)
    /\ call' = "none"
    /\ Advance
    /\ UNCHANGED <<kind, provider, teardown, known, born, skipped, audio, snapshots>>

\* resume()
BeginResume ==
    /\ Runs("resume", "queued")
    /\ LET a == OnConnecting([asr EXCEPT !.paused = FALSE, !.buffer = FlushBuffer(@)])
       IN  IF ~asr.paused
           THEN UNCHANGED asr /\ Idle /\ Advance
           ELSE IF kind = "none"
           THEN asr' = a /\ Idle /\ Advance
           ELSE ProviderStart(a) /\ IF StartReturns THEN Advance ELSE Awaits("start")
    /\ UNCHANGED <<kind, teardown, known, born, skipped, audio, snapshots>>

\* _stopAsr after the flush: the end-of-stream marker, and no listener from then on.
Marked(a) == asr' = [a EXCEPT !.over = TRUE] /\ teardown' = "marked"

\* flushFinals(): the provider is stopped while there are still listeners.
BeginFlush ==
    /\ Runs("flush", "queued")
    /\ IF asr.flushed \/ asr.paused \/ kind = "none"
       THEN Marked(asr) /\ Idle /\ Advance
       ELSE /\ ProviderStop([asr EXCEPT !.flushed = TRUE])
            /\ Awaits(IF StopReturns THEN "settle" ELSE "stop")
            /\ UNCHANGED teardown
    /\ UNCHANGED <<kind, known, born, skipped, audio, snapshots>>

\* Its stop() is over.
Flushed ==
    /\ Runs("flush", "stop") /\ call = "resolved"
    /\ call' = "none"
    /\ Awaits("settle")
    /\ UNCHANGED <<kind, asr, provider, teardown, known, born, skipped, audio, snapshots>>

\* Mutant: it waits for the provider, however long that takes.
FlushTimeout_Never == FALSE

\* It has lasted ASR_STOP_FLUSH_TIMEOUT_MS and goes on without the flush.
FlushTimeout ==
    /\ Runs("flush", "stop") /\ call = "pending"
    /\ call' = "none"
    /\ Awaits("settle")
    /\ UNCHANGED <<kind, asr, provider, teardown, known, born, skipped, audio, snapshots>>

\* The stragglers had ASR_STOP_SETTLE_MS.
Settle ==
    /\ Runs("flush", "settle")
    /\ Marked(OnClosed(asr))
    /\ Advance
    /\ UNCHANGED <<kind, call, provider, known, born, skipped, audio, snapshots>>

\* dispose(): the provider is stopped, unless the flush has done so.
Dispose ==
    /\ teardown = "marked"
    /\ teardown' = "disposed"
    /\ IF asr.flushed \/ kind = "none" THEN UNCHANGED asr /\ Idle ELSE ProviderStop(asr)
    /\ UNCHANGED <<kind, chain, step, known, born, skipped, audio, snapshots>>

-----------------------------------------------------------------------------
(* The Transcriber around the ASR *)

\* Mutant: a paused session that leaves the snapshot is forgotten.
NextKnown_Forgets(status) == status

\* The status handleSessions keeps: that of a paused session that is absent stays.
NextKnown(status) == IF status = "absent" /\ known = "paused" THEN "paused" ELSE status

\* handleSessions, and the pause or resume it makes of the ASR while that is in the map.
\* A snapshot with the status that is known changes nothing and is left out.
Snapshot(status) ==
    /\ teardown = "live"
    /\ snapshots < MaxSnapshots
    /\ NextKnown(status) # known
    /\ snapshots' = snapshots + 1
    /\ known' = NextKnown(status)
    /\ chain' = IF status = "paused" /\ known # "paused" THEN Append(chain, "pause")
                ELSE IF status = "active" /\ known = "paused" THEN Append(chain, "resume")
                ELSE chain
    /\ UNCHANGED <<kind, asr, call, provider, step, teardown, born, skipped, audio>>

\* The stream is over: the ASR leaves the map and its flush is queued.
StopAsr ==
    /\ teardown = "live"
    /\ teardown' = "stopping"
    /\ chain' = Append(chain, "flush")
    /\ UNCHANGED <<kind, asr, call, provider, step, known, born, skipped, audio, snapshots>>

\* A packet is added.  (History: the views that Amazon has queued all begin at the first
\* slot.  They are read after the flush, so that the packet overwrites what they show.)
Adds(packet) ==
    [asr EXCEPT !.buffer = Add(@, packet), !.overwritten = @ \/ amz.queue # <<>>]

\* transcribe(): a packet of the stream.
Transcribe ==
    LET a    == Adds(audio + 1)
        held == GetAudioBuffer(a.buffer)
    IN  /\ teardown = "live" /\ ~Runs("init", "queued")
        /\ audio < MaxAudio
        /\ audio' = audio + 1
        /\ IF asr.paused
           THEN UNCHANGED asr /\ Idle
           ELSE IF asr.state \in {"ready", "transcribing"} /\ Len(held) >= MinBuffer /\ kind # "none"
           THEN ProviderTranscribe([a EXCEPT !.buffer = FlushBuffer(@)], held)
           ELSE asr' = a /\ Idle
        /\ UNCHANGED <<kind, chain, step, teardown, known, born, skipped, snapshots>>

-----------------------------------------------------------------------------
(* Specification *)

ProviderNext ==
    /\ \/ kind = "amazon" /\ AmazonNext /\ UNCHANGED <<ms, rt>>
       \/ kind = "microsoft" /\ MicrosoftNext /\ UNCHANGED <<amz, rt>>
       \/ Realtime /\ RealtimeNext /\ UNCHANGED <<amz, ms>>
    /\ UNCHANGED <<kind, lifecycle>>

Transition ==
    \/ BeginInit \/ Started \/ BeginPause \/ Paused \/ BeginResume
    \/ BeginFlush \/ Flushed \/ FlushTimeout \/ Settle \/ Dispose

\* An exception that nobody catches ends the process.
Next ==
    /\ ~rt.thrown
    /\ \/ Transition
       \/ ProviderNext
       \/ \E status \in {"active", "paused", "absent"} : Snapshot(status)
       \/ StopAsr
       \/ Transcribe

Spec == Init /\ [][Next]_vars

\* The event loop runs what is due, timers included, and the Amazon service answers:
\* credentials come or not, and so does the stream.  Nothing makes a stream end.
FairSpec ==
    /\ Spec
    /\ WF_vars(Transition /\ ~rt.thrown)
    /\ WF_vars(/\ kind = "amazon"
               /\ \/ \E t \in amz.tasks : Credentials(t) \/ Sent(t) \/ SendFails(t)
                  \/ AmazonStopped
               /\ UNCHANGED <<kind, ms, rt, lifecycle>>)

-----------------------------------------------------------------------------
(* Properties *)

\* The connections of the provider that may still act, and those that a stop() would
\* close or is about to close.
Streams == CASE kind = "amazon"    -> AmazonStreams
             [] kind = "microsoft" -> MicrosoftStreams
             [] OTHER              -> RealtimeStreams

BeingClosed == UNION {Elements(s.todo) : s \in ms.stops}

InHand == CASE kind = "amazon"    -> {amz.client}
            [] kind = "microsoft" -> Elements(ms.recognizers) \cup BeingClosed
            [] OTHER              -> {rt.ws}

\* The provider will not open a connection by itself.
Quiet == ~rt.timer /\ rt.watchdog = 0 /\ \A t \in amz.tasks : IsStaleReconnect(t.epoch)

\* "Without this guard a reconnect() that crossed a stop() boundary would install [...]
\* a zombie client": whatever reconnections, pauses and resumes cross each other, the
\* provider holds every connection that is open, so that a stop closes it.
NoZombie == ~skipped => Streams \subseteq InHand

\* Once a pause is through, and it has stopped the provider, nothing is connected that
\* is not being closed, and nothing will connect before the resume.  The same holds
\* for good once the ASR is disposed.
StoppedIsQuiet ==
    /\ ~skipped
    /\ \/ asr.paused /\ chain = <<>>
       \/ teardown = "disposed" /\ ~amz.stop
    => Streams \subseteq BeingClosed /\ Quiet

\* An ASR that was created while its session was not paused is paused exactly when the
\* snapshots say so, as soon as its transitions are through, also after a paused
\* session was absent for a while.
PauseFollowed ==
    born = "active" /\ teardown = "live" /\ chain = <<>> => (asr.paused <=> known = "paused")

\* What the epochs of the Amazon and Microsoft providers are for: nothing is published
\* from a connection of an earlier start.
NoPhantomCaption == kind \in {"amazon", "microsoft"} => ~asr.latest.stale

\* The service gets the packets in their order and none of them twice, whatever was
\* held back before the provider was ready, before the session was armed, or in a
\* reconnection.  That is all the code promises as long as Amazon's generator takes each
\* view from its queue before the next packet arrives: a packet that comes earlier
\* overwrites what the queued view shows, and is sent in its place and then again.
AudioInOrder == ~asr.overwritten => sent.ordered

\* "This keeps a translation aligned with its source": a secondary caption goes to the
\* segment of the latest primary one, also when that was final and when the caption
\* of an error came in between.
SecondaryPinned == ~asr.latest.primary => asr.latest.segment = asr.source

\* "Bounded so a hung provider can never delay the marker indefinitely": once the flush
\* is the only transition left, the marker and the disposal follow, whatever the
\* provider does (unless the process ends).  (Only the disposal ends what is pending here,
\* so that it does not last.)
DisposalPending == (teardown = "stopping" /\ chain = <<"flush">>) \/ teardown = "marked"
FlushBounded == []<>(~DisposalPending \/ rt.thrown)

\* The acceptance test of pause: "no further MQTT transcriber/out/.../partial or /final
\* message is emitted".  A session that stays paused has its ASR paused in the end.
PauseTakesHold ==
    (known = "paused" /\ born = "active" /\ teardown = "live")
        ~> (asr.paused \/ known # "paused" \/ teardown # "live" \/ rt.thrown)
=============================================================================
