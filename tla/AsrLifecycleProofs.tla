-------------------------- MODULE AsrLifecycleProofs --------------------------
(***************************************************************************)
(* Proofs about AsrLifecycle, for any providers and any bounds: no         *)
(* connection escapes, a pause is followed, captions keep their segment.   *)
(***************************************************************************)
EXTENDS AsrLifecycle, SequenceTheorems, NaturalsInduction, WellFoundedInduction, TLAPS

-----------------------------------------------------------------------------
(* The handlers of the events of a provider *)

\* A secondary caption goes to the segment of the latest primary one: as long as
\* somebody listens, that is the one the ASR remembers.
Pinned(a) ==
    /\ ~a.over => a.source = a.lastPrimary
    /\ ~a.latest.primary => a.latest.segment = a.source

\* b is a after some handlers: they report, and leave alone what the transitions of the
\* ASR and the audio depend on.
Follows(a, b) ==
    /\ b \in Asrs
    /\ b.paused = a.paused /\ b.flushed = a.flushed /\ b.over = a.over /\ b.buffer = a.buffer
    /\ b.overwritten = a.overwritten
    /\ Pinned(a) => Pinned(b)

LEMMA FollowsItself == ASSUME NEW a \in Asrs PROVE Follows(a, a)
BY DEF Follows

LEMMA FollowsOn ==
    ASSUME NEW a, NEW b, NEW c, Follows(a, b), Follows(b, c) PROVE Follows(a, c)
BY DEF Follows

LEMMA PublishFollows ==
    ASSUME NEW a \in Asrs, NEW caption \in Captions
    PROVE  /\ Publish(a, caption) \in Asrs
           /\ \A f \in {"state", "paused", "flushed", "segmentId", "lastPrimary", "buffer", "over", "overwritten"} :
                  Publish(a, caption)[f] = a[f]
           /\ a.over => Publish(a, caption) = a
           /\ ~a.over => /\ Publish(a, caption).latest = caption
                         /\ Publish(a, caption).source =
                                IF caption.primary /\ caption.what # "error" THEN caption.segment
                                ELSE a.source
BY DEF Publish, Asrs, Captions

LEMMA StateFollows ==
    ASSUME NEW a \in Asrs
    PROVE  /\ Follows(a, OnConnecting(a)) /\ OnConnecting(a).state = "connecting"
           /\ Follows(a, OnReady(a)) /\ OnReady(a).state = "ready"
           /\ Follows(a, OnClosed(a)) /\ OnClosed(a).state = "closed"
           /\ OnConnecting(a).latest = a.latest
           /\ OnReady(a).latest = a.latest
           /\ OnClosed(a).latest = a.latest
BY DEF Follows, Pinned, OnConnecting, OnReady, OnClosed, Asrs, States

LEMMA ErrorFollows ==
    ASSUME NEW a \in Asrs
    PROVE  /\ Follows(a, OnError(a)) /\ OnError(a).state = "error"
           /\ ~a.latest.stale => ~OnError(a).latest.stale
<1> DEFINE c == [what |-> "error", segment |-> a.segmentId, primary |-> TRUE, stale |-> FALSE]
           p == Publish(a, c)
           n == p.segmentId + 1
<1>1. c \in Captions
  BY DEF Captions, Asrs
<1>2. OnError(a) = [p EXCEPT !.segmentId = n, !.state = "error"]
  BY DEF OnError
<1>3. p \in Asrs
  BY <1>1, PublishFollows
<1>6. n \in Nat
  BY <1>3 DEF Asrs
<1> HIDE DEF n
<1>4. /\ OnError(a) \in Asrs
      /\ OnError(a).state = "error"
      /\ \A f \in {"paused", "flushed", "lastPrimary", "buffer", "over", "overwritten", "latest", "source"} :
             OnError(a)[f] = p[f]
  BY <1>2, <1>3, <1>6 DEF Asrs, States
<1>5. /\ \A f \in {"paused", "flushed", "lastPrimary", "buffer", "over", "overwritten"} : p[f] = a[f]
      /\ a.over => p.latest = a.latest /\ p.source = a.source
      /\ ~a.over => p.latest = c /\ p.source = a.source
  BY <1>1, PublishFollows
<1> HIDE DEF p
<1> QED
  BY <1>4, <1>5 DEF Follows, Pinned

LEMMA TranscribingFollows ==
    ASSUME NEW a \in Asrs, NEW primary \in BOOLEAN, NEW stale \in BOOLEAN
    PROVE  /\ Follows(a, OnTranscribing(a, primary, stale))
           /\ OnTranscribing(a, primary, stale).state = "transcribing"
           /\ ~a.latest.stale /\ ~stale => ~OnTranscribing(a, primary, stale).latest.stale
<1> DEFINE s == SegmentIdFor(a, primary)
           c == [what |-> "partial", segment |-> s, primary |-> primary, stale |-> stale]
           p == Publish(a, c)
<1>1. c \in Captions /\ s \in Nat
  BY DEF Captions, Asrs, SegmentIdFor
<1>2. OnTranscribing(a, primary, stale) = [p EXCEPT !.state = "transcribing", !.lastPrimary = s]
  BY DEF OnTranscribing
<1>3. p \in Asrs
  BY <1>1, PublishFollows
<1> DEFINE b == OnTranscribing(a, primary, stale)
<1>4. /\ b \in Asrs
      /\ b.state = "transcribing" /\ b.lastPrimary = s
      /\ \A f \in {"paused", "flushed", "buffer", "over", "overwritten", "latest", "source"} : b[f] = p[f]
  BY <1>1, <1>2, <1>3 DEF Asrs, States
<1>5. /\ \A f \in {"paused", "flushed", "buffer", "over", "overwritten"} : p[f] = a[f]
      /\ a.over => p.latest = a.latest /\ p.source = a.source
      /\ ~a.over => p.latest = c /\ p.source = IF primary THEN s ELSE a.source
  BY <1>1, PublishFollows
<1>6. s = IF primary THEN a.segmentId ELSE a.lastPrimary
  BY DEF SegmentIdFor
<1> HIDE DEF p, s, b
<1>7. Follows(a, b) /\ (~a.latest.stale /\ ~stale => ~b.latest.stale)
  BY <1>4, <1>5, <1>6 DEF Follows, Pinned
<1> QED
  BY <1>4, <1>7 DEF b

LEMMA TranscribedFollows ==
    ASSUME NEW a \in Asrs, NEW primary \in BOOLEAN, NEW stale \in BOOLEAN
    PROVE  /\ Follows(a, OnTranscribed(a, primary, stale))
           /\ OnTranscribed(a, primary, stale).state = a.state
           /\ ~a.latest.stale /\ ~stale => ~OnTranscribed(a, primary, stale).latest.stale
<1> DEFINE s == SegmentIdFor(a, primary)
           c == [what |-> "final", segment |-> s, primary |-> primary, stale |-> stale]
           p == Publish(a, c)
           n == IF primary THEN p.segmentId + 1 ELSE p.segmentId
<1>1. c \in Captions /\ s \in Nat
  BY DEF Captions, Asrs, SegmentIdFor
<1>3. p \in Asrs
  BY <1>1, PublishFollows
<1>8. n \in Nat
  BY <1>3 DEF Asrs
<1>2. OnTranscribed(a, primary, stale) = [p EXCEPT !.lastPrimary = s, !.segmentId = n]
  BY <1>3 DEF OnTranscribed, Asrs
<1> DEFINE b == OnTranscribed(a, primary, stale)
<1> HIDE DEF n
<1>4. /\ b \in Asrs
      /\ b.lastPrimary = s
      /\ \A f \in {"state", "paused", "flushed", "buffer", "over", "overwritten", "latest", "source"} : b[f] = p[f]
  BY <1>1, <1>2, <1>3, <1>8 DEF Asrs, States
<1>5. /\ \A f \in {"state", "paused", "flushed", "buffer", "over", "overwritten"} : p[f] = a[f]
      /\ a.over => p.latest = a.latest /\ p.source = a.source
      /\ ~a.over => p.latest = c /\ p.source = IF primary THEN s ELSE a.source
  BY <1>1, PublishFollows
<1>6. s = IF primary THEN a.segmentId ELSE a.lastPrimary
  BY DEF SegmentIdFor
<1> HIDE DEF p, s, b
<1>7. Follows(a, b) /\ (~a.latest.stale /\ ~stale => ~b.latest.stale)
  BY <1>4, <1>5, <1>6 DEF Follows, Pinned
<1> QED
  BY <1>4, <1>5, <1>7 DEF b

-----------------------------------------------------------------------------
(* Types *)

LEMMA LimitsAreNats ==
    /\ MaxStarts \in Nat /\ MaxResults \in Nat /\ MaxFaults \in Nat
    /\ MaxRetries \in Nat /\ MaxAudio \in Nat /\ MaxSnapshots \in Nat
BY AsrLimits, RealtimeLimits, LifecycleLimits

LEMMA SendsType ==
    ASSUME NEW packets \in Seq(Nat), sent \in Transmissions, Sends(packets)
    PROVE  sent' \in Transmissions
<1>1. CASE packets = <<>>
  BY <1>1 DEF Sends
<1>2. CASE packets # <<>>
  <2>1. packets[Len(packets)] \in Nat
    BY <1>2
  <2> QED
    BY <1>2, <2>1 DEF Sends, Transmissions
<1> QED
  BY <1>1, <1>2

\* What the circular buffer and its views hold.
LEMMA BufferType ==
    ASSUME NEW buffer \in CircularBuffers
    PROVE  /\ FlushBuffer(buffer) \in CircularBuffers
           /\ FlushBuffer(buffer).pointer = 0 /\ FlushBuffer(buffer).slots = buffer.slots
           /\ \A n \in 0 .. MaxBuffer : View(buffer, n) \in Seq(Nat) /\ Len(View(buffer, n)) = n
           /\ GetAudioBuffer(buffer) \in Seq(Nat) /\ Len(GetAudioBuffer(buffer)) = buffer.pointer
           /\ \A packet \in Nat : Add(buffer, packet) \in CircularBuffers
<1>1. MaxBuffer \in Nat \ {0} /\ buffer.pointer \in 0 .. MaxBuffer /\ buffer.slots \in [1 .. MaxBuffer -> Nat]
  BY AsrLimits DEF CircularBuffers
<1>2. ASSUME NEW n \in 0 .. MaxBuffer PROVE View(buffer, n) \in Seq(Nat) /\ Len(View(buffer, n)) = n
  <2>1. n \in Nat /\ \A i \in 1 .. n : buffer.slots[i] \in Nat
    BY <1>1
  <2> QED
    BY <2>1 DEF View
<1>3. ASSUME NEW packet \in Nat PROVE Add(buffer, packet) \in CircularBuffers
  <2> DEFINE s == IF buffer.pointer < MaxBuffer THEN buffer.pointer + 1 ELSE 1
  <2>0. s \in 1 .. MaxBuffer
    BY <1>1
  <2>1. Add(buffer, packet) = [slots |-> [buffer.slots EXCEPT ![s] = packet], pointer |-> s]
    BY DEF Add
  <2> HIDE DEF s
  <2> QED
    BY <1>1, <2>0, <2>1 DEF CircularBuffers
<1>4. /\ FlushBuffer(buffer) \in CircularBuffers
      /\ FlushBuffer(buffer).pointer = 0 /\ FlushBuffer(buffer).slots = buffer.slots
  BY <1>1 DEF FlushBuffer, CircularBuffers
<1> QED
  BY <1>1, <1>2, <1>3, <1>4 DEF GetAudioBuffer

LEMMA AddsType ==
    ASSUME asr \in Asrs, NEW packet \in Nat
    PROVE  /\ Adds(packet) \in Asrs /\ Adds(packet).buffer = Add(asr.buffer, packet)
           /\ Adds(packet).overwritten = (asr.overwritten \/ amz.queue # <<>>)
           /\ \A f \in {"state", "paused", "flushed", "over", "latest", "source", "lastPrimary"} :
                  Adds(packet)[f] = asr[f]
<1>1. Add(asr.buffer, packet) \in CircularBuffers
  BY BufferType DEF Asrs
<1> QED
  BY <1>1 DEF Adds, Asrs

LEMMA SettledType ==
    ASSUME call \in {"none", "pending", "resolved"} PROVE Settled("resolved") \in {"none", "pending", "resolved"}
BY DEF Settled

\* What the events of a provider leave to the ASR around it.
EventOK ==
    /\ Follows(asr, asr')
    /\ call' \in {"none", "pending", "resolved"}
    /\ starts' \in 0 .. MaxStarts
    /\ results' \in 0 .. MaxResults
    /\ faults' \in 0 .. MaxFaults
    /\ sent' \in Transmissions

LEMMA FailsOK ==
    ASSUME TypeOK, NEW t \in amz.tasks, Fails(t)
    PROVE  /\ amz' \in Transcribers /\ Follows(asr, asr')
           /\ call' \in {"none", "pending", "resolved"}
<1>1. amz' \in Transcribers
  <2>1. amz \in Transcribers /\ Ends(t) \in SUBSET Tasks
    BY DEF TypeOK, Transcribers, Ends
  <2>2. \/ amz' = [amz EXCEPT !.tasks = Ends(t)]
        \/ \E b \in BOOLEAN : amz' = [amz EXCEPT !.tasks = Ends(t), !.streaming = b]
    BY <2>1 DEF Fails, Transcribers
  <2> QED
    BY <2>1, <2>2 DEF Transcribers
<1>2. Follows(asr, asr')
  BY ErrorFollows, FollowsItself DEF TypeOK, Fails
<1>3. call' \in {"none", "pending", "resolved"}
  BY SettledType DEF TypeOK, Fails, Returns
<1> QED
  BY <1>1, <1>2, <1>3

LEMMA AmazonEventOK ==
    ASSUME TypeOK, AmazonNext PROVE EventOK /\ amz' \in Transcribers
<1>0. /\ asr \in Asrs /\ amz \in Transcribers /\ Follows(asr, asr) /\ sent \in Transmissions
      /\ call \in {"none", "pending", "resolved"}
  BY FollowsItself DEF TypeOK
<1>a. /\ starts \in 0 .. MaxStarts /\ results \in 0 .. MaxResults /\ faults \in 0 .. MaxFaults
                /\ (results < MaxResults => results + 1 \in 0 .. MaxResults)
                /\ (faults < MaxFaults => faults + 1 \in 0 .. MaxFaults)
  BY LimitsAreNats DEF TypeOK
<1>1. ASSUME NEW t \in amz.tasks, Credentials(t) PROVE EventOK /\ amz' \in Transcribers
  <2>1. amz' \in Transcribers
    <3> DEFINE c == amz.clients + 1
               u == [t EXCEPT !.at = "send", !.client = c]
    <3>1. c \in Nat /\ t \in Tasks
      BY <1>0 DEF Transcribers
    <3>2. u \in Tasks
      BY <3>1 DEF Tasks
    <3>3. \/ amz' = [amz EXCEPT !.tasks = Ends(t)]
          \/ amz' = [amz EXCEPT !.client = c, !.clients = c, !.open = @ \cup {c}, !.tasks = Goes(t, u)]
      BY <1>1 DEF Credentials
    <3> HIDE DEF c, u
    <3>4. Ends(t) \in SUBSET Tasks /\ Goes(t, u) \in SUBSET Tasks
      BY <1>0, <3>2 DEF Ends, Goes, Transcribers
    <3>5. amz.open \cup {c} \in SUBSET Nat
      BY <1>0, <3>1 DEF Transcribers
    <3>6. CASE amz' = [amz EXCEPT !.tasks = Ends(t)]
      BY <1>0, <3>6, <3>4 DEF Transcribers
    <3>7. CASE amz' = [amz EXCEPT !.client = c, !.clients = c, !.open = @ \cup {c}, !.tasks = Goes(t, u)]
      BY <1>0, <3>7, <3>1, <3>4, <3>5 DEF Transcribers
    <3> QED
      BY <3>3, <3>6, <3>7
  <2>2. call' \in {"none", "pending", "resolved"}
    BY <1>0, <1>1, SettledType DEF Credentials, Returns
  <2> QED
    BY <1>0, <1>a, <1>1, <2>1, <2>2 DEF EventOK, Credentials
<1>2. ASSUME NEW t \in amz.tasks, CredentialsFail(t) PROVE EventOK /\ amz' \in Transcribers
  BY <1>0, <1>a, <1>2, FailsOK DEF EventOK, CredentialsFail, Fails, NextFault
<1>3. ASSUME NEW t \in amz.tasks, Sent(t) PROVE EventOK /\ amz' \in Transcribers
  <2>1. amz' \in Transcribers
    <3> DEFINE u == [t EXCEPT !.at = "stream"]
    <3>1. t \in Tasks
      BY <1>0 DEF Transcribers
    <3>2. u \in Tasks /\ t.client \in Nat
      BY <3>1 DEF Tasks
    <3>3. \/ amz' = [amz EXCEPT !.open = @ \ {amz.client}, !.client = 0, !.tasks = Ends(t)]
          \/ amz' = [amz EXCEPT !.promise = t.client, !.tasks = Goes(t, u)]
      BY <1>3 DEF Sent
    <3> HIDE DEF u
    <3>4. Ends(t) \in SUBSET Tasks /\ Goes(t, u) \in SUBSET Tasks
      BY <1>0, <3>2 DEF Ends, Goes, Transcribers
    <3>5. amz.open \ {amz.client} \in SUBSET Nat
      BY <1>0 DEF Transcribers
    <3>6. CASE amz' = [amz EXCEPT !.open = @ \ {amz.client}, !.client = 0, !.tasks = Ends(t)]
      BY <1>0, <3>6, <3>4, <3>5 DEF Transcribers
    <3>7. CASE amz' = [amz EXCEPT !.promise = t.client, !.tasks = Goes(t, u)]
      BY <1>0, <3>7, <3>2, <3>4 DEF Transcribers
    <3> QED
      BY <3>3, <3>6, <3>7
  <2>2. call' \in {"none", "pending", "resolved"}
    BY <1>0, <1>3, SettledType DEF Sent, Returns
  <2>3. Follows(asr, asr')
    BY <1>0, <1>3, StateFollows DEF Sent
  <2> QED
    BY <1>0, <1>a, <1>3, <2>1, <2>2, <2>3 DEF EventOK, Sent
<1>4. ASSUME NEW t \in amz.tasks, SendFails(t) PROVE EventOK /\ amz' \in Transcribers
  BY <1>0, <1>a, <1>4, FailsOK DEF EventOK, SendFails, Fails, NextFault
<1>5. ASSUME NEW t \in amz.tasks, AmazonPartial(t) PROVE EventOK /\ amz' \in Transcribers
  <2>1. Follows(asr, asr')
    BY <1>0, <1>5, TranscribingFollows DEF AmazonPartial
  <2>2. amz' \in Transcribers
    BY <1>0, <1>5 DEF AmazonPartial, Transcribers
  <2> QED
    BY <1>0, <1>a, <1>5, <2>1, <2>2 DEF EventOK, AmazonPartial, NextResult
<1>6. ASSUME NEW t \in amz.tasks, AmazonFinal(t) PROVE EventOK /\ amz' \in Transcribers
  <2>1. Follows(asr, asr')
    BY <1>0, <1>6, TranscribedFollows DEF AmazonFinal
  <2>2. amz' \in Transcribers
    BY <1>0, <1>6 DEF AmazonFinal, Transcribers
  <2> QED
    BY <1>0, <1>a, <1>6, <2>1, <2>2 DEF EventOK, AmazonFinal, NextResult
<1>7. ASSUME NEW t \in amz.tasks, Silence(t) PROVE EventOK /\ amz' \in Transcribers
  <2>1. amz' \in Transcribers
    <3>1. [by |-> "reconnect", gen |-> starts, client |-> 0, epoch |-> amz.epoch, at |-> "credentials"] \in Tasks
      BY <1>0, <1>a, LimitsAreNats DEF Transcribers, Tasks
    <3> QED
      BY <1>0, <1>7, <3>1 DEF Silence, Transcribers, Goes
  <2>2. call' \in {"none", "pending", "resolved"}
    BY <1>0, <1>7, SettledType DEF Silence, Returns
  <2> QED
    BY <1>0, <1>a, <1>7, <2>1, <2>2 DEF EventOK, Silence
<1>8. ASSUME NEW t \in amz.tasks, StreamError(t) PROVE EventOK /\ amz' \in Transcribers
  <2>1. amz' \in Transcribers
    BY <1>0, <1>8 DEF StreamError, Transcribers, Ends
  <2>2. call' \in {"none", "pending", "resolved"}
    BY <1>0, <1>8, SettledType DEF StreamError, Returns
  <2>3. Follows(asr, asr')
    BY <1>0, <1>8, ErrorFollows DEF StreamError
  <2> QED
    BY <1>0, <1>a, <1>8, <2>1, <2>2, <2>3 DEF EventOK, StreamError, NextFault
<1>9. ASSUME NEW t \in amz.tasks, StreamEnds(t) PROVE EventOK /\ amz' \in Transcribers
  <2>1. amz' \in Transcribers
    BY <1>0, <1>9 DEF StreamEnds, Transcribers, Ends
  <2>2. call' \in {"none", "pending", "resolved"}
    BY <1>0, <1>9, SettledType DEF StreamEnds, Returns
  <2> QED
    BY <1>0, <1>a, <1>9, <2>1, <2>2 DEF EventOK, StreamEnds
<1>10. ASSUME NEW t \in amz.tasks, Yields(t) PROVE EventOK /\ amz' \in Transcribers
  <2>1. /\ amz.queue \in Seq(0 .. MaxBuffer) /\ Head(amz.queue) \in 0 .. MaxBuffer
        /\ Tail(amz.queue) \in Seq(0 .. MaxBuffer)
    <3>1. amz.queue \in Seq(0 .. MaxBuffer) /\ amz.queue # <<>>
      BY <1>0, <1>10 DEF Yields, Transcribers
    <3> QED
      BY <3>1, HeadTailProperties
  <2>2. amz' \in Transcribers
    BY <1>0, <1>10, <2>1 DEF Yields, Transcribers
  <2>3. sent' \in Transmissions
    BY <1>0, <1>10, <2>1, SendsType, BufferType DEF Yields, Asrs
  <2> QED
    BY <1>0, <1>a, <1>10, <2>2, <2>3 DEF EventOK, Yields
<1>11. ASSUME AmazonStopped PROVE EventOK /\ amz' \in Transcribers
  <2>1. amz' \in Transcribers
    BY <1>0, <1>11 DEF AmazonStopped, Transcribers
  <2>2. Follows(asr, asr')
    BY <1>0, <1>11, StateFollows DEF AmazonStopped
  <2> QED
    BY <1>0, <1>a, <1>11, <2>1, <2>2, SettledType DEF EventOK, AmazonStopped
<1> QED
  BY <1>1, <1>2, <1>3, <1>4, <1>5, <1>6, <1>7, <1>8, <1>9, <1>10, <1>11 DEF AmazonNext

LEMMA ClosingOK ==
    ASSUME NEW m \in MicrosoftTranscribers, NEW awaited \in BOOLEAN
    PROVE  Closing(m, awaited) \in MicrosoftTranscribers
<1> DEFINE timers == m.timers \ Elements(m.recognizers)
           stops  == IF m.recognizers = <<>> THEN m.stops
                     ELSE m.stops \cup {[todo |-> m.recognizers, awaited |-> awaited]}
<1>1. timers \in SUBSET Recognizers
  BY DEF MicrosoftTranscribers
<1>2. stops \in SUBSET Stops
  BY DEF MicrosoftTranscribers, Stops
<1>3. Closing(m, awaited) =
          [m EXCEPT !.recognizers = <<>>, !.stopping = TRUE, !.timers = timers, !.stops = stops]
  BY DEF Closing, MicrosoftTranscribers
<1>4. <<>> \in Seq(Recognizers)
  OBVIOUS
<1> HIDE DEF timers, stops
<1> QED
  BY <1>1, <1>2, <1>3, <1>4 DEF MicrosoftTranscribers

\* A recognizer changes its state.
LEMMA RecognizerOK ==
    ASSUME NEW m \in MicrosoftTranscribers, NEW r \in Recognizers,
           NEW at \in {"unused", "starting", "live", "failed", "closed"}
    PROVE  /\ [m EXCEPT !.at[r] = at] \in MicrosoftTranscribers
           /\ [m EXCEPT !.at[r] = at, !.timers = @ \ {r}] \in MicrosoftTranscribers
BY DEF MicrosoftTranscribers

LEMMA MicrosoftEventOK ==
    ASSUME TypeOK, \A s \in ms.stops : s.todo # <<>>, MicrosoftNext
    PROVE  EventOK /\ ms' \in MicrosoftTranscribers
<1>0. /\ asr \in Asrs /\ ms \in MicrosoftTranscribers
      /\ Follows(asr, asr) /\ sent \in Transmissions
      /\ call \in {"none", "pending", "resolved"}
  BY FollowsItself DEF TypeOK
<1>a. /\ starts \in 0 .. MaxStarts /\ results \in 0 .. MaxResults /\ faults \in 0 .. MaxFaults
      /\ (results < MaxResults => results + 1 \in 0 .. MaxResults)
      /\ (faults < MaxFaults => faults + 1 \in 0 .. MaxFaults)
  BY LimitsAreNats DEF TypeOK
<1>b. \A r \in Recognizers : r.primary \in BOOLEAN
  BY DEF Recognizers
<1>1. ASSUME NEW s \in ms.stops, StopAck(s) PROVE EventOK /\ ms' \in MicrosoftTranscribers
  <2> DEFINE rest   == Tail(s.todo)
             closed == [ms EXCEPT !.at[Head(s.todo)] = "closed", !.stops = @ \ {s}]
  <2>1. /\ s \in Stops /\ Head(s.todo) \in Recognizers /\ rest \in Seq(Recognizers)
        /\ [s EXCEPT !.todo = rest] \in Stops
    BY <1>0 DEF MicrosoftTranscribers, Stops
  <2>2. closed \in MicrosoftTranscribers
    BY <1>0, <2>1 DEF MicrosoftTranscribers
  <2>3. ms' = closed \/ ms' = [closed EXCEPT !.stops = @ \cup {[s EXCEPT !.todo = rest]}]
    BY <1>1 DEF StopAck
  <2>4. asr' = asr \/ asr' = OnClosed(asr)
    BY <1>1 DEF StopAck
  <2>5. call' = call \/ call' = Settled("resolved")
    BY <1>1 DEF StopAck
  <2> HIDE DEF closed, rest
  <2>6. ms' \in MicrosoftTranscribers
    BY <2>1, <2>2, <2>3 DEF MicrosoftTranscribers
  <2> QED
    BY <1>0, <1>a, <1>1, <2>4, <2>5, <2>6, StateFollows, SettledType DEF EventOK, StopAck
<1>2. ASSUME NEW r \in Recognizers, StartSuccess(r) PROVE EventOK /\ ms' \in MicrosoftTranscribers
  BY <1>0, <1>a, <1>2, RecognizerOK, StateFollows DEF EventOK, StartSuccess
<1>3. ASSUME NEW r \in Recognizers, StartError(r) PROVE EventOK /\ ms' \in MicrosoftTranscribers
  BY <1>0, <1>a, <1>3, RecognizerOK, ErrorFollows DEF EventOK, StartError, NextFault
<1>4. ASSUME NEW r \in Recognizers, StartupTimeout(r) PROVE EventOK /\ ms' \in MicrosoftTranscribers
  <2>1. ms' \in MicrosoftTranscribers
    BY <1>0, <1>4 DEF StartupTimeout, MicrosoftTranscribers
  <2> QED
    BY <1>0, <1>a, <1>4, <2>1, ErrorFollows DEF EventOK, StartupTimeout, NextFault
<1>5. ASSUME NEW r \in Recognizers, Canceled(r) PROVE EventOK /\ ms' \in MicrosoftTranscribers
  <2>1. ms' \in MicrosoftTranscribers
    BY <1>0, <1>5, RecognizerOK, ClosingOK DEF Canceled
  <2>2. asr' = asr \/ asr' = OnError(asr)
    BY <1>5 DEF Canceled
  <2> QED
    BY <1>0, <1>a, <1>5, <2>1, <2>2, ErrorFollows DEF EventOK, Canceled, NextFault
<1>6. ASSUME NEW r \in Recognizers, SessionStopped(r) PROVE EventOK /\ ms' \in MicrosoftTranscribers
  BY <1>0, <1>a, <1>6, RecognizerOK, StateFollows DEF EventOK, SessionStopped, NextFault
<1>7. ASSUME NEW r \in Recognizers, Recognizing(r) PROVE EventOK /\ ms' \in MicrosoftTranscribers
  BY <1>0, <1>a, <1>b, <1>7, TranscribingFollows DEF EventOK, Recognizing, NextResult
<1>8. ASSUME NEW r \in Recognizers, Recognized(r) PROVE EventOK /\ ms' \in MicrosoftTranscribers
  BY <1>0, <1>a, <1>b, <1>8, TranscribedFollows DEF EventOK, Recognized, NextResult
<1> QED
  BY <1>1, <1>2, <1>3, <1>4, <1>5, <1>6, <1>7, <1>8 DEF MicrosoftNext

LEMMA StoppingOK ==
    ASSUME NEW r \in RealtimeTranscribers PROVE Stopping(r) \in RealtimeTranscribers
<1> DEFINE at == [s \in Sockets |-> IF s # r.ws THEN r.at[s]
                                    ELSE IF r.at[s] = "open" THEN "closing" ELSE "closed"]
<1>1. at \in [Sockets -> {"unused", "connecting", "open", "closing", "closed"}]
  BY DEF RealtimeTranscribers
<1>2. Stopping(r) = [r EXCEPT !.ws = 0, !.watchdog = 0, !.timer = FALSE, !.ticking = FALSE,
                              !.text = FALSE, !.at = at]
  BY DEF Stopping, RealtimeTranscribers
<1>3. 0 \in 0 .. MaxStarts
  BY LimitsAreNats
<1> HIDE DEF at
<1> QED
  BY <1>1, <1>2, <1>3 DEF RealtimeTranscribers

LEMMA FlushTextOK ==
    ASSUME NEW a \in Asrs, NEW r
    PROVE  Follows(a, FlushText(a, r)) /\ FlushText(a, r).state = a.state
BY FollowsItself, TranscribedFollows DEF FlushText

LEMMA SeqElement ==
    ASSUME NEW S, NEW s \in Seq(S) PROVE Len(s) \in Nat /\ DOMAIN s = 1 .. Len(s) /\ \A i \in DOMAIN s : s[i] \in S
OBVIOUS

LEMMA MakeReadyOK ==
    ASSUME NEW a \in Asrs, NEW r \in RealtimeTranscribers, sent \in Transmissions, MakeReady(a, r)
    PROVE  /\ rt' \in RealtimeTranscribers /\ sent' \in Transmissions /\ Follows(a, asr')
           /\ asr'.state = "ready"
<1>1. [i \in DOMAIN r.preArm |-> r.preArm[i].packet] \in Seq(Nat)
  <2>1. r.preArm \in Seq([packet : Nat, chunk : Nat])
    BY DEF RealtimeTranscribers
  <2>2. Len(r.preArm) \in Nat /\ DOMAIN r.preArm = 1 .. Len(r.preArm)
    BY <2>1, SeqElement
  <2>3. \A i \in DOMAIN r.preArm : r.preArm[i] \in [packet : Nat, chunk : Nat]
    BY <2>1, SeqElement
  <2> QED
    BY <2>2, <2>3
<1>2. rt' \in RealtimeTranscribers
  <2>1. <<>> \in Seq([packet : Nat, chunk : Nat])
    OBVIOUS
  <2> QED
    BY <2>1 DEF MakeReady, RealtimeTranscribers
<1> QED
  BY <1>1, <1>2, SendsType, StateFollows DEF MakeReady

LEMMA ArmOK ==
    ASSUME NEW a \in Asrs, NEW r \in RealtimeTranscribers, sent \in Transmissions, Arm(a, r)
    PROVE  /\ rt' \in RealtimeTranscribers /\ sent' \in Transmissions /\ Follows(a, asr')
           /\ asr'.state = "ready"
<1>1. [r EXCEPT !.armed = TRUE, !.ticking = TRUE, !.watchdog = r.ws] \in RealtimeTranscribers
  BY DEF RealtimeTranscribers
<1> QED
  BY <1>1, MakeReadyOK DEF Arm

LEMMA RealtimeStartOK ==
    ASSUME starts \in 0 .. MaxStarts, NEW a \in Asrs, NEW r \in RealtimeTranscribers, RealtimeStart(a, r)
    PROVE  /\ rt' \in RealtimeTranscribers /\ starts' \in 0 .. MaxStarts /\ starts' = starts + 1
           /\ Follows(a, asr') /\ asr'.state = "connecting"
<1>1. starts' \in 0 .. MaxStarts /\ starts' = starts + 1 /\ starts' \in Sockets
  BY LimitsAreNats DEF RealtimeStart, NextStart, Sockets
<1>2. rt' \in RealtimeTranscribers
  BY <1>1 DEF RealtimeStart, RealtimeTranscribers
<1> QED
  BY <1>1, <1>2, StateFollows DEF RealtimeStart

LEMMA RealtimeEventOK ==
    ASSUME TypeOK, RealtimeNext PROVE EventOK /\ rt' \in RealtimeTranscribers
<1>0. /\ asr \in Asrs /\ rt \in RealtimeTranscribers /\ Follows(asr, asr) /\ sent \in Transmissions
      /\ call \in {"none", "pending", "resolved"}
  BY FollowsItself DEF TypeOK
<1>a. /\ starts \in 0 .. MaxStarts /\ results \in 0 .. MaxResults /\ faults \in 0 .. MaxFaults
      /\ (results < MaxResults => results + 1 \in 0 .. MaxResults)
      /\ (faults < MaxFaults => faults + 1 \in 0 .. MaxFaults)
      /\ 0 \in 0 .. MaxStarts /\ 0 \in 0 .. MaxRetries
  BY LimitsAreNats DEF TypeOK
<1>b. \A s \in Sockets : /\ [rt EXCEPT !.at[s] = "open"] \in RealtimeTranscribers
                         /\ [rt EXCEPT !.at[s] = "closed"] \in RealtimeTranscribers
  BY <1>0 DEF RealtimeTranscribers
<1>c. /\ Evidence(rt) \in RealtimeTranscribers
      /\ [Evidence(rt) EXCEPT !.text = TRUE] \in RealtimeTranscribers
      /\ [Evidence(rt) EXCEPT !.text = FALSE] \in RealtimeTranscribers
  BY <1>0, <1>a DEF RealtimeTranscribers, Evidence
<1>1. ASSUME NEW s \in Sockets, SocketOpen(s) PROVE EventOK /\ rt' \in RealtimeTranscribers
  <2> DEFINE r == [rt EXCEPT !.at[s] = "open"]
  <2>1. r \in RealtimeTranscribers
    BY <1>b
  <2>2. (rt' = r \/ rt' = [r EXCEPT !.thrown = TRUE]) /\ (asr' = asr \/ asr' = OnReady(asr))
    BY <1>1 DEF SocketOpen
  <2> HIDE DEF r
  <2>3. rt' \in RealtimeTranscribers
    BY <2>1, <2>2 DEF RealtimeTranscribers
  <2> QED
    BY <1>0, <1>a, <1>1, <2>2, <2>3, StateFollows DEF EventOK, SocketOpen
<1>2. ASSUME NEW s \in Sockets, SessionCreated(s) PROVE EventOK /\ rt' \in RealtimeTranscribers
  <2> DEFINE r == [rt EXCEPT !.created = @ \cup {s}]
             u == [r EXCEPT !.updateSent = TRUE]
             v == [r EXCEPT !.thrown = TRUE]
  <2>1. r \in RealtimeTranscribers /\ u \in RealtimeTranscribers /\ v \in RealtimeTranscribers
    BY <1>0 DEF RealtimeTranscribers
  <2>2. \/ rt' \in {u, v} /\ UNCHANGED <<asr, sent>>
        \/ MakeReady(asr, u)
        \/ Arm(asr, u)
    BY <1>2 DEF SessionCreated
  <2> HIDE DEF r, u, v
  <2>3. rt' \in RealtimeTranscribers /\ sent' \in Transmissions /\ Follows(asr, asr')
    BY <1>0, <2>1, <2>2, MakeReadyOK, ArmOK
  <2> QED
    BY <1>0, <1>a, <1>2, <2>3 DEF EventOK, SessionCreated
<1>3. ASSUME NEW s \in Sockets, DeltaMessage(s) PROVE EventOK /\ rt' \in RealtimeTranscribers
  <2>1. rt' \in RealtimeTranscribers
    BY <1>0, <1>c, <1>3 DEF DeltaMessage
  <2>2. Follows(asr, asr')
    <3>1. PICK a \in {asr, OnTranscribed(asr, TRUE, s # starts)} :
              asr' = OnTranscribing(a, TRUE, s # starts)
      BY <1>3 DEF DeltaMessage
    <3>2. Follows(asr, a)
      BY <1>0, <3>1, TranscribedFollows
    <3>3. a \in Asrs
      BY <3>2 DEF Follows
    <3> QED
      BY <3>1, <3>2, <3>3, TranscribingFollows, FollowsOn
  <2> QED
    BY <1>0, <1>a, <1>3, <2>1, <2>2 DEF EventOK, DeltaMessage, NextResult
<1>4. ASSUME NEW s \in Sockets, FinalMessage(s) PROVE EventOK /\ rt' \in RealtimeTranscribers
  BY <1>0, <1>a, <1>c, <1>4, TranscribedFollows DEF EventOK, FinalMessage, NextResult
<1>5. ASSUME NEW s \in Sockets, ErrorMessage(s) PROVE EventOK /\ rt' \in RealtimeTranscribers
  BY <1>0, <1>a, <1>5, ErrorFollows DEF EventOK, ErrorMessage, NextFault
<1>6. ASSUME NEW s \in Sockets, SocketError(s) PROVE EventOK /\ rt' \in RealtimeTranscribers
  <2> DEFINE r == [rt EXCEPT !.at[s] = "closed"]
  <2>1. r \in RealtimeTranscribers /\ Stopping(r) \in RealtimeTranscribers
    BY <1>b, StoppingOK
  <2>2. \/ rt' = r /\ asr' = asr
        \/ /\ \E critical \in BOOLEAN : rt' = [Stopping(r) EXCEPT !.timer = ~critical]
           /\ asr' = FlushText(OnError(asr), r)
    BY <1>6 DEF SocketError
  <2> HIDE DEF r
  <2>3. rt' \in RealtimeTranscribers
    BY <2>1, <2>2 DEF RealtimeTranscribers
  <2>4. Follows(asr, OnError(asr)) /\ OnError(asr) \in Asrs
    BY <1>0, ErrorFollows DEF Follows
  <2>5. Follows(asr, asr')
    BY <1>0, <2>2, <2>4, FlushTextOK, FollowsOn
  <2> QED
    BY <1>0, <1>a, <1>6, <2>3, <2>5 DEF EventOK, SocketError, NextFault
<1>7. ASSUME NEW s \in Sockets, SocketClose(s) PROVE EventOK /\ rt' \in RealtimeTranscribers
  BY <1>0, <1>a, <1>b, <1>7, StateFollows DEF EventOK, SocketClose
<1>8. ASSUME SegmentationTick PROVE EventOK /\ rt' \in RealtimeTranscribers
  <2>1. rt' \in RealtimeTranscribers
    BY <1>0, <1>8 DEF SegmentationTick, RealtimeTranscribers
  <2> QED
    BY <1>0, <1>a, <1>8, <2>1, TranscribedFollows DEF EventOK, SegmentationTick
<1>9. ASSUME WatchdogTimeout PROVE EventOK /\ rt' \in RealtimeTranscribers
  <2>1. CASE rt.watchdog # rt.ws
    <3>1. rt' \in RealtimeTranscribers
      BY <1>0, <1>a, <1>9, <2>1 DEF WatchdogTimeout, RealtimeTranscribers
    <3> QED
      BY <1>0, <1>a, <1>9, <2>1, <3>1 DEF EventOK, WatchdogTimeout
  <2>2. CASE rt.watchdog = rt.ws
    <3> DEFINE tries == rt.retries + 1
               a     == IF tries = MaxRetries THEN OnError(asr) ELSE asr
               n     == IF tries > MaxRetries THEN rt.retries ELSE tries
    <3>1. n \in 0 .. MaxRetries
      BY <1>0, LimitsAreNats DEF RealtimeTranscribers
    <3>2. Stopping(rt) \in RealtimeTranscribers /\ Stopping(rt).retries = rt.retries
      BY <1>0, StoppingOK DEF Stopping, RealtimeTranscribers
    <3>3. rt' = [Stopping(rt) EXCEPT !.timer = TRUE, !.retries = n] /\ asr' = FlushText(a, rt)
      BY <1>9, <2>2, <3>2 DEF WatchdogTimeout, RealtimeTranscribers
    <3>4. Follows(asr, a) /\ a \in Asrs
      BY <1>0, ErrorFollows DEF Follows
    <3> HIDE DEF n, a
    <3>5. rt' \in RealtimeTranscribers
      BY <3>1, <3>2, <3>3 DEF RealtimeTranscribers
    <3>6. Follows(asr, asr')
      BY <3>3, <3>4, FlushTextOK, FollowsOn
    <3> QED
      BY <1>0, <1>a, <1>9, <3>5, <3>6 DEF EventOK, WatchdogTimeout
  <2> QED
    BY <2>1, <2>2
<1>10. ASSUME Reconnect PROVE EventOK /\ rt' \in RealtimeTranscribers
  <2>1. [rt EXCEPT !.timer = FALSE] \in RealtimeTranscribers
    BY <1>0 DEF RealtimeTranscribers
  <2> QED
    BY <1>0, <1>a, <1>10, <2>1, RealtimeStartOK DEF EventOK, Reconnect
<1> QED
  BY <1>1, <1>2, <1>3, <1>4, <1>5, <1>6, <1>7, <1>8, <1>9, <1>10 DEF RealtimeNext

LEMMA LeastNat ==
    ASSUME NEW T \in SUBSET Nat, T # {} PROVE \E x \in T : \A y \in T : x <= y
<1>1. PICK x \in T : \A y \in T : ~(<<y, x>> \in OpToRel(<, Nat))
  BY WFMin, NatLessThanWellFounded, Zenon
<1>2. \A y \in T : ~(y < x)
  BY <1>1 DEF OpToRel
<1> QED
  BY <1>2

Chunks == [packet : Nat, chunk : Nat]
Chunk(packets) == [i \in DOMAIN packets |-> [packet |-> packets[i], chunk |-> packets[1]]]

\* What _bufferPreArm keeps is a tail of all the chunks, which is not empty.
LEMMA PreArmKeeps ==
    ASSUME NEW r \in RealtimeTranscribers, NEW packets \in Seq(Nat), packets # <<>>
    PROVE  /\ r.preArm \o Chunk(packets) \in Seq(Chunks)
           /\ \E keep \in 1 .. Len(r.preArm \o Chunk(packets)) :
                  PreArm(r, packets) =
                      [r EXCEPT !.preArm = SubSeq(r.preArm \o Chunk(packets), keep,
                                                  Len(r.preArm \o Chunk(packets)))]
<1> DEFINE new == Chunk(packets)
           all == r.preArm \o new
           n   == Len(r.preArm)
           first(i) == i = 1 \/ all[i].chunk # all[i - 1].chunk
           fits(i) == Len(all) - i + 1 <= MaxPreArm \/ all[i].chunk = packets[1]
           least(i) == first(i) /\ fits(i) /\ \A j \in 1 .. (i - 1) : ~(first(j) /\ fits(j))
<1>1. r.preArm \in Seq(Chunks) /\ n \in Nat
  BY DEF RealtimeTranscribers, Chunks
<1>2. Len(packets) \in Nat \ {0} /\ DOMAIN packets = 1 .. Len(packets)
      /\ \A i \in DOMAIN packets : packets[i] \in Nat
  BY SeqElement
<1>3. new \in Seq(Chunks) /\ Len(new) = Len(packets) /\ new[1].chunk = packets[1]
  <2>1. new \in [1 .. Len(packets) -> Chunks]
    BY <1>2 DEF Chunk, Chunks
  <2>2. new \in Seq(Chunks) /\ Len(new) = Len(packets)
    BY <1>2, <2>1
  <2> QED
    BY <1>2, <2>2 DEF Chunk
<1> HIDE DEF new
<1>4. /\ all \in Seq(Chunks) /\ Len(all) = n + Len(packets) /\ DOMAIN all = 1 .. Len(all)
      /\ n + 1 \in DOMAIN all /\ all[n + 1] = new[1]
  <2>1. /\ all \in Seq(Chunks) /\ Len(all) = n + Len(packets)
        /\ \A i \in 1 .. n + Len(packets) : all[i] = IF i <= n THEN r.preArm[i] ELSE new[i - n]
    <3> DEFINE old == r.preArm
    <3>1. old \in Seq(Chunks)
      BY <1>1
    <3> HIDE DEF old
    <3>2. /\ old \o new \in Seq(Chunks) /\ Len(old \o new) = Len(old) + Len(new)
          /\ \A i \in 1 .. Len(old) + Len(new) :
                 (old \o new)[i] = IF i <= Len(old) THEN old[i] ELSE new[i - Len(old)]
      <4>1. new \in Seq(Chunks)
        BY <1>3
      <4> QED
        BY <4>1, <3>1, ConcatProperties, Zenon
    <3> QED
      BY <1>3, <3>2 DEF old
  <2> HIDE DEF all, n
  <2>2. DOMAIN all = 1 .. Len(all)
    BY <2>1, SeqElement
  <2>3. n + 1 \in 1 .. n + Len(packets) /\ (n + 1) - n = 1 /\ ~(n + 1 <= n)
    BY <1>1, <1>2
  <2> QED
    BY <2>1, <2>2, <2>3
<1> HIDE DEF all
<1>5. \E i \in DOMAIN all : first(i) /\ fits(i)
  <2> DEFINE T == {i \in DOMAIN all : all[i].chunk = packets[1]}
  <2>1. T \in SUBSET Nat /\ T # {}
    BY <1>3, <1>4
  <2>2. PICK i \in T : \A j \in T : i <= j
    BY <2>1, LeastNat
  <2>3. i \in 1 .. Len(all) /\ all[i].chunk = packets[1]
    BY <1>4, <2>2
  <2>4. first(i)
    <3>1. CASE i # 1
      <4>1. i - 1 \in DOMAIN all /\ ~(i <= i - 1)
        BY <1>4, <2>3, <3>1
      <4>2. i - 1 \notin T
        BY <2>2, <4>1
      <4> QED
        BY <2>3, <4>1, <4>2
    <3> QED
      BY <3>1
  <2> QED
    BY <1>4, <2>3, <2>4
<1>6. \E i \in DOMAIN all : least(i)
  <2> DEFINE T == {i \in DOMAIN all : first(i) /\ fits(i)}
  <2>1. T \in SUBSET Nat /\ T # {}
    BY <1>4, <1>5
  <2>2. PICK i \in T : \A j \in T : i <= j
    BY <2>1, LeastNat
  <2>3. i \in 1 .. Len(all)
    BY <1>4, <2>2
  <2>4. ASSUME NEW j \in 1 .. (i - 1) PROVE ~(first(j) /\ fits(j))
    <3>1. j \in DOMAIN all /\ ~(i <= j)
      BY <1>4, <2>3
    <3>2. j \notin T
      BY <2>2, <3>1
    <3> QED
      BY <3>1, <3>2
  <2> QED
    BY <2>2, <2>4
<1> DEFINE keep == CHOOSE i \in DOMAIN all : least(i)
<1>7. keep \in DOMAIN all
  <2> HIDE DEF least
  <2> QED
    BY <1>6
<1>8. PreArm(r, packets) = [r EXCEPT !.preArm = SubSeq(all, keep, Len(all))]
  BY DEF PreArm, all, new, Chunk
<1> HIDE DEF keep
<1>9. keep \in 1 .. Len(all)
  BY <1>4, <1>7
<1> QED
  BY <1>4, <1>8, <1>9 DEF all, new

LEMMA PreArmOK ==
    ASSUME NEW r \in RealtimeTranscribers, NEW packets \in Seq(Nat), packets # <<>>
    PROVE  /\ PreArm(r, packets) \in RealtimeTranscribers
           /\ \A f \in {"ws", "at", "created", "ready", "armed", "updateSent", "watchdog", "retries",
                        "timer", "ticking", "text", "thrown"} : PreArm(r, packets)[f] = r[f]
<1> DEFINE all == r.preArm \o Chunk(packets)
<1>1. PICK keep \in 1 .. Len(all) : PreArm(r, packets) = [r EXCEPT !.preArm = SubSeq(all, keep, Len(all))]
  BY PreArmKeeps
<1>2. all \in Seq(Chunks)
  BY PreArmKeeps
<1> HIDE DEF all
<1>3. SubSeq(all, keep, Len(all)) \in Seq(Chunks)
  BY <1>2
<1> QED
  BY <1>1, <1>3 DEF RealtimeTranscribers, Chunks

-----------------------------------------------------------------------------
(* The calls of the provider *)

\* What Microsoft's types rest on.
MicrosoftShape ==
    /\ kind = "microsoft" => ms.epoch = starts
    /\ \A s \in ms.stops : s.todo # <<>>

ProvidersOK ==
    /\ amz' \in Transcribers /\ ms' \in MicrosoftTranscribers /\ rt' \in RealtimeTranscribers
    /\ call' \in {"none", "pending", "resolved"}
    /\ starts' \in 0 .. MaxStarts
    /\ sent' \in Transmissions

LEMMA ProviderStartOK ==
    ASSUME TypeOK, MicrosoftShape, NEW a \in Asrs, ProviderStart(a)
    PROVE  ProvidersOK /\ Follows(a, asr') /\ asr'.state \in {a.state, "connecting"}
<1>1. CASE kind = "amazon" /\ AmazonStart(a) /\ UNCHANGED <<ms, rt>>
  <2> DEFINE t == [by |-> "start", gen |-> starts + 1, epoch |-> amz.epoch + 1,
                   at |-> "credentials", client |-> 0]
             e == amz.epoch + 1
  <2>1. starts \in Nat /\ starts' = starts + 1 /\ starts' \in 0 .. MaxStarts /\ e \in Nat
    BY <1>1, LimitsAreNats DEF AmazonStart, NextStart, TypeOK, Transcribers
  <2>2. t \in Tasks
    BY <2>1 DEF Tasks
  <2>3. amz' = [amz EXCEPT !.stopping = FALSE, !.partial = FALSE, !.streaming = TRUE,
                           !.queue = <<>>, !.epoch = e, !.tasks = @ \cup {t}]
    BY <1>1, <2>1 DEF AmazonStart
  <2> HIDE DEF t, e
  <2>4. amz' \in Transcribers
    <3>1. amz \in Transcribers
      BY DEF TypeOK
    <3>2. amz.tasks \cup {t} \in SUBSET Tasks /\ <<>> \in Seq(0 .. MaxBuffer)
      BY <2>2, <3>1 DEF Transcribers
    <3> QED
      BY <2>1, <2>3, <3>1, <3>2 DEF Transcribers
  <2> QED
    BY <1>1, <2>1, <2>4, FollowsItself DEF AmazonStart, ProviderStart, ProvidersOK, TypeOK
<1>2. CASE kind = "microsoft" /\ MicrosoftStart(a) /\ UNCHANGED <<amz, rt>>
  <2> DEFINE e    == ms.epoch + 1
             p    == [epoch |-> e, primary |-> TRUE]
             q    == [epoch |-> e, primary |-> FALSE]
             made == <<p>> \o (IF ms.dual THEN <<q>> ELSE <<>>)
             at   == [r \in Recognizers |-> IF r \in Elements(made) THEN "starting" ELSE ms.at[r]]
  <2>1. starts' = starts + 1 /\ starts' \in 1 .. MaxStarts /\ starts' = e
    BY <1>2, LimitsAreNats DEF MicrosoftStart, NextStart, TypeOK, MicrosoftShape
  <2>2. p \in Recognizers /\ q \in Recognizers
    BY <2>1 DEF Recognizers
  <2> HIDE DEF p, q, e
  <2>3. made \in Seq(Recognizers) /\ Elements(made) \subseteq Recognizers
    BY <2>2 DEF Elements
  <2>4. at \in [Recognizers -> {"unused", "starting", "live", "failed", "closed"}]
    BY DEF TypeOK, MicrosoftTranscribers
  <2>5. ms' = [ms EXCEPT !.stopping = FALSE, !.epoch = e, !.recognizers = made, !.at = at,
                         !.timers = @ \cup Elements(made)]
    BY <1>2 DEF MicrosoftStart, TypeOK, MicrosoftTranscribers, p, q, e
  <2> HIDE DEF made, at
  <2>6. ms' \in MicrosoftTranscribers
    <3>1. ms \in MicrosoftTranscribers
      BY DEF TypeOK
    <3>2. ms.timers \cup Elements(made) \in SUBSET Recognizers
      BY <2>3, <3>1 DEF MicrosoftTranscribers
    <3>3. e \in 0 .. MaxStarts
      BY <2>1, LimitsAreNats
    <3> QED
      BY <2>3, <2>4, <2>5, <3>1, <3>2, <3>3 DEF MicrosoftTranscribers
  <2>7. starts' \in 0 .. MaxStarts
    BY <2>1, LimitsAreNats
  <2> QED
    BY <1>2, <2>6, <2>7, FollowsItself DEF MicrosoftStart, ProviderStart, ProvidersOK, TypeOK
<1>3. CASE Realtime /\ RealtimeStart(a, rt) /\ UNCHANGED <<call, amz, ms>>
  BY <1>3, RealtimeStartOK DEF ProviderStart, ProvidersOK, TypeOK
<1> QED
  BY <1>1, <1>2, <1>3 DEF ProviderStart

LEMMA ProviderStopOK ==
    ASSUME TypeOK, NEW a \in Asrs, ProviderStop(a)
    PROVE  ProvidersOK /\ Follows(a, asr') /\ asr'.state \in {a.state, "closed"} /\ starts' = starts
<1>1. CASE kind = "amazon" /\ AmazonStop(a) /\ UNCHANGED <<ms, rt>>
  <2>1. amz' \in Transcribers
    <3> DEFINE e == amz.epoch + 1
    <3>1. amz \in Transcribers /\ <<>> \in Seq(0 .. MaxBuffer)
      BY DEF TypeOK
    <3>2. e \in Nat
      BY <3>1 DEF Transcribers
    <3>3. amz' = [amz EXCEPT !.stopping = TRUE, !.epoch = e, !.partial = FALSE,
                             !.streaming = FALSE, !.queue = <<>>, !.stop = TRUE]
      BY <1>1 DEF AmazonStop
    <3> HIDE DEF e
    <3> QED
      BY <3>1, <3>2, <3>3 DEF Transcribers
  <2>2. Follows(a, asr') /\ asr'.state = a.state
    BY <1>1, FollowsItself, TranscribedFollows DEF AmazonStop
  <2> QED
    BY <1>1, <2>1, <2>2 DEF AmazonStop, ProviderStop, ProvidersOK, TypeOK
<1>2. CASE kind = "microsoft" /\ MicrosoftStop(a) /\ UNCHANGED <<amz, rt>>
  <2>1. Follows(a, asr') /\ asr'.state \in {a.state, "closed"}
    BY <1>2, FollowsItself, StateFollows DEF MicrosoftStop
  <2>2. call' \in {"none", "pending", "resolved"}
    BY <1>2 DEF MicrosoftStop, TypeOK
  <2> QED
    BY <1>2, <2>1, <2>2, ClosingOK DEF MicrosoftStop, ProviderStop, ProvidersOK, TypeOK
<1>3. CASE Realtime /\ RealtimeStop(a) /\ UNCHANGED <<amz, ms>>
  BY <1>3, StoppingOK, FlushTextOK DEF RealtimeStop, ProviderStop, ProvidersOK, TypeOK
<1> QED
  BY <1>1, <1>2, <1>3 DEF ProviderStop

LEMMA ProviderTranscribeOK ==
    ASSUME TypeOK, NEW a \in Asrs, NEW packets \in Seq(Nat), packets # <<>>, Len(packets) <= MaxBuffer,
           ProviderTranscribe(a, packets)
    PROVE  ProvidersOK /\ Follows(a, asr')
<1>1. CASE kind = "amazon" /\ AmazonTranscribe(a, packets) /\ UNCHANGED <<ms, rt>>
  <2>1. amz' \in Transcribers
    <3>1. Append(amz.queue, Len(packets)) \in Seq(0 .. MaxBuffer)
      <4>1. Len(packets) \in 0 .. MaxBuffer /\ amz.queue \in Seq(0 .. MaxBuffer)
        BY AsrLimits DEF TypeOK, Transcribers
      <4> QED
        BY <4>1
    <3> QED
      BY <1>1, <3>1 DEF AmazonTranscribe, Transcribers, TypeOK
  <2> QED
    BY <1>1, <2>1, FollowsItself DEF AmazonTranscribe, ProviderTranscribe, ProvidersOK, TypeOK
<1>2. CASE kind = "microsoft" /\ MicrosoftTranscribe(a, packets) /\ UNCHANGED <<amz, rt>>
  <2>1. sent' \in Transmissions
    BY <1>2, SendsType DEF MicrosoftTranscribe, TypeOK
  <2> QED
    BY <1>2, <2>1, FollowsItself DEF MicrosoftTranscribe, ProviderTranscribe, ProvidersOK, TypeOK
<1>3. CASE Realtime /\ RealtimeTranscribe(a, packets) /\ UNCHANGED <<amz, ms>>
  <2> DEFINE r == PreArm(rt, packets)
  <2>1. r \in RealtimeTranscribers
    BY PreArmOK DEF TypeOK
  <2>2. \/ Sends(packets) /\ asr' = a /\ UNCHANGED rt
        \/ asr' = a /\ UNCHANGED <<rt, sent>>
        \/ Arm(a, r)
        \/ rt' = r /\ asr' = a /\ UNCHANGED sent
    BY <1>3 DEF RealtimeTranscribe
  <2> HIDE DEF r
  <2>3. rt' \in RealtimeTranscribers /\ sent' \in Transmissions /\ Follows(a, asr')
    BY <2>1, <2>2, SendsType, ArmOK, FollowsItself DEF TypeOK
  <2> QED
    BY <1>3, <2>3 DEF ProviderTranscribe, ProvidersOK, TypeOK
<1> QED
  BY <1>1, <1>2, <1>3 DEF ProviderTranscribe

LEMMA ProviderEventOK ==
    ASSUME TypeOK, MicrosoftShape, ProviderNext PROVE ProvidersOK /\ EventOK
<1>1. CASE kind = "amazon" /\ AmazonNext /\ UNCHANGED <<ms, rt>>
  BY <1>1, AmazonEventOK DEF EventOK, ProvidersOK, TypeOK
<1>2. CASE kind = "microsoft" /\ MicrosoftNext /\ UNCHANGED <<amz, rt>>
  BY <1>2, MicrosoftEventOK DEF EventOK, ProvidersOK, TypeOK, MicrosoftShape
<1>3. CASE Realtime /\ RealtimeNext /\ UNCHANGED <<amz, ms>>
  BY <1>3, RealtimeEventOK DEF EventOK, ProvidersOK, TypeOK
<1> QED
  BY <1>1, <1>2, <1>3 DEF ProviderNext

-----------------------------------------------------------------------------
(* The steps *)

Counters == results' \in 0 .. MaxResults /\ faults' \in 0 .. MaxFaults

\* A handler or a call comes after a change by the ASR itself.
Change(a) == a \in Asrs /\ ProvidersOK /\ Counters /\ Follows(a, asr')

LEMMA Unchanged ==
    ASSUME TypeOK, UNCHANGED <<provider, call>> PROVE ProvidersOK /\ Counters
BY DEF TypeOK, ProvidersOK, Counters, provider

LEMMA StartCounters ==
    ASSUME TypeOK, NEW a, ProviderStart(a) \/ ProviderStop(a) PROVE Counters
BY DEF ProviderStart, ProviderStop, Counters, TypeOK

LEMMA PauseAndFlush ==
    ASSUME NEW a \in Asrs
    PROVE  /\ \A b \in BOOLEAN : /\ [a EXCEPT !.paused = b, !.buffer = FlushBuffer(@)] \in Asrs
                                 /\ [a EXCEPT !.paused = b, !.buffer = FlushBuffer(@)].paused = b
                                 /\ [a EXCEPT !.paused = b, !.buffer = FlushBuffer(@)].flushed = a.flushed
                                 /\ [a EXCEPT !.paused = b, !.buffer = FlushBuffer(@)].state = a.state
                                 /\ [a EXCEPT !.paused = b, !.buffer = FlushBuffer(@)].latest = a.latest
                                 /\ Pinned(a) => Pinned([a EXCEPT !.paused = b, !.buffer = FlushBuffer(@)])
           /\ [a EXCEPT !.flushed = TRUE] \in Asrs
           /\ [a EXCEPT !.flushed = TRUE].flushed /\ [a EXCEPT !.flushed = TRUE].paused = a.paused
           /\ [a EXCEPT !.flushed = TRUE].state = a.state
           /\ [a EXCEPT !.flushed = TRUE].latest = a.latest
           /\ Pinned(a) => Pinned([a EXCEPT !.flushed = TRUE])
<1>1. FlushBuffer(a.buffer) \in CircularBuffers
  BY BufferType DEF Asrs
<1> QED
  BY <1>1 DEF Asrs, Pinned

LEMMA BeginInitEffect ==
    ASSUME TypeOK, MicrosoftShape, BeginInit
    PROVE  Change(asr) /\ (Advance \/ Awaits("start")) /\ (asr'.state \in {"error", "connecting"})
<1>1. CASE kind = "none"
  <2>1. asr' = [asr EXCEPT !.state = "error"] /\ Idle
    BY <1>1 DEF BeginInit
  <2>2. Follows(asr, asr') /\ asr'.state = "error"
    BY <2>1 DEF Follows, Pinned, Asrs, States, TypeOK
  <2> QED
    BY <1>1, <2>1, <2>2, Unchanged DEF BeginInit, Idle, Change, TypeOK
<1>2. CASE kind # "none"
  <2>1. ProviderStart(OnConnecting(asr)) /\ (Advance \/ Awaits("start"))
    BY <1>2 DEF BeginInit
  <2>2. /\ OnConnecting(asr) \in Asrs /\ OnConnecting(asr).state = "connecting"
        /\ Follows(asr, OnConnecting(asr))
    BY StateFollows DEF Follows, TypeOK
  <2> QED
    BY <2>1, <2>2, ProviderStartOK, StartCounters, FollowsOn DEF Change, TypeOK
<1> QED
  BY <1>1, <1>2

LEMMA BeginPauseEffect ==
    ASSUME TypeOK, MicrosoftShape, BeginPause
    PROVE  /\ \/ asr.paused /\ Change(asr) /\ Idle /\ Advance /\ UNCHANGED <<asr, skipped>>
              \/ ~asr.paused /\ Change([asr EXCEPT !.paused = TRUE, !.buffer = FlushBuffer(@)])
           /\ Advance \/ Awaits("stop")
<1> DEFINE a == [asr EXCEPT !.paused = TRUE, !.buffer = FlushBuffer(@)]
<1>0. asr \in Asrs /\ a \in Asrs /\ Follows(asr, asr)
  BY PauseAndFlush, FollowsItself DEF TypeOK
<1>1. CASE asr.paused
  BY <1>0, <1>1, Unchanged DEF BeginPause, Idle, Change
<1>2. CASE ~asr.paused /\ StopsOnPause(asr)
  <2>1. (ProviderStop(OnClosed(a)) /\ Advance) \/ (ProviderStop(a) /\ Awaits("stop"))
    BY <1>2 DEF BeginPause
  <2>2. Follows(a, OnClosed(a)) /\ OnClosed(a) \in Asrs
    BY <1>0, StateFollows DEF Follows
  <2> HIDE DEF a
  <2>3. Change(a)
    BY <1>0, <2>1, <2>2, ProviderStopOK, StartCounters, FollowsOn DEF Change
  <2> QED
    BY <1>2, <2>1, <2>3 DEF a
<1>3. CASE ~asr.paused /\ ~StopsOnPause(asr)
  <2>1. asr' = OnClosed(a) /\ Idle /\ Advance
    BY <1>3 DEF BeginPause
  <2>2. Follows(a, OnClosed(a))
    BY <1>0, StateFollows
  <2> QED
    BY <1>0, <1>3, <2>1, <2>2, Unchanged DEF Idle, Change
<1> QED
  BY <1>1, <1>2, <1>3

LEMMA BeginResumeEffect ==
    ASSUME TypeOK, MicrosoftShape, BeginResume
    PROVE  /\ \/ ~asr.paused /\ Change(asr) /\ Idle /\ Advance /\ UNCHANGED asr
              \/ /\ asr.paused /\ Change([asr EXCEPT !.paused = FALSE, !.buffer = FlushBuffer(@)])
                 /\ asr'.state = "connecting"
           /\ Advance \/ Awaits("start")
<1> DEFINE b == [asr EXCEPT !.paused = FALSE, !.buffer = FlushBuffer(@)]
           a == OnConnecting(b)
<1>0. asr \in Asrs /\ b \in Asrs /\ Follows(asr, asr)
  BY PauseAndFlush, FollowsItself DEF TypeOK
<1>a. a \in Asrs /\ Follows(b, a) /\ a.state = "connecting"
  BY <1>0, StateFollows DEF Follows
<1>1. CASE ~asr.paused
  BY <1>0, <1>1, Unchanged DEF BeginResume, Idle, Change
<1>2. CASE asr.paused /\ kind = "none"
  BY <1>0, <1>a, <1>2, Unchanged DEF BeginResume, Idle, Change
<1>3. CASE asr.paused /\ kind # "none"
  <2>1. ProviderStart(a) /\ (Advance \/ Awaits("start"))
    BY <1>3 DEF BeginResume
  <2> HIDE DEF a, b
  <2>2. Change(b) /\ asr'.state = "connecting"
    BY <1>0, <1>a, <2>1, ProviderStartOK, StartCounters, FollowsOn DEF Change
  <2> QED
    BY <1>3, <2>1, <2>2 DEF b
<1> QED
  BY <1>1, <1>2, <1>3

LEMMA MarkedEffect ==
    ASSUME NEW a \in Asrs, Marked(a)
    PROVE  /\ asr' \in Asrs /\ asr'.paused = a.paused /\ asr'.flushed = a.flushed /\ asr'.over
           /\ asr'.latest = a.latest
           /\ Pinned(a) => Pinned(asr')
BY DEF Marked, Asrs, Pinned

LEMMA BeginFlushEffect ==
    ASSUME TypeOK, MicrosoftShape, BeginFlush
    PROVE  /\ ProvidersOK /\ Counters
           /\ \/ Marked(asr) /\ Idle /\ Advance
              \/ /\ ~asr.paused /\ UNCHANGED teardown
                 /\ Change([asr EXCEPT !.flushed = TRUE])
                 /\ Awaits("stop") \/ Awaits("settle")
<1>1. CASE asr.flushed \/ asr.paused \/ kind = "none"
  BY <1>1, Unchanged DEF BeginFlush, Idle
<1>2. CASE ~(asr.flushed \/ asr.paused \/ kind = "none")
  <2> DEFINE a == [asr EXCEPT !.flushed = TRUE]
  <2>1. ProviderStop(a) /\ UNCHANGED teardown /\ (Awaits("stop") \/ Awaits("settle"))
    BY <1>2 DEF BeginFlush
  <2>2. a \in Asrs
    BY PauseAndFlush DEF TypeOK
  <2> HIDE DEF a
  <2>3. Change(a)
    BY <2>1, <2>2, ProviderStopOK, StartCounters DEF Change
  <2> QED
    BY <1>2, <2>1, <2>3 DEF Change, a
<1> QED
  BY <1>1, <1>2

LEMMA DisposeEffect ==
    ASSUME TypeOK, Dispose PROVE Change(asr)
<1>1. CASE asr.flushed \/ kind = "none"
  BY <1>1, Unchanged, FollowsItself DEF Dispose, Idle, Change, TypeOK
<1>2. CASE ~(asr.flushed \/ kind = "none")
  BY <1>2, ProviderStopOK, StartCounters DEF Dispose, Change, TypeOK
<1> QED
  BY <1>1, <1>2

LEMMA TranscribeEffect ==
    ASSUME TypeOK, Transcribe
    PROVE  /\ asr' \in Asrs /\ ProvidersOK /\ Counters
           /\ asr'.paused = asr.paused /\ asr'.flushed = asr.flushed /\ asr'.over = asr.over
           /\ Pinned(asr) => Pinned(asr')
<1> DEFINE a    == Adds(audio + 1)
           held == GetAudioBuffer(a.buffer)
           b    == [a EXCEPT !.buffer = FlushBuffer(@)]
<1>1. audio + 1 \in Nat /\ asr \in Asrs
  BY LimitsAreNats DEF TypeOK
<1>2. a \in Asrs /\ a.buffer \in CircularBuffers
  BY <1>1, AddsType DEF Asrs
<1>3. \A c \in {a, b} : /\ c \in Asrs
                        /\ c.paused = asr.paused /\ c.flushed = asr.flushed /\ c.over = asr.over
                        /\ Pinned(asr) => Pinned(c)
  <2>1. \A f \in {"paused", "flushed", "over", "latest", "source", "lastPrimary"} : a[f] = asr[f]
    BY <1>1, AddsType
  <2>2. FlushBuffer(a.buffer) \in CircularBuffers
    BY <1>2, BufferType
  <2> HIDE DEF a
  <2> QED
    BY <1>2, <2>1, <2>2 DEF Asrs, Pinned
<1>4. \/ UNCHANGED asr /\ Idle
      \/ Len(held) >= MinBuffer /\ ProviderTranscribe(b, held)
      \/ asr' = a /\ Idle
  BY DEF Transcribe
<1>5. ASSUME Idle PROVE ProvidersOK /\ Counters
  BY <1>5, Unchanged DEF Idle
<1>6. ASSUME Len(held) >= MinBuffer, ProviderTranscribe(b, held)
      PROVE  ProvidersOK /\ Counters /\ Follows(b, asr')
  <2>1. held \in Seq(Nat) /\ Len(held) <= MaxBuffer
    BY <1>2, BufferType, AsrLimits DEF CircularBuffers
  <2> HIDE DEF held, a
  <2>2. held # <<>>
    BY <1>6, <2>1, AsrLimits
  <2>3. ProvidersOK /\ Follows(b, asr')
    <3> HIDE DEF b
    <3> QED
      BY <1>3, <1>6, <2>1, <2>2, ProviderTranscribeOK
  <2> QED
    BY <1>6, <2>3 DEF ProviderTranscribe, Counters, TypeOK
<1> HIDE DEF a, b, held
<1> QED
  BY <1>1, <1>3, <1>4, <1>5, <1>6 DEF Follows

-----------------------------------------------------------------------------
(* The chain of the transitions, and the types *)

Transitions == {"init", "pause", "resume", "flush"}

\* The flush has begun.
Flushing == chain # <<>> /\ Head(chain) = "flush" /\ step # "queued"

\* Nothing has happened to the ASR and its provider.
Unstarted ==
    /\ asr = NewAsr /\ starts = 0
    /\ amz = NewAmazon /\ rt = NewRealtime /\ \E dual \in BOOLEAN : ms = NewMicrosoft(dual)

\* The init comes first and the flush last.
ChainOrder ==
    /\ \A i \in 1 .. Len(chain) : chain[i] = "init" => i = 1
    /\ \A i \in 1 .. Len(chain) : chain[i] = "flush" => i = Len(chain) /\ teardown = "stopping"
    /\ teardown \in {"marked", "disposed"} => chain = <<>>
    /\ chain = <<>> => step = "queued"

\* What is awaited belongs to the transition that runs, and the flags of the ASR follow.
ChainFlags ==
    /\ step = "start" => Head(chain) \in {"init", "resume"} /\ ~asr.paused
    /\ step = "stop" => Head(chain) \in {"pause", "flush"}
    /\ step = "settle" => Head(chain) = "flush"
    /\ Runs("pause", "stop") => asr.paused
    /\ asr.flushed => Flushing \/ teardown \in {"marked", "disposed"}
    /\ Flushing => asr.flushed /\ ~asr.paused
    /\ Runs("init", "queued") => Unstarted

ChainInv == ChainOrder /\ ChainFlags

ControlTypes ==
    /\ chain \in Seq(Transitions)
    /\ step \in {"queued", "start", "stop", "settle"}
    /\ teardown \in {"live", "stopping", "marked", "disposed"}
    /\ known \in {"active", "paused", "absent"}
    /\ born \in {"active", "paused"}
    /\ skipped \in BOOLEAN
    /\ audio \in 0 .. MaxAudio
    /\ snapshots \in 0 .. MaxSnapshots

LEMMA TypeParts ==
    ASSUME ControlTypes', ProvidersOK, Counters, asr' \in Asrs, kind' \in Providers PROVE TypeOK'
BY DEF TypeOK, ControlTypes, ProvidersOK, Counters, Transitions

LEMMA AdvanceTypes ==
    ASSUME TypeOK, Advance \/ (\E w \in {"start", "stop", "settle"} : Awaits(w)), chain # <<>>
    PROVE  chain' \in Seq(Transitions) /\ step' \in {"queued", "start", "stop", "settle"}
BY DEF TypeOK, Advance, Awaits, Transitions

LEMMA TypeStep == TypeOK /\ MicrosoftShape /\ ChainInv /\ [Next]_vars => TypeOK'
<1> SUFFICES ASSUME TypeOK, MicrosoftShape, ChainInv, [Next]_vars PROVE TypeOK'
  OBVIOUS
<1>0. ControlTypes /\ asr \in Asrs /\ kind \in Providers
  BY DEF TypeOK, ControlTypes, Transitions
<1>a. step # "queued" => chain # <<>>
  BY DEF ChainInv, ChainOrder
<1>1. CASE BeginInit
  <2>1. ControlTypes'
    BY <1>0, <1>1, BeginInitEffect, AdvanceTypes DEF BeginInit, Runs, ControlTypes
  <2> QED
    BY <1>0, <1>1, <2>1, BeginInitEffect, TypeParts DEF Change, Follows, BeginInit
<1>2. CASE Started
  <2>1. ProvidersOK /\ Counters
    BY <1>2 DEF Started, TypeOK, provider, ProvidersOK, Counters
  <2>2. ControlTypes'
    BY <1>0, <1>a, <1>2, AdvanceTypes DEF Started, ControlTypes
  <2> QED
    BY <1>0, <1>2, <2>1, <2>2, TypeParts DEF Started
<1>3. CASE BeginPause
  <2>1. skipped' \in BOOLEAN
    BY <1>0, <1>3 DEF BeginPause, ControlTypes
  <2>2. ControlTypes'
    BY <1>0, <1>3, <2>1, BeginPauseEffect, AdvanceTypes DEF BeginPause, Runs, ControlTypes
  <2> QED
    BY <1>0, <1>3, <2>2, BeginPauseEffect, TypeParts DEF Change, Follows, BeginPause
<1>4. CASE Paused
  <2>1. ProvidersOK /\ Counters /\ asr' \in Asrs
    BY <1>4, StateFollows DEF Paused, TypeOK, provider, ProvidersOK, Counters, Follows
  <2>2. ControlTypes'
    BY <1>0, <1>4, AdvanceTypes DEF Paused, Runs, ControlTypes
  <2> QED
    BY <1>0, <1>4, <2>1, <2>2, TypeParts DEF Paused
<1>5. CASE BeginResume
  <2>1. ControlTypes'
    BY <1>0, <1>5, BeginResumeEffect, AdvanceTypes DEF BeginResume, Runs, ControlTypes
  <2> QED
    BY <1>0, <1>5, <2>1, BeginResumeEffect, TypeParts DEF Change, Follows, BeginResume
<1>6. CASE BeginFlush
  <2>1. asr' \in Asrs
    BY <1>0, <1>6, BeginFlushEffect, MarkedEffect DEF Change, Follows
  <2>2. ControlTypes'
    BY <1>0, <1>6, BeginFlushEffect, AdvanceTypes DEF BeginFlush, Runs, ControlTypes, Marked
  <2> QED
    BY <1>0, <1>6, <2>1, <2>2, BeginFlushEffect, TypeParts DEF BeginFlush
<1>7. CASE Flushed
  <2>1. ProvidersOK /\ Counters
    BY <1>7 DEF Flushed, TypeOK, provider, ProvidersOK, Counters
  <2>2. ControlTypes'
    BY <1>0, <1>7, AdvanceTypes DEF Flushed, Runs, ControlTypes
  <2> QED
    BY <1>0, <1>7, <2>1, <2>2, TypeParts DEF Flushed
<1>8. CASE FlushTimeout
  <2>1. ProvidersOK /\ Counters
    BY <1>8 DEF FlushTimeout, TypeOK, provider, ProvidersOK, Counters
  <2>2. ControlTypes'
    BY <1>0, <1>8, AdvanceTypes DEF FlushTimeout, Runs, ControlTypes
  <2> QED
    BY <1>0, <1>8, <2>1, <2>2, TypeParts DEF FlushTimeout
<1>9. CASE Settle
  <2>1. ProvidersOK /\ Counters
    BY <1>9, Unchanged DEF Settle
  <2>2. OnClosed(asr) \in Asrs
    BY <1>0, StateFollows DEF Follows
  <2>3. asr' \in Asrs
    BY <1>9, <2>2, MarkedEffect DEF Settle
  <2>4. ControlTypes'
    BY <1>0, <1>9, AdvanceTypes DEF Settle, Marked, Runs, ControlTypes
  <2> QED
    BY <1>0, <1>9, <2>1, <2>3, <2>4, TypeParts DEF Settle
<1>10. CASE Dispose
  <2>1. ControlTypes'
    BY <1>0, <1>10 DEF Dispose, ControlTypes
  <2> QED
    BY <1>0, <1>10, <2>1, DisposeEffect, TypeParts DEF Dispose, Change, Follows
<1>11. CASE ProviderNext
  <2>1. ControlTypes' /\ kind' = kind
    BY <1>0, <1>11 DEF ProviderNext, lifecycle, ControlTypes
  <2> QED
    BY <1>0, <1>11, <2>1, ProviderEventOK, TypeParts DEF EventOK, Follows, Counters
<1>12. ASSUME NEW status \in {"active", "paused", "absent"}, Snapshot(status) PROVE TypeOK'
  <2>1. ProvidersOK /\ Counters
    BY <1>12, Unchanged DEF Snapshot
  <2>2. chain' \in Seq(Transitions)
    BY <1>0, <1>12 DEF Snapshot, ControlTypes, Transitions
  <2>3. known' \in {"active", "paused", "absent"}
    BY <1>0, <1>12 DEF Snapshot, ControlTypes, NextKnown
  <2>4. snapshots' \in 0 .. MaxSnapshots
    BY <1>0, <1>12, LimitsAreNats DEF Snapshot, ControlTypes
  <2>5. ControlTypes'
    BY <1>0, <1>12, <2>2, <2>3, <2>4 DEF Snapshot, ControlTypes
  <2> QED
    BY <1>0, <1>12, <2>1, <2>5, TypeParts DEF Snapshot
<1>13. CASE StopAsr
  <2>1. ProvidersOK /\ Counters
    BY <1>13, Unchanged DEF StopAsr
  <2>2. chain' \in Seq(Transitions)
    BY <1>0, <1>13 DEF StopAsr, ControlTypes, Transitions
  <2>3. ControlTypes'
    BY <1>0, <1>13, <2>2 DEF StopAsr, ControlTypes
  <2> QED
    BY <1>0, <1>13, <2>1, <2>3, TypeParts DEF StopAsr
<1>14. CASE Transcribe
  <2>1. audio' \in 0 .. MaxAudio
    BY <1>0, <1>14, LimitsAreNats DEF Transcribe, ControlTypes
  <2>2. ControlTypes'
    BY <1>0, <1>14, <2>1 DEF Transcribe, ControlTypes
  <2> QED
    BY <1>0, <1>14, <2>2, TranscribeEffect, TypeParts DEF Transcribe
<1>15. CASE UNCHANGED vars
  BY <1>15 DEF vars, provider, lifecycle, TypeOK
<1> QED
  BY <1>1, <1>2, <1>3, <1>4, <1>5, <1>6, <1>7, <1>8, <1>9, <1>10, <1>11, <1>12, <1>13, <1>14, <1>15
     DEF Next, Transition

LEMMA ChainElements ==
    ASSUME TypeOK
    PROVE  /\ Len(chain) \in Nat
           /\ chain # <<>> => /\ Len(chain) >= 1 /\ Head(chain) = chain[1]
                              /\ Tail(chain) \in Seq(Transitions) /\ Len(Tail(chain)) = Len(chain) - 1
                              /\ \A i \in 1 .. Len(Tail(chain)) : Tail(chain)[i] = chain[i + 1]
           /\ chain = <<>> => Len(chain) = 0
           /\ \A t \in Transitions :
                  /\ Append(chain, t) # <<>> /\ Len(Append(chain, t)) = Len(chain) + 1
                  /\ \A i \in 1 .. Len(chain) : Append(chain, t)[i] = chain[i]
                  /\ Append(chain, t)[Len(chain) + 1] = t
                  /\ chain # <<>> => Head(Append(chain, t)) = Head(chain)
                  /\ chain = <<>> => Head(Append(chain, t)) = t
<1>1. chain \in Seq(Transitions)
  BY DEF TypeOK, Transitions
<1> QED
  BY <1>1

\* A transition other than the flush is over.
LEMMA AdvanceOrder ==
    ASSUME TypeOK, ChainInv, chain # <<>>, Head(chain) # "flush", Advance, UNCHANGED teardown
    PROVE  /\ ChainOrder' /\ step' = "queued"
           /\ \A t \in {"start", "stop", "settle"} : step' # t
           /\ ~Runs("init", "queued")' /\ ~Flushing' /\ ~asr.flushed
<1> DEFINE next == Tail(chain)
<1>1. chain' = next /\ step' = "queued"
  BY DEF Advance
<1>2. /\ Len(next) \in Nat /\ Len(next) = Len(chain) - 1
      /\ \A i \in 1 .. Len(next) : next[i] = chain[i + 1] /\ i + 1 \in 1 .. Len(chain) /\ i + 1 # 1
      /\ next # <<>> => Len(next) >= 1 /\ Head(next) = next[1]
  BY ChainElements
<1> HIDE DEF next
<1>3. \A i \in 1 .. Len(next) : next[i] # "init"
  BY <1>2 DEF ChainInv, ChainOrder
<1>4. ASSUME NEW i \in 1 .. Len(next), next[i] = "flush" PROVE i = Len(next) /\ teardown = "stopping"
  <2>1. i + 1 = Len(chain) /\ teardown = "stopping"
    BY <1>2, <1>4 DEF ChainInv, ChainOrder
  <2> QED
    BY <1>2, <2>1, ChainElements
<1>5. teardown \notin {"marked", "disposed"}
  BY DEF ChainInv, ChainOrder
<1>6. ChainOrder'
  BY <1>1, <1>3, <1>4, <1>5 DEF ChainOrder
<1>7. ~Runs("init", "queued")'
  <2>1. next # <<>> => Head(next) # "init"
    BY <1>2, <1>3
  <2> QED
    BY <1>1, <2>1 DEF Runs
<1>8. ~asr.flushed
  BY <1>5 DEF ChainInv, ChainFlags, Flushing
<1> QED
  BY <1>1, <1>6, <1>7, <1>8 DEF Flushing

\* The flush is alone in the chain.
LEMMA FlushIsLast ==
    ASSUME TypeOK, ChainInv, chain # <<>>, Head(chain) = "flush"
    PROVE  Tail(chain) = <<>> /\ teardown = "stopping"
<1>1. Len(chain) >= 1 /\ chain[1] = "flush" /\ Len(chain) \in Nat
  BY ChainElements
<1>2. 1 \in 1 .. Len(chain)
  BY <1>1
<1>3. 1 = Len(chain) /\ teardown = "stopping"
  BY <1>1, <1>2 DEF ChainInv, ChainOrder
<1>4. Tail(chain) \in Seq(Transitions) /\ Len(Tail(chain)) = 0
  BY <1>3, ChainElements
<1>5. Tail(chain) = <<>>
  BY <1>4, EmptySeq
<1> QED
  BY <1>3, <1>5

LEMMA AwaitsOrder ==
    ASSUME TypeOK, ChainInv, chain # <<>>, UNCHANGED <<chain, teardown>> PROVE ChainOrder'
BY DEF ChainInv, ChainOrder

\* A transition is queued.
LEMMA AppendOrder ==
    ASSUME TypeOK, ChainInv, NEW t \in {"pause", "resume", "flush"}, chain' = Append(chain, t),
           teardown = "live", teardown' = (IF t = "flush" THEN "stopping" ELSE "live"), UNCHANGED step
    PROVE  /\ ChainOrder'
           /\ chain' # <<>> /\ (chain # <<>> => Head(chain') = Head(chain))
           /\ chain = <<>> => Head(chain') = t /\ step' = "queued"
<1>1. /\ Len(chain) \in Nat /\ chain' # <<>> /\ Len(chain') = Len(chain) + 1
      /\ \A i \in 1 .. Len(chain) : chain'[i] = chain[i]
      /\ chain'[Len(chain) + 1] = t
      /\ chain # <<>> => Head(chain') = Head(chain)
      /\ chain = <<>> => Head(chain') = t
  BY ChainElements DEF Transitions
<1>2. \A i \in 1 .. Len(chain) : chain[i] # "flush"
  BY DEF ChainInv, ChainOrder
<1>3. \A i \in 1 .. Len(chain') : i \in 1 .. Len(chain) \/ i = Len(chain) + 1
  BY <1>1
<1>4. \A i \in 1 .. Len(chain') : chain'[i] = "init" => i = 1
  BY <1>1, <1>3 DEF ChainInv, ChainOrder
<1>5. \A i \in 1 .. Len(chain') : chain'[i] = "flush" => i = Len(chain') /\ t = "flush"
  BY <1>1, <1>2, <1>3
<1> QED
  BY <1>1, <1>4, <1>5 DEF ChainInv, ChainOrder

LEMMA ProviderWaits == ASSUME ProviderNext, Unstarted PROVE FALSE
<1>1. PICK dual \in BOOLEAN : ms = NewMicrosoft(dual)
  BY DEF Unstarted
<1>2. amz.tasks = {} /\ ~amz.stop
  BY DEF Unstarted, NewAmazon
<1>3. /\ ms.stops = {} /\ ms.timers = {}
      /\ \A r \in Recognizers : ms.at[r] = "unused"
  BY <1>1 DEF NewMicrosoft
<1>4. ~rt.ticking /\ rt.watchdog = 0 /\ ~rt.timer /\ \A s \in Sockets : rt.at[s] = "unused"
  BY DEF Unstarted, NewRealtime
<1>5. ~AmazonNext
  BY <1>2 DEF AmazonNext, AmazonStopped
<1>6. ~MicrosoftNext
  BY <1>3 DEF MicrosoftNext, StartSuccess, StartError, StartupTimeout, Canceled, SessionStopped,
              Recognizing, Recognized
<1>7. ~RealtimeNext
  BY <1>4 DEF RealtimeNext, SocketOpen, SessionCreated, DeltaMessage, FinalMessage, ErrorMessage,
              SocketError, SocketClose, Speaks, SegmentationTick, WatchdogTimeout, Reconnect
<1> QED
  BY <1>5, <1>6, <1>7 DEF ProviderNext

LEMMA ChainStep == TypeOK /\ MicrosoftShape /\ ChainInv /\ [Next]_vars => ChainInv'
<1> SUFFICES ASSUME TypeOK, MicrosoftShape, ChainInv, [Next]_vars PROVE ChainInv'
  OBVIOUS
<1>0. /\ step # "queued" => chain # <<>>
      /\ teardown \in {"marked", "disposed"} => chain = <<>>
      /\ asr \in Asrs
      /\ step \in {"queued", "start", "stop", "settle"}
  BY DEF ChainInv, ChainOrder, TypeOK
<1>1. CASE BeginInit
  <2>1. chain # <<>> /\ Head(chain) = "init" /\ step = "queued" /\ UNCHANGED teardown
    BY <1>1 DEF BeginInit, Runs
  <2>2. ~asr.paused /\ ~asr.flushed /\ asr'.paused = asr.paused /\ asr'.flushed = asr.flushed
    BY <1>1, <2>1, BeginInitEffect DEF Change, Follows, ChainInv, ChainFlags, Runs, Unstarted, NewAsr
  <2>3. CASE Advance
    BY <2>1, <2>2, <2>3, AdvanceOrder DEF ChainInv, ChainFlags, Runs, Flushing
  <2>4. CASE Awaits("start")
    BY <2>1, <2>2, <2>4, AwaitsOrder DEF Awaits, ChainInv, ChainFlags, Runs, Flushing
  <2> QED
    BY <1>1, <2>3, <2>4, BeginInitEffect
<1>2. CASE Started
  <2>1. chain # <<>> /\ Head(chain) \in {"init", "resume"} /\ Advance /\ UNCHANGED <<teardown, asr>>
    BY <1>0, <1>2 DEF Started, ChainInv, ChainFlags
  <2> QED
    BY <2>1, AdvanceOrder DEF ChainInv, ChainFlags, Runs, Flushing
<1>3. CASE BeginPause
  <2>1. chain # <<>> /\ Head(chain) = "pause" /\ step = "queued" /\ UNCHANGED teardown
    BY <1>3 DEF BeginPause, Runs
  <2>2. asr'.paused /\ asr'.flushed = asr.flushed /\ ~asr.flushed
    BY <1>0, <1>3, <2>1, BeginPauseEffect, PauseAndFlush DEF Change, Follows, ChainInv, ChainFlags, Flushing
  <2>3. CASE Advance
    BY <2>1, <2>2, <2>3, AdvanceOrder DEF ChainInv, ChainFlags, Runs, Flushing
  <2>4. CASE Awaits("stop")
    BY <2>1, <2>2, <2>4, AwaitsOrder DEF Awaits, ChainInv, ChainFlags, Runs, Flushing
  <2> QED
    BY <1>3, <2>3, <2>4, BeginPauseEffect
<1>4. CASE Paused
  <2>1. chain # <<>> /\ Head(chain) = "pause" /\ Advance /\ UNCHANGED teardown
    BY <1>4 DEF Paused, Runs
  <2>2. asr'.flushed = asr.flushed
    BY <1>0, <1>4, StateFollows DEF Paused, Follows
  <2> QED
    BY <2>1, <2>2, AdvanceOrder DEF ChainInv, ChainFlags, Runs, Flushing
<1>5. CASE BeginResume
  <2>1. chain # <<>> /\ Head(chain) = "resume" /\ step = "queued" /\ UNCHANGED teardown
    BY <1>5 DEF BeginResume, Runs
  <2>2. ~asr'.paused /\ asr'.flushed = asr.flushed /\ ~asr.flushed
    BY <1>0, <1>5, <2>1, BeginResumeEffect, PauseAndFlush DEF Change, Follows, ChainInv, ChainFlags, Flushing
  <2>3. CASE Advance
    BY <2>1, <2>2, <2>3, AdvanceOrder DEF ChainInv, ChainFlags, Runs, Flushing
  <2>4. CASE Awaits("start")
    BY <2>1, <2>2, <2>4, AwaitsOrder DEF Awaits, ChainInv, ChainFlags, Runs, Flushing
  <2> QED
    BY <1>5, <2>3, <2>4, BeginResumeEffect
<1>6. CASE BeginFlush
  <2>1. chain # <<>> /\ Head(chain) = "flush" /\ step = "queued" /\ Tail(chain) = <<>>
    BY <1>6, FlushIsLast DEF BeginFlush, Runs
  <2>2. CASE Marked(asr) /\ Idle /\ Advance
    <3>1. chain' = <<>> /\ step' = "queued" /\ teardown' = "marked"
      BY <2>1, <2>2 DEF Advance, Marked
    <3> QED
      BY <3>1 DEF ChainInv, ChainOrder, ChainFlags, Runs, Flushing
  <2>3. CASE /\ ~asr.paused /\ UNCHANGED teardown
             /\ Change([asr EXCEPT !.flushed = TRUE])
             /\ Awaits("stop") \/ Awaits("settle")
    <3>1. asr'.flushed /\ ~asr'.paused
      BY <1>0, <2>3, PauseAndFlush DEF Change, Follows
    <3> QED
      BY <2>1, <2>3, <3>1, AwaitsOrder DEF Awaits, ChainInv, ChainFlags, Runs, Flushing
  <2> QED
    BY <1>6, <2>2, <2>3, BeginFlushEffect
<1>7. CASE Flushed \/ FlushTimeout
  <2>1. /\ chain # <<>> /\ Head(chain) = "flush" /\ step = "stop"
        /\ Awaits("settle") /\ UNCHANGED <<teardown, asr>>
    BY <1>7 DEF Flushed, FlushTimeout, Runs
  <2> QED
    BY <2>1, AwaitsOrder DEF Awaits, ChainInv, ChainFlags, Runs, Flushing
<1>8. CASE Settle
  <2>1. chain # <<>> /\ Head(chain) = "flush" /\ Advance /\ teardown' = "marked"
    BY <1>8 DEF Settle, Runs, Marked
  <2>2. chain' = <<>> /\ step' = "queued"
    BY <2>1, FlushIsLast DEF Advance
  <2> QED
    BY <2>1, <2>2 DEF ChainInv, ChainOrder, ChainFlags, Runs, Flushing
<1>9. CASE Dispose
  <2>1. chain = <<>> /\ step = "queued" /\ UNCHANGED <<chain, step>> /\ teardown' = "disposed"
    BY <1>9 DEF Dispose, ChainInv, ChainOrder
  <2> QED
    BY <2>1 DEF ChainInv, ChainOrder, ChainFlags, Runs, Flushing
<1>10. CASE ProviderNext
  <2>1. UNCHANGED <<chain, step, teardown>> /\ asr'.paused = asr.paused /\ asr'.flushed = asr.flushed
    BY <1>10, ProviderEventOK DEF ProviderNext, lifecycle, EventOK, Follows
  <2>2. ~Runs("init", "queued")
    BY <1>10, ProviderWaits DEF ChainInv, ChainFlags
  <2> QED
    BY <2>1, <2>2 DEF ChainInv, ChainOrder, ChainFlags, Runs, Flushing
<1>11. ASSUME NEW status \in {"active", "paused", "absent"}, Snapshot(status) PROVE ChainInv'
  <2>1. /\ teardown = "live" /\ teardown' = "live"
        /\ UNCHANGED <<step, asr, provider>>
        /\ chain' \in {chain, Append(chain, "pause"), Append(chain, "resume")}
    BY <1>11 DEF Snapshot
  <2>2. UNCHANGED Unstarted
    BY <2>1 DEF provider, Unstarted
  <2>3. CASE chain' = chain
    BY <2>1, <2>2, <2>3 DEF ChainInv, ChainOrder, ChainFlags, Runs, Flushing
  <2>4. CASE chain' \in {Append(chain, "pause"), Append(chain, "resume")}
    <3>1. PICK t \in {"pause", "resume"} : chain' = Append(chain, t)
      BY <2>4
    <3>2. /\ ChainOrder' /\ chain' # <<>>
          /\ chain # <<>> => Head(chain') = Head(chain)
          /\ chain = <<>> => Head(chain') = t /\ step' = "queued"
      BY <2>1, <3>1, AppendOrder
    <3> QED
      BY <2>1, <2>2, <3>2 DEF ChainInv, ChainOrder, ChainFlags, Runs, Flushing
  <2> QED
    BY <2>1, <2>3, <2>4
<1>12. CASE StopAsr
  <2>1. /\ teardown = "live" /\ teardown' = "stopping"
        /\ UNCHANGED <<step, asr, provider>>
        /\ chain' = Append(chain, "flush")
    BY <1>12 DEF StopAsr
  <2>2. UNCHANGED Unstarted
    BY <2>1 DEF provider, Unstarted
  <2>3. /\ ChainOrder' /\ chain' # <<>>
        /\ chain # <<>> => Head(chain') = Head(chain)
        /\ chain = <<>> => Head(chain') = "flush" /\ step' = "queued"
    BY <2>1, AppendOrder
  <2> QED
    BY <2>1, <2>2, <2>3 DEF ChainInv, ChainOrder, ChainFlags, Runs, Flushing
<1>13. CASE Transcribe
  <2>1. /\ UNCHANGED <<chain, step, teardown>> /\ ~Runs("init", "queued")
        /\ asr'.paused = asr.paused /\ asr'.flushed = asr.flushed
    BY <1>13, TranscribeEffect DEF Transcribe
  <2> QED
    BY <2>1 DEF ChainInv, ChainOrder, ChainFlags, Runs, Flushing
<1>14. CASE UNCHANGED vars
  BY <1>14 DEF vars, provider, lifecycle, ChainInv, ChainOrder, ChainFlags, Runs, Flushing, Unstarted
<1> QED
  BY <1>1, <1>2, <1>3, <1>4, <1>5, <1>6, <1>7, <1>8, <1>9, <1>10, <1>11, <1>12, <1>13, <1>14
     DEF Next, Transition

-----------------------------------------------------------------------------
(* What holds of the ASR and of its providers *)

\* The ASR was created while its session was active: as long as it lives, the last
\* transition that is queued, or else its flag, tells what the snapshots say.
PauseInv ==
    born = "active" /\ teardown = "live" =>
        IF chain = <<>> \/ chain[Len(chain)] = "init" THEN asr.paused <=> known = "paused"
        ELSE chain[Len(chain)] = "pause" <=> known = "paused"

CaptionInv == Pinned(asr) /\ (kind \in {"amazon", "microsoft"} => ~asr.latest.stale)

\* The provider was stopped for good.
Ended == asr.flushed \/ teardown = "disposed"

\* The provider reported that it is over, other than by a stop.
Failed ==
    /\ step # "stop" /\ ~Flushing /\ teardown \notin {"marked", "disposed"}
    /\ asr.state \in {"error", "closed"}

Current(t) == t.epoch = amz.epoch
Connected(t) == t.at # "credentials" /\ t.client \in amz.open

\* The calls of Amazon's start() and reconnect(): the one of the current epoch is alone,
\* and only a stop() under way keeps the client of an earlier one.
AmazonTasks ==
    /\ amz.open \subseteq 1 .. amz.clients
    /\ amz.stop => amz.stopping
    /\ amz.stopping => ~amz.streaming
    /\ \A t \in amz.tasks :
           /\ t.epoch <= amz.epoch /\ t.client <= amz.clients
           /\ Current(t) => /\ t.gen = starts /\ amz.streaming /\ ~amz.stopping
                            /\ \A u \in amz.tasks : Current(u) => u = t
           /\ t.at = "stream" => /\ t.gen = starts /\ t.client = amz.promise
                                 /\ Current(t) \/ amz.stopping
           /\ Connected(t) => t.client = amz.client /\ (Current(t) \/ amz.stop)

\* No call is connected or will be.
AmazonRests == \A t \in amz.tasks : t.at # "stream" /\ ~Current(t) /\ ~Connected(t)

AmazonControl ==
    /\ \A t \in amz.tasks : t.by = "start" => step = "start" /\ call = "pending" /\ Current(t)
    /\ amz.stop => step = "stop" \/ Ended
    /\ step = "stop" \/ Ended => amz.stopping
    /\ step = "stop" /\ call = "resolved" => ~amz.stop /\ \A t \in amz.tasks : t.at # "stream"
    /\ Failed \/ (asr.paused /\ step # "stop") => AmazonRests

AmazonInv == IF kind = "amazon" THEN AmazonTasks /\ AmazonControl ELSE amz = NewAmazon

MicrosoftInv ==
    kind = "microsoft" /\ ~skipped =>
        /\ MicrosoftStreams \subseteq Elements(ms.recognizers) \cup BeingClosed
        /\ asr.paused \/ Ended => ms.recognizers = <<>>

RealtimeInv ==
    /\ ~Realtime => rt = NewRealtime
    /\ Realtime /\ ~skipped =>
           /\ RealtimeStreams \subseteq {rt.ws}
           /\ rt.timer => rt.ws = 0
           /\ asr.paused \/ Ended => rt.ws = 0 /\ ~rt.timer /\ rt.watchdog = 0

IInv == /\ TypeOK /\ MicrosoftShape /\ ChainInv /\ PauseInv /\ CaptionInv
        /\ AmazonInv /\ MicrosoftInv /\ RealtimeInv

-----------------------------------------------------------------------------
(* The providers in a step *)

LEMMA ProviderChanges ==
    ASSUME [Next]_vars
    PROVE  /\ kind' = kind
           /\ \/ UNCHANGED provider
              \/ \E a : ProviderStart(a)
              \/ \E a : ProviderStop(a)
              \/ \E a, packets : ProviderTranscribe(a, packets)
              \/ ProviderNext
<1>1. CASE Transition
  BY <1>1 DEF Transition, BeginInit, Started, BeginPause, Paused, BeginResume, BeginFlush, Flushed,
              FlushTimeout, Settle, Dispose, Idle
<1>2. CASE ProviderNext
  BY <1>2 DEF ProviderNext
<1>3. CASE \E status \in {"active", "paused", "absent"} : Snapshot(status)
  BY <1>3 DEF Snapshot
<1>4. CASE StopAsr
  BY <1>4 DEF StopAsr
<1>5. CASE Transcribe
  BY <1>5 DEF Transcribe, Idle
<1>6. CASE UNCHANGED vars
  BY <1>6 DEF vars
<1> QED
  BY <1>1, <1>2, <1>3, <1>4, <1>5, <1>6 DEF Next

LEMMA ClosingFields ==
    ASSUME NEW m \in MicrosoftTranscribers, NEW awaited \in BOOLEAN
    PROVE  /\ Closing(m, awaited).epoch = m.epoch /\ Closing(m, awaited).at = m.at
           /\ Closing(m, awaited).recognizers = <<>>
           /\ Closing(m, awaited).stops =
                  IF m.recognizers = <<>> THEN m.stops
                  ELSE m.stops \cup {[todo |-> m.recognizers, awaited |-> awaited]}
BY DEF Closing, MicrosoftTranscribers

\* What a start, a stop and an event of the Microsoft provider do to its fields.
LEMMA MicrosoftStarts ==
    ASSUME TypeOK, NEW a, MicrosoftStart(a)
    PROVE  /\ ms'.epoch = ms.epoch + 1 /\ starts' = starts + 1 /\ ms'.stops = ms.stops
           /\ \A r \in Recognizers :
                  ms'.at[r] = IF r \in Elements(ms'.recognizers) THEN "starting" ELSE ms.at[r]
<1> DEFINE e    == ms.epoch + 1
           made == <<[epoch |-> e, primary |-> TRUE]>>
                       \o (IF ms.dual THEN <<[epoch |-> e, primary |-> FALSE]>> ELSE <<>>)
           at   == [r \in Recognizers |-> IF r \in Elements(made) THEN "starting" ELSE ms.at[r]]
<1>1. ms' = [ms EXCEPT !.stopping = FALSE, !.epoch = e, !.recognizers = made, !.at = at,
                       !.timers = @ \cup Elements(made)]
  BY DEF MicrosoftStart, TypeOK, MicrosoftTranscribers
<1>2. \A r \in Recognizers : at[r] = IF r \in Elements(made) THEN "starting" ELSE ms.at[r]
  OBVIOUS
<1> HIDE DEF made, at
<1>3. ms'.epoch = e /\ ms'.stops = ms.stops /\ ms'.recognizers = made /\ ms'.at = at
  BY <1>1 DEF TypeOK, MicrosoftTranscribers
<1> QED
  BY <1>2, <1>3 DEF MicrosoftStart, NextStart

LEMMA MicrosoftEvents ==
    ASSUME TypeOK, MicrosoftNext
    PROVE  /\ UNCHANGED starts /\ ms'.epoch = ms.epoch
           /\ \/ \E s \in ms.stops :
                     /\ ms'.recognizers = ms.recognizers
                     /\ ms'.at = [ms.at EXCEPT ![Head(s.todo)] = "closed"]
                     /\ ms'.stops = (ms.stops \ {s})
                            \cup (IF Tail(s.todo) = <<>> THEN {} ELSE {[s EXCEPT !.todo = Tail(s.todo)]})
              \/ /\ ms'.recognizers = ms.recognizers /\ ms'.stops = ms.stops
                 /\ \A r \in Recognizers :
                        ms'.at[r] \in {"starting", "live"} => ms.at[r] \in {"starting", "live"}
              \/ /\ ms.recognizers # <<>> /\ ms'.recognizers = <<>>
                 /\ ms'.stops = ms.stops \cup {[todo |-> ms.recognizers, awaited |-> FALSE]}
                 /\ \A r \in Recognizers :
                        ms'.at[r] \in {"starting", "live"} => ms.at[r] \in {"starting", "live"}
              \/ /\ ms.recognizers = <<>> /\ ms'.recognizers = <<>> /\ ms'.stops = ms.stops
                 /\ \A r \in Recognizers :
                        ms'.at[r] \in {"starting", "live"} => ms.at[r] \in {"starting", "live"}
<1>0. ms \in MicrosoftTranscribers
  BY DEF TypeOK
<1>1. ASSUME NEW s \in ms.stops, StopAck(s)
      PROVE  /\ UNCHANGED starts /\ ms'.epoch = ms.epoch /\ ms'.recognizers = ms.recognizers
             /\ ms'.at = [ms.at EXCEPT ![Head(s.todo)] = "closed"]
             /\ ms'.stops = (ms.stops \ {s})
                    \cup (IF Tail(s.todo) = <<>> THEN {} ELSE {[s EXCEPT !.todo = Tail(s.todo)]})
  <2> DEFINE closed == [ms EXCEPT !.at[Head(s.todo)] = "closed", !.stops = @ \ {s}]
  <2>1. /\ closed.epoch = ms.epoch /\ closed.recognizers = ms.recognizers
        /\ closed.at = [ms.at EXCEPT ![Head(s.todo)] = "closed"] /\ closed.stops = ms.stops \ {s}
        /\ [closed EXCEPT !.stops = @ \cup {[s EXCEPT !.todo = Tail(s.todo)]}]
               = [closed EXCEPT !.stops = closed.stops \cup {[s EXCEPT !.todo = Tail(s.todo)]}]
        /\ \A X : /\ [closed EXCEPT !.stops = X].epoch = ms.epoch
                  /\ [closed EXCEPT !.stops = X].recognizers = ms.recognizers
                  /\ [closed EXCEPT !.stops = X].at = closed.at
                  /\ [closed EXCEPT !.stops = X].stops = X
    BY <1>0 DEF MicrosoftTranscribers
  <2>2. /\ UNCHANGED starts
        /\ IF Tail(s.todo) # <<>>
           THEN ms' = [closed EXCEPT !.stops = @ \cup {[s EXCEPT !.todo = Tail(s.todo)]}]
           ELSE ms' = closed
    BY <1>1 DEF StopAck
  <2> HIDE DEF closed
  <2> QED
    BY <2>1, <2>2
<1>2. ASSUME NEW r \in Recognizers, Canceled(r)
      PROVE  /\ UNCHANGED starts /\ ms'.epoch = ms.epoch
             /\ \A q \in Recognizers : ms'.at[q] \in {"starting", "live"} => ms.at[q] \in {"starting", "live"}
             /\ \/ ms'.recognizers = ms.recognizers /\ ms'.stops = ms.stops
                \/ /\ ms'.recognizers = <<>>
                   /\ ms'.stops = IF ms.recognizers = <<>> THEN ms.stops
                                  ELSE ms.stops \cup {[todo |-> ms.recognizers, awaited |-> FALSE]}
  <2> DEFINE m == [ms EXCEPT !.at[r] = "failed", !.timers = @ \ {r}]
             n == [ms EXCEPT !.at[r] = "failed"]
  <2>1. /\ m \in MicrosoftTranscribers /\ n \in MicrosoftTranscribers
        /\ \A x \in {m, n} :
               /\ x.recognizers = ms.recognizers /\ x.stops = ms.stops /\ x.epoch = ms.epoch
               /\ \A q \in Recognizers : x.at[q] \in {"starting", "live"} => x.at[q] = ms.at[q]
    BY <1>0 DEF MicrosoftTranscribers
  <2>2. UNCHANGED starts /\ (ms' = m \/ ms' = n \/ ms' = Closing(m, FALSE))
    BY <1>2 DEF Canceled
  <2> HIDE DEF m, n
  <2>3. CASE ms' = m \/ ms' = n
    BY <2>1, <2>2, <2>3
  <2>4. CASE ms' = Closing(m, FALSE)
    <3>1. /\ ms'.epoch = m.epoch /\ ms'.at = m.at /\ ms'.recognizers = <<>>
          /\ ms'.stops = IF m.recognizers = <<>> THEN m.stops
                         ELSE m.stops \cup {[todo |-> m.recognizers, awaited |-> FALSE]}
      BY <2>1, <2>4, ClosingFields
    <3> QED
      BY <2>1, <2>2, <3>1
  <2> QED
    BY <2>2, <2>3, <2>4
<1>3. ASSUME NEW r \in Recognizers, StartSuccess(r) \/ StartError(r) \/ SessionStopped(r)
      PROVE  /\ UNCHANGED starts /\ ms'.epoch = ms.epoch
             /\ ms'.recognizers = ms.recognizers /\ ms'.stops = ms.stops
             /\ \A q \in Recognizers : ms'.at[q] \in {"starting", "live"} => ms.at[q] \in {"starting", "live"}
  BY <1>0, <1>3 DEF StartSuccess, StartError, SessionStopped, MicrosoftTranscribers
<1>4. ASSUME NEW r \in Recognizers, StartupTimeout(r) \/ Recognizing(r) \/ Recognized(r)
      PROVE  /\ UNCHANGED starts /\ ms'.epoch = ms.epoch
             /\ ms'.recognizers = ms.recognizers /\ ms'.stops = ms.stops /\ ms'.at = ms.at
  BY <1>0, <1>4 DEF StartupTimeout, Recognizing, Recognized, MicrosoftTranscribers
<1>5. CASE \E s \in ms.stops : StopAck(s)
  BY <1>1, <1>5
<1>6. CASE \E r \in Recognizers : Canceled(r)
  BY <1>2, <1>6
<1>7. CASE \E r \in Recognizers : StartSuccess(r) \/ StartError(r) \/ SessionStopped(r)
  BY <1>3, <1>7
<1>8. CASE \E r \in Recognizers : StartupTimeout(r) \/ Recognizing(r) \/ Recognized(r)
  BY <1>4, <1>8
<1> QED
  BY <1>5, <1>6, <1>7, <1>8 DEF MicrosoftNext

LEMMA MicrosoftShapeStep ==
    ASSUME TypeOK, MicrosoftShape, [Next]_vars PROVE MicrosoftShape'
<1>0. ms \in MicrosoftTranscribers /\ kind' = kind
  BY ProviderChanges DEF TypeOK
<1>1. CASE UNCHANGED <<ms, starts>>
  BY <1>0, <1>1 DEF MicrosoftShape
<1>2. ASSUME kind = "microsoft", NEW a, MicrosoftStart(a) PROVE MicrosoftShape'
  BY <1>0, <1>2, MicrosoftStarts DEF MicrosoftShape
<1>3. ASSUME NEW a, MicrosoftStop(a) PROVE MicrosoftShape'
  <2>1. /\ ms'.epoch = ms.epoch /\ starts' = starts
        /\ ms'.stops = IF ms.recognizers = <<>> THEN ms.stops
                       ELSE ms.stops \cup {[todo |-> ms.recognizers, awaited |-> TRUE]}
    BY <1>0, <1>3, ClosingFields DEF MicrosoftStop
  <2> QED
    BY <1>0, <2>1 DEF MicrosoftShape
<1>4. CASE kind = "microsoft" /\ MicrosoftNext
  <2>1. ASSUME NEW s, NEW todo PROVE s \in Stops /\ todo # <<>> => [s EXCEPT !.todo = todo].todo # <<>>
    BY DEF Stops
  <2>2. \A s \in ms.stops : s \in Stops /\ s.todo # <<>>
    BY <1>0 DEF MicrosoftTranscribers, MicrosoftShape
  <2>3. \A s \in ms'.stops : s.todo # <<>>
    <3>1. CASE \E s \in ms.stops :
                   ms'.stops = (ms.stops \ {s})
                       \cup (IF Tail(s.todo) = <<>> THEN {} ELSE {[s EXCEPT !.todo = Tail(s.todo)]})
      BY <2>1, <2>2, <3>1
    <3>2. CASE ms'.stops = ms.stops
      BY <2>2, <3>2
    <3>3. CASE /\ ms.recognizers # <<>>
               /\ ms'.stops = ms.stops \cup {[todo |-> ms.recognizers, awaited |-> FALSE]}
      BY <2>2, <3>3
    <3> QED
      BY <1>4, <3>1, <3>2, <3>3, MicrosoftEvents
  <2>4. ms'.epoch = ms.epoch /\ starts' = starts
    BY <1>4, MicrosoftEvents
  <2> QED
    BY <1>0, <2>3, <2>4 DEF MicrosoftShape
<1>5. CASE kind # "microsoft" /\ UNCHANGED ms
  BY <1>0, <1>5 DEF MicrosoftShape
<1>6. ASSUME NEW a, ProviderStart(a) PROVE MicrosoftShape'
  BY <1>2, <1>5, <1>6 DEF ProviderStart, Realtime
<1>7. ASSUME NEW a, ProviderStop(a) PROVE MicrosoftShape'
  BY <1>3, <1>5, <1>7 DEF ProviderStop, Realtime
<1>8. ASSUME NEW a, NEW packets, ProviderTranscribe(a, packets) PROVE MicrosoftShape'
  BY <1>1, <1>5, <1>8 DEF ProviderTranscribe, MicrosoftTranscribe, Realtime
<1>9. CASE ProviderNext
  BY <1>4, <1>5, <1>9 DEF ProviderNext, Realtime
<1>10. CASE UNCHANGED provider
  BY <1>1, <1>10 DEF provider
<1> QED
  BY <1>6, <1>7, <1>8, <1>9, <1>10, ProviderChanges

-----------------------------------------------------------------------------
(* A pause is followed *)

LEMMA LastStays ==
    ASSUME TypeOK, ChainInv, chain # <<>>, Advance
    PROVE  /\ chain' = <<>> => chain[Len(chain)] = Head(chain)
           /\ chain' # <<>> => /\ chain'[Len(chain')] = chain[Len(chain)]
                               /\ chain[Len(chain)] # "init"
<1> DEFINE next == Tail(chain)
<1>1. /\ chain' = next /\ Len(chain) \in Nat /\ Len(chain) >= 1 /\ Head(chain) = chain[1]
      /\ next \in Seq(Transitions) /\ Len(next) = Len(chain) - 1
      /\ \A i \in 1 .. Len(next) : next[i] = chain[i + 1]
  BY ChainElements DEF Advance
<1>2. next = <<>> => Len(next) = 0
  BY EmptySeq, Zenon
<1>3. next # <<>> => Len(next) \in Nat \ {0}
  BY <1>1, EmptySeq, Zenon
<1> HIDE DEF next
<1>4. ASSUME next # <<>> PROVE next[Len(next)] = chain[Len(chain)] /\ chain[Len(chain)] # "init"
  <2>1. Len(next) \in 1 .. Len(next) /\ Len(next) + 1 = Len(chain) /\ Len(chain) \in 1 .. Len(chain)
        /\ Len(chain) # 1
    BY <1>1, <1>3, <1>4
  <2>2. next[Len(next)] = chain[Len(chain)]
    BY <1>1, <2>1
  <2> QED
    BY <2>1, <2>2 DEF ChainInv, ChainOrder
<1>5. ASSUME next = <<>> PROVE chain[Len(chain)] = Head(chain)
  <2>1. Len(chain) = 1
    BY <1>1, <1>2, <1>5
  <2> QED
    BY <1>1, <2>1
<1> QED
  BY <1>1, <1>4, <1>5

LEMMA PauseStep ==
    ASSUME TypeOK, MicrosoftShape, ChainInv, PauseInv, [Next]_vars PROVE PauseInv'
<1>0. SUFFICES ASSUME born' = "active", teardown' = "live" PROVE PauseInv'
  BY DEF PauseInv
<1> DEFINE last == chain[Len(chain)]
           Told == IF chain = <<>> \/ last = "init" THEN asr.paused <=> known = "paused"
                   ELSE last = "pause" <=> known = "paused"
<1>1. SUFFICES ASSUME teardown = "live", Told PROVE Told'
  <2>1. born = "active" /\ teardown = "live"
    BY <1>0 DEF Next, Transition, BeginInit, Started, BeginPause, Paused, BeginResume, BeginFlush, Flushed,
                FlushTimeout, Settle, Marked, Dispose, ProviderNext, lifecycle, Snapshot, StopAsr,
                Transcribe, vars
  <2> QED
    BY <1>0, <2>1 DEF PauseInv
<1>2. asr \in Asrs /\ (chain # <<>> => Head(chain) # "flush")
      /\ (chain # <<>> /\ Head(chain) # "init" => last # "init")
  <2>1. ASSUME chain # <<>>, Head(chain) # "init" PROVE last # "init"
    <3>1. Len(chain) \in 1 .. Len(chain) /\ chain[1] # "init"
      BY <2>1, ChainElements
    <3> QED
      BY <3>1 DEF ChainInv, ChainOrder
  <2> QED
    BY <1>1, <2>1, FlushIsLast DEF TypeOK
<1>3. ASSUME chain # <<>>, Advance, known' = known,
             Head(chain) = "init" => asr'.paused = asr.paused,
             Head(chain) = "pause" => asr'.paused,
             Head(chain) = "resume" => ~asr'.paused
      PROVE  Told'
  <2>1. CASE chain' = <<>>
    <3>1. last = Head(chain) /\ Head(chain) \in Transitions
      BY <1>3, <2>1, LastStays DEF TypeOK, Transitions
    <3> QED
      BY <1>1, <1>2, <1>3, <2>1, <3>1 DEF Transitions
  <2>2. CASE chain' # <<>>
    BY <1>1, <1>3, <2>2, LastStays
  <2> QED
    BY <2>1, <2>2
<1>4. ASSUME chain # <<>>, Head(chain) # "init", chain' = chain, known' = known PROVE Told'
  BY <1>1, <1>2, <1>4
<1>5. CASE UNCHANGED <<chain, known>> /\ asr'.paused = asr.paused
  BY <1>1, <1>5
<1> HIDE DEF Told
<1>6. CASE BeginInit
  <2>1. chain # <<>> /\ Head(chain) = "init" /\ known' = known /\ asr'.paused = asr.paused
    BY <1>6, BeginInitEffect DEF BeginInit, Runs, Change, Follows
  <2> QED
    BY <1>3, <1>5, <1>6, <2>1, BeginInitEffect DEF Awaits
<1>7. CASE Started
  <2>1. /\ chain # <<>> /\ Head(chain) \in {"init", "resume"} /\ ~asr.paused /\ UNCHANGED <<asr, known>>
        /\ Advance
    BY <1>7 DEF Started, ChainInv, ChainFlags, ChainOrder
  <2> QED
    BY <1>3, <2>1
<1>8. CASE BeginPause
  <2>1. chain # <<>> /\ Head(chain) = "pause" /\ known' = known
    BY <1>8 DEF BeginPause, Runs
  <2>2. asr'.paused
    BY <1>2, <1>8, BeginPauseEffect, PauseAndFlush DEF Change, Follows
  <2> QED
    BY <1>3, <1>4, <1>8, <2>1, <2>2, BeginPauseEffect DEF Awaits
<1>9. CASE Paused
  <2>1. chain # <<>> /\ Head(chain) = "pause" /\ known' = known /\ Advance /\ asr.paused
    BY <1>9 DEF Paused, Runs, ChainInv, ChainFlags
  <2>2. asr'.paused
    BY <1>2, <1>9, <2>1, StateFollows DEF Paused, Follows
  <2> QED
    BY <1>3, <2>1, <2>2
<1>10. CASE BeginResume
  <2>1. chain # <<>> /\ Head(chain) = "resume" /\ known' = known
    BY <1>10 DEF BeginResume, Runs
  <2>2. ~asr'.paused
    BY <1>2, <1>10, BeginResumeEffect, PauseAndFlush DEF Change, Follows
  <2> QED
    BY <1>3, <1>4, <1>10, <2>1, <2>2, BeginResumeEffect DEF Awaits
<1>11. CASE BeginFlush \/ Flushed \/ FlushTimeout \/ Settle
  BY <1>2, <1>11 DEF BeginFlush, Flushed, FlushTimeout, Settle, Runs
<1>12. CASE Dispose \/ StopAsr
  BY <1>0, <1>12 DEF Dispose, StopAsr
<1>13. CASE ProviderNext
  BY <1>5, <1>13, ProviderEventOK DEF ProviderNext, lifecycle, EventOK, Follows
<1>14. ASSUME NEW status \in {"active", "paused", "absent"}, Snapshot(status) PROVE Told'
  <2>1. /\ known' = NextKnown(status) /\ known' # known /\ asr'.paused = asr.paused
        /\ chain' = IF status = "paused" /\ known # "paused" THEN Append(chain, "pause")
                    ELSE IF status = "active" /\ known = "paused" THEN Append(chain, "resume")
                    ELSE chain
    BY <1>14 DEF Snapshot
  <2>2. \A t \in {"pause", "resume"} :
            Append(chain, t) # <<>> /\ Append(chain, t)[Len(Append(chain, t))] = t
    BY ChainElements DEF Transitions
  <2>3. CASE status = "paused" /\ known # "paused"
    BY <2>1, <2>2, <2>3 DEF NextKnown, Told
  <2>4. CASE status = "active" /\ known = "paused"
    BY <2>1, <2>2, <2>4 DEF NextKnown, Told
  <2>5. CASE ~(status = "paused" /\ known # "paused") /\ ~(status = "active" /\ known = "paused")
    <3>1. chain' = chain /\ known # "paused" /\ known' # "paused"
      BY <2>1, <2>5 DEF NextKnown
    <3> QED
      BY <1>1, <2>1, <3>1 DEF Told
  <2> QED
    BY <2>3, <2>4, <2>5
<1>15. CASE Transcribe
  BY <1>5, <1>15, TranscribeEffect DEF Transcribe
<1>16. CASE UNCHANGED vars
  BY <1>5, <1>16 DEF vars, lifecycle
<1> QED
  BY <1>6, <1>7, <1>8, <1>9, <1>10, <1>11, <1>12, <1>13, <1>14, <1>15, <1>16 DEF Next, Transition

-----------------------------------------------------------------------------
(* The captions *)

Fresh(a) == ~a.latest.stale

\* No call of the Amazon and Microsoft providers publishes a stale caption.
LEMMA CallsAreFresh ==
    ASSUME TypeOK, kind \in {"amazon", "microsoft"}, NEW a \in Asrs, Fresh(a),
           \/ ProviderStart(a) \/ ProviderStop(a)
           \/ \E packets : ProviderTranscribe(a, packets)
    PROVE  Fresh(asr')
<1>1. asr' = a \/ asr' = OnTranscribed(a, TRUE, FALSE) \/ asr' = OnClosed(a)
  BY DEF ProviderStart, ProviderStop, ProviderTranscribe, AmazonStart, AmazonStop, AmazonTranscribe,
         MicrosoftStart, MicrosoftStop, MicrosoftTranscribe, Realtime
<1> QED
  BY <1>1, TranscribedFollows, StateFollows DEF Fresh

\* Nor does any event of theirs.
LEMMA AmazonIsFresh ==
    ASSUME TypeOK, AmazonTasks, Fresh(asr), AmazonNext PROVE Fresh(asr')
<1>0. asr \in Asrs
  BY DEF TypeOK
<1>1. CASE \E t \in amz.tasks : AmazonPartial(t) \/ AmazonFinal(t)
  <2>1. PICK t \in amz.tasks : AmazonPartial(t) \/ AmazonFinal(t)
    BY <1>1
  <2>2. t.gen = starts
    BY <2>1 DEF AmazonPartial, AmazonFinal, AmazonTasks
  <2>3. asr' = OnTranscribing(asr, TRUE, FALSE) \/ asr' = OnTranscribed(asr, TRUE, FALSE)
    BY <2>1, <2>2 DEF AmazonPartial, AmazonFinal
  <2> QED
    BY <1>0, <2>3, TranscribingFollows, TranscribedFollows DEF Fresh
<1>2. CASE ~\E t \in amz.tasks : AmazonPartial(t) \/ AmazonFinal(t)
  <2>1. asr' \in {asr, OnError(asr), OnReady(asr), OnClosed(asr)}
    BY <1>2 DEF AmazonNext, Credentials, CredentialsFail, Sent, SendFails, Fails, Silence, StreamError,
                StreamEnds, Yields, AmazonStopped
  <2> QED
    BY <1>0, <2>1, ErrorFollows, StateFollows DEF Fresh
<1> QED
  BY <1>1, <1>2

LEMMA MicrosoftIsFresh ==
    ASSUME TypeOK, ms.epoch = starts, Fresh(asr), MicrosoftNext PROVE Fresh(asr')
<1>0. asr \in Asrs /\ \A r \in Recognizers : r.primary \in BOOLEAN
  BY DEF TypeOK, Recognizers
<1>1. ASSUME NEW r \in Recognizers, Recognizing(r) \/ Recognized(r) PROVE Fresh(asr')
  <2>1. \/ asr' = asr
        \/ asr' = OnTranscribing(asr, r.primary, FALSE)
        \/ asr' = OnTranscribed(asr, r.primary, FALSE)
    BY <1>1 DEF Recognizing, Recognized, IsStale
  <2> QED
    BY <1>0, <2>1, TranscribingFollows, TranscribedFollows DEF Fresh
<1>2. CASE ~\E r \in Recognizers : Recognizing(r) \/ Recognized(r)
  <2>1. asr' \in {asr, OnError(asr), OnReady(asr), OnClosed(asr)}
    BY <1>2 DEF MicrosoftNext, StopAck, StartSuccess, StartError, StartupTimeout, Canceled, SessionStopped
  <2> QED
    BY <1>0, <2>1, ErrorFollows, StateFollows DEF Fresh
<1> QED
  BY <1>1, <1>2

LEMMA CaptionStep ==
    ASSUME TypeOK, MicrosoftShape, ChainInv, AmazonInv, CaptionInv, [Next]_vars PROVE CaptionInv'
<1> DEFINE Checks == kind \in {"amazon", "microsoft"}
<1>0. asr \in Asrs /\ kind' = kind /\ Pinned(asr) /\ (Checks => Fresh(asr))
  BY ProviderChanges DEF TypeOK, CaptionInv, Fresh
<1>1. SUFFICES Pinned(asr') /\ (Checks => Fresh(asr'))
  BY <1>0 DEF CaptionInv, Fresh, Pinned
<1>2. Checks => kind # "none"
  OBVIOUS
<1> DEFINE p == [asr EXCEPT !.paused = TRUE, !.buffer = FlushBuffer(@)]
           q == [asr EXCEPT !.paused = FALSE, !.buffer = FlushBuffer(@)]
           f == [asr EXCEPT !.flushed = TRUE]
<1>3. \A a \in {OnConnecting(asr), p, q, f, OnClosed(p), OnClosed(asr), OnConnecting(q)} :
          a \in Asrs /\ Pinned(a) /\ (Checks => Fresh(a))
  <2>1. \A a \in {p, q, f} : a \in Asrs /\ Pinned(a) /\ (Checks => Fresh(a))
    <3>1. \A a \in {p, q, f} : a \in Asrs /\ a.latest = asr.latest /\ Pinned(a)
      <4>1. p \in Asrs /\ p.latest = asr.latest /\ Pinned(p)
        BY <1>0, PauseAndFlush
      <4>2. q \in Asrs /\ q.latest = asr.latest /\ Pinned(q)
        BY <1>0, PauseAndFlush
      <4>3. f \in Asrs /\ f.latest = asr.latest /\ Pinned(f)
        BY <1>0, PauseAndFlush
      <4> HIDE DEF p, q, f
      <4> QED
        BY <4>1, <4>2, <4>3
    <3> QED
      BY <1>0, <3>1 DEF Fresh
  <2> HIDE DEF p, q, f
  <2> QED
    BY <1>0, <2>1, StateFollows DEF Follows, Fresh
<1> HIDE DEF p, q, f, Checks
<1>4. CASE BeginInit
  <2>1. Pinned(asr')
    BY <1>0, <1>4, BeginInitEffect DEF Change, Follows
  <2>2. CASE kind = "none"
    BY <2>1, <2>2 DEF Checks
  <2>3. CASE kind # "none"
    BY <1>3, <1>4, <2>1, <2>3, CallsAreFresh DEF BeginInit, Checks
  <2> QED
    BY <2>2, <2>3
<1>5. CASE Started \/ Flushed \/ FlushTimeout \/ StopAsr \/ UNCHANGED vars
  BY <1>0, <1>5 DEF Started, Flushed, FlushTimeout, StopAsr, vars
<1>6. CASE BeginPause
  <2>1. Pinned(asr')
    BY <1>0, <1>3, <1>6, BeginPauseEffect DEF Change, Follows, p
  <2>2. \/ UNCHANGED asr \/ asr' = OnClosed(p)
        \/ ProviderStop(p) \/ ProviderStop(OnClosed(p))
    BY <1>6 DEF BeginPause, p
  <2> QED
    BY <1>0, <1>3, <2>1, <2>2, CallsAreFresh DEF Checks
<1>7. CASE Paused
  BY <1>3, <1>7 DEF Paused
<1>8. CASE BeginResume
  <2>1. Pinned(asr')
    BY <1>0, <1>3, <1>8, BeginResumeEffect DEF Change, Follows, q
  <2>2. UNCHANGED asr \/ asr' = OnConnecting(q) \/ ProviderStart(OnConnecting(q))
    BY <1>8 DEF BeginResume, q
  <2> QED
    BY <1>0, <1>3, <2>1, <2>2, CallsAreFresh DEF Checks
<1>9. CASE BeginFlush
  <2>1. Marked(asr) \/ (Change(f) /\ ProviderStop(f))
    BY <1>9, BeginFlushEffect DEF BeginFlush, f, Marked
  <2> QED
    BY <1>0, <1>3, <2>1, MarkedEffect, CallsAreFresh DEF Change, Follows, Checks, Fresh
<1>10. CASE Settle
  BY <1>3, <1>10, MarkedEffect DEF Settle, Fresh
<1>11. CASE Dispose
  <2>1. Pinned(asr')
    BY <1>0, <1>11, DisposeEffect DEF Change, Follows
  <2>2. UNCHANGED asr \/ ProviderStop(asr)
    BY <1>11 DEF Dispose
  <2> QED
    BY <1>0, <2>1, <2>2, CallsAreFresh DEF Checks
<1>12. CASE ProviderNext
  <2>1. Pinned(asr')
    BY <1>0, <1>12, ProviderEventOK DEF EventOK, Follows
  <2>2. kind = "amazon" => Fresh(asr')
    BY <1>0, <1>12, AmazonIsFresh DEF ProviderNext, Checks, AmazonInv, Realtime
  <2>3. kind = "microsoft" => Fresh(asr')
    BY <1>0, <1>12, MicrosoftIsFresh DEF ProviderNext, Checks, MicrosoftShape, Realtime
  <2> QED
    BY <2>1, <2>2, <2>3 DEF Checks
<1>13. CASE \E status \in {"active", "paused", "absent"} : Snapshot(status)
  BY <1>0, <1>13 DEF Snapshot
<1>14. CASE Transcribe
  <2>1. Pinned(asr')
    BY <1>0, <1>14, TranscribeEffect
  <2> DEFINE a    == Adds(audio + 1)
             held == GetAudioBuffer(a.buffer)
             b    == [a EXCEPT !.buffer = FlushBuffer(@)]
  <2>2. a \in Asrs /\ FlushBuffer(a.buffer) \in CircularBuffers /\ a.latest = asr.latest
    <3>1. audio + 1 \in Nat
      BY LimitsAreNats DEF TypeOK
    <3>2. a \in Asrs /\ a.latest = asr.latest
      BY <1>0, <3>1, AddsType
    <3> HIDE DEF a
    <3> QED
      BY <3>2, BufferType DEF Asrs
  <2>3. UNCHANGED asr \/ asr' = a \/ ProviderTranscribe(b, held)
    BY <1>14 DEF Transcribe
  <2> HIDE DEF a
  <2>4. \A c \in {a, b} : c \in Asrs /\ (Checks => Fresh(c))
    BY <1>0, <2>2 DEF Asrs, Fresh
  <2> HIDE DEF b, held
  <2> QED
    BY <1>0, <2>1, <2>3, <2>4, CallsAreFresh DEF Checks
<1> QED
  BY <1>4, <1>5, <1>6, <1>7, <1>8, <1>9, <1>10, <1>11, <1>12, <1>13, <1>14 DEF Next, Transition

-----------------------------------------------------------------------------
(* The tasks of Amazon *)

\* The fields of the transcriber that its tasks are about, other than those in F.
AmazonKeeps(F) ==
    \A f \in {"epoch", "streaming", "stopping", "client", "clients", "open", "promise", "tasks", "stop"} \ F :
        amz'[f] = amz[f]

\* How a call ends: by itself, or in a failure that it reports if it is current.
TaskEnds(t) ==
    /\ t \in amz.tasks /\ amz'.tasks = amz.tasks \ {t} /\ Returns(t)
    /\ \/ AmazonKeeps({"tasks"}) /\ asr' = asr
       \/ /\ Current(t) /\ ~amz.stopping /\ AmazonKeeps({"tasks", "streaming"})
          /\ amz'.streaming = amz.streaming \/ (amz'.streaming = FALSE /\ t.by = "start")

GetsClient(t) ==
    /\ t \in amz.tasks /\ t.at = "credentials"
    /\ Current(t) /\ amz.streaming /\ ~amz.stopping
    /\ AmazonKeeps({"client", "clients", "open", "tasks"})
    /\ amz'.clients = amz.clients + 1 /\ amz'.client = amz'.clients
    /\ amz'.open = amz.open \cup {amz'.clients}
    /\ amz'.tasks = (amz.tasks \ {t}) \cup {[t EXCEPT !.at = "send", !.client = amz'.clients]}
    /\ UNCHANGED <<asr, call>>

LosesClient(t) ==
    /\ t \in amz.tasks /\ Connected(t) /\ (~amz.streaming \/ amz.stopping \/ ~Current(t))
    /\ AmazonKeeps({"client", "open", "tasks"})
    /\ amz'.client = 0 /\ amz'.open = amz.open \ {amz.client} /\ amz'.tasks = amz.tasks \ {t}
    /\ Returns(t) /\ asr' = asr

GetsStream(t) ==
    /\ t \in amz.tasks /\ t.at = "send" /\ Connected(t)
    /\ Current(t) /\ amz.streaming /\ ~amz.stopping
    /\ AmazonKeeps({"promise", "tasks"})
    /\ amz'.promise = t.client
    /\ amz'.tasks = (amz.tasks \ {t}) \cup {[t EXCEPT !.at = "stream"]}
    /\ UNCHANGED call /\ (asr' = asr \/ asr' = OnReady(asr))

Reconnects(t) ==
    /\ t \in amz.tasks /\ t.at = "stream" /\ amz.streaming /\ ~amz.stopping
    /\ AmazonKeeps({"client", "open", "tasks"})
    /\ amz'.client = 0 /\ amz'.open = amz.open \ {amz.client}
    /\ \E u : /\ u.by = "reconnect" /\ u.gen = starts /\ u.client = 0 /\ u.epoch = amz.epoch
              /\ u.at = "credentials"
              /\ amz'.tasks = (amz.tasks \ {t}) \cup {u}
    /\ Returns(t) /\ asr' = asr

Reports == AmazonKeeps({}) /\ UNCHANGED call /\ asr'.state \in {asr.state, "transcribing"}

LEMMA AmazonShapes ==
    ASSUME TypeOK, AmazonTasks, AmazonNext
    PROVE  /\ UNCHANGED starts
           /\ \/ \E t \in amz.tasks :
                     TaskEnds(t) \/ GetsClient(t) \/ LosesClient(t) \/ GetsStream(t) \/ Reconnects(t)
              \/ Reports
              \/ AmazonStopped
<1>0. amz \in Transcribers /\ asr \in Asrs
  BY DEF TypeOK
<1>1. UNCHANGED starts
  BY DEF AmazonNext, Credentials, CredentialsFail, Sent, SendFails, Fails, AmazonPartial, AmazonFinal,
         Silence, StreamError, StreamEnds, Yields, AmazonStopped
<1>2. ASSUME NEW t \in amz.tasks, Fails(t) PROVE TaskEnds(t)
  BY <1>0, <1>2 DEF Fails, TaskEnds, AmazonKeeps, Transcribers, Ends, IsStaleReconnect, Current
<1>3. ASSUME NEW t \in amz.tasks, Credentials(t) PROVE TaskEnds(t) \/ GetsClient(t)
  <2>1. CASE IsStaleReconnect(t.epoch)
    BY <1>0, <1>3, <2>1 DEF Credentials, TaskEnds, AmazonKeeps, Transcribers, Ends
  <2>2. CASE ~IsStaleReconnect(t.epoch)
    <3> DEFINE c == amz.clients + 1
               T == (amz.tasks \ {t}) \cup {[t EXCEPT !.at = "send", !.client = c]}
    <3>1. amz' = [amz EXCEPT !.client = c, !.clients = c, !.open = @ \cup {c}, !.tasks = T]
      BY <1>3, <2>2 DEF Credentials, Goes
    <3>2. T = (amz.tasks \ {t}) \cup {[t EXCEPT !.at = "send", !.client = c]} /\ c = amz.clients + 1
      OBVIOUS
    <3> HIDE DEF T, c
    <3>3. /\ AmazonKeeps({"client", "clients", "open", "tasks"})
          /\ amz'.client = c /\ amz'.clients = c /\ amz'.open = amz.open \cup {c} /\ amz'.tasks = T
      BY <1>0, <3>1 DEF AmazonKeeps, Transcribers
    <3> QED
      BY <1>3, <2>2, <3>2, <3>3 DEF GetsClient, Credentials, IsStaleReconnect, Current
  <2> QED
    BY <2>1, <2>2
<1>4. ASSUME NEW t \in amz.tasks, Sent(t) PROVE LosesClient(t) \/ GetsStream(t)
  <2>1. CASE IsStaleReconnect(t.epoch)
    BY <1>0, <1>4, <2>1
       DEF Sent, LosesClient, AmazonKeeps, Transcribers, Ends, IsStaleReconnect, Current, Connected
  <2>2. CASE ~IsStaleReconnect(t.epoch)
    <3> DEFINE T == (amz.tasks \ {t}) \cup {[t EXCEPT !.at = "stream"]}
    <3>1. amz' = [amz EXCEPT !.promise = t.client, !.tasks = T]
      BY <1>4, <2>2 DEF Sent, Goes
    <3>2. T = (amz.tasks \ {t}) \cup {[t EXCEPT !.at = "stream"]}
      OBVIOUS
    <3> HIDE DEF T
    <3>3. AmazonKeeps({"promise", "tasks"}) /\ amz'.promise = t.client /\ amz'.tasks = T
      BY <1>0, <3>1 DEF AmazonKeeps, Transcribers
    <3> QED
      BY <1>4, <2>2, <3>2, <3>3 DEF GetsStream, Sent, IsStaleReconnect, Current, Connected
  <2> QED
    BY <2>1, <2>2
<1>5. ASSUME NEW t \in amz.tasks, Silence(t) PROVE Reconnects(t)
  <2> DEFINE u == [by |-> "reconnect", gen |-> starts, client |-> 0, epoch |-> amz.epoch, at |-> "credentials"]
             T == (amz.tasks \ {t}) \cup {u}
  <2>1. amz' = [amz EXCEPT !.open = @ \ {amz.client}, !.client = 0, !.tasks = T]
    BY <1>5 DEF Silence, Goes
  <2>2. /\ T = (amz.tasks \ {t}) \cup {u}
        /\ u.by = "reconnect" /\ u.gen = starts /\ u.client = 0 /\ u.epoch = amz.epoch /\ u.at = "credentials"
    OBVIOUS
  <2> HIDE DEF T, u
  <2>3. /\ AmazonKeeps({"client", "open", "tasks"})
        /\ amz'.client = 0 /\ amz'.open = amz.open \ {amz.client} /\ amz'.tasks = T
    BY <1>0, <2>1 DEF AmazonKeeps, Transcribers
  <2> QED
    BY <1>5, <2>2, <2>3 DEF Reconnects, Silence
<1>6. ASSUME NEW t \in amz.tasks, StreamError(t) PROVE TaskEnds(t)
  <2>1. Current(t) /\ ~amz.stopping
    BY <1>0, <1>6 DEF StreamError, AmazonTasks, Transcribers
  <2> QED
    BY <1>0, <1>6, <2>1 DEF StreamError, TaskEnds, AmazonKeeps, Transcribers, Ends
<1>7. ASSUME NEW t \in amz.tasks, StreamEnds(t) PROVE TaskEnds(t)
  BY <1>0, <1>7 DEF StreamEnds, TaskEnds, AmazonKeeps, Transcribers, Ends
<1>8. ASSUME NEW t \in amz.tasks, AmazonPartial(t) \/ AmazonFinal(t) PROVE Reports
  <2>1. AmazonKeeps({}) /\ UNCHANGED call
    BY <1>0, <1>8 DEF AmazonPartial, AmazonFinal, AmazonKeeps, Transcribers
  <2>2. (t.gen # starts) \in BOOLEAN
    OBVIOUS
  <2>3. asr' = OnTranscribing(asr, TRUE, t.gen # starts) \/ asr' = OnTranscribed(asr, TRUE, t.gen # starts)
    BY <1>8 DEF AmazonPartial, AmazonFinal
  <2>4. asr'.state \in {asr.state, "transcribing"}
    BY <1>0, <2>2, <2>3, TranscribingFollows, TranscribedFollows
  <2> QED
    BY <2>1, <2>4 DEF Reports
<1>9. ASSUME NEW t \in amz.tasks, Yields(t) PROVE Reports
  BY <1>0, <1>9 DEF Yields, Reports, AmazonKeeps, Transcribers
<1>10. CASE \E t \in amz.tasks : CredentialsFail(t) \/ SendFails(t)
  BY <1>1, <1>2, <1>10 DEF CredentialsFail, SendFails
<1>11. CASE \E t \in amz.tasks : Credentials(t) \/ Sent(t)
  BY <1>1, <1>3, <1>4, <1>11
<1>12. CASE \E t \in amz.tasks : Silence(t) \/ StreamError(t) \/ StreamEnds(t)
  BY <1>1, <1>5, <1>6, <1>7, <1>12
<1>13. CASE \E t \in amz.tasks : AmazonPartial(t) \/ AmazonFinal(t) \/ Yields(t)
  BY <1>1, <1>8, <1>9, <1>13
<1> QED
  BY <1>1, <1>10, <1>11, <1>12, <1>13 DEF AmazonNext

\* The event of a task keeps the tasks in order, ...
LEMMA TaskEvent ==
    ASSUME TypeOK, AmazonTasks, NEW t, UNCHANGED starts,
           TaskEnds(t) \/ GetsClient(t) \/ LosesClient(t) \/ GetsStream(t) \/ Reconnects(t)
    PROVE  AmazonTasks'
<1>0. /\ amz.epoch \in Nat /\ amz.clients \in Nat /\ amz.open \subseteq 1 .. amz.clients
      /\ amz.streaming \in BOOLEAN /\ amz.stopping \in BOOLEAN /\ amz.stop \in BOOLEAN
      /\ \A u \in amz.tasks : u \in Tasks
  BY DEF TypeOK, Transcribers, AmazonTasks
<1>1. CASE TaskEnds(t)
  <2>1. /\ amz'.open = amz.open /\ amz'.clients = amz.clients /\ amz'.client = amz.client
        /\ amz'.promise = amz.promise /\ amz'.epoch = amz.epoch /\ amz'.stop = amz.stop
        /\ amz'.stopping = amz.stopping /\ amz'.tasks = amz.tasks \ {t} /\ t \in amz.tasks
        /\ \/ amz'.streaming = amz.streaming
           \/ amz'.streaming = FALSE /\ Current(t)
    BY <1>1 DEF TaskEnds, AmazonKeeps
  <2> QED
    BY <2>1 DEF AmazonTasks, Current, Connected
<1>2. CASE GetsClient(t)
  <2> DEFINE c == amz'.clients
             u == [t EXCEPT !.at = "send", !.client = c]
  <2>1. /\ c = amz.clients + 1 /\ amz'.open = amz.open \cup {c} /\ amz'.client = c
        /\ amz'.promise = amz.promise /\ amz'.epoch = amz.epoch /\ amz'.stop = amz.stop
        /\ amz'.stopping = amz.stopping /\ amz'.streaming = amz.streaming
        /\ amz'.tasks = (amz.tasks \ {t}) \cup {u}
        /\ t \in amz.tasks /\ t.at = "credentials" /\ Current(t) /\ amz.streaming /\ ~amz.stopping
    BY <1>2 DEF GetsClient, AmazonKeeps
  <2>2. u.at = "send" /\ u.client = c /\ u.epoch = t.epoch /\ u.gen = t.gen
    BY <1>0, <2>1 DEF Tasks
  <2> HIDE DEF u
  <2>3. c \in Nat /\ c >= 1 /\ (amz'.open \subseteq 1 .. c) /\ c \notin amz.open
    BY <1>0, <2>1
  <2>4. \A v \in amz.tasks \ {t} : v.client <= c /\ v.client # c /\ ~Current(v) /\ ~Connected(v) /\ v.at # "stream"
    <3>1. \A v \in amz.tasks : v.client \in Nat /\ v.client <= amz.clients
      BY <1>0 DEF AmazonTasks, Tasks
    <3> QED
      BY <1>0, <2>1, <3>1 DEF AmazonTasks
  <2> HIDE DEF c
  <2>5. \A v \in amz'.tasks : v = u \/ (v \in amz.tasks \ {t} /\ v.epoch <= amz.epoch)
    BY <2>1 DEF AmazonTasks
  <2>6. \A v \in amz'.tasks : v # u => ~Current(v)' /\ ~Connected(v)' /\ v.at # "stream"
    BY <2>1, <2>4, <2>5 DEF Current, Connected
  <2>7. /\ u.epoch <= amz.epoch /\ u.gen = starts
    BY <2>1, <2>2 DEF AmazonTasks
  <2>8. c <= c
    BY <2>3
  <2> QED
    BY <2>1, <2>2, <2>3, <2>4, <2>5, <2>6, <2>7, <2>8 DEF AmazonTasks, Current, c
<1>3. CASE LosesClient(t)
  <2>1. /\ amz'.open = amz.open \ {amz.client} /\ amz'.clients = amz.clients
        /\ amz'.promise = amz.promise /\ amz'.epoch = amz.epoch /\ amz'.stop = amz.stop
        /\ amz'.stopping = amz.stopping /\ amz'.streaming = amz.streaming
        /\ amz'.tasks = amz.tasks \ {t} /\ t \in amz.tasks
    BY <1>3 DEF LosesClient, AmazonKeeps
  <2>2. \A v \in amz'.tasks : v \in amz.tasks /\ ~Connected(v)'
    BY <2>1 DEF AmazonTasks, Connected
  <2> QED
    BY <2>1, <2>2 DEF AmazonTasks, Current
<1>4. CASE GetsStream(t)
  <2> DEFINE u == [t EXCEPT !.at = "stream"]
  <2>1. /\ amz'.open = amz.open /\ amz'.clients = amz.clients /\ amz'.client = amz.client
        /\ amz'.promise = t.client /\ amz'.epoch = amz.epoch /\ amz'.stop = amz.stop
        /\ amz'.stopping = amz.stopping /\ amz'.streaming = amz.streaming
        /\ amz'.tasks = (amz.tasks \ {t}) \cup {u}
        /\ t \in amz.tasks /\ t.at = "send" /\ Current(t) /\ Connected(t) /\ ~amz.stopping
    BY <1>4 DEF GetsStream, AmazonKeeps
  <2>2. u.at = "stream" /\ u.client = t.client /\ u.epoch = t.epoch /\ u.gen = t.gen
    BY <1>0, <2>1 DEF Tasks
  <2> HIDE DEF u
  <2>3. \A v \in amz'.tasks : v = u \/ (v \in amz.tasks /\ ~Current(v) /\ v.at # "stream" /\ ~Connected(v))
    BY <1>0, <2>1 DEF AmazonTasks
  <2>4. \A v \in amz'.tasks : v = u \/ (v \in amz.tasks /\ ~Current(v)' /\ v.at # "stream" /\ ~Connected(v)')
    BY <2>1, <2>3 DEF Current, Connected
  <2>5. /\ u.epoch <= amz.epoch /\ u.client <= amz.clients /\ u.gen = starts /\ amz.streaming
        /\ u.client = amz.client
    BY <2>1, <2>2 DEF AmazonTasks
  <2> QED
    BY <1>0, <2>1, <2>2, <2>4, <2>5 DEF AmazonTasks, Current
<1>5. CASE Reconnects(t)
  <2>1. PICK u : /\ u.gen = starts /\ u.client = 0 /\ u.epoch = amz.epoch /\ u.at = "credentials"
                 /\ amz'.tasks = (amz.tasks \ {t}) \cup {u}
    BY <1>5 DEF Reconnects
  <2>2. /\ amz'.open = amz.open \ {amz.client} /\ amz'.clients = amz.clients
        /\ amz'.promise = amz.promise /\ amz'.epoch = amz.epoch /\ amz'.stop = amz.stop
        /\ amz'.stopping = amz.stopping /\ amz'.streaming = amz.streaming
        /\ t \in amz.tasks /\ t.at = "stream" /\ amz.streaming /\ ~amz.stopping
    BY <1>5 DEF Reconnects, AmazonKeeps
  <2>3. Current(t)
    BY <1>0, <2>2 DEF AmazonTasks
  <2>4. \A v \in amz'.tasks : v = u \/ (v \in amz.tasks /\ ~Current(v) /\ v.at # "stream" /\ ~Connected(v)')
    BY <1>0, <2>1, <2>2, <2>3 DEF AmazonTasks, Connected
  <2>5. \A v \in amz'.tasks : v = u \/ (v \in amz.tasks /\ ~Current(v)' /\ v.at # "stream" /\ ~Connected(v)')
    BY <2>2, <2>4 DEF Current
  <2>6. 0 <= amz.clients /\ amz.epoch <= amz.epoch /\ ~Connected(u)'
    BY <1>0, <2>1 DEF Connected
  <2> QED
    BY <1>0, <2>1, <2>2, <2>5, <2>6 DEF AmazonTasks, Current
<1> QED
  BY <1>1, <1>2, <1>3, <1>4, <1>5

\* ... and so does the end of a stop().
LEMMA StoppedEvent ==
    ASSUME TypeOK, AmazonTasks, AmazonStopped
    PROVE  /\ AmazonTasks' /\ AmazonRests'
           /\ amz'.tasks = amz.tasks /\ ~amz'.stop /\ amz'.stopping = amz.stopping /\ amz'.epoch = amz.epoch
<1>1. /\ amz'.open = amz.open \ {amz.client} /\ amz'.clients = amz.clients
      /\ amz'.client = 0 /\ amz'.promise = 0 /\ amz'.epoch = amz.epoch /\ amz'.stop = FALSE
      /\ amz'.stopping = amz.stopping /\ amz'.streaming = amz.streaming /\ amz'.tasks = amz.tasks
      /\ starts' = starts /\ amz.stop
      /\ ~\E t \in amz.tasks : t.at = "stream" /\ t.client = amz.promise
  BY DEF AmazonStopped, TypeOK, Transcribers
<1>2. \A t \in amz.tasks : t.at # "stream" /\ ~Current(t) /\ ~Connected(t)'
  BY <1>1 DEF AmazonTasks, Connected
<1>3. AmazonRests'
  BY <1>1, <1>2 DEF AmazonRests, Current
<1>4. AmazonTasks'
  BY <1>1, <1>2, <1>3 DEF AmazonTasks, AmazonRests
<1> QED
  BY <1>1, <1>3, <1>4

\* A task leaves the transcriber at rest, or finds it so if it reports an error.
LEMMA TaskRests ==
    ASSUME TypeOK, AmazonTasks, AmazonTasks', NEW t,
           TaskEnds(t) \/ GetsClient(t) \/ LosesClient(t) \/ GetsStream(t) \/ Reconnects(t)
    PROVE  /\ AmazonRests => AmazonRests' /\ asr' = asr
           /\ asr'.state \in {"error", "closed"} => AmazonRests' \/ asr' = asr
           /\ amz.stopping => \A u \in amz'.tasks : u.at = "stream" => u \in amz.tasks
           /\ amz'.stop = amz.stop /\ amz'.stopping = amz.stopping
<1>1. CASE TaskEnds(t)
  <2>1. /\ amz'.open = amz.open /\ amz'.epoch = amz.epoch /\ amz'.stop = amz.stop
        /\ amz'.stopping = amz.stopping /\ amz'.tasks = amz.tasks \ {t} /\ t \in amz.tasks
        /\ asr' = asr \/ (Current(t) /\ ~amz.stopping)
    BY <1>1 DEF TaskEnds, AmazonKeeps
  <2>2. \A u : (Current(u)' <=> Current(u)) /\ (Connected(u)' <=> Connected(u))
    BY <2>1 DEF Current, Connected
  <2>3. Current(t) /\ ~amz.stopping => AmazonRests'
    BY <2>1, <2>2 DEF AmazonTasks, AmazonRests
  <2> QED
    BY <2>1, <2>2, <2>3 DEF AmazonRests
<1>2. CASE GetsClient(t)
  <2>1. /\ t \in amz.tasks /\ Current(t) /\ ~amz.stopping /\ asr' = asr
        /\ amz'.stop = amz.stop /\ amz'.stopping = amz.stopping
    BY <1>2 DEF GetsClient, AmazonKeeps
  <2> QED
    BY <2>1 DEF AmazonRests
<1>3. CASE LosesClient(t)
  <2>1. /\ t \in amz.tasks /\ Connected(t) /\ asr' = asr /\ amz'.tasks = amz.tasks \ {t}
        /\ amz'.stop = amz.stop /\ amz'.stopping = amz.stopping
    BY <1>3 DEF LosesClient, AmazonKeeps
  <2> QED
    BY <2>1 DEF AmazonRests
<1>4. CASE GetsStream(t)
  <2>1. /\ t \in amz.tasks /\ Current(t) /\ ~amz.stopping
        /\ amz'.stop = amz.stop /\ amz'.stopping = amz.stopping
        /\ asr' = asr \/ asr'.state = "ready"
    BY <1>4, StateFollows DEF GetsStream, AmazonKeeps, TypeOK
  <2> QED
    BY <2>1 DEF AmazonRests
<1>5. CASE Reconnects(t)
  <2>1. /\ t \in amz.tasks /\ t.at = "stream" /\ ~amz.stopping /\ asr' = asr
        /\ amz'.stop = amz.stop /\ amz'.stopping = amz.stopping
    BY <1>5 DEF Reconnects, AmazonKeeps
  <2> QED
    BY <2>1 DEF AmazonRests
<1> QED
  BY <1>1, <1>2, <1>3, <1>4, <1>5

\* The call that awaits start() is settled when its task ends, and then none is left.
LEMMA TaskReturns ==
    ASSUME TypeOK, AmazonTasks, NEW t,
           \A u \in amz.tasks : u.by = "start" => call = "pending" /\ Current(u),
           TaskEnds(t) \/ GetsClient(t) \/ LosesClient(t) \/ GetsStream(t) \/ Reconnects(t)
    PROVE  /\ \A u \in amz'.tasks : u.by = "start" =>
                  call' = "pending" /\ Current(u)' /\ \E v \in amz.tasks : v.by = "start"
           /\ call' = call \/ \E v \in amz.tasks : v.by = "start"
<1>0. \A u \in amz.tasks : u \in Tasks
  BY DEF TypeOK, Transcribers
<1>1. ASSUME t \in amz.tasks, Returns(t), amz'.epoch = amz.epoch,
             \A u \in amz'.tasks : u.by = "start" => u \in amz.tasks \ {t}
      PROVE  /\ \A u \in amz'.tasks : u.by = "start" =>
                    call' = "pending" /\ Current(u)' /\ \E v \in amz.tasks : v.by = "start"
             /\ call' = call \/ \E v \in amz.tasks : v.by = "start"
  <2>1. ASSUME NEW u \in amz'.tasks, u.by = "start" PROVE t.by # "start" /\ u \in amz.tasks
    BY <1>1, <2>1 DEF AmazonTasks
  <2>2. t.by # "start" => call' = call
    BY <1>1 DEF Returns
  <2>3. \A u : Current(u)' <=> Current(u)
    BY <1>1 DEF Current
  <2> QED
    BY <1>1, <2>1, <2>2, <2>3
<1>2. ASSUME t \in amz.tasks, UNCHANGED call, amz'.epoch = amz.epoch,
             \A u \in amz'.tasks : u.by = "start" =>
                 u \in amz.tasks \/ (t.by = "start" /\ u.epoch = t.epoch)
      PROVE  /\ \A u \in amz'.tasks : u.by = "start" =>
                    call' = "pending" /\ Current(u)' /\ \E v \in amz.tasks : v.by = "start"
             /\ call' = call
  BY <1>2 DEF Current
<1>3. CASE TaskEnds(t)
  <2>1. /\ t \in amz.tasks /\ amz'.epoch = amz.epoch /\ Returns(t)
        /\ amz'.tasks = amz.tasks \ {t}
    BY <1>3 DEF TaskEnds, AmazonKeeps
  <2> QED
    BY <1>1, <2>1
<1>4. CASE LosesClient(t)
  <2>1. /\ t \in amz.tasks /\ amz'.epoch = amz.epoch /\ Returns(t)
        /\ amz'.tasks = amz.tasks \ {t}
    BY <1>4 DEF LosesClient, AmazonKeeps
  <2> QED
    BY <1>1, <2>1
<1>5. CASE Reconnects(t)
  <2>1. PICK u : u.by = "reconnect" /\ amz'.tasks = (amz.tasks \ {t}) \cup {u}
    BY <1>5 DEF Reconnects
  <2>2. t \in amz.tasks /\ amz'.epoch = amz.epoch /\ Returns(t)
    BY <1>5 DEF Reconnects, AmazonKeeps
  <2> QED
    BY <1>1, <2>1, <2>2
<1>6. CASE GetsClient(t)
  <2> DEFINE u == [t EXCEPT !.at = "send", !.client = amz'.clients]
  <2>1. /\ t \in amz.tasks /\ UNCHANGED call /\ amz'.epoch = amz.epoch
        /\ amz'.tasks = (amz.tasks \ {t}) \cup {u}
    BY <1>6 DEF GetsClient, AmazonKeeps
  <2>2. u.by = t.by /\ u.epoch = t.epoch
    BY <1>0, <2>1 DEF Tasks
  <2> HIDE DEF u
  <2> QED
    BY <1>2, <2>1, <2>2
<1>7. CASE GetsStream(t)
  <2> DEFINE u == [t EXCEPT !.at = "stream"]
  <2>1. /\ t \in amz.tasks /\ UNCHANGED call /\ amz'.epoch = amz.epoch
        /\ amz'.tasks = (amz.tasks \ {t}) \cup {u}
    BY <1>7 DEF GetsStream, AmazonKeeps
  <2>2. u.by = t.by /\ u.epoch = t.epoch
    BY <1>0, <2>1 DEF Tasks
  <2> HIDE DEF u
  <2> QED
    BY <1>2, <2>1, <2>2
<1> QED
  BY <1>3, <1>4, <1>5, <1>6, <1>7

-----------------------------------------------------------------------------
(* Nothing of Amazon escapes *)

\* The transitions that leave Amazon alone.
LEMMA AmazonWaits ==
    ASSUME TypeOK, AmazonTasks, AmazonControl, AmazonKeeps({}), UNCHANGED starts,
           step = "start" /\ call = "pending" => step' = "start" /\ call' = "pending",
           Ended => Ended',
           step = "stop" /\ amz.stop => step' = "stop" \/ Ended',
           step' = "stop" \/ Ended' => amz.stopping,
           step' = "stop" /\ call' = "resolved" => step = "stop" /\ call = "resolved",
           Failed' \/ (asr'.paused /\ step' # "stop") => Failed \/ (asr.paused /\ step # "stop") \/ AmazonRests
    PROVE  AmazonTasks' /\ AmazonControl'
<1>1. /\ amz'.open = amz.open /\ amz'.clients = amz.clients
      /\ amz'.client = amz.client /\ amz'.promise = amz.promise /\ amz'.epoch = amz.epoch
      /\ amz'.stop = amz.stop /\ amz'.stopping = amz.stopping /\ amz'.streaming = amz.streaming
      /\ amz'.tasks = amz.tasks
  BY DEF AmazonKeeps
<1>2. \A u : (Current(u)' <=> Current(u)) /\ (Connected(u)' <=> Connected(u))
  BY <1>1 DEF Current, Connected
<1>3. AmazonTasks'
  BY <1>1, <1>2 DEF AmazonTasks
<1>4. AmazonRests => AmazonRests'
  BY <1>1, <1>2 DEF AmazonRests
<1>5. AmazonControl'
  BY <1>1, <1>2, <1>4 DEF AmazonControl
<1> QED
  BY <1>3, <1>5

\* start() finds the transcriber at rest.
LEMMA AmazonStarts ==
    ASSUME TypeOK, AmazonTasks, AmazonControl, AmazonRests, ~amz.stop, step # "start",
           NEW a, AmazonStart(a),
           step' = "start", ~asr'.paused, ~Ended', asr'.state = "connecting"
    PROVE  AmazonTasks' /\ AmazonControl'
<1> DEFINE e == amz.epoch + 1
<1>1. amz.epoch \in Nat /\ amz.clients \in Nat /\ \A t \in amz.tasks : t.epoch \in Nat
  BY DEF TypeOK, Transcribers, Tasks
<1>0. PICK n : n = [by |-> "start", gen |-> starts', epoch |-> e, at |-> "credentials", client |-> 0]
  OBVIOUS
<1>2. amz' = [amz EXCEPT !.stopping = FALSE, !.partial = FALSE, !.streaming = TRUE, !.queue = <<>>,
                         !.epoch = e, !.tasks = @ \cup {n}]
  BY <1>0 DEF AmazonStart
<1>3. n.by = "start" /\ n.gen = starts' /\ n.epoch = e /\ n.at = "credentials" /\ n.client = 0
  BY <1>0
<1>4. e > amz.epoch /\ e \in Nat
  BY <1>1
<1> HIDE DEF e
<1>5. /\ amz'.open = amz.open /\ amz'.clients = amz.clients
      /\ amz'.client = amz.client /\ amz'.promise = amz.promise /\ amz'.epoch = e
      /\ ~amz'.stop /\ ~amz'.stopping /\ amz'.streaming
      /\ amz'.tasks = amz.tasks \cup {n}
  BY <1>2 DEF TypeOK, Transcribers
<1>6. call' = "pending"
  BY DEF AmazonStart
<1>7. \A t \in amz'.tasks : t = n \/ (t \in amz.tasks /\ ~Current(t)' /\ t.at # "stream" /\ ~Connected(t)')
  BY <1>1, <1>4, <1>5 DEF AmazonRests, AmazonTasks, Current, Connected
<1>8. \A t \in amz.tasks : t.by # "start" /\ t.epoch <= e
  BY <1>1, <1>4 DEF AmazonControl, AmazonTasks
<1>9. Current(n)' /\ ~Connected(n)' /\ n.epoch <= e /\ n.client <= amz.clients
  BY <1>1, <1>3, <1>4, <1>5 DEF Current, Connected
<1>10. AmazonTasks'
  BY <1>3, <1>5, <1>7, <1>8, <1>9 DEF AmazonTasks
<1>11. ~Failed'
  BY DEF Failed
<1>12. AmazonControl'
  BY <1>3, <1>5, <1>6, <1>7, <1>8, <1>9, <1>11 DEF AmazonControl
<1> QED
  BY <1>10, <1>12

\* stop() makes every task a stale one.
LEMMA AmazonStops ==
    ASSUME TypeOK, AmazonTasks, AmazonControl, step # "start", step # "stop",
           NEW a, AmazonStop(a), step' = "stop" \/ Ended',
           ~Failed', asr'.paused /\ step' # "stop" => asr.paused
    PROVE  AmazonTasks' /\ AmazonControl'
<1> DEFINE e == amz.epoch + 1
<1>1. amz.epoch \in Nat /\ amz.clients \in Nat /\ \A t \in amz.tasks : t.epoch \in Nat
  BY DEF TypeOK, Transcribers, Tasks
<1>2. e > amz.epoch /\ e \in Nat
  BY <1>1
<1> HIDE DEF e
<1>3. /\ amz'.open = amz.open /\ amz'.clients = amz.clients
      /\ amz'.client = amz.client /\ amz'.promise = amz.promise /\ amz'.epoch = e
      /\ amz'.stop /\ amz'.stopping /\ ~amz'.streaming /\ amz'.tasks = amz.tasks
  BY DEF AmazonStop, TypeOK, Transcribers, e
<1>4. call' = "pending" /\ starts' = starts
  BY DEF AmazonStop
<1>5. \A t \in amz.tasks : ~Current(t)' /\ t.epoch <= e /\ (Connected(t)' <=> Connected(t)) /\ t.by # "start"
  BY <1>1, <1>2, <1>3 DEF AmazonTasks, AmazonControl, Current, Connected
<1>6. AmazonTasks'
  BY <1>3, <1>4, <1>5 DEF AmazonTasks
<1>7. AmazonRests => AmazonRests'
  BY <1>3, <1>5 DEF AmazonRests
<1>8. AmazonControl'
  BY <1>3, <1>4, <1>5, <1>7 DEF AmazonControl
<1> QED
  BY <1>6, <1>8

\* The same for the events of the provider.
LEMMA AmazonEvent ==
    ASSUME TypeOK, ChainInv, AmazonTasks, AmazonControl, AmazonNext, UNCHANGED <<kind, lifecycle>>
    PROVE  AmazonTasks' /\ AmazonControl'
<1>1. /\ asr'.paused = asr.paused /\ asr'.flushed = asr.flushed
      /\ step' = step /\ chain' = chain /\ teardown' = teardown
      /\ starts' = starts
  BY AmazonEventOK, AmazonShapes DEF EventOK, Follows, lifecycle
<1>2. (Ended' <=> Ended) /\ (Flushing' <=> Flushing)
  BY <1>1 DEF Ended, Flushing
<1>3. asr'.state = asr.state => (Failed' <=> Failed)
  BY <1>1, <1>2 DEF Failed
<1>4. ASSUME NEW t \in amz.tasks,
             TaskEnds(t) \/ GetsClient(t) \/ LosesClient(t) \/ GetsStream(t) \/ Reconnects(t)
      PROVE  AmazonTasks' /\ AmazonControl'
  <2>1. AmazonTasks'
    BY <1>1, <1>4, TaskEvent
  <2>2. /\ AmazonRests => AmazonRests' /\ asr' = asr
        /\ asr'.state \in {"error", "closed"} => AmazonRests' \/ asr' = asr
        /\ amz.stopping => \A u \in amz'.tasks : u.at = "stream" => u \in amz.tasks
        /\ amz'.stop = amz.stop /\ amz'.stopping = amz.stopping
    BY <1>4, <2>1, TaskRests
  <2>3. /\ \A u \in amz'.tasks : u.by = "start" =>
               call' = "pending" /\ Current(u)' /\ \E v \in amz.tasks : v.by = "start"
        /\ call' = call \/ \E v \in amz.tasks : v.by = "start"
    BY <1>4, TaskReturns DEF AmazonControl
  <2>4. \A u \in amz'.tasks : u.by = "start" => step' = "start" /\ call' = "pending" /\ Current(u)'
    BY <1>1, <2>3 DEF AmazonControl
  <2>5. step = "stop" => call' = call
    BY <2>3 DEF AmazonControl
  <2>6. Failed' \/ (asr'.paused /\ step' # "stop") => AmazonRests'
    <3>1. CASE asr'.paused /\ step' # "stop"
      BY <1>1, <2>2, <3>1 DEF AmazonControl
    <3>2. CASE Failed'
      BY <1>3, <2>2, <3>2 DEF AmazonControl, Failed
    <3> QED
      BY <3>1, <3>2
  <2> QED
    BY <1>1, <1>2, <2>1, <2>2, <2>4, <2>5, <2>6 DEF AmazonControl
<1>5. CASE Reports
  <2>1. AmazonKeeps({}) /\ UNCHANGED call /\ asr'.state \in {asr.state, "transcribing"}
    BY <1>5 DEF Reports
  <2>2. Failed' => Failed
    BY <1>3, <2>1 DEF Failed
  <2>3. step' = "stop" \/ Ended' => amz.stopping
    BY <1>1, <1>2 DEF AmazonControl
  <2>4. amz.stop /\ step = "stop" => step' = "stop"
    BY <1>1
  <2> QED
    BY <1>1, <1>2, <2>1, <2>2, <2>3, <2>4, AmazonWaits
<1>6. CASE AmazonStopped
  <2>1. /\ AmazonTasks' /\ AmazonRests'
        /\ amz'.tasks = amz.tasks /\ ~amz'.stop /\ amz'.stopping = amz.stopping /\ amz'.epoch = amz.epoch
    BY <1>6, StoppedEvent
  <2>2. \A t \in amz.tasks : t.by # "start"
    BY <1>6 DEF AmazonControl, AmazonTasks, AmazonStopped
  <2> QED
    BY <1>1, <1>2, <2>1, <2>2 DEF AmazonControl, AmazonRests
<1> QED
  BY <1>4, <1>5, <1>6, AmazonShapes

LEMMA AmazonStep ==
    ASSUME TypeOK, MicrosoftShape, ChainInv, AmazonInv, [Next]_vars PROVE AmazonInv'
<1>1. kind' = kind
  BY ProviderChanges
<1>2. CASE kind # "amazon"
  <2>1. amz' = amz
    BY <1>2, ProviderChanges
       DEF provider, ProviderStart, ProviderStop, ProviderTranscribe, ProviderNext
  <2> QED
    BY <1>1, <1>2, <2>1 DEF AmazonInv
<1>3. SUFFICES ASSUME kind = "amazon" PROVE AmazonTasks' /\ AmazonControl'
  BY <1>1, <1>2 DEF AmazonInv
<1>4. /\ AmazonTasks /\ AmazonControl /\ asr \in Asrs /\ ~Realtime
      /\ chain # <<>> => teardown \notin {"marked", "disposed"}
      /\ chain # <<>> /\ Head(chain) # "flush" => ~asr.flushed /\ ~Flushing /\ ~Ended
      /\ step # "queued" => chain # <<>>
  BY <1>3 DEF AmazonInv, TypeOK, Realtime, ChainInv, ChainOrder, ChainFlags, Flushing, Ended
<1>5. step = "stop" \/ Ended => amz.stopping
  BY <1>4 DEF AmazonControl
<1>6. CASE BeginInit
  <2>1. /\ chain # <<>> /\ Head(chain) = "init" /\ step = "queued" /\ Unstarted
        /\ AmazonStart(OnConnecting(asr)) /\ step' = "start" /\ teardown' = teardown
        /\ UNCHANGED chain
    BY <1>3, <1>4, <1>6 DEF BeginInit, Runs, ProviderStart, StartReturns, Awaits, ChainInv, ChainFlags
  <2>2. asr' = OnConnecting(asr) /\ ~asr.paused
    BY <2>1 DEF AmazonStart, Unstarted, NewAsr
  <2>3. ~asr'.paused /\ ~asr'.flushed /\ asr'.state = "connecting"
    BY <1>4, <2>1, <2>2, StateFollows DEF Follows
  <2>4. AmazonRests /\ ~amz.stop
    BY <2>1 DEF Unstarted, NewAmazon, AmazonRests
  <2> QED
    BY <1>4, <2>1, <2>3, <2>4, AmazonStarts DEF Ended
<1>7. CASE Started
  <2>1. /\ chain # <<>> /\ Head(chain) \in {"init", "resume"} /\ step = "start" /\ call = "resolved"
        /\ Advance /\ UNCHANGED <<asr, amz, starts, teardown>> /\ ~asr.paused
    BY <1>4, <1>7 DEF Started, provider, ChainInv, ChainFlags
  <2>2. AmazonKeeps({}) /\ step' = "queued" /\ ~Flushing' /\ (Ended' <=> Ended)
    BY <2>1 DEF AmazonKeeps, Advance, Flushing, Ended
  <2>3. Failed' => Failed
    BY <1>4, <2>1, <2>2 DEF Failed
  <2> QED
    BY <1>4, <1>5, <2>1, <2>2, <2>3, AmazonWaits
<1>8. CASE BeginPause
  <2>1. chain # <<>> /\ Head(chain) = "pause" /\ step = "queued" /\ teardown' = teardown
    BY <1>8 DEF BeginPause, Runs
  <2>2. CASE asr.paused \/ ~StopsOnPause(asr)
    <3>1. /\ Advance /\ UNCHANGED <<amz, starts>>
          /\ UNCHANGED asr \/ asr' = OnClosed([asr EXCEPT !.paused = TRUE, !.buffer = FlushBuffer(@)])
      BY <2>2, <1>8 DEF BeginPause, Idle, provider
    <3>2. AmazonKeeps({}) /\ step' = "queued" /\ ~Flushing'
      BY <3>1 DEF AmazonKeeps, Advance, Flushing
    <3>3. asr'.flushed = asr.flushed
      <4> DEFINE b == [asr EXCEPT !.paused = TRUE, !.buffer = FlushBuffer(@)]
      <4>1. b \in Asrs /\ b.flushed = asr.flushed
        BY <1>4, PauseAndFlush
      <4>2. UNCHANGED asr \/ asr' = OnClosed(b)
        BY <3>1
      <4> HIDE DEF b
      <4> QED
        BY <4>1, <4>2, StateFollows DEF Follows
    <3>4. Failed \/ (asr.paused /\ step # "stop")
      BY <1>3, <1>4, <2>1, <2>2 DEF StopsOnPause, Failed, Asrs, States
    <3>5. (Ended' <=> Ended) /\ step' # "stop"
      BY <2>1, <3>2, <3>3 DEF Ended
    <3> QED
      BY <1>4, <1>5, <2>1, <3>1, <3>2, <3>4, <3>5, AmazonWaits
  <2>3. CASE ~asr.paused /\ StopsOnPause(asr)
    <3>1. step' = "stop" /\ UNCHANGED <<chain>> /\ \E a : AmazonStop(a)
      BY <1>3, <1>4, <1>8, <2>3 DEF BeginPause, StopReturns, ProviderStop, Awaits
    <3>2. ~Failed'
      BY <3>1 DEF Failed
    <3> QED
      BY <1>4, <2>1, <3>1, <3>2, AmazonStops
  <2> QED
    BY <2>2, <2>3
<1>9. CASE Paused
  <2>1. /\ chain # <<>> /\ Head(chain) = "pause" /\ step = "stop" /\ call = "resolved" /\ call' = "none"
        /\ Advance /\ UNCHANGED <<amz, starts, teardown>> /\ asr' = OnClosed(asr)
    BY <1>9 DEF Paused, Runs, provider
  <2>2. AmazonKeeps({}) /\ step' = "queued"
    BY <2>1 DEF AmazonKeeps, Advance
  <2>3. Ended' <=> Ended
    BY <1>4, <2>1, StateFollows DEF Ended, Follows
  <2>4. AmazonRests /\ ~amz.stop
    <3>1. ~amz.stop /\ (\A t \in amz.tasks : t.at # "stream") /\ ~amz.streaming
      BY <1>4, <1>5, <2>1 DEF AmazonControl, AmazonTasks
    <3> QED
      BY <1>4, <3>1 DEF AmazonTasks, AmazonRests
  <2> QED
    BY <1>4, <1>5, <2>1, <2>2, <2>3, <2>4, AmazonWaits
<1>10. CASE BeginResume
  <2>1. chain # <<>> /\ Head(chain) = "resume" /\ step = "queued" /\ teardown' = teardown
    BY <1>10 DEF BeginResume, Runs
  <2>2. CASE ~asr.paused
    <3>1. Advance /\ UNCHANGED <<amz, starts, asr>>
      BY <2>2, <1>10 DEF BeginResume, Idle, provider
    <3>2. AmazonKeeps({}) /\ step' = "queued" /\ ~Flushing' /\ (Ended' <=> Ended)
      BY <2>1, <3>1 DEF AmazonKeeps, Advance, Flushing, Ended
    <3>3. Failed' => Failed
      BY <1>4, <2>1, <3>1, <3>2 DEF Failed
    <3> QED
      BY <1>4, <1>5, <2>1, <2>2, <3>1, <3>2, <3>3, AmazonWaits
  <2>3. CASE asr.paused
    <3> DEFINE b == [asr EXCEPT !.paused = FALSE, !.buffer = FlushBuffer(@)]
    <3>1. AmazonStart(OnConnecting(b)) /\ step' = "start" /\ UNCHANGED chain
      BY <1>3, <1>4, <1>10, <2>3 DEF BeginResume, StartReturns, ProviderStart, Awaits
    <3>2. b \in Asrs /\ ~b.paused /\ b.flushed = asr.flushed
      BY <1>4, PauseAndFlush
    <3> HIDE DEF b
    <3>3. asr' = OnConnecting(b)
      BY <3>1 DEF AmazonStart
    <3>4. ~asr'.paused /\ asr'.state = "connecting" /\ ~asr'.flushed
      BY <1>4, <2>1, <3>2, <3>3, StateFollows DEF Follows
    <3>5. AmazonRests /\ ~amz.stop
      BY <1>4, <2>1, <2>3 DEF AmazonControl
    <3> QED
      BY <1>4, <2>1, <3>1, <3>4, <3>5, AmazonStarts DEF Ended
  <2> QED
    BY <2>2, <2>3
<1>11. CASE BeginFlush
  <2>1. chain # <<>> /\ Head(chain) = "flush" /\ step = "queued"
    BY <1>11 DEF BeginFlush, Runs
  <2>2. CASE asr.flushed \/ asr.paused
    <3>1. Marked(asr) /\ Advance /\ UNCHANGED <<amz, starts>>
      BY <2>2, <1>11 DEF BeginFlush, Idle, provider
    <3>2. /\ AmazonKeeps({}) /\ step' = "queued" /\ ~Failed'
          /\ asr'.paused = asr.paused /\ asr'.flushed = asr.flushed /\ teardown' = "marked"
      BY <1>4, <3>1, MarkedEffect DEF AmazonKeeps, Advance, Failed, Marked
    <3>3. Ended' <=> Ended
      BY <1>4, <2>1, <3>2 DEF Ended
    <3> QED
      BY <1>4, <1>5, <2>1, <3>1, <3>2, <3>3, AmazonWaits
  <2>3. CASE ~asr.flushed /\ ~asr.paused
    <3>1. step' = "stop" /\ \E a : AmazonStop(a)
      BY <1>3, <1>4, <1>11, <2>3 DEF BeginFlush, StopReturns, ProviderStop, Awaits
    <3>2. ~Failed'
      BY <3>1 DEF Failed
    <3> QED
      BY <1>4, <2>1, <3>1, <3>2, AmazonStops
  <2> QED
    BY <2>2, <2>3
<1>12. CASE Flushed \/ FlushTimeout
  <2>1. /\ chain # <<>> /\ Head(chain) = "flush" /\ step = "stop" /\ step' = "settle" /\ chain' = chain
        /\ UNCHANGED <<asr, amz, starts, teardown>>
    BY <1>12 DEF Flushed, FlushTimeout, Runs, Awaits, provider
  <2>2. AmazonKeeps({}) /\ Flushing' /\ ~Failed' /\ asr.flushed /\ ~asr.paused
    BY <2>1 DEF AmazonKeeps, Flushing, Failed, ChainInv, ChainFlags
  <2>3. Ended /\ Ended'
    BY <2>1, <2>2 DEF Ended
  <2> QED
    BY <1>4, <1>5, <2>1, <2>2, <2>3, AmazonWaits
<1>13. CASE Settle
  <2>1. /\ chain # <<>> /\ Head(chain) = "flush" /\ step = "settle" /\ step' = "queued"
        /\ UNCHANGED <<amz, starts>> /\ Marked(OnClosed(asr)) /\ teardown' = "marked"
    BY <1>13 DEF Settle, Runs, Advance, provider, Marked
  <2>2. OnClosed(asr) \in Asrs /\ OnClosed(asr).paused = asr.paused /\ OnClosed(asr).flushed = asr.flushed
    BY <1>4, StateFollows DEF Follows
  <2>3. asr'.paused = asr.paused /\ asr'.flushed = asr.flushed
    BY <2>1, <2>2, MarkedEffect
  <2>4. AmazonKeeps({}) /\ ~Failed' /\ (Ended' <=> Ended)
    BY <1>4, <2>1, <2>3 DEF AmazonKeeps, Failed, Ended
  <2> QED
    BY <1>4, <1>5, <2>1, <2>3, <2>4, AmazonWaits
<1>14. CASE Dispose
  <2>1. teardown = "marked" /\ teardown' = "disposed" /\ step = "queued" /\ step' = "queued" /\ Ended'
    BY <1>14 DEF Dispose, ChainInv, ChainOrder, Ended
  <2>2. ~Failed' /\ asr'.paused = asr.paused
    BY <1>4, <1>14, <2>1, DisposeEffect DEF Failed, Change, Follows
  <2>3. CASE asr.flushed
    <3>1. UNCHANGED <<amz, asr, call, starts>> /\ AmazonKeeps({}) /\ Ended
      BY <1>14, <2>3 DEF Dispose, Idle, provider, AmazonKeeps, Ended
    <3> QED
      BY <1>4, <1>5, <2>1, <2>2, <3>1, AmazonWaits
  <2>4. CASE ~asr.flushed
    <3>1. AmazonStop(asr)
      BY <1>3, <1>4, <1>14, <2>4 DEF Dispose, ProviderStop
    <3> QED
      BY <1>4, <2>1, <2>2, <3>1, AmazonStops
  <2> QED
    BY <2>3, <2>4
<1>15. CASE ProviderNext
  BY <1>3, <1>4, <1>15, AmazonEvent DEF ProviderNext
<1>16. CASE (\E status \in {"active", "paused", "absent"} : Snapshot(status)) \/ StopAsr
  <2>1. UNCHANGED <<asr, call, amz, starts, step>> /\ teardown \in {"live"} /\ teardown' \in {"live", "stopping"}
    BY <1>16 DEF Snapshot, StopAsr, provider
  <2>2. Flushing => Flushing'
    <3>1. chain' = chain \/ \E t \in {"pause", "resume", "flush"} : chain' = Append(chain, t)
      BY <1>16 DEF Snapshot, StopAsr
    <3> QED
      BY <2>1, <3>1, ChainElements DEF Flushing, Transitions
  <2>3. Failed' => Failed
    BY <2>1, <2>2 DEF Failed
  <2>4. AmazonKeeps({}) /\ (Ended' <=> Ended)
    BY <2>1 DEF AmazonKeeps, Ended
  <2> QED
    BY <1>4, <1>5, <2>1, <2>3, <2>4, AmazonWaits
<1>17. CASE Transcribe
  <2>1. UNCHANGED <<call, starts, chain, step, teardown>>
    BY <1>17 DEF Transcribe, Idle, provider, ProviderTranscribe
  <2>2. AmazonKeeps({})
    <3>1. UNCHANGED amz \/ \E packets : amz' = [amz EXCEPT !.queue = Append(@, Len(packets))]
      BY <1>3, <1>4, <1>17 DEF Transcribe, Idle, provider, ProviderTranscribe, AmazonTranscribe
    <3> QED
      BY <3>1 DEF AmazonKeeps, TypeOK, Transcribers
  <2>3. asr'.paused = asr.paused /\ asr'.flushed = asr.flushed /\ asr'.state = asr.state
    <3> DEFINE a == Adds(audio + 1)
    <3>1. UNCHANGED asr \/ asr' = a \/ asr' = [a EXCEPT !.buffer = FlushBuffer(@)]
      BY <1>3, <1>4, <1>17 DEF Transcribe, ProviderTranscribe, AmazonTranscribe
    <3>2. a \in Asrs /\ a.paused = asr.paused /\ a.flushed = asr.flushed /\ a.state = asr.state
      BY <1>4, LimitsAreNats, AddsType DEF TypeOK
    <3> HIDE DEF a
    <3> QED
      BY <1>4, <3>1, <3>2 DEF Asrs
  <2>4. (Failed' <=> Failed) /\ (Ended' <=> Ended)
    BY <2>1, <2>3 DEF Failed, Ended, Flushing
  <2> QED
    BY <1>4, <1>5, <2>1, <2>2, <2>3, <2>4, AmazonWaits
<1>18. CASE UNCHANGED vars
  <2>1. UNCHANGED <<asr, call, starts, amz, chain, step, teardown>>
    BY <1>18 DEF vars, provider, lifecycle
  <2>2. AmazonKeeps({}) /\ (Failed' <=> Failed) /\ (Ended' <=> Ended)
    BY <2>1 DEF AmazonKeeps, Failed, Ended, Flushing
  <2> QED
    BY <1>4, <1>5, <2>1, <2>2, AmazonWaits
<1> QED
  BY <1>6, <1>7, <1>8, <1>9, <1>10, <1>11, <1>12, <1>13, <1>14, <1>15, <1>16, <1>17, <1>18
     DEF Next, Transition

-----------------------------------------------------------------------------
(* Nothing of the other providers escapes *)

\* When a provider is called.
LEMMA ControlSteps ==
    ASSUME TypeOK, MicrosoftShape, ChainInv, kind # "none", [Next]_vars
    PROVE  /\ skipped => skipped'
           /\ \/ /\ \E a \in Asrs : ProviderStart(a)
                 /\ asr.paused \/ Unstarted
                 /\ ~asr'.paused /\ ~Ended'
              \/ \E a \in Asrs : ProviderStop(a)
              \/ /\ ProviderNext \/ (\E a, packets : ProviderTranscribe(a, packets))
                 /\ asr'.paused = asr.paused /\ (Ended' <=> Ended)
              \/ /\ UNCHANGED provider
                 /\ skipped' \/ ((asr'.paused => asr.paused) /\ (Ended' => Ended))
<1>1. /\ asr \in Asrs
      /\ chain # <<>> => teardown \notin {"marked", "disposed"}
      /\ chain # <<>> /\ Head(chain) # "flush" => ~asr.flushed /\ ~Ended
  BY DEF TypeOK, ChainInv, ChainOrder, ChainFlags, Flushing, Ended
<1> DEFINE p == [asr EXCEPT !.paused = TRUE, !.buffer = FlushBuffer(@)]
           q == [asr EXCEPT !.paused = FALSE, !.buffer = FlushBuffer(@)]
<1>2. /\ p \in Asrs /\ p.flushed = asr.flushed
      /\ q \in Asrs /\ ~q.paused /\ q.flushed = asr.flushed
  BY <1>1, PauseAndFlush
<1> HIDE DEF p, q
<1>3. /\ OnClosed(p) \in Asrs /\ OnConnecting(q) \in Asrs /\ OnConnecting(asr) \in Asrs
      /\ OnClosed(p).flushed = asr.flushed
  BY <1>1, <1>2, StateFollows DEF Follows
<1>4. CASE BeginInit
  <2>1. /\ ProviderStart(OnConnecting(asr)) /\ Unstarted /\ chain # <<>> /\ teardown' = teardown
        /\ skipped' = skipped
    BY <1>4 DEF BeginInit, Runs, ChainInv, ChainFlags
  <2>2. ~asr'.paused /\ ~asr'.flushed
    BY <1>4, <2>1, BeginInitEffect DEF Change, Follows, Unstarted, NewAsr
  <2> QED
    BY <1>1, <1>3, <2>1, <2>2 DEF Ended
<1>5. CASE Started \/ Flushed \/ FlushTimeout \/ StopAsr \/ (\E s \in {"active", "paused", "absent"} : Snapshot(s))
  <2>1. /\ UNCHANGED <<provider, asr, skipped>> /\ (teardown' = "disposed" => teardown = "disposed")
    BY <1>5 DEF Started, Flushed, FlushTimeout, StopAsr, Snapshot
  <2> QED
    BY <2>1 DEF Ended
<1>6. CASE BeginPause
  <2>1. chain # <<>> /\ teardown' = teardown
    BY <1>6 DEF BeginPause, Runs
  <2>2. CASE asr.paused
    BY <1>6, <2>1, <2>2 DEF BeginPause, Idle, Ended
  <2>3. CASE ~asr.paused /\ StopsOnPause(asr)
    BY <1>2, <1>3, <1>6, <2>3 DEF BeginPause, p
  <2>4. CASE ~asr.paused /\ ~StopsOnPause(asr)
    <3>1. skipped' /\ UNCHANGED provider
      BY <1>1, <1>6, <2>4 DEF BeginPause, Idle, StopsOnPause, Asrs, States
    <3> QED
      BY <3>1
  <2> QED
    BY <2>2, <2>3, <2>4
<1>7. CASE Paused
  <2>1. asr.paused /\ UNCHANGED <<provider, skipped, teardown>> /\ asr' = OnClosed(asr)
    BY <1>7 DEF Paused, Runs, ChainInv, ChainFlags
  <2>2. asr'.flushed = asr.flushed
    BY <1>1, <2>1, StateFollows DEF Follows
  <2> QED
    BY <2>1, <2>2 DEF Ended
<1>8. CASE BeginResume
  <2>1. chain # <<>> /\ Head(chain) = "resume" /\ teardown' = teardown /\ skipped' = skipped
    BY <1>8 DEF BeginResume, Runs
  <2>2. CASE ~asr.paused
    BY <1>8, <2>1, <2>2 DEF BeginResume, Idle, Ended
  <2>3. CASE asr.paused
    <3>1. ProviderStart(OnConnecting(q))
      BY <1>8, <2>3 DEF BeginResume, q
    <3>2. ~asr'.paused /\ asr'.flushed = asr.flushed
      BY <1>2, <1>8, <2>3, BeginResumeEffect DEF Change, Follows, q
    <3> QED
      BY <1>1, <1>3, <2>1, <2>3, <3>1, <3>2 DEF Ended
  <2> QED
    BY <2>2, <2>3
<1>9. CASE BeginFlush
  <2>1. skipped' = skipped
    BY <1>9 DEF BeginFlush
  <2>2. CASE asr.flushed \/ asr.paused
    <3>1. UNCHANGED provider /\ Marked(asr)
      BY <1>9, <2>2 DEF BeginFlush, Idle
    <3>2. asr'.paused = asr.paused /\ asr'.flushed = asr.flushed /\ teardown' = "marked"
      BY <1>1, <3>1, MarkedEffect DEF Marked
    <3> QED
      BY <2>1, <3>1, <3>2 DEF Ended
  <2>3. CASE ~asr.flushed /\ ~asr.paused
    <3>1. [asr EXCEPT !.flushed = TRUE] \in Asrs
      BY <1>1, PauseAndFlush
    <3> QED
      BY <1>9, <2>1, <2>3, <3>1 DEF BeginFlush
  <2> QED
    BY <2>2, <2>3
<1>10. CASE Settle
  <2>1. Marked(OnClosed(asr)) /\ UNCHANGED <<provider, skipped>>
    BY <1>10 DEF Settle
  <2>2. OnClosed(asr) \in Asrs /\ OnClosed(asr).paused = asr.paused /\ OnClosed(asr).flushed = asr.flushed
    BY <1>1, StateFollows DEF Follows
  <2>3. asr'.paused = asr.paused /\ asr'.flushed = asr.flushed /\ teardown' = "marked"
    BY <2>1, <2>2, MarkedEffect DEF Marked
  <2> QED
    BY <2>1, <2>3 DEF Ended
<1>11. CASE Dispose
  BY <1>1, <1>11 DEF Dispose, Idle, Ended
<1>12. CASE ProviderNext
  <2>1. UNCHANGED <<skipped, teardown>> /\ asr'.paused = asr.paused /\ asr'.flushed = asr.flushed
    BY <1>12, ProviderEventOK DEF ProviderNext, lifecycle, EventOK, Follows
  <2> QED
    BY <1>12, <2>1 DEF Ended
<1>13. CASE Transcribe
  <2>1. /\ UNCHANGED <<skipped, teardown>> /\ asr'.paused = asr.paused /\ asr'.flushed = asr.flushed
        /\ UNCHANGED provider \/ \E a, packets : ProviderTranscribe(a, packets)
    BY <1>13, TranscribeEffect DEF Transcribe, Idle
  <2> QED
    BY <2>1 DEF Ended
<1>14. CASE UNCHANGED vars
  BY <1>14 DEF vars, provider, lifecycle, Ended
<1> QED
  BY <1>4, <1>5, <1>6, <1>7, <1>8, <1>9, <1>10, <1>11, <1>12, <1>13, <1>14 DEF Next, Transition

LEMMA NoElements == Elements(<<>>) = {}
BY DEF Elements

LEMMA MicrosoftStep ==
    ASSUME TypeOK, MicrosoftShape, ChainInv, MicrosoftInv, [Next]_vars PROVE MicrosoftInv'
<1>1. SUFFICES ASSUME kind = "microsoft", ~skipped'
      PROVE  /\ MicrosoftStreams' \subseteq Elements(ms'.recognizers) \cup BeingClosed'
             /\ asr'.paused \/ Ended' => ms'.recognizers = <<>>
  BY ProviderChanges DEF MicrosoftInv
<1>2. ms \in MicrosoftTranscribers /\ ~skipped
      /\ MicrosoftStreams \subseteq Elements(ms.recognizers) \cup BeingClosed
      /\ (asr.paused \/ Ended => ms.recognizers = <<>>)
  BY <1>1, ControlSteps DEF TypeOK, MicrosoftInv
<1>3. ms'.stops = ms.stops => BeingClosed' = BeingClosed
  BY DEF BeingClosed
<1>4. ASSUME NEW a \in Asrs, ProviderStart(a), asr.paused \/ Unstarted, ~asr'.paused, ~Ended'
      PROVE  MicrosoftStreams' \subseteq Elements(ms'.recognizers) \cup BeingClosed'
  <2>1. MicrosoftStart(a)
    BY <1>1, <1>4 DEF ProviderStart, Realtime
  <2>2. ms.recognizers = <<>>
    BY <1>2, <1>4 DEF Unstarted, NewMicrosoft
  <2>3. \A r \in MicrosoftStreams' : r \in Elements(ms'.recognizers) \/ r \in MicrosoftStreams
    BY <2>1, MicrosoftStarts DEF MicrosoftStreams
  <2> QED
    BY <1>2, <1>3, <2>1, <2>2, <2>3, NoElements, MicrosoftStarts
<1>5. ASSUME ms'.recognizers = <<>>,
             \/ ms.recognizers = <<>> /\ ms'.stops = ms.stops
             \/ \E awaited \in BOOLEAN :
                    ms'.stops = ms.stops \cup {[todo |-> ms.recognizers, awaited |-> awaited]},
             MicrosoftStreams' \subseteq MicrosoftStreams
      PROVE  MicrosoftStreams' \subseteq Elements(ms'.recognizers) \cup BeingClosed'
  <2>1. BeingClosed \subseteq BeingClosed'
    BY <1>5 DEF BeingClosed
  <2>2. Elements(ms.recognizers) \subseteq BeingClosed'
    <3>1. CASE ms.recognizers = <<>>
      BY <3>1, NoElements
    <3>2. CASE ms.recognizers # <<>>
      <4>1. PICK s \in ms'.stops : s.todo = ms.recognizers
        <5>1. PICK awaited \in BOOLEAN :
                  ms'.stops = ms.stops \cup {[todo |-> ms.recognizers, awaited |-> awaited]}
          BY <1>5, <3>2
        <5>2. [todo |-> ms.recognizers, awaited |-> awaited] \in ms'.stops
          BY <5>1
        <5> QED
          BY <5>2
      <4> QED
        BY <4>1 DEF BeingClosed
    <3> QED
      BY <3>1, <3>2
  <2> QED
    BY <1>2, <1>5, <2>1, <2>2
<1>6. ASSUME NEW a \in Asrs, ProviderStop(a)
      PROVE  /\ MicrosoftStreams' \subseteq Elements(ms'.recognizers) \cup BeingClosed'
             /\ ms'.recognizers = <<>>
  <2>1. ms' = Closing(ms, TRUE)
    BY <1>1, <1>6 DEF ProviderStop, MicrosoftStop, Realtime
  <2>2. /\ ms'.recognizers = <<>> /\ ms'.at = ms.at
        /\ ms'.stops = IF ms.recognizers = <<>> THEN ms.stops
                       ELSE ms.stops \cup {[todo |-> ms.recognizers, awaited |-> TRUE]}
    BY <1>2, <2>1, ClosingFields
  <2> QED
    BY <1>5, <2>2 DEF MicrosoftStreams
<1>7. ASSUME ProviderNext, asr'.paused = asr.paused, Ended' <=> Ended
      PROVE  /\ MicrosoftStreams' \subseteq Elements(ms'.recognizers) \cup BeingClosed'
             /\ asr'.paused \/ Ended' => ms'.recognizers = <<>>
  <2>0. MicrosoftNext
    BY <1>1, <1>7 DEF ProviderNext, Realtime
  <2>1. ASSUME NEW s \in ms.stops, ms'.recognizers = ms.recognizers,
               ms'.at = [ms.at EXCEPT ![Head(s.todo)] = "closed"],
               ms'.stops = (ms.stops \ {s})
                   \cup (IF Tail(s.todo) = <<>> THEN {} ELSE {[s EXCEPT !.todo = Tail(s.todo)]})
        PROVE  MicrosoftStreams' \subseteq Elements(ms'.recognizers) \cup BeingClosed'
    <3>1. s \in Stops /\ s.todo \in Seq(Recognizers) /\ s.todo # <<>>
      BY <1>2 DEF MicrosoftTranscribers, Stops, MicrosoftShape
    <3>2. \A r \in MicrosoftStreams' : r \in MicrosoftStreams /\ r # Head(s.todo)
      BY <1>2, <2>1 DEF MicrosoftStreams, MicrosoftTranscribers
    <3>3. \A r \in Elements(s.todo) : r = Head(s.todo) \/ r \in Elements(Tail(s.todo))
      <4> DEFINE q == s.todo
      <4>1. q \in Seq(Recognizers) /\ q # <<>>
        BY <3>1
      <4> HIDE DEF q
      <4>2. /\ Len(q) \in Nat /\ Head(q) = q[1] /\ Len(Tail(q)) = Len(q) - 1
            /\ \A i \in 1 .. Len(Tail(q)) : Tail(q)[i] = q[i + 1]
        BY <4>1
      <4>3. ASSUME NEW i \in 1 .. Len(q) PROVE i = 1 \/ (i - 1 \in 1 .. Len(Tail(q)) /\ Tail(q)[i - 1] = q[i])
        <5>1. i # 1 => i - 1 \in 1 .. Len(Tail(q)) /\ (i - 1) + 1 = i
          BY <4>2
        <5> QED
          BY <4>2, <5>1
      <4> QED
        BY <4>2, <4>3 DEF Elements, q
    <3>4. \A r \in BeingClosed : r = Head(s.todo) \/ r \in BeingClosed'
      <4>1. ASSUME NEW u \in ms.stops, NEW r \in Elements(u.todo), r # Head(s.todo) PROVE r \in BeingClosed'
        <5>1. CASE u # s
          BY <2>1, <4>1, <5>1 DEF BeingClosed
        <5>2. CASE u = s
          <6>1. r \in Elements(Tail(s.todo))
            BY <3>3, <4>1, <5>2
          <6>2. Tail(s.todo) # <<>>
            BY <6>1, NoElements
          <6>3. PICK v \in ms'.stops : v.todo = Tail(s.todo)
            BY <2>1, <3>1, <6>2 DEF Stops
          <6> QED
            BY <6>1, <6>3 DEF BeingClosed
        <5> QED
          BY <5>1, <5>2
      <4> QED
        BY <4>1 DEF BeingClosed
    <3> QED
      BY <1>2, <2>1, <3>2, <3>4
  <2>2. ASSUME \A r \in Recognizers : ms'.at[r] \in {"starting", "live"} => ms.at[r] \in {"starting", "live"}
        PROVE  MicrosoftStreams' \subseteq MicrosoftStreams
    BY <2>2 DEF MicrosoftStreams
  <2>3. CASE /\ ms'.recognizers = ms.recognizers /\ ms'.stops = ms.stops
             /\ MicrosoftStreams' \subseteq MicrosoftStreams
    BY <1>2, <1>3, <1>7, <2>3
  <2>4. CASE /\ ms.recognizers # <<>> /\ ms'.recognizers = <<>>
             /\ ms'.stops = ms.stops \cup {[todo |-> ms.recognizers, awaited |-> FALSE]}
             /\ MicrosoftStreams' \subseteq MicrosoftStreams
    BY <1>5, <2>4
  <2>5. CASE /\ ms.recognizers = <<>> /\ ms'.recognizers = <<>> /\ ms'.stops = ms.stops
             /\ MicrosoftStreams' \subseteq MicrosoftStreams
    BY <1>5, <2>5
  <2>6. CASE \E s \in ms.stops :
                 /\ ms'.recognizers = ms.recognizers
                 /\ ms'.at = [ms.at EXCEPT ![Head(s.todo)] = "closed"]
                 /\ ms'.stops = (ms.stops \ {s})
                        \cup (IF Tail(s.todo) = <<>> THEN {} ELSE {[s EXCEPT !.todo = Tail(s.todo)]})
    BY <1>2, <1>7, <2>1, <2>6
  <2> QED
    BY <2>0, <2>2, <2>3, <2>4, <2>5, <2>6, MicrosoftEvents
<1>8. ASSUME UNCHANGED ms PROVE MicrosoftStreams' = MicrosoftStreams /\ BeingClosed' = BeingClosed
  BY <1>8 DEF MicrosoftStreams, BeingClosed
<1>9. ASSUME NEW a, NEW packets, ProviderTranscribe(a, packets) PROVE UNCHANGED ms
  BY <1>1, <1>9 DEF ProviderTranscribe, MicrosoftTranscribe, Realtime
<1>10. UNCHANGED provider => UNCHANGED ms
  BY DEF provider
<1> QED
  BY <1>1, <1>2, <1>4, <1>6, <1>7, <1>8, <1>9, <1>10, ControlSteps

MayOpen(r, s) == r.at[s] \in {"connecting", "open"}

LEMMA StoppingFields ==
    ASSUME NEW r \in RealtimeTranscribers
    PROVE  /\ Stopping(r).ws = 0 /\ Stopping(r).watchdog = 0 /\ ~Stopping(r).timer
           /\ Stopping(r).retries = r.retries
           /\ \A s \in Sockets : MayOpen(Stopping(r), s) => MayOpen(r, s) /\ s # r.ws
BY DEF Stopping, MayOpen, RealtimeTranscribers

\* What matters of a step of the WebSocket providers: the socket is kept, ...
SocketKept ==
    /\ rt'.ws = rt.ws /\ rt'.timer = rt.timer
    /\ rt'.watchdog \in {rt.watchdog, 0} \/ (rt.ws # 0 /\ rt'.watchdog = rt.ws)
    /\ \A s \in Sockets : MayOpen(rt', s) => MayOpen(rt, s)

\* ... given up, ...
SocketGiven ==
    /\ rt'.ws = 0 /\ rt'.watchdog = 0
    /\ \A s \in Sockets : MayOpen(rt', s) => MayOpen(rt, s) /\ s # rt.ws

\* ... or opened.
SocketOpened ==
    /\ rt'.ws = starts' /\ rt'.watchdog = rt.watchdog
    /\ \A s \in Sockets : MayOpen(rt', s) => MayOpen(rt, s) \/ s = starts'

LEMMA ArmKeeps ==
    ASSUME NEW a, NEW r \in RealtimeTranscribers, MakeReady(a, r) \/ (CanArm(r) /\ Arm(a, r))
    PROVE  /\ rt'.ws = r.ws /\ rt'.timer = r.timer /\ rt'.at = r.at
           /\ rt'.watchdog = r.watchdog \/ (r.ws # 0 /\ rt'.watchdog = r.ws)
BY DEF MakeReady, Arm, CanArm, IsOpen, RealtimeTranscribers

LEMMA RealtimeStarts ==
    ASSUME NEW a, NEW r \in RealtimeTranscribers, r.at = rt.at, r.watchdog = rt.watchdog,
           RealtimeStart(a, r), starts \in 0 .. MaxStarts
    PROVE  SocketOpened /\ rt'.timer = r.timer
<1>1. starts' \in Sockets
  BY LimitsAreNats DEF RealtimeStart, NextStart, Sockets
<1> QED
  BY <1>1 DEF RealtimeStart, RealtimeTranscribers, SocketOpened, MayOpen

LEMMA RealtimeEvents ==
    ASSUME TypeOK, RealtimeNext
    PROVE  SocketKept \/ (rt.ws # 0 /\ SocketGiven) \/ (rt.timer /\ ~rt'.timer /\ SocketOpened)
<1>0. rt \in RealtimeTranscribers /\ \A s \in Sockets : s # 0
  BY DEF TypeOK, Sockets
<1>1. ASSUME NEW s \in Sockets, SocketOpen(s) PROVE SocketKept
  <2>1. rt.at[s] = "connecting" /\ \E b \in BOOLEAN : rt' = [rt EXCEPT !.at[s] = "open", !.thrown = b]
    BY <1>0, <1>1 DEF SocketOpen, RealtimeTranscribers
  <2> QED
    BY <1>0, <2>1 DEF SocketKept, MayOpen, RealtimeTranscribers
<1>2. ASSUME NEW s \in Sockets, SessionCreated(s) PROVE SocketKept
  <2> DEFINE r == [rt EXCEPT !.created = @ \cup {s}]
             u == [r EXCEPT !.updateSent = TRUE]
             v == [r EXCEPT !.thrown = TRUE]
  <2>1. \A x \in {u, v} : /\ x \in RealtimeTranscribers /\ x.ws = rt.ws /\ x.timer = rt.timer /\ x.at = rt.at
                          /\ x.watchdog = rt.watchdog
    <3>1. r \in RealtimeTranscribers /\ r.ws = rt.ws /\ r.timer = rt.timer /\ r.at = rt.at
          /\ r.watchdog = rt.watchdog
      BY <1>0 DEF RealtimeTranscribers
    <3> HIDE DEF r
    <3> QED
      BY <3>1 DEF RealtimeTranscribers
  <2>2. rt' = v \/ rt' = u \/ MakeReady(asr, u) \/ (CanArm(u) /\ Arm(asr, u))
    BY <1>2 DEF SessionCreated
  <2> HIDE DEF u, v
  <2> QED
    BY <2>1, <2>2, ArmKeeps DEF SocketKept, MayOpen
<1>3. ASSUME NEW s \in Sockets, DeltaMessage(s) \/ FinalMessage(s) \/ ErrorMessage(s) PROVE SocketKept
  BY <1>0, <1>3 DEF DeltaMessage, FinalMessage, ErrorMessage, Evidence, SocketKept, MayOpen, RealtimeTranscribers
<1>4. ASSUME NEW s \in Sockets, SocketError(s) PROVE SocketKept \/ (rt.ws # 0 /\ SocketGiven)
  <2> DEFINE r == [rt EXCEPT !.at[s] = "closed"]
  <2>1. /\ r \in RealtimeTranscribers /\ r.ws = rt.ws /\ r.timer = rt.timer /\ r.watchdog = rt.watchdog
        /\ \A q \in Sockets : MayOpen(r, q) => MayOpen(rt, q)
    BY <1>0 DEF RealtimeTranscribers, MayOpen
  <2>2. CASE s # rt.ws
    <3>1. rt' = r
      BY <1>4, <2>2 DEF SocketError
    <3> HIDE DEF r
    <3> QED
      BY <2>1, <3>1 DEF SocketKept
  <2>3. CASE s = rt.ws
    <3>1. PICK critical \in BOOLEAN : rt' = [Stopping(r) EXCEPT !.timer = ~critical]
      BY <1>4, <2>3 DEF SocketError
    <3> HIDE DEF r
    <3>2. rt'.ws = Stopping(r).ws /\ rt'.watchdog = Stopping(r).watchdog /\ rt'.at = Stopping(r).at
      BY <2>1, <3>1, StoppingOK DEF RealtimeTranscribers
    <3>3. \A q \in Sockets : MayOpen(rt', q) => MayOpen(Stopping(r), q)
      BY <3>2 DEF MayOpen
    <3> QED
      BY <1>0, <2>1, <2>3, <3>2, <3>3, StoppingFields DEF SocketGiven
  <2> QED
    BY <2>2, <2>3
<1>5. ASSUME NEW s \in Sockets, SocketClose(s) PROVE SocketKept
  BY <1>0, <1>5 DEF SocketClose, SocketKept, MayOpen, RealtimeTranscribers
<1>6. CASE SegmentationTick
  BY <1>0, <1>6 DEF SegmentationTick, SocketKept, MayOpen, RealtimeTranscribers
<1>7. CASE WatchdogTimeout
  <2>1. CASE rt.watchdog # rt.ws
    BY <1>0, <1>7, <2>1 DEF WatchdogTimeout, SocketKept, MayOpen, RealtimeTranscribers
  <2>2. CASE rt.watchdog = rt.ws
    <3>1. rt.ws # 0 /\ \E n : rt' = [Stopping(rt) EXCEPT !.timer = TRUE, !.retries = n]
      BY <1>7, <2>2 DEF WatchdogTimeout
    <3>2. rt'.ws = Stopping(rt).ws /\ rt'.watchdog = Stopping(rt).watchdog /\ rt'.at = Stopping(rt).at
      BY <1>0, <3>1, StoppingOK DEF RealtimeTranscribers
    <3>3. \A q \in Sockets : MayOpen(rt', q) => MayOpen(Stopping(rt), q)
      BY <3>2 DEF MayOpen
    <3> QED
      BY <1>0, <3>1, <3>2, <3>3, StoppingFields DEF SocketGiven
  <2> QED
    BY <2>1, <2>2
<1>8. CASE Reconnect
  <2> DEFINE r == [rt EXCEPT !.timer = FALSE]
  <2>1. r \in RealtimeTranscribers /\ r.at = rt.at /\ r.watchdog = rt.watchdog /\ ~r.timer
    BY <1>0 DEF RealtimeTranscribers
  <2>2. rt.timer /\ RealtimeStart(asr, r)
    BY <1>8 DEF Reconnect
  <2> HIDE DEF r
  <2>3. SocketOpened /\ rt'.timer = r.timer
    BY <2>1, <2>2, RealtimeStarts DEF TypeOK
  <2> QED
    BY <2>1, <2>2, <2>3
<1> QED
  BY <1>1, <1>2, <1>3, <1>4, <1>5, <1>6, <1>7, <1>8 DEF RealtimeNext

LEMMA RealtimeStep ==
    ASSUME TypeOK, MicrosoftShape, ChainInv, RealtimeInv, [Next]_vars PROVE RealtimeInv'
<1>0. kind' = kind /\ (Realtime' <=> Realtime)
  BY ProviderChanges DEF Realtime
<1>1. CASE ~Realtime
  <2>1. rt' = rt
    BY <1>1, ProviderChanges DEF provider, ProviderStart, ProviderStop, ProviderTranscribe, ProviderNext
  <2> QED
    BY <1>0, <1>1, <2>1 DEF RealtimeInv
<1>2. SUFFICES ASSUME Realtime, ~skipped'
      PROVE  /\ RealtimeStreams' \subseteq {rt'.ws}
             /\ rt'.timer => rt'.ws = 0
             /\ asr'.paused \/ Ended' => rt'.ws = 0 /\ ~rt'.timer /\ rt'.watchdog = 0
  BY <1>0, <1>1 DEF RealtimeInv
<1>3. kind # "none" /\ kind # "amazon" /\ kind # "microsoft" /\ rt \in RealtimeTranscribers
  BY <1>2 DEF Realtime, TypeOK
<1>4. /\ ~skipped
      /\ \A s \in Sockets : MayOpen(rt, s) => s = rt.ws
      /\ rt.timer => rt.ws = 0
      /\ asr.paused \/ Ended => rt.ws = 0 /\ ~rt.timer /\ rt.watchdog = 0
      /\ \A s \in Sockets : s # 0
  BY <1>2, <1>3, ControlSteps DEF RealtimeInv, RealtimeStreams, MayOpen, Sockets
<1>5. SUFFICES /\ \A s \in Sockets : MayOpen(rt', s) => s = rt'.ws
               /\ rt'.timer => rt'.ws = 0
               /\ asr'.paused \/ Ended' => rt'.ws = 0 /\ ~rt'.timer /\ rt'.watchdog = 0
  BY DEF RealtimeStreams, MayOpen
<1>6. ASSUME NEW a \in Asrs, ProviderStart(a), asr.paused \/ Unstarted, ~asr'.paused, ~Ended'
      PROVE  <1>5!1
  <2>1. RealtimeStart(a, rt)
    BY <1>3, <1>6 DEF ProviderStart
  <2>2. rt.ws = 0 /\ ~rt.timer
    BY <1>4, <1>6 DEF Unstarted, NewRealtime
  <2>3. SocketOpened /\ rt'.timer = rt.timer
    BY <1>3, <2>1, RealtimeStarts DEF TypeOK
  <2> QED
    BY <1>4, <1>6, <2>2, <2>3 DEF SocketOpened
<1>7. ASSUME NEW a \in Asrs, ProviderStop(a) PROVE <1>5!1
  <2>1. rt' = Stopping(rt)
    BY <1>3, <1>7 DEF ProviderStop, RealtimeStop
  <2> QED
    BY <1>3, <1>4, <2>1, StoppingFields
<1>8. ASSUME SocketKept, asr'.paused = asr.paused, Ended' <=> Ended PROVE <1>5!1
  BY <1>4, <1>8 DEF SocketKept
<1>9. ASSUME ProviderNext, asr'.paused = asr.paused, Ended' <=> Ended PROVE <1>5!1
  <2>1. RealtimeNext
    BY <1>3, <1>9 DEF ProviderNext
  <2>2. CASE SocketKept
    BY <1>8, <1>9, <2>2
  <2>3. CASE rt.ws # 0 /\ SocketGiven
    BY <1>4, <1>9, <2>3 DEF SocketGiven
  <2>4. CASE rt.timer /\ ~rt'.timer /\ SocketOpened
    BY <1>4, <1>9, <2>4 DEF SocketOpened
  <2> QED
    BY <2>1, <2>2, <2>3, <2>4, RealtimeEvents
<1>10. ASSUME NEW a, NEW packets, ProviderTranscribe(a, packets) PROVE SocketKept
  <2> DEFINE r == PreArm(rt, packets)
  <2>1. r.ws = rt.ws /\ r.timer = rt.timer /\ r.at = rt.at /\ r.watchdog = rt.watchdog
    BY <1>3 DEF PreArm, RealtimeTranscribers
  <2>2. rt' = rt \/ rt' = r \/ (CanArm(r) /\ Arm(a, r))
    BY <1>3, <1>10 DEF ProviderTranscribe, RealtimeTranscribe
  <2>3. PICK X : r = [rt EXCEPT !.preArm = X]
    BY DEF PreArm
  <2> HIDE DEF r
  <2>4. ASSUME CanArm(r), Arm(a, r) PROVE SocketKept
    <3>1. rt' = [[r EXCEPT !.armed = TRUE, !.ticking = TRUE, !.watchdog = r.ws]
                     EXCEPT !.ready = TRUE, !.preArm = <<>>]
      BY <2>4 DEF Arm, MakeReady
    <3>2. rt'.ws = rt.ws /\ rt'.timer = rt.timer /\ rt'.at = rt.at /\ rt'.watchdog = rt.ws
      BY <1>3, <2>3, <3>1 DEF RealtimeTranscribers
    <3>3. rt.ws # 0
      BY <2>1, <2>4 DEF CanArm, IsOpen
    <3> QED
      BY <3>2, <3>3 DEF SocketKept, MayOpen
  <2>5. CASE rt' = rt \/ rt' = r
    BY <2>1, <2>5 DEF SocketKept, MayOpen
  <2> QED
    BY <2>2, <2>4, <2>5
<1>11. ASSUME UNCHANGED provider PROVE SocketKept
  BY <1>11 DEF provider, SocketKept
<1>12. CASE /\ UNCHANGED provider
            /\ (asr'.paused => asr.paused) /\ (Ended' => Ended)
  <2>1. rt' = rt
    BY <1>12 DEF provider
  <2> QED
    BY <1>4, <1>12, <2>1
<1> QED
  BY <1>2, <1>3, <1>6, <1>7, <1>8, <1>9, <1>10, <1>12, ControlSteps

-----------------------------------------------------------------------------
(* The theorems *)

LEMMA InitInv == Init => IInv
<1> SUFFICES ASSUME Init PROVE IInv
  OBVIOUS
<1>1. <<"init">> \in Seq(Transitions) /\ Len(<<"init">>) = 1 /\ <<"init">>[1] = "init"
      /\ <<"init">> # <<>> /\ Head(<<"init">>) = "init" /\ <<>> \in Seq(Nat)
      /\ <<>> \in Seq([packet : Nat, chunk : Nat]) /\ <<>> \in Seq(Recognizers)
  BY DEF Transitions
<1>2. PICK dual \in BOOLEAN : ms = NewMicrosoft(dual)
  BY DEF Init
<1>3. asr \in Asrs
  <2>1. [slots |-> [i \in 1 .. MaxBuffer |-> 0], pointer |-> 0] \in CircularBuffers
    BY AsrLimits DEF CircularBuffers
  <2> QED
    BY <1>1, <2>1 DEF Init, NewAsr, Asrs, States, NoCaption, Captions
<1>4. amz \in Transcribers
  BY <1>1 DEF Init, NewAmazon, Transcribers
<1>5. ms \in MicrosoftTranscribers
  BY <1>1, <1>2, LimitsAreNats DEF NewMicrosoft, MicrosoftTranscribers
<1>6. rt \in RealtimeTranscribers
  BY <1>1, LimitsAreNats DEF Init, NewRealtime, RealtimeTranscribers
<1>7. TypeOK
  <2>1. sent \in Transmissions /\ 0 \in 0 .. MaxStarts /\ 0 \in 0 .. MaxResults /\ 0 \in 0 .. MaxFaults
        /\ 0 \in 0 .. MaxAudio /\ 0 \in 0 .. MaxSnapshots
    BY LimitsAreNats DEF Init, Transmissions
  <2>2. chain \in Seq({"init", "pause", "resume", "flush"})
    BY <1>1 DEF Init, Transitions
  <2> QED
    BY <1>3, <1>4, <1>5, <1>6, <2>1, <2>2 DEF Init, TypeOK
<1>8. MicrosoftShape
  BY <1>2 DEF Init, NewMicrosoft, MicrosoftShape
<1>9. Unstarted /\ ~Flushing /\ ~Ended /\ ~asr.paused
  BY <1>2 DEF Init, Unstarted, Flushing, Ended, NewAsr
<1>10. ChainInv
  <2>1. chain = <<"init">> /\ step = "queued" /\ teardown = "live" /\ ~asr.flushed
    BY DEF Init, NewAsr
  <2>2. \A i \in 1 .. Len(chain) : i = 1 /\ chain[i] = "init"
    BY <1>1, <2>1
  <2>3. ChainOrder
    BY <1>1, <2>1, <2>2 DEF ChainOrder
  <2>4. ChainFlags
    BY <1>9, <2>1 DEF ChainFlags, Runs
  <2> QED
    BY <2>3, <2>4 DEF ChainInv
<1>11. PauseInv
  BY <1>1, <1>9 DEF Init, PauseInv
<1>12. CaptionInv
  BY DEF Init, NewAsr, NoCaption, CaptionInv, Pinned
<1>13. AmazonTasks /\ AmazonControl
  BY <1>9 DEF Init, NewAmazon, AmazonTasks, AmazonControl, AmazonRests
<1>14. AmazonInv
  BY <1>13 DEF Init, AmazonInv
<1>15. MicrosoftInv
  BY <1>2, <1>9 DEF NewMicrosoft, MicrosoftInv, MicrosoftStreams
<1>16. RealtimeInv
  BY <1>9 DEF Init, NewRealtime, RealtimeInv, RealtimeStreams
<1> QED
  BY <1>7, <1>8, <1>10, <1>11, <1>12, <1>14, <1>15, <1>16 DEF IInv

LEMMA InvStep == IInv /\ [Next]_vars => IInv'
BY TypeStep, MicrosoftShapeStep, ChainStep, PauseStep, CaptionStep, AmazonStep, MicrosoftStep, RealtimeStep
   DEF IInv

LEMMA Invariant == Spec => []IInv
BY InitInv, InvStep, PTL DEF Spec

\* The types of AsrLifecycle and of the transcribers of the providers.
THEOREM TypeCorrect == Spec => []TypeOK
BY Invariant, PTL DEF IInv

\* handleSessions, pause() and resume(): whatever snapshots come while the transitions of
\* the ASR await each other, it ends up paused exactly when its session is.
THEOREM PauseIsFollowed == Spec => []PauseFollowed
<1>1. IInv => PauseFollowed
  BY DEF IInv, PauseInv, PauseFollowed
<1> QED
  BY <1>1, Invariant, PTL

\* _segmentIdFor: whatever captions, errors and transitions come in between, a secondary
\* caption goes to the segment of the latest primary one.
THEOREM SecondaryIsPinned == Spec => []SecondaryPinned
<1>1. IInv => SecondaryPinned
  BY DEF IInv, CaptionInv, Pinned, SecondaryPinned
<1> QED
  BY <1>1, Invariant, PTL

\* The epochs of the Amazon and Microsoft providers: nothing is published from a
\* connection of an earlier start, however many starts and stops cross each other.
THEOREM CaptionsAreFresh == Spec => []NoPhantomCaption
<1>1. IInv => NoPhantomCaption
  BY DEF IInv, CaptionInv, NoPhantomCaption
<1> QED
  BY <1>1, Invariant, PTL

\* _isStaleReconnect and the takeover of the recognizers and sockets: the provider
\* holds every connection that is open, or is closing it.
THEOREM NothingEscapes == Spec => []NoZombie
<1>1. ASSUME IInv, ~skipped PROVE Streams \subseteq InHand
  <2>1. CASE kind = "amazon"
    <3>1. AmazonStreams \subseteq {amz.client}
      BY <1>1, <2>1 DEF IInv, AmazonInv, AmazonTasks, AmazonStreams, Connected
    <3> QED
      BY <2>1, <3>1 DEF Streams, InHand
  <2>2. CASE kind = "microsoft"
    BY <1>1, <2>2 DEF IInv, MicrosoftInv, Streams, InHand
  <2>3. CASE kind \notin {"amazon", "microsoft"}
    <3>1. RealtimeStreams \subseteq {rt.ws}
      BY <1>1, <2>3 DEF IInv, RealtimeInv, RealtimeStreams, NewRealtime
    <3> QED
      BY <2>3, <3>1 DEF Streams, InHand
  <2> QED
    BY <2>1, <2>2, <2>3
<1>2. IInv => NoZombie
  BY <1>1 DEF NoZombie
<1> QED
  BY <1>2, Invariant, PTL

\* pause() and dispose(): once the ASR is paused, or disposed, nothing is connected
\* that is not being closed, and nothing will connect by itself.
THEOREM StopIsQuiet == Spec => []StoppedIsQuiet
<1>1. ASSUME IInv, ~skipped, (asr.paused /\ chain = <<>>) \/ (teardown = "disposed" /\ ~amz.stop)
      PROVE  Streams \subseteq BeingClosed /\ Quiet
  <2>1. TypeOK /\ step # "stop"
    BY <1>1 DEF IInv, ChainInv, ChainOrder
  <2>2. asr.paused \/ Ended
    BY <1>1 DEF Ended
  <2>3. CASE kind = "amazon"
    <3>1. AmazonTasks /\ AmazonControl /\ rt = NewRealtime
      BY <1>1, <2>3 DEF IInv, AmazonInv, RealtimeInv, Realtime
    <3>2. \A t \in amz.tasks : ~Connected(t) /\ IsStaleReconnect(t.epoch)
      <4>1. CASE asr.paused /\ chain = <<>>
        BY <2>1, <3>1, <4>1 DEF AmazonControl, AmazonRests, IsStaleReconnect, Current
      <4>2. CASE teardown = "disposed" /\ ~amz.stop
        BY <3>1, <4>2 DEF AmazonControl, AmazonTasks, Ended, IsStaleReconnect
      <4> QED
        BY <1>1, <4>1, <4>2
    <3>3. AmazonStreams = {}
      BY <3>2 DEF AmazonStreams, Connected
    <3> QED
      BY <2>3, <3>1, <3>2, <3>3 DEF Streams, Quiet, NewRealtime
  <2>4. CASE kind # "amazon"
    <3>1. amz.tasks = {}
      BY <1>1, <2>4 DEF IInv, AmazonInv, NewAmazon
    <3>2. CASE kind = "microsoft"
      <4>1. rt = NewRealtime /\ MicrosoftStreams \subseteq BeingClosed
        BY <1>1, <2>2, <3>2, NoElements DEF IInv, RealtimeInv, Realtime, MicrosoftInv
      <4> QED
        BY <3>1, <3>2, <4>1 DEF Streams, Quiet, NewRealtime
    <3>3. CASE kind # "microsoft"
      <4>1. ~rt.timer /\ rt.watchdog = 0 /\ RealtimeStreams = {}
        <5>1. CASE Realtime
          BY <1>1, <2>2, <5>1 DEF IInv, RealtimeInv, RealtimeStreams, Sockets
        <5>2. CASE ~Realtime
          BY <1>1, <5>2 DEF IInv, RealtimeInv, NewRealtime, RealtimeStreams
        <5> QED
          BY <5>1, <5>2
      <4> QED
        BY <2>4, <3>1, <3>3, <4>1 DEF Streams, Quiet
    <3> QED
      BY <3>2, <3>3
  <2> QED
    BY <2>3, <2>4
<1>2. IInv => StoppedIsQuiet
  BY <1>1 DEF StoppedIsQuiet
<1> QED
  BY <1>2, Invariant, PTL

=============================================================================
