----------------------- MODULE TranscriberStreamProofs ------------------------
(***************************************************************************)
(* The link between a bot and its Transcriber hands the audio over in      *)
(* order and opens no socket after a stop, for any number of sockets, any  *)
(* buffer, any number of retries and of frames.                            *)
(***************************************************************************)
EXTENDS TranscriberStream, SequenceTheorems, TLAPS

LinkInv == TypeOK /\ CountersAgree /\ InOrder /\ BufferFollows

\* TypeOK and CountersAgree by groups of variables.
SocketType ==
    /\ ws \in [Sockets -> {"connecting", "open", "closing", "ending", "closed"}]
    /\ current \in Sockets
    /\ ready \subseteq Sockets
    /\ ackTimer \subseteq Sockets

RetryType ==
    /\ attempts \in 0 .. MaxRetries
    /\ timers \in Nat
    /\ tracked \in BOOLEAN
    /\ tracked => timers > 0
    /\ degraded \in BOOLEAN
    /\ stopping \in BOOLEAN

AudioType ==
    /\ buffered \in Seq(1 .. MaxFrames)
    /\ Len(buffered) <= MaxBuffer
    /\ sent \in Seq(1 .. MaxFrames)
    /\ droppedFrames \in 0 .. MaxFrames
    /\ frames \in 0 .. MaxFrames
    /\ droppedFrames <= frames

LinkType == SocketType /\ RetryType /\ AudioType

-----------------------------------------------------------------------------
(* Types *)

\* The groups say what TypeOK and CountersAgree say.
LEMMA TypeGroups == LinkType <=> TypeOK /\ CountersAgree
BY DEF LinkType, SocketType, RetryType, AudioType, TypeOK, CountersAgree

\* One frame more in the shared buffer (_sendAudio before the ack): the buffer stays
\* within its limit and the count of dropped frames within the frames.
LEMMA BufferType ==
    ASSUME AudioType, NEW f \in 1 .. MaxFrames, Buffer(f),
           frames < MaxFrames, frames' = frames + 1
    PROVE  /\ buffered' \in Seq(1 .. MaxFrames) /\ Len(buffered') <= MaxBuffer
           /\ droppedFrames' \in 0 .. MaxFrames /\ droppedFrames' <= frames'
<1>0. MaxFrames \in Nat /\ MaxBuffer \in Nat /\ MaxBuffer > 0 /\ Len(buffered) \in Nat
  BY LimitsAssumption DEF AudioType
<1>1. CASE Len(buffered) >= MaxBuffer
  <2>1. buffered # <<>>
    BY <1>0, <1>1 DEF AudioType
  <2>2. Tail(buffered) \in Seq(1 .. MaxFrames) /\ Len(Tail(buffered)) = Len(buffered) - 1
    BY <2>1 DEF AudioType
  <2>3. buffered' = Append(Tail(buffered), f) /\ droppedFrames' = droppedFrames + 1
    BY <1>1 DEF Buffer
  <2>4. buffered' \in Seq(1 .. MaxFrames) /\ Len(buffered') = Len(buffered)
    BY <1>0, <2>2, <2>3
  <2>5. QED
    BY <1>0, <2>3, <2>4 DEF AudioType
<1>2. CASE ~(Len(buffered) >= MaxBuffer)
  <2>1. buffered' = Append(buffered, f) /\ droppedFrames' = droppedFrames
    BY <1>2 DEF Buffer
  <2>2. buffered' \in Seq(1 .. MaxFrames) /\ Len(buffered') = Len(buffered) + 1
    BY <2>1 DEF AudioType
  <2>3. QED
    BY <1>0, <1>2, <2>1, <2>2 DEF AudioType
<1>3. QED
  BY <1>1, <1>2

\* A frame of the bot, or the flush on an ack.
LEMMA AudioTypeStep ==
    ASSUME AudioType, Audio \/ \E s \in Sockets : Ack(s)
    PROVE  AudioType'
<1>1. CASE Audio
  <2>1. frames' \in 0 .. MaxFrames /\ frames' = frames + 1 /\ frames < MaxFrames
    BY <1>1, LimitsAssumption DEF Audio, AudioType
  <2>2. frames + 1 \in 1 .. MaxFrames
    BY <2>1, LimitsAssumption DEF AudioType
  <2>3. CASE current \in ready
    <3>1. sent' = sent \/ sent' = Append(sent, frames + 1)
      BY <1>1, <2>3 DEF Audio
    <3>2. sent' \in Seq(1 .. MaxFrames)
      <4>1. sent \in Seq(1 .. MaxFrames)
        BY DEF AudioType
      <4>2. Append(sent, frames + 1) \in Seq(1 .. MaxFrames)
        BY <2>2, <4>1, AppendProperties
      <4>3. QED
        BY <3>1, <4>1, <4>2
    <3>3. UNCHANGED <<buffered, droppedFrames>>
      BY <1>1, <2>3 DEF Audio
    <3>4. QED
      BY <2>1, <3>2, <3>3, LimitsAssumption DEF AudioType
  <2>4. CASE current \notin ready
    <3>1. Buffer(frames + 1) /\ sent' = sent
      BY <1>1, <2>4 DEF Audio
    <3>2. /\ buffered' \in Seq(1 .. MaxFrames) /\ Len(buffered') <= MaxBuffer
          /\ droppedFrames' \in 0 .. MaxFrames /\ droppedFrames' <= frames'
      BY <2>1, <2>2, <3>1, BufferType
    <3>3. QED
      BY <2>1, <3>1, <3>2 DEF AudioType
  <2>5. QED
    BY <2>3, <2>4
<1>2. ASSUME NEW s \in Sockets, Ack(s) PROVE AudioType'
  <2>1. /\ buffered' = <<>> /\ frames' = frames /\ droppedFrames' = droppedFrames
        /\ sent' = sent \/ sent' = sent \o buffered
    BY <1>2 DEF Ack, Flush
  <2>2. sent' \in Seq(1 .. MaxFrames)
    <3>1. sent \in Seq(1 .. MaxFrames) /\ buffered \in Seq(1 .. MaxFrames)
      BY DEF AudioType
    <3>2. QED
      BY <2>1, <3>1, ConcatProperties
  <2>3. buffered' \in Seq(1 .. MaxFrames) /\ Len(buffered') = 0
    BY <2>1
  <2>4. QED
    BY <2>1, <2>2, <2>3, LimitsAssumption DEF AudioType
<1>3. QED
  BY <1>1, <1>2

\* stopBot clears a timer only if there is one.
LEMMA ClearTimerType ==
    ASSUME RetryType, ClearTimer
    PROVE  timers' \in Nat /\ tracked' \in BOOLEAN /\ ~tracked'
<1>1. ~tracked' /\ tracked' \in BOOLEAN
  BY Zenon DEF ClearTimer
<1>2. CASE tracked
  <2>1. timers \in Nat /\ timers > 0 /\ timers' = timers - 1
    BY <1>2 DEF ClearTimer, RetryType
  <2>2. QED
    BY <1>1, <2>1
<1>3. CASE ~tracked
  <2>1. timers \in Nat /\ timers' = timers
    BY <1>3 DEF ClearTimer, RetryType
  <2>2. QED
    BY <1>1, <2>1
<1>4. QED
  BY <1>2, <1>3

\* Every event of the link preserves the types and the agreement of the counters
\* (record.reconnectTimer, droppedFrames).
LEMMA TypeStep ==
    ASSUME LinkType, [Next]_vars
    PROVE  LinkType'
<1> USE DEF LinkType
<1>1. ASSUME UNCHANGED audio PROVE AudioType'
  BY <1>1 DEF audio, AudioType
<1>2. ASSUME UNCHANGED <<retry, degraded, stopping>> PROVE RetryType'
  BY <1>2 DEF retry, RetryType
<1>3. ASSUME UNCHANGED sockets PROVE SocketType'
  BY <1>3 DEF sockets, SocketType
<1>4. CASE Audio
  BY <1>2, <1>3, <1>4, AudioTypeStep DEF Audio
<1>5. CASE Stop
  <2>1. SocketType'
    BY <1>5 DEF Stop, Closing, SocketType
  <2>2. RetryType'
    <3>1. timers' \in Nat /\ tracked' \in BOOLEAN /\ ~tracked'
      BY <1>5, ClearTimerType DEF Stop
    <3>2. stopping' \in BOOLEAN
      BY <1>5, Zenon DEF Stop
    <3>3. QED
      BY <1>5, <3>1, <3>2 DEF Stop, RetryType
  <2>3. QED
    BY <1>1, <1>5, <2>1, <2>2 DEF Stop
<1>6. ASSUME NEW s \in Sockets, SocketOpen(s) PROVE LinkType'
  <2>1. SocketType'
    BY <1>6 DEF SocketOpen, SocketType
  <2>2. RetryType'
    BY <1>6, LimitsAssumption DEF SocketOpen, RetryType
  <2>3. QED
    BY <1>1, <1>6, <2>1, <2>2 DEF SocketOpen
<1>7. ASSUME NEW s \in Sockets, SocketRefused(s) \/ SocketLost(s) PROVE LinkType'
  <2>1. SocketType'
    BY <1>7 DEF SocketRefused, SocketLost, SocketType
  <2>2. QED
    BY <1>1, <1>2, <1>7, <2>1 DEF SocketRefused, SocketLost
<1>8. ASSUME NEW s \in Sockets, SocketClosed(s) PROVE LinkType'
  <2>1. SocketType'
    BY <1>8 DEF SocketClosed, SocketType
  <2>2. degraded' = degraded /\ UNCHANGED audio
    BY <1>8 DEF SocketClosed
  <2>5. RetryType'
    <3>1. CASE s = current /\ ~stopping
      <4>1. ScheduleReconnect
        BY <1>8, <3>1 DEF SocketClosed
      <4>2. CASE attempts >= MaxRetries
        <5>1. timers' \in Nat /\ tracked' \in BOOLEAN /\ ~tracked'
          BY <4>1, <4>2, ClearTimerType DEF ScheduleReconnect
        <5>2. stopping' \in BOOLEAN
          BY <4>1, <4>2, Zenon DEF ScheduleReconnect
        <5>3. QED
          BY <2>2, <4>1, <4>2, <5>1, <5>2 DEF ScheduleReconnect, RetryType
      <4>3. CASE ~(attempts >= MaxRetries)
        <5>1. timers' = timers + 1 /\ attempts' = attempts + 1 /\ stopping' = stopping
          BY <4>1, <4>3 DEF ScheduleReconnect
        <5>2. tracked' \in BOOLEAN
          BY <4>1, <4>3, Zenon DEF ScheduleReconnect
        <5>3. timers' \in Nat /\ timers' > 0 /\ attempts' \in 0 .. MaxRetries
          BY <4>3, <5>1, LimitsAssumption DEF RetryType
        <5>4. QED
          BY <2>2, <5>1, <5>2, <5>3 DEF RetryType
      <4>4. QED
        BY <4>2, <4>3
    <3>2. CASE ~(s = current /\ ~stopping)
      BY <1>2, <1>8, <2>2, <3>2 DEF SocketClosed
    <3>3. QED
      BY <3>1, <3>2
  <2>6. QED
    BY <1>1, <2>1, <2>2, <2>5
<1>9. ASSUME NEW s \in Sockets, Ack(s) PROVE LinkType'
  <2>1. SocketType'
    BY <1>9 DEF Ack, SocketType
  <2>2. QED
    BY <1>2, <1>9, <2>1, AudioTypeStep DEF Ack
<1>10. ASSUME NEW s \in Sockets, AckTimeout(s) PROVE LinkType'
  <2>1. SocketType'
    BY <1>10 DEF AckTimeout, Closing, SocketType
  <2>2. QED
    BY <1>1, <1>2, <1>10, <2>1 DEF AckTimeout
<1>11. ASSUME NEW s \in Sockets, ReconnectTimer(s) PROVE LinkType'
  <2>1. SocketType'
    BY <1>3, <1>11 DEF ReconnectTimer, OpenSocket, SocketType
  <2>2. RetryType'
    <3>1. ~tracked' /\ tracked' \in BOOLEAN
      BY <1>11, Zenon DEF ReconnectTimer
    <3>2. timers' \in Nat
      BY <1>11 DEF ReconnectTimer, RetryType
    <3>3. QED
      BY <1>11, <3>1, <3>2 DEF ReconnectTimer, RetryType
  <2>3. QED
    BY <1>1, <1>11, <2>1, <2>2 DEF ReconnectTimer
<1>12. ASSUME NEW s \in Sockets, DiarizationDegraded(s) PROVE LinkType'
  <2>1. SocketType'
    BY <1>12 DEF DiarizationDegraded, OpenSocket, Closing, SocketType
  <2>2. RetryType'
    BY <1>12 DEF DiarizationDegraded, retry, RetryType
  <2>3. QED
    BY <1>1, <1>12, <2>1, <2>2 DEF DiarizationDegraded
<1>13. CASE UNCHANGED vars
  BY <1>1, <1>2, <1>3, <1>13 DEF vars
<1>14. QED
  BY <1>4, <1>5, <1>6, <1>7, <1>8, <1>9, <1>10, <1>11, <1>12, <1>13 DEF Next

-----------------------------------------------------------------------------
(* Order *)

\* One frame more at the end.
LEMMA AppendOrder ==
    ASSUME NEW s \in Seq(Nat), NEW n \in Nat, Ascending(s), UpTo(s, n)
    PROVE  Ascending(Append(s, n + 1)) /\ UpTo(Append(s, n + 1), n + 1)
<1> DEFINE t == Append(s, n + 1)
<1>1. /\ Len(s) \in Nat /\ Len(t) = Len(s) + 1 /\ t[Len(s) + 1] = n + 1
      /\ \A i \in 1 .. Len(s) : t[i] = s[i]
  BY AppendProperties
<1>2. \A i \in 1 .. Len(s) : s[i] \in Nat
  BY ElementOfSeq
<1> HIDE DEF t
<1>3. Ascending(t)
  <2> SUFFICES ASSUME NEW i \in 1 .. Len(t), NEW j \in 1 .. Len(t), i < j
               PROVE  t[i] < t[j]
    BY DEF Ascending
  <2>1. i \in 1 .. Len(s) /\ t[i] = s[i] /\ s[i] \in Nat /\ s[i] <= n
    BY <1>1, <1>2 DEF UpTo
  <2>2. CASE j = Len(s) + 1
    BY <1>1, <2>1, <2>2
  <2>3. CASE j \in 1 .. Len(s)
    BY <1>1, <2>1, <2>3 DEF Ascending
  <2>4. QED
    BY <1>1, <2>2, <2>3
<1>4. UpTo(t, n + 1)
  <2> SUFFICES ASSUME NEW i \in 1 .. Len(t) PROVE t[i] <= n + 1
    BY DEF UpTo
  <2>1. CASE i = Len(s) + 1
    BY <1>1, <2>1
  <2>2. CASE i \in 1 .. Len(s)
    BY <1>1, <1>2, <2>2 DEF UpTo
  <2>3. QED
    BY <1>1, <2>1, <2>2
<1>5. QED
  BY <1>3, <1>4 DEF t

\* A frame that is greater than all of s may follow after what follows s.
LEMMA AppendBefore ==
    ASSUME NEW s \in Seq(Nat), NEW t \in Seq(Nat), NEW n \in Nat, Before(s, t), UpTo(s, n)
    PROVE  Before(s, Append(t, n + 1))
<1> DEFINE u == Append(t, n + 1)
<1>1. /\ Len(t) \in Nat /\ Len(u) = Len(t) + 1 /\ u[Len(t) + 1] = n + 1
      /\ \A i \in 1 .. Len(t) : u[i] = t[i]
  BY AppendProperties
<1>2. \A i \in 1 .. Len(s) : s[i] \in Nat
  BY ElementOfSeq
<1> HIDE DEF u
<1>3. SUFFICES ASSUME NEW i \in 1 .. Len(s), NEW j \in 1 .. Len(u) PROVE s[i] < u[j]
  BY DEF Before, u
<1>4. CASE j = Len(t) + 1
  BY <1>1, <1>2, <1>4 DEF UpTo
<1>5. CASE j \in 1 .. Len(t)
  BY <1>1, <1>5 DEF Before
<1>6. QED
  BY <1>1, <1>4, <1>5

\* The oldest frame leaves.
LEMMA TailOrder ==
    ASSUME NEW s \in Seq(Nat), NEW t \in Seq(Nat), NEW n \in Nat, t # <<>>,
           Ascending(t), Before(s, t), UpTo(t, n)
    PROVE  Tail(t) \in Seq(Nat) /\ Ascending(Tail(t)) /\ Before(s, Tail(t)) /\ UpTo(Tail(t), n)
<1> DEFINE u == Tail(t)
<1>1. /\ u \in Seq(Nat) /\ Len(t) \in Nat /\ Len(u) = Len(t) - 1
      /\ \A i \in 1 .. Len(u) : u[i] = t[i + 1]
  BY HeadTailProperties, LenProperties
<1> HIDE DEF u
<1>2. \A i \in 1 .. Len(u) : i + 1 \in 1 .. Len(t)
  BY <1>1
<1>3. Ascending(u)
  <2> SUFFICES ASSUME NEW i \in 1 .. Len(u), NEW j \in 1 .. Len(u), i < j
               PROVE  u[i] < u[j]
    BY DEF Ascending
  <2>1. i + 1 < j + 1 /\ i + 1 \in 1 .. Len(t) /\ j + 1 \in 1 .. Len(t)
    BY <1>2
  <2>2. QED
    BY <1>1, <2>1 DEF Ascending
<1>4. Before(s, u) /\ UpTo(u, n)
  BY <1>1, <1>2 DEF Before, UpTo
<1>5. QED
  BY <1>1, <1>3, <1>4 DEF u

\* What follows s is put behind s.
LEMMA ConcatOrder ==
    ASSUME NEW s \in Seq(Nat), NEW t \in Seq(Nat), NEW n \in Nat,
           Ascending(s), Ascending(t), Before(s, t), UpTo(s, n), UpTo(t, n)
    PROVE  Ascending(s \o t) /\ UpTo(s \o t, n)
<1> DEFINE u == s \o t
<1>1. /\ Len(s) \in Nat /\ Len(t) \in Nat /\ Len(u) = Len(s) + Len(t)
      /\ \A i \in 1 .. Len(u) : u[i] = IF i <= Len(s) THEN s[i] ELSE t[i - Len(s)]
  BY ConcatProperties, LenProperties
<1> HIDE DEF u
<1>2. \A i \in 1 .. Len(u) : \/ i \in 1 .. Len(s) /\ u[i] = s[i]
                             \/ i > Len(s) /\ i - Len(s) \in 1 .. Len(t) /\ u[i] = t[i - Len(s)]
  <2> TAKE i \in 1 .. Len(u)
  <2>1. CASE i <= Len(s)
    BY <1>1, <2>1
  <2>2. CASE ~(i <= Len(s))
    BY <1>1, <2>2
  <2>3. QED
    BY <2>1, <2>2
<1>3. Ascending(u)
  <2> SUFFICES ASSUME NEW i \in 1 .. Len(u), NEW j \in 1 .. Len(u), i < j
               PROVE  u[i] < u[j]
    BY DEF Ascending
  <2>1. CASE j \in 1 .. Len(s) /\ u[j] = s[j]
    <3>1. i \in 1 .. Len(s)
      BY <1>1, <2>1
    <3>2. u[i] = s[i]
      BY <1>1, <3>1
    <3>3. QED
      BY <2>1, <3>1, <3>2 DEF Ascending
  <2>2. CASE j > Len(s) /\ j - Len(s) \in 1 .. Len(t) /\ u[j] = t[j - Len(s)]
    <3>1. CASE i \in 1 .. Len(s) /\ u[i] = s[i]
      BY <2>2, <3>1 DEF Before
    <3>2. CASE i > Len(s) /\ i - Len(s) \in 1 .. Len(t) /\ u[i] = t[i - Len(s)]
      <4>1. i - Len(s) < j - Len(s)
        BY <1>1
      <4>2. QED
        BY <2>2, <3>2, <4>1 DEF Ascending
    <3>3. QED
      BY <1>2, <3>1, <3>2
  <2>3. QED
    BY <1>2, <2>1, <2>2
<1>4. UpTo(u, n)
  BY <1>2 DEF UpTo
<1>5. QED
  BY <1>3, <1>4 DEF u

\* The audio as sequences of naturals.
LEMMA AudioNat ==
    ASSUME TypeOK
    PROVE  sent \in Seq(Nat) /\ buffered \in Seq(Nat) /\ frames \in Nat
<1>1. MaxFrames \in Nat /\ 1 .. MaxFrames \subseteq Nat
  BY LimitsAssumption
<1>2. sent \in Seq(1 .. MaxFrames) /\ buffered \in Seq(1 .. MaxFrames) /\ frames \in 0 .. MaxFrames
  BY DEF TypeOK
<1>3. QED
  BY <1>1, <1>2, SeqMonotonic

\* A bound that holds for n holds for n + 1.
LEMMA UpToNext ==
    ASSUME NEW s \in Seq(Nat), NEW n \in Nat, UpTo(s, n)
    PROVE  UpTo(s, n + 1)
<1>1. \A i \in 1 .. Len(s) : s[i] \in Nat
  BY ElementOfSeq
<1>2. QED
  BY <1>1 DEF UpTo

\* A new frame is greater than all that are buffered (_sendAudio before the ack).
LEMMA BufferOrder ==
    ASSUME TypeOK, BufferFollows, Buffer(frames + 1), frames' = frames + 1,
           sent' = sent, current' = current, ready' = ready, current \notin ready
    PROVE  BufferFollows'
<1> DEFINE kept == IF Len(buffered) >= MaxBuffer THEN Tail(buffered) ELSE buffered
<1>1. sent \in Seq(Nat) /\ buffered \in Seq(Nat) /\ frames \in Nat
  BY AudioNat
<1>2. kept \in Seq(Nat) /\ Ascending(kept) /\ Before(sent, kept) /\ UpTo(kept, frames)
  <2>1. CASE Len(buffered) >= MaxBuffer
    <3>1. buffered # <<>>
      BY <1>1, <2>1, LimitsAssumption
    <3>2. QED
      BY <1>1, <2>1, <3>1, TailOrder DEF BufferFollows
  <2>2. CASE ~(Len(buffered) >= MaxBuffer)
    BY <1>1, <2>2 DEF BufferFollows
  <2>3. QED
    BY <2>1, <2>2
<1>3. buffered' = Append(kept, frames + 1)
  BY DEF Buffer
<1> HIDE DEF kept
<1>4. Ascending(buffered') /\ UpTo(buffered', frames')
  BY <1>1, <1>2, <1>3, AppendOrder
<1>5. Before(sent', buffered') /\ UpTo(sent', frames')
  <2>1. UpTo(sent, frames)
    BY DEF BufferFollows
  <2>2. QED
    BY <1>1, <1>2, <1>3, <2>1, AppendBefore, UpToNext
<1>6. QED
  BY <1>4, <1>5 DEF BufferFollows, Ascending, Before, UpTo

\* An empty buffer follows whatever was sent.
LEMMA EmptyFollows ==
    ASSUME buffered' = <<>>, UpTo(sent', frames')
    PROVE  BufferFollows'
BY DEF BufferFollows, Ascending, Before, UpTo

\* A frame that goes out at once: the buffer is empty and the frame is the newest
\* (_sendAudio after the ack).
LEMMA DirectOrder ==
    ASSUME TypeOK, InOrder, BufferFollows, current \in ready,
           sent' = sent \/ sent' = Append(sent, frames + 1),
           frames' = frames + 1, buffered' = buffered
    PROVE  InOrder' /\ BufferFollows'
<1>1. sent \in Seq(Nat) /\ frames \in Nat /\ Ascending(sent) /\ UpTo(sent, frames)
  BY AudioNat DEF InOrder, BufferFollows
<1>2. Ascending(sent') /\ UpTo(sent', frames')
  <2>1. CASE sent' = sent
    BY <1>1, <2>1, UpToNext
  <2>2. CASE sent' = Append(sent, frames + 1)
    BY <1>1, <2>2, AppendOrder
  <2>3. QED
    BY <2>1, <2>2
<1>3. buffered' = <<>>
  BY DEF BufferFollows
<1>4. QED
  BY <1>2, <1>3, EmptyFollows DEF InOrder, Ascending

\* The flush on an ack, whichever stream's: what was buffered follows what was sent.
LEMMA FlushOrder ==
    ASSUME TypeOK, InOrder, BufferFollows, NEW s \in Sockets, Flush(s), frames' = frames
    PROVE  InOrder' /\ BufferFollows'
<1>1. sent \in Seq(Nat) /\ buffered \in Seq(Nat) /\ frames \in Nat
  BY AudioNat
<1>2. /\ Ascending(sent) /\ Ascending(buffered) /\ Before(sent, buffered)
      /\ UpTo(sent, frames) /\ UpTo(buffered, frames)
  BY DEF InOrder, BufferFollows
<1>3. Ascending(sent') /\ UpTo(sent', frames')
  <2>1. CASE ws[s] = "open"
    <3>1. sent' = sent \o buffered
      BY <2>1 DEF Flush
    <3>2. QED
      BY <1>1, <1>2, <3>1, ConcatOrder
  <2>2. CASE ws[s] # "open"
    BY <1>2, <2>2 DEF Flush
  <2>3. QED
    BY <2>1, <2>2
<1>4. buffered' = <<>>
  BY DEF Flush
<1>5. QED
  BY <1>3, <1>4, EmptyFollows DEF InOrder, Ascending

\* Every event of the link keeps the frames in order.
LEMMA OrderStep ==
    ASSUME TypeOK, InOrder, BufferFollows, [Next]_vars
    PROVE  InOrder' /\ BufferFollows'
<1>1. CASE Audio
  <2>1. CASE current \in ready
    BY <1>1, <2>1, DirectOrder DEF Audio
  <2>2. CASE current \notin ready
    <3>1. /\ Buffer(frames + 1) /\ frames' = frames + 1 /\ sent' = sent
          /\ current' = current /\ ready' = ready
      BY <1>1, <2>2 DEF Audio, sockets
    <3>2. QED
      BY <2>2, <3>1, BufferOrder DEF InOrder
  <2>3. QED
    BY <2>1, <2>2
<1>2. ASSUME NEW s \in Sockets, Ack(s) PROVE InOrder' /\ BufferFollows'
  BY <1>2, FlushOrder DEF Ack
<1>3. ASSUME UNCHANGED audio, current' \in ready' => current \in ready
      PROVE  InOrder' /\ BufferFollows'
  BY <1>3 DEF audio, InOrder, BufferFollows
<1>4. CASE Stop
  BY <1>3, <1>4 DEF Stop
<1>5. ASSUME NEW s \in Sockets,
             SocketOpen(s) \/ SocketRefused(s) \/ SocketLost(s) \/ SocketClosed(s) \/ AckTimeout(s)
      PROVE  InOrder' /\ BufferFollows'
  BY <1>3, <1>5 DEF SocketOpen, SocketRefused, SocketLost, SocketClosed, AckTimeout
<1>6. ASSUME NEW s \in Sockets, ReconnectTimer(s) \/ DiarizationDegraded(s)
      PROVE  InOrder' /\ BufferFollows'
  BY <1>3, <1>6 DEF ReconnectTimer, DiarizationDegraded, OpenSocket, sockets
<1>7. CASE UNCHANGED vars
  BY <1>3, <1>7 DEF vars, sockets
<1>8. QED
  BY <1>1, <1>2, <1>4, <1>5, <1>6, <1>7 DEF Next

-----------------------------------------------------------------------------
(* Theorems *)

LEMMA LinkInvariance == Spec => []LinkInv
<1>1. Init => LinkInv
  <2> SUFFICES ASSUME Init PROVE LinkInv
    OBVIOUS
  <2>1. SocketType /\ RetryType
    <3>1. tracked \in BOOLEAN /\ ~tracked /\ degraded \in BOOLEAN /\ stopping \in BOOLEAN
      BY Zenon DEF Init
    <3>2. QED
      BY <3>1, LimitsAssumption DEF Init, SocketType, RetryType
  <2>2. AudioType
    BY LimitsAssumption, EmptySeq DEF Init, AudioType
  <2>3. InOrder /\ BufferFollows
    BY DEF Init, InOrder, BufferFollows, Ascending, Before, UpTo
  <2>4. QED
    BY <2>1, <2>2, <2>3, TypeGroups DEF LinkInv, LinkType
<1>2. LinkInv /\ [Next]_vars => LinkInv'
  BY TypeGroups, TypeStep, OrderStep, PTL DEF LinkInv
<1>3. QED
  BY <1>1, <1>2, PTL DEF Spec

\* In every behaviour of the link (TranscriberStream, _openSocket, _scheduleReconnect)
\* the variables keep their types: the buffer and the retries keep to their limits, and a
\* timer that is cleared is one that was set.
THEOREM LinkTypes == Spec => []TypeOK
<1>1. LinkInv => TypeOK
  BY DEF LinkInv
<1>2. QED
  BY <1>1, LinkInvariance, PTL

\* Whatever sockets of the link come and go, the frames are handed over in order and
\* none twice.
THEOREM FramesInOrder == Spec => []InOrder
<1>1. LinkInv => InOrder
  BY DEF LinkInv
<1>2. QED
  BY <1>1, LinkInvariance, PTL

\* After stopBot no event of the link opens a socket, also not a timer that stopBot
\* did not know of.
THEOREM StopIsFinal == Spec => StoppedStaysClosed
<1> DEFINE Opens == \A s \in Sockets : ws'[s] = "connecting" => ws[s] = "connecting"
<1>1. TypeOK /\ [Next]_vars => [stopping => Opens]_vars
  <2> SUFFICES ASSUME TypeOK, [Next]_vars, stopping, vars' # vars
               PROVE  Opens
    OBVIOUS
  <2>1. CASE Audio
    BY <2>1 DEF Audio, sockets
  <2>2. CASE Stop
    BY <2>2 DEF Stop
  <2>3. ASSUME NEW s \in Sockets,
               SocketOpen(s) \/ SocketRefused(s) \/ SocketLost(s) \/ SocketClosed(s)
        PROVE  Opens
    BY <2>3 DEF SocketOpen, SocketRefused, SocketLost, SocketClosed, TypeOK
  <2>4. ASSUME NEW s \in Sockets, Ack(s) \/ AckTimeout(s) PROVE Opens
    BY <2>4 DEF Ack, AckTimeout, Closing, TypeOK
  <2>5. ASSUME NEW s \in Sockets, ReconnectTimer(s) \/ DiarizationDegraded(s) PROVE Opens
    BY <2>5 DEF ReconnectTimer, DiarizationDegraded, sockets
  <2>6. QED
    BY <2>1, <2>2, <2>3, <2>4, <2>5 DEF Next
<1>2. QED
  BY <1>1, LinkTypes, PTL DEF Spec, StoppedStaysClosed
=============================================================================
