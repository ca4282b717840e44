---------------------------- MODULE AsrAudioProofs -----------------------------
(***************************************************************************)
(* Proof that the audio of an ASR goes to its service in order, for any    *)
(* providers and any bounds, as long as no packet overwrites a view that   *)
(* Amazon has queued.  The types, and what each provider leaves of its     *)
(* fields, are taken from AsrLifecycleProofs.                              *)
(***************************************************************************)
EXTENDS AsrLifecycleProofs

-----------------------------------------------------------------------------
(* The inductive invariant *)

Rising(s) == \A i, j \in 1 .. Len(s) : i < j => (s[i] < s[j])
Between(low, s, high) == \A i \in 1 .. Len(s) : (low < s[i]) /\ (s[i] <= high)
Precede(s, t) == \A i \in 1 .. Len(s), j \in 1 .. Len(t) : s[i] < t[j]

PacketsOf(chunks) == [i \in DOMAIN chunks |-> chunks[i].packet]

\* What the provider holds back: what the first view of Amazon's queue shows, or the
\* audio before the session is armed.
Held == IF kind # "amazon" THEN PacketsOf(rt.preArm)
        ELSE IF amz.queue = <<>> THEN <<>>
        ELSE View(asr.buffer, Head(amz.queue))

\* A view that was queued is the only one, and the buffer is still as its flush left it.
OneView == amz.queue # <<>> => (Len(amz.queue) = 1) /\ (asr.buffer.pointer = 0)

\* What was sent, what the provider holds back and what the ASR does follow each other.
InLine(transmission, held, buffer, last) ==
    /\ transmission.ordered /\ transmission.last <= last
    /\ Rising(held) /\ Between(transmission.last, held, last)
    /\ Rising(buffer) /\ Between(transmission.last, buffer, last)
    /\ Precede(held, buffer)

\* A session that is ready has sent what was held back when its socket is open, so that
\* nothing is overtaken by what goes straight to the socket; linto holds nothing back.
Emptied(r) ==
    /\ r.ready /\ r.ws # 0 /\ MayOpen(r, r.ws) => (r.at[r.ws] = "open") /\ (r.preArm = <<>>)
    /\ kind = "linto" => (r.preArm = <<>>)

Line == InLine(sent, Held, GetAudioBuffer(asr.buffer), audio) /\ OneView

AudioInv == (~asr.overwritten => Line) /\ Emptied(rt)

-----------------------------------------------------------------------------
(* Sequences of packets *)

\* A part of what was in line is in line.
LEMMA PartInLine ==
    ASSUME NEW transmission, NEW held \in Seq(Nat), NEW buffer \in Seq(Nat), NEW last,
           InLine(transmission, held, buffer, last),
           NEW k \in 1 .. Len(held) + 1, NEW h \in Seq(Nat), Len(h) = Len(held) - k + 1,
           \A i \in 1 .. Len(h) : h[i] = held[i + k - 1],
           NEW b \in {buffer, <<>>}
    PROVE  InLine(transmission, h, b, last)
<1>1. \A i \in 1 .. Len(h) : i + k - 1 \in 1 .. Len(held)
  OBVIOUS
<1>2. Len(<<>>) = 0
  OBVIOUS
<1>3. Between(transmission.last, h, last) /\ Precede(h, buffer)
  BY <1>1 DEF InLine, Between, Precede
<1>4. ASSUME NEW i \in 1 .. Len(h), NEW j \in 1 .. Len(h), i < j PROVE h[i] < h[j]
  <2>1. i + k - 1 < j + k - 1
    BY <1>4
  <2>2. held[i + k - 1] < held[j + k - 1]
    BY <1>1, <2>1 DEF InLine, Rising
  <2> QED
    BY <2>2
<1>5. InLine(transmission, h, buffer, last)
  BY <1>3, <1>4 DEF InLine, Rising
<1>6. InLine(transmission, h, <<>>, last)
  BY <1>2, <1>5 DEF InLine, Rising, Between, Precede
<1> QED
  BY <1>5, <1>6

\* The next packet comes after all others, also when the buffer wraps.
LEMMA AddInLine ==
    ASSUME NEW transmission \in Transmissions, NEW held \in Seq(Nat), NEW buffer \in Seq(Nat), NEW last \in Nat,
           InLine(transmission, held, buffer, last),
           NEW b \in {Append(buffer, last + 1), <<last + 1>>}
    PROVE  InLine(transmission, held, b, last + 1)
<1> DEFINE n == last + 1
<1>0. n \in Nat /\ last < n /\ transmission.last \in Nat
  BY DEF Transmissions
<1>3. b \in {Append(buffer, n), <<n>>}
  OBVIOUS
<1> HIDE DEF n
<1>1. ASSUME b = Append(buffer, n) PROVE InLine(transmission, held, b, n)
  <2>1. /\ b \in Seq(Nat) /\ Len(b) = Len(buffer) + 1
        /\ \A i \in 1 .. Len(buffer) : b[i] = buffer[i]
        /\ b[Len(buffer) + 1] = n
    BY <1>0, <1>1, AppendProperties
  <2>2. \A i \in 1 .. Len(b) : (i \in 1 .. Len(buffer) /\ b[i] = buffer[i]) \/ (i = Len(buffer) + 1 /\ b[i] = n)
    BY <2>1
  <2>3. /\ \A i \in 1 .. Len(buffer) : buffer[i] \in Nat /\ (buffer[i] <= last) /\ (transmission.last < buffer[i])
        /\ \A i \in 1 .. Len(held) : held[i] \in Nat /\ (held[i] <= last) /\ (transmission.last < held[i])
        /\ transmission.last <= last
    BY DEF InLine, Between
  <2>4. ASSUME NEW i \in 1 .. Len(b), NEW j \in 1 .. Len(b), i < j PROVE b[i] < b[j]
    <3>1. i \in 1 .. Len(buffer) /\ b[i] = buffer[i]
      BY <2>1, <2>2, <2>4
    <3>2. CASE j \in 1 .. Len(buffer) /\ b[j] = buffer[j]
      BY <2>4, <3>1, <3>2 DEF InLine, Rising
    <3>3. CASE b[j] = n
      BY <1>0, <2>3, <3>1, <3>3
    <3> QED
      BY <2>2, <3>2, <3>3
  <2>5. \A x \in Nat : x <= last => (x <= n) /\ (x < n)
    BY <1>0
  <2>6. Between(transmission.last, b, n) /\ Between(transmission.last, held, n)
    <3>1. transmission.last < n
      BY <1>0, <2>3, <2>5
    <3>2. n <= n
      BY <1>0
    <3> QED
      BY <2>2, <2>3, <2>5, <3>1, <3>2 DEF Between
  <2>7. Precede(held, b)
    BY <2>2, <2>3, <2>5 DEF Precede, InLine
  <2>8. transmission.last <= n
    BY <1>0, <2>3, <2>5
  <2> QED
    BY <2>1, <2>4, <2>6, <2>7, <2>8 DEF InLine, Rising
<1>2. ASSUME b = <<n>> PROVE InLine(transmission, held, b, n)
  <2>1. b \in Seq(Nat) /\ Len(b) = 1 /\ b[1] = n
    BY <1>0, <1>2
  <2>2. \A i \in 1 .. Len(held) : held[i] \in Nat /\ (held[i] <= last) /\ (transmission.last < held[i])
    BY DEF InLine, Between
  <2> QED
    BY <1>0, <2>1, <2>2 DEF InLine, Rising, Between, Precede
<1>4. InLine(transmission, held, b, n)
  BY <1>1, <1>2, <1>3
<1> QED
  BY <1>4 DEF n

\* What the provider holds back and what the ASR hands on are one line.
LEMMA JoinInLine ==
    ASSUME NEW transmission, NEW held \in Seq(Nat), NEW buffer \in Seq(Nat), NEW last,
           InLine(transmission, held, buffer, last)
    PROVE  held \o buffer \in Seq(Nat) /\ InLine(transmission, held \o buffer, <<>>, last)
<1> DEFINE b == held \o buffer
<1>1. /\ b \in Seq(Nat) /\ Len(b) = Len(held) + Len(buffer)
      /\ \A i \in 1 .. Len(held) + Len(buffer) : b[i] = IF i <= Len(held) THEN held[i] ELSE buffer[i - Len(held)]
  BY ConcatProperties, Zenon
<1> HIDE DEF b
<1>2. \A i \in 1 .. Len(b) : \/ i \in 1 .. Len(held) /\ b[i] = held[i]
                             \/ /\ i > Len(held) /\ i - Len(held) \in 1 .. Len(buffer)
                                /\ b[i] = buffer[i - Len(held)]
  BY <1>1
<1>3. Between(transmission.last, b, last)
  BY <1>2 DEF InLine, Between
<1>4. ASSUME NEW i \in 1 .. Len(b), NEW j \in 1 .. Len(b), i < j PROVE b[i] < b[j]
  <2>1. CASE i \in 1 .. Len(held) /\ b[i] = held[i] /\ j \in 1 .. Len(held) /\ b[j] = held[j]
    BY <1>4, <2>1 DEF InLine, Rising
  <2>2. CASE /\ i \in 1 .. Len(held) /\ b[i] = held[i]
             /\ j - Len(held) \in 1 .. Len(buffer) /\ b[j] = buffer[j - Len(held)]
    BY <2>2 DEF InLine, Precede
  <2>3. CASE /\ i > Len(held) /\ i - Len(held) \in 1 .. Len(buffer) /\ b[i] = buffer[i - Len(held)]
             /\ j - Len(held) \in 1 .. Len(buffer) /\ b[j] = buffer[j - Len(held)]
    <3>1. i - Len(held) < j - Len(held)
      BY <1>4
    <3> QED
      BY <2>3, <3>1 DEF InLine, Rising
  <2> QED
    BY <1>2, <1>4, <2>1, <2>2, <2>3
<1>5. Len(<<>>) = 0
  OBVIOUS
<1> QED
  BY <1>1, <1>3, <1>4, <1>5 DEF InLine, Rising, Between, Precede, b

\* All that is held is sent.
LEMMA SendInLine ==
    ASSUME sent \in Transmissions, NEW held \in Seq(Nat), NEW buffer \in Seq(Nat), NEW last \in Nat,
           InLine(sent, held, buffer, last), Sends(held)
    PROVE  \A h : Len(h) = 0 => InLine(sent', h, buffer, last)
<1>1. CASE held = <<>>
  BY <1>1 DEF Sends, InLine, Rising, Between, Precede
<1>2. CASE held # <<>>
  <2>1. Len(held) \in 1 .. Len(held) /\ Len(held) \in Nat /\ 1 \in 1 .. Len(held)
    BY <1>2
  <2> DEFINE o == /\ sent.ordered /\ held[1] > sent.last
                  /\ \A i \in 2 .. Len(held) : held[i] > held[i - 1]
  <2>2. sent' = [last |-> held[Len(held)], ordered |-> o]
    BY <1>2 DEF Sends
  <2>3. \A i \in 2 .. Len(held) : i \in 1 .. Len(held) /\ i - 1 \in 1 .. Len(held) /\ i - 1 < i
    BY <2>1
  <2>4. \A i \in 1 .. Len(held) : held[i] \in Nat
    OBVIOUS
  <2>5. o
    BY <2>1, <2>3, <2>4 DEF InLine, Rising, Between, Transmissions
  <2> HIDE DEF o
  <2>6. sent'.ordered /\ sent'.last = held[Len(held)]
    BY <2>2, <2>5
  <2>7. /\ held[Len(held)] <= last
        /\ \A j \in 1 .. Len(buffer) : (held[Len(held)] < buffer[j]) /\ (buffer[j] <= last)
    BY <2>1 DEF InLine, Between, Precede
  <2> QED
    BY <2>6, <2>7 DEF InLine, Rising, Between, Precede
<1> QED
  BY <1>1, <1>2

LEMMA PacketsType ==
    ASSUME NEW chunks \in Seq(Chunks)
    PROVE  /\ PacketsOf(chunks) \in Seq(Nat) /\ Len(PacketsOf(chunks)) = Len(chunks)
           /\ \A i \in 1 .. Len(chunks) : PacketsOf(chunks)[i] = chunks[i].packet
<1> DEFINE n == Len(chunks)
           p == PacketsOf(chunks)
<1>1. n \in Nat /\ DOMAIN chunks = 1 .. n /\ \A i \in 1 .. n : chunks[i] \in Chunks
  OBVIOUS
<1>2. \A i \in 1 .. n : chunks[i].packet \in Nat
  BY <1>1 DEF Chunks
<1>3. p = [i \in 1 .. n |-> chunks[i].packet]
  BY <1>1 DEF PacketsOf
<1> HIDE DEF n, p
<1>4. p \in Seq(Nat) /\ Len(p) = n
  BY <1>1, <1>2, <1>3
<1> QED
  BY <1>3, <1>4 DEF n, p

\* The buffer after add() and after flush(), whether it wraps or not.
LEMMA AddGives ==
    ASSUME NEW buffer \in CircularBuffers, NEW packet \in Nat
    PROVE  GetAudioBuffer(Add(buffer, packet)) \in {Append(GetAudioBuffer(buffer), packet), <<packet>>}
<1>0. MaxBuffer \in Nat \ {0} /\ buffer.pointer \in 0 .. MaxBuffer /\ buffer.slots \in [1 .. MaxBuffer -> Nat]
  BY AsrLimits DEF CircularBuffers
<1> DEFINE b == Add(buffer, packet)
           s == GetAudioBuffer(buffer)
<1>1. CASE buffer.pointer < MaxBuffer
  <2> DEFINE k == buffer.pointer + 1
  <2>1. b.pointer = k /\ b.slots = [buffer.slots EXCEPT ![k] = packet] /\ k \in 1 .. MaxBuffer
    BY <1>0, <1>1 DEF Add
  <2>2. s \in Seq(Nat) /\ Len(s) = buffer.pointer /\ \A i \in 1 .. Len(s) : s[i] = buffer.slots[i]
    BY <1>0, BufferType DEF GetAudioBuffer, View
  <2>3. \A i \in 1 .. k : b.slots[i] = IF i = Len(s) + 1 THEN packet ELSE s[i]
    BY <1>0, <2>1, <2>2
  <2>4. GetAudioBuffer(b) = [i \in 1 .. k |-> b.slots[i]] /\ GetAudioBuffer(b) \in Seq(Nat)
    <3>1. b \in CircularBuffers
      BY BufferType
    <3> HIDE DEF b, s
    <3> QED
      BY <2>1, <3>1, BufferType DEF GetAudioBuffer, View
  <2> HIDE DEF s, b
  <2>5. /\ Append(s, packet) \in Seq(Nat) /\ Len(Append(s, packet)) = k
        /\ \A i \in 1 .. k : Append(s, packet)[i] = IF i = Len(s) + 1 THEN packet ELSE s[i]
    BY <2>2, AppendProperties
  <2>6. Len(GetAudioBuffer(b)) = k /\ \A i \in 1 .. k : GetAudioBuffer(b)[i] = b.slots[i]
    BY <2>1, <2>4, AsrLimits
  <2>7. GetAudioBuffer(b) = Append(s, packet)
    <3> DEFINE t == GetAudioBuffer(b)
               u == Append(s, packet)
    <3>1. t \in Seq(Nat) /\ u \in Seq(Nat) /\ Len(t) = Len(u)
      BY <2>4, <2>5, <2>6
    <3>2. \A i \in 1 .. Len(t) : t[i] = u[i]
      BY <2>3, <2>5, <2>6
    <3> HIDE DEF t, u
    <3>3. t = u
      BY <3>1, <3>2, SeqEqual
    <3> QED
      BY <3>3 DEF t, u
  <2> QED
    BY <2>7 DEF b, s
<1>2. CASE ~(buffer.pointer < MaxBuffer)
  <2>1. b.pointer = 1 /\ b.slots[1] = packet
    BY <1>0, <1>2 DEF Add
  <2> HIDE DEF b
  <2>2. GetAudioBuffer(b) = [i \in 1 .. 1 |-> packet]
    BY <2>1 DEF GetAudioBuffer, View
  <2>3. GetAudioBuffer(b) = <<packet>>
    BY <2>2
  <2> QED
    BY <2>3 DEF b
<1> QED
  BY <1>1, <1>2

LEMMA FlushGives ==
    ASSUME NEW buffer \in CircularBuffers PROVE GetAudioBuffer(FlushBuffer(buffer)) = <<>>
<1>1. GetAudioBuffer(FlushBuffer(buffer)) \in Seq(Nat) /\ Len(GetAudioBuffer(FlushBuffer(buffer))) = 0
  BY BufferType
<1> QED
  BY <1>1, EmptySeq

-----------------------------------------------------------------------------
(* The providers *)

\* A start or a stop may drop what is held back and sends nothing.
LEMMA CallKeepsAudio ==
    ASSUME TypeOK, Emptied(rt), NEW a, ProviderStart(a) \/ ProviderStop(a)
    PROVE  /\ sent' = sent /\ (amz'.queue \in {amz.queue, <<>>}) /\ rt'.preArm = rt.preArm
           /\ Emptied(rt')
<1>0. amz \in Transcribers /\ rt \in RealtimeTranscribers
  BY DEF TypeOK
<1>1. sent' = sent /\ (amz'.queue \in {amz.queue, <<>>})
  <2>1. CASE AmazonStart(a)
    <3>1. \E e, t : amz' = [amz EXCEPT !.stopping = FALSE, !.partial = FALSE, !.streaming = TRUE,
                                       !.queue = <<>>, !.epoch = e, !.tasks = t]
      BY <2>1, <1>0 DEF AmazonStart, Transcribers
    <3> QED
      BY <1>0, <3>1 DEF ProviderStart, ProviderStop, Transcribers
  <2>2. CASE AmazonStop(a)
    BY <1>0, <2>2 DEF AmazonStop, ProviderStart, ProviderStop, Transcribers
  <2>3. CASE UNCHANGED amz
    BY <2>3 DEF ProviderStart, ProviderStop
  <2> QED
    BY <2>1, <2>2, <2>3 DEF ProviderStart, ProviderStop
<1>2. rt'.preArm = rt.preArm /\ Emptied(rt')
  <2>1. CASE RealtimeStart(a, rt)
    <3>1. rt'.preArm = rt.preArm /\ ~rt'.ready
      BY <1>0, <2>1 DEF RealtimeStart, RealtimeTranscribers
    <3> QED
      BY <3>1 DEF Emptied
  <2>2. CASE RealtimeStop(a)
    <3>1. rt'.preArm = rt.preArm /\ rt'.ws = 0
      BY <1>0, <2>2 DEF RealtimeStop, Stopping, RealtimeTranscribers
    <3> QED
      BY <3>1 DEF Emptied
  <2>3. CASE UNCHANGED rt
    BY <2>3
  <2> QED
    BY <2>1, <2>2, <2>3 DEF ProviderStart, ProviderStop
<1> QED
  BY <1>1, <1>2

\* Of the events of Amazon only the generator moves audio.
LEMMA AmazonAudio ==
    ASSUME TypeOK, AmazonNext
    PROVE  \/ sent' = sent /\ amz'.queue = amz.queue
           \/ /\ amz.queue # <<>> /\ Sends(View(asr.buffer, Head(amz.queue)))
              /\ amz'.queue = Tail(amz.queue)
<1>0. amz \in Transcribers
  BY DEF TypeOK
<1>1. ASSUME NEW t \in amz.tasks, Credentials(t) PROVE sent' = sent /\ amz'.queue = amz.queue
  BY <1>0, <1>1 DEF Credentials, Transcribers
<1>2. ASSUME NEW t \in amz.tasks, CredentialsFail(t) \/ SendFails(t) PROVE sent' = sent /\ amz'.queue = amz.queue
  BY <1>0, <1>2 DEF CredentialsFail, SendFails, Fails, Transcribers
<1>3. ASSUME NEW t \in amz.tasks, Sent(t) PROVE sent' = sent /\ amz'.queue = amz.queue
  BY <1>0, <1>3 DEF Sent, Transcribers
<1>4. ASSUME NEW t \in amz.tasks,
             AmazonPartial(t) \/ AmazonFinal(t) \/ Silence(t) \/ StreamError(t) \/ StreamEnds(t)
      PROVE  sent' = sent /\ amz'.queue = amz.queue
  BY <1>0, <1>4 DEF AmazonPartial, AmazonFinal, Silence, StreamError, StreamEnds, Transcribers
<1>5. ASSUME NEW t \in amz.tasks, Yields(t)
      PROVE  /\ amz.queue # <<>> /\ Sends(View(asr.buffer, Head(amz.queue)))
             /\ amz'.queue = Tail(amz.queue)
  BY <1>0, <1>5 DEF Yields, Transcribers
<1>6. ASSUME AmazonStopped PROVE sent' = sent /\ amz'.queue = amz.queue
  BY <1>0, <1>6 DEF AmazonStopped, Transcribers
<1> QED
  BY <1>1, <1>2, <1>3, <1>4, <1>5, <1>6 DEF AmazonNext

LEMMA MicrosoftAudio == ASSUME MicrosoftNext PROVE sent' = sent
BY DEF MicrosoftNext, StopAck, StartSuccess, StartError, StartupTimeout, Canceled, SessionStopped, Recognizing,
       Recognized

\* A session that becomes ready sends what was held back.
LEMMA ReadySends ==
    ASSUME NEW a, NEW r \in RealtimeTranscribers, MakeReady(a, r) \/ Arm(a, r), ~SendThrows(r)
    PROVE  Sends(PacketsOf(r.preArm)) /\ rt'.preArm = <<>> /\ Emptied(rt')
<1>1. rt'.preArm = <<>> /\ rt'.ws = r.ws /\ rt'.at = r.at
  BY DEF MakeReady, Arm, RealtimeTranscribers
<1>2. Sends(PacketsOf(r.preArm))
  <2>1. CASE MakeReady(a, r)
    BY <2>1 DEF MakeReady, PacketsOf
  <2>2. CASE Arm(a, r)
    <3>1. PICK u : u = [r EXCEPT !.armed = TRUE, !.ticking = TRUE, !.watchdog = r.ws]
      OBVIOUS
    <3>2. u.preArm = r.preArm /\ MakeReady(a, u)
      BY <2>2, <3>1 DEF Arm, RealtimeTranscribers
    <3> QED
      BY <3>2 DEF MakeReady, PacketsOf
  <2> QED
    BY <2>1, <2>2
<1>3. r.ws # 0 /\ r.at[r.ws] # "connecting"
  BY DEF SendThrows
<1> QED
  BY <1>1, <1>2, <1>3 DEF Emptied, MayOpen

LEMMA RealtimeAudio ==
    ASSUME TypeOK, Emptied(rt), RealtimeNext
    PROVE  /\ Emptied(rt')
           /\ \/ sent' = sent /\ rt'.preArm = rt.preArm
              \/ Sends(PacketsOf(rt.preArm)) /\ rt'.preArm = <<>>
<1>0. rt \in RealtimeTranscribers /\ \A s \in Sockets : s # 0
  BY DEF TypeOK, Sockets
<1>1. ASSUME NEW s \in Sockets, SocketOpen(s) PROVE Emptied(rt') /\ sent' = sent /\ rt'.preArm = rt.preArm
  <2>1. rt.at[s] = "connecting" /\ \E b \in BOOLEAN : rt' = [rt EXCEPT !.at[s] = "open", !.thrown = b]
    BY <1>0, <1>1 DEF SocketOpen, RealtimeTranscribers
  <2>2. /\ rt'.preArm = rt.preArm /\ rt'.ws = rt.ws /\ rt'.ready = rt.ready
        /\ \A q \in Sockets : q # s => rt'.at[q] = rt.at[q]
    BY <1>0, <2>1 DEF RealtimeTranscribers
  <2>3. rt.ws # 0 => rt.ws \in Sockets
    BY <1>0, LimitsAreNats DEF RealtimeTranscribers, Sockets
  <2>4. sent' = sent
    BY <1>1 DEF SocketOpen
  <2> QED
    BY <2>1, <2>2, <2>3, <2>4 DEF Emptied, MayOpen
<1>2. ASSUME NEW s \in Sockets, SessionCreated(s)
      PROVE  /\ Emptied(rt')
             /\ \/ sent' = sent /\ rt'.preArm = rt.preArm
                \/ Sends(PacketsOf(rt.preArm)) /\ rt'.preArm = <<>>
  <2> DEFINE r == [rt EXCEPT !.created = @ \cup {s}]
             u == [r EXCEPT !.updateSent = TRUE]
             v == [r EXCEPT !.thrown = TRUE]
  <2>1. \A x \in {u, v} : /\ x \in RealtimeTranscribers /\ x.ws = rt.ws /\ x.ready = rt.ready /\ x.at = rt.at
                          /\ x.preArm = rt.preArm
    <3>1. r \in RealtimeTranscribers /\ r.ws = rt.ws /\ r.ready = rt.ready /\ r.at = rt.at
          /\ r.preArm = rt.preArm
      BY <1>0 DEF RealtimeTranscribers
    <3> HIDE DEF r
    <3> QED
      BY <3>1 DEF RealtimeTranscribers
  <2>2. SendThrows(r) <=> SendThrows(u)
    <3>1. r.ws = rt.ws /\ r.at = rt.at
      BY <1>0 DEF RealtimeTranscribers
    <3> HIDE DEF r, u, v
    <3> QED
      BY <2>1, <3>1 DEF SendThrows
  <2>3. \/ (rt' = v \/ rt' = u) /\ sent' = sent
        \/ ~SendThrows(u) /\ (MakeReady(asr, u) \/ Arm(asr, u))
    BY <1>2, <2>2 DEF SessionCreated
  <2> HIDE DEF u, v, r
  <2>4. CASE (rt' = v \/ rt' = u) /\ sent' = sent
    BY <2>1, <2>4 DEF Emptied, MayOpen
  <2>5. CASE ~SendThrows(u) /\ (MakeReady(asr, u) \/ Arm(asr, u))
    BY <2>1, <2>5, ReadySends
  <2> QED
    BY <2>3, <2>4, <2>5
<1>3. ASSUME NEW s \in Sockets, DeltaMessage(s) \/ FinalMessage(s) \/ ErrorMessage(s)
      PROVE  Emptied(rt') /\ sent' = sent /\ rt'.preArm = rt.preArm
  <2>1. /\ rt'.preArm = rt.preArm /\ rt'.ws = rt.ws /\ rt'.ready = rt.ready /\ rt'.at = rt.at
        /\ sent' = sent
    BY <1>0, <1>3 DEF DeltaMessage, FinalMessage, ErrorMessage, Evidence, RealtimeTranscribers
  <2> QED
    BY <2>1 DEF Emptied, MayOpen
<1>4. ASSUME NEW s \in Sockets, SocketError(s) PROVE Emptied(rt') /\ sent' = sent /\ rt'.preArm = rt.preArm
  <2> DEFINE r == [rt EXCEPT !.at[s] = "closed"]
  <2>1. /\ r \in RealtimeTranscribers /\ r.ws = rt.ws /\ r.ready = rt.ready /\ r.preArm = rt.preArm
        /\ \A q \in Sockets : MayOpen(r, q) => r.at[q] = rt.at[q]
    BY <1>0 DEF RealtimeTranscribers, MayOpen
  <2>2. sent' = sent
    BY <1>4 DEF SocketError
  <2>3. CASE s # rt.ws
    <3>1. rt' = r
      BY <1>4, <2>3 DEF SocketError
    <3>2. rt.ws # 0 => rt.ws \in Sockets
      BY <1>0, LimitsAreNats DEF RealtimeTranscribers, Sockets
    <3> HIDE DEF r
    <3> QED
      BY <2>1, <2>2, <3>1, <3>2 DEF Emptied, MayOpen
  <2>4. CASE s = rt.ws
    <3>1. PICK critical \in BOOLEAN : rt' = [Stopping(r) EXCEPT !.timer = ~critical]
      BY <1>4, <2>4 DEF SocketError
    <3> HIDE DEF r
    <3>2. rt'.ws = 0 /\ rt'.preArm = rt.preArm
      BY <2>1, <3>1 DEF Stopping, RealtimeTranscribers
    <3> QED
      BY <2>2, <3>2 DEF Emptied
  <2> QED
    BY <2>3, <2>4
<1>5. ASSUME NEW s \in Sockets, SocketClose(s) PROVE Emptied(rt') /\ sent' = sent /\ rt'.preArm = rt.preArm
  <2>1. /\ rt'.preArm = rt.preArm /\ rt'.ws = rt.ws /\ rt'.ready = rt.ready
        /\ rt.ws # 0 /\ MayOpen(rt', rt.ws) => rt'.at[rt.ws] = rt.at[rt.ws]
    BY <1>0, <1>5, LimitsAreNats DEF SocketClose, RealtimeTranscribers, MayOpen, Sockets
  <2>2. sent' = sent
    BY <1>5 DEF SocketClose
  <2> QED
    BY <2>1, <2>2 DEF Emptied, MayOpen
<1>6. CASE SegmentationTick
  <2>1. /\ rt'.preArm = rt.preArm /\ rt'.ws = rt.ws /\ rt'.ready = rt.ready /\ rt'.at = rt.at
        /\ sent' = sent
    BY <1>0, <1>6 DEF SegmentationTick, RealtimeTranscribers
  <2> QED
    BY <2>1 DEF Emptied, MayOpen
<1>7. CASE WatchdogTimeout
  <2>1. sent' = sent /\ rt'.preArm = rt.preArm /\ (rt'.ws = 0 \/ rt' = [rt EXCEPT !.watchdog = 0])
    BY <1>0, <1>7 DEF WatchdogTimeout, Stopping, RealtimeTranscribers
  <2>2. rt'.ws = 0 \/ (rt'.ws = rt.ws /\ rt'.ready = rt.ready /\ rt'.at = rt.at)
    BY <1>0, <2>1 DEF RealtimeTranscribers
  <2> QED
    BY <2>1, <2>2 DEF Emptied, MayOpen
<1>8. CASE Reconnect
  <2>1. sent' = sent /\ rt'.preArm = rt.preArm /\ ~rt'.ready
    BY <1>0, <1>8 DEF Reconnect, RealtimeStart, RealtimeTranscribers
  <2> QED
    BY <2>1 DEF Emptied
<1> QED
  BY <1>1, <1>2, <1>3, <1>4, <1>5, <1>6, <1>7, <1>8 DEF RealtimeNext

-----------------------------------------------------------------------------
(* transcribe() *)

\* Nothing is held back before what the ASR hands on.
LEMMA BufferInLine ==
    ASSUME NEW transmission, NEW held, NEW buffer, NEW last, InLine(transmission, held, buffer, last)
    PROVE  InLine(transmission, buffer, <<>>, last)
<1>1. Len(<<>>) = 0
  OBVIOUS
<1> QED
  BY <1>1 DEF InLine, Rising, Between, Precede

\* What _bufferPreArm keeps is the tail of the line.
LEMMA PreArmInLine ==
    ASSUME NEW r \in RealtimeTranscribers, NEW packets \in Seq(Nat), packets # <<>>, NEW transmission, NEW last,
           InLine(transmission, PacketsOf(r.preArm), packets, last)
    PROVE  /\ PacketsOf(PreArm(r, packets).preArm) \in Seq(Nat)
           /\ InLine(transmission, PacketsOf(PreArm(r, packets).preArm), <<>>, last)
<1> DEFINE c == Chunk(packets)
           all == r.preArm \o c
           held == PacketsOf(r.preArm)
           line == held \o packets
           kept == PreArm(r, packets).preArm
<1>1. r.preArm \in Seq(Chunks) /\ held \in Seq(Nat) /\ Len(held) = Len(r.preArm)
      /\ \A i \in 1 .. Len(r.preArm) : held[i] = r.preArm[i].packet
  BY PacketsType DEF RealtimeTranscribers, Chunks
<1>2. c \in Seq(Chunks) /\ Len(c) = Len(packets) /\ \A i \in 1 .. Len(c) : c[i].packet = packets[i]
  <2>1. Len(packets) \in Nat /\ DOMAIN packets = 1 .. Len(packets) /\ packets[1] \in Nat
        /\ \A i \in 1 .. Len(packets) : packets[i] \in Nat
    OBVIOUS
  <2>2. c = [i \in 1 .. Len(packets) |-> [packet |-> packets[i], chunk |-> packets[1]]]
    BY <2>1 DEF Chunk
  <2>3. \A i \in 1 .. Len(packets) : [packet |-> packets[i], chunk |-> packets[1]] \in Chunks
    BY <2>1 DEF Chunks
  <2> HIDE DEF c
  <2> QED
    BY <2>1, <2>2, <2>3
<1> HIDE DEF c, held
<1>3. /\ all \in Seq(Chunks) /\ Len(all) = Len(held) + Len(packets)
      /\ \A i \in 1 .. Len(held) + Len(packets) :
             all[i] = IF i <= Len(held) THEN r.preArm[i] ELSE c[i - Len(held)]
  <2>0. \A s, t \in Seq(Chunks) :
            /\ Len(s \o t) = Len(s) + Len(t)
            /\ \A i \in 1 .. Len(s) + Len(t) : (s \o t)[i] = IF i <= Len(s) THEN s[i] ELSE t[i - Len(s)]
            /\ s \o t \in Seq(Chunks)
    BY ConcatProperties, Zenon
  <2>1. /\ Len(all) = Len(r.preArm) + Len(c)
        /\ \A i \in 1 .. Len(r.preArm) + Len(c) :
               all[i] = IF i <= Len(r.preArm) THEN r.preArm[i] ELSE c[i - Len(r.preArm)]
        /\ all \in Seq(Chunks)
    BY <1>1, <1>2, <2>0
  <2> HIDE DEF all
  <2> QED
    BY <1>1, <1>2, <2>1
<1>4. /\ line \in Seq(Nat) /\ Len(line) = Len(held) + Len(packets)
      /\ \A i \in 1 .. Len(held) + Len(packets) :
             line[i] = IF i <= Len(held) THEN held[i] ELSE packets[i - Len(held)]
  BY <1>1, ConcatProperties, Zenon
<1>5. InLine(transmission, line, <<>>, last)
  BY <1>1, JoinInLine DEF held
<1>6. PICK keep \in 1 .. Len(all) : PreArm(r, packets) = [r EXCEPT !.preArm = SubSeq(all, keep, Len(all))]
  BY PreArmKeeps DEF c
<1> HIDE DEF all, line
<1>7. \A i \in 1 .. Len(all) : all[i].packet = line[i]
  <2>1. ASSUME NEW i \in 1 .. Len(all) PROVE all[i].packet = line[i]
    <3>1. i \in 1 .. Len(held) + Len(packets)
      BY <1>3
    <3>2. CASE i <= Len(held)
      <4>1. all[i] = r.preArm[i] /\ line[i] = held[i] /\ i \in 1 .. Len(r.preArm)
        BY <1>1, <1>3, <1>4, <3>1, <3>2
      <4> QED
        BY <1>1, <4>1
    <3>3. CASE ~(i <= Len(held))
      <4>1. /\ all[i] = c[i - Len(held)] /\ line[i] = packets[i - Len(held)]
            /\ i - Len(held) \in 1 .. Len(c)
        BY <1>1, <1>2, <1>3, <1>4, <3>1, <3>3
      <4> QED
        BY <1>2, <4>1
    <3> QED
      BY <3>2, <3>3
  <2> QED
    BY <2>1
<1>8. kept = SubSeq(all, keep, Len(all))
  BY <1>6 DEF RealtimeTranscribers
<1>9. /\ kept \in Seq(Chunks) /\ Len(kept) = Len(all) - keep + 1
      /\ \A i \in 1 .. Len(kept) : kept[i] = all[i + keep - 1] /\ i + keep - 1 \in 1 .. Len(all)
  BY <1>3, <1>8
<1> HIDE DEF kept
<1>10. /\ PacketsOf(kept) \in Seq(Nat) /\ Len(PacketsOf(kept)) = Len(kept)
       /\ \A i \in 1 .. Len(kept) : PacketsOf(kept)[i] = line[i + keep - 1]
  BY <1>7, <1>9, PacketsType
<1>11. InLine(transmission, PacketsOf(kept), <<>>, last)
  <2>1. keep \in 1 .. Len(line) + 1 /\ Len(PacketsOf(kept)) = Len(line) - keep + 1
    BY <1>3, <1>4, <1>9, <1>10
  <2>2. <<>> \in Seq(Nat)
    OBVIOUS
  <2> QED
    BY <1>4, <1>5, <1>10, <2>1, <2>2, PartInLine
<1> QED
  BY <1>10, <1>11 DEF kept

LEMMA TranscribeInLine ==
    ASSUME TypeOK, RealtimeInv, Emptied(rt), kind' = kind, amz.queue = <<>>,
           NEW a, NEW buffer \in CircularBuffers, a.buffer = FlushBuffer(buffer),
           NEW packets, packets = GetAudioBuffer(buffer), packets # <<>>,
           NEW last \in Nat, InLine(sent, Held, packets, last), ProviderTranscribe(a, packets)
    PROVE  InLine(sent', Held', <<>>, last) /\ (amz'.queue # <<>> => Len(amz'.queue) = 1)
<1>p. packets \in Seq(Nat) /\ Len(packets) = buffer.pointer
  BY BufferType
<1>0. /\ rt \in RealtimeTranscribers /\ rt.preArm \in Seq(Chunks)
      /\ sent \in Transmissions /\ <<>> \in Seq(Nat) /\ Len(<<>>) = 0
  BY DEF TypeOK, Transcribers, RealtimeTranscribers, Chunks
<1>a. PacketsOf(rt.preArm) \in Seq(Nat) /\ (rt.preArm = <<>> => Len(PacketsOf(rt.preArm)) = 0)
  BY <1>0, PacketsType
<1>b. Held \in Seq(Nat)
  BY <1>0, <1>a DEF Held
<1>q. kind # "amazon" => amz' = amz
  BY DEF ProviderTranscribe, Realtime
<1>7. amz'.queue # <<>> => Len(amz'.queue) = 1
  <2>1. CASE kind = "amazon"
    <3>1. amz'.queue \in {<<>>, Append(<<>>, Len(packets))} /\ Append(<<>>, Len(packets)) = <<Len(packets)>>
      BY <1>p, <2>1 DEF ProviderTranscribe, AmazonTranscribe, TypeOK, Transcribers, Realtime
    <3> QED
      BY <3>1
  <2>2. CASE kind # "amazon"
    BY <1>q, <2>2
  <2> QED
    BY <2>1, <2>2
<1>8. SUFFICES InLine(sent', Held', <<>>, last)
  BY <1>7
<1>1. InLine(sent, packets, <<>>, last)
  BY BufferInLine
<1>2. InLine(sent, Held, <<>>, last)
  <2>1. Len(Held) + 1 \in Nat /\ 1 \in 1 .. Len(Held) + 1 /\ Len(Held) = Len(Held) - 1 + 1
        /\ \A i \in 1 .. Len(Held) : i + 1 - 1 = i
    BY <1>b
  <2> QED
    BY <1>b, <1>p, <2>1, PartInLine
<1>3. ASSUME Sends(packets) PROVE \A h : Len(h) = 0 => InLine(sent', h, <<>>, last)
  BY <1>0, <1>p, <1>1, <1>3, SendInLine
<1>4. CASE kind = "amazon" /\ AmazonTranscribe(a, packets) /\ UNCHANGED <<ms, rt>>
  <2>1. sent' = sent /\ asr' = a /\ amz'.queue \in {<<>>, Append(<<>>, Len(packets))}
    BY <1>4 DEF AmazonTranscribe, TypeOK, Transcribers
  <2>2. Append(<<>>, Len(packets)) = <<Len(packets)>>
    BY <1>p
  <2>3. CASE amz'.queue = <<>>
    BY <1>2, <1>4, <2>1, <2>3 DEF Held
  <2>4. CASE amz'.queue = <<Len(packets)>>
    <3>1. amz'.queue # <<>> /\ Head(amz'.queue) = Len(packets) /\ Len(amz'.queue) = 1
      BY <2>4
    <3>2. asr'.buffer.slots = buffer.slots
      BY <2>1, BufferType
    <3>3. Held' = packets
      BY <1>4, <1>p, <3>1, <3>2 DEF Held, View, GetAudioBuffer
    <3> QED
      BY <1>1, <2>1, <3>1, <3>3
  <2> QED
    BY <2>1, <2>2, <2>3, <2>4
<1>5. CASE kind = "microsoft" /\ MicrosoftTranscribe(a, packets) /\ UNCHANGED <<amz, rt>>
  <2>1. rt.preArm = <<>> /\ Held' = Held /\ Len(Held) = 0
    BY <1>a, <1>5 DEF RealtimeInv, Realtime, NewRealtime, Held
  <2>2. Sends(packets) \/ sent' = sent
    BY <1>5 DEF MicrosoftTranscribe
  <2> QED
    BY <1>2, <1>3, <1>5, <2>1, <2>2
<1>6. CASE Realtime /\ RealtimeTranscribe(a, packets) /\ UNCHANGED <<amz, ms>>
  <2>1. Held = PacketsOf(rt.preArm) /\ Held' = PacketsOf(rt'.preArm)
    BY <1>6 DEF Realtime, Held
  <2>2. CASE IsOpen(rt) /\ (rt.ready \/ kind = "linto")
    <3>1. Sends(packets) /\ rt' = rt
      BY <1>6, <2>2 DEF RealtimeTranscribe
    <3>2. rt.preArm = <<>>
      BY <2>2 DEF Emptied, IsOpen, MayOpen
    <3> QED
      BY <1>3, <1>a, <2>1, <3>1, <3>2
  <2>3. CASE ~(IsOpen(rt) /\ (rt.ready \/ kind = "linto"))
    <3>1. CASE kind = "linto"
      <4>1. UNCHANGED <<rt, sent>>
        BY <1>6, <2>3, <3>1 DEF RealtimeTranscribe
      <4> QED
        BY <1>2, <2>1, <4>1
    <3>2. CASE kind # "linto"
      <4> DEFINE r == PreArm(rt, packets)
      <4>1. r \in RealtimeTranscribers
        BY <1>0, <1>p, PreArmOK
      <4>2. PacketsOf(r.preArm) \in Seq(Nat) /\ InLine(sent, PacketsOf(r.preArm), <<>>, last)
        BY <1>0, <1>p, <2>1, PreArmInLine
      <4>3. \/ CanArm(r) /\ Arm(a, r)
            \/ rt' = r /\ sent' = sent
        BY <1>6, <2>3, <3>2 DEF RealtimeTranscribe
      <4> HIDE DEF r
      <4>4. CASE CanArm(r) /\ Arm(a, r)
        <5>1. ~SendThrows(r)
          BY <4>4 DEF CanArm, IsOpen, SendThrows
        <5>2. Sends(PacketsOf(r.preArm)) /\ rt'.preArm = <<>>
          BY <4>1, <4>4, <5>1, ReadySends
        <5>3. Len(PacketsOf(rt'.preArm)) = 0
          <6>1. <<>> \in Seq(Chunks)
            OBVIOUS
          <6> QED
            BY <1>0, <5>2, <6>1, PacketsType
        <5> QED
          BY <1>0, <2>1, <4>2, <5>2, <5>3, SendInLine
      <4>5. CASE rt' = r /\ sent' = sent
        BY <2>1, <4>2, <4>5
      <4> QED
        BY <4>3, <4>4, <4>5
    <3> QED
      BY <3>1, <3>2
  <2> QED
    BY <2>2, <2>3
<1> QED
  BY <1>4, <1>5, <1>6 DEF ProviderTranscribe

LEMMA TranscribeEmpties ==
    ASSUME TypeOK, Emptied(rt), kind' = kind, NEW a, NEW packets \in Seq(Nat), packets # <<>>,
           ProviderTranscribe(a, packets)
    PROVE  Emptied(rt')
<1>0. rt \in RealtimeTranscribers
  BY DEF TypeOK
<1>1. CASE rt' = rt
  BY <1>1
<1>2. CASE rt' # rt
  <2> DEFINE r == PreArm(rt, packets)
  <2>1. /\ r \in RealtimeTranscribers /\ r.ws = rt.ws /\ r.at = rt.at /\ r.ready = rt.ready
    BY <1>0, PreArmOK
  <2>2. ~(IsOpen(rt) /\ rt.ready) /\ kind # "linto" /\ ((CanArm(r) /\ Arm(a, r)) \/ rt' = r)
    BY <1>2 DEF ProviderTranscribe, RealtimeTranscribe
  <2> HIDE DEF r
  <2>3. CASE CanArm(r) /\ Arm(a, r)
    <3>1. ~SendThrows(r)
      BY <2>3 DEF CanArm, IsOpen, SendThrows
    <3> QED
      BY <2>1, <2>3, <3>1, ReadySends
  <2>4. CASE rt' = r
    BY <2>1, <2>2, <2>4 DEF Emptied, MayOpen, IsOpen
  <2> QED
    BY <2>2, <2>3, <2>4
<1> QED
  BY <1>1, <1>2

-----------------------------------------------------------------------------
(* The steps *)

\* Nothing is sent, and of the line only whole parts are dropped.
LineKept ==
    /\ sent' = sent /\ audio' = audio
    /\ amz'.queue \in {amz.queue, <<>>} /\ rt'.preArm = rt.preArm
    /\ asr'.buffer \in {asr.buffer, FlushBuffer(asr.buffer)} /\ asr'.overwritten = asr.overwritten

LEMMA KeptInLine ==
    ASSUME TypeOK, kind' = kind, Line, LineKept PROVE Line'
<1> DEFINE g == GetAudioBuffer(asr.buffer)
           h == GetAudioBuffer(asr'.buffer)
<1>0. asr.buffer \in CircularBuffers
  BY DEF TypeOK, Asrs
<1>1. Len(<<>>) = 0
  OBVIOUS
<1>2. /\ h = g \/ h = <<>>
      /\ asr'.buffer.slots = asr.buffer.slots /\ asr'.buffer.pointer \in {asr.buffer.pointer, 0}
  BY <1>0, FlushGives, BufferType DEF LineKept
<1>3. Held' = Held \/ Held' = <<>>
  <2>1. CASE kind = "amazon" /\ amz'.queue = amz.queue /\ amz.queue # <<>>
    BY <1>2, <2>1 DEF Held, View
  <2>2. CASE ~(kind = "amazon" /\ amz'.queue = amz.queue /\ amz.queue # <<>>)
    BY <2>2 DEF Held, LineKept
  <2> QED
    BY <2>1, <2>2
<1>4. OneView'
  BY <1>2 DEF Line, LineKept, OneView
<1>5. InLine(sent, Held, g, audio)
  BY DEF Line
<1> HIDE DEF g, h
<1>6. InLine(sent', Held', h, audio')
  BY <1>1, <1>2, <1>3, <1>5 DEF LineKept, InLine, Rising, Between, Precede
<1> QED
  BY <1>4, <1>6 DEF Line, h

LEMMA AudioStep ==
    ASSUME TypeOK, TypeOK', MicrosoftShape, RealtimeInv, AudioInv, [Next]_vars PROVE AudioInv'
<1>0. /\ kind' = kind /\ rt \in RealtimeTranscribers /\ amz \in Transcribers /\ asr \in Asrs
      /\ sent \in Transmissions /\ audio \in Nat
  BY ProviderChanges, LimitsAreNats DEF TypeOK
<1>a. ASSUME LineKept, Emptied(rt') PROVE AudioInv'
  <2>1. asr'.overwritten = asr.overwritten
    BY <1>a DEF LineKept
  <2>2. Line => Line'
    BY <1>0, <1>a, KeptInLine
  <2> QED
    BY <1>0, <1>a, <2>1, <2>2 DEF AudioInv, Emptied
<1> DEFINE Keeps(b) == /\ b.buffer \in {asr.buffer, FlushBuffer(asr.buffer)}
                       /\ b.overwritten = asr.overwritten
<1>1. ASSUME UNCHANGED provider, Keeps(asr'), audio' = audio PROVE AudioInv'
  <2>1. amz' = amz /\ rt' = rt /\ sent' = sent
    BY <1>1 DEF provider
  <2>2. LineKept
    BY <1>1, <2>1 DEF LineKept
  <2> QED
    BY <1>a, <2>1, <2>2 DEF AudioInv
<1>2. ASSUME NEW a, ProviderStart(a) \/ ProviderStop(a), Keeps(asr'), audio' = audio PROVE AudioInv'
  <2>1. /\ sent' = sent /\ (amz'.queue \in {amz.queue, <<>>}) /\ rt'.preArm = rt.preArm
        /\ Emptied(rt')
    BY <1>2, CallKeepsAudio DEF AudioInv
  <2> QED
    BY <1>2, <1>a, <2>1 DEF LineKept
<1>3. CASE Transition
  <2>1. audio' = audio
    BY <1>3 DEF Transition, BeginInit, Started, BeginPause, Paused, BeginResume, BeginFlush, Flushed,
                FlushTimeout, Settle, Dispose
  <2>2. Keeps(asr')
    <3>1. \A b \in BOOLEAN : Keeps([asr EXCEPT !.paused = b, !.buffer = FlushBuffer(@)])
      BY <1>0 DEF Asrs
    <3>2. Keeps(asr) /\ Keeps(OnClosed(asr)) /\ Keeps([asr EXCEPT !.flushed = TRUE])
      BY <1>0 DEF Asrs, OnClosed
    <3>3. \A a \in Asrs : Marked(a) => asr'.buffer = a.buffer /\ asr'.overwritten = a.overwritten
      BY DEF Marked, Asrs
    <3>a. \A a : Keeps(a) /\ Follows(a, asr') => Keeps(asr')
      BY DEF Follows
    <3>b. \A a \in Asrs : Keeps(a) /\ Marked(a) => Keeps(asr')
      BY <3>3
    <3> HIDE DEF Keeps
    <3>4. CASE BeginInit
      BY <3>2, <3>a, <3>4, BeginInitEffect DEF Change
    <3>5. CASE BeginPause
      BY <3>1, <3>2, <3>a, <3>5, BeginPauseEffect DEF Change
    <3>6. CASE BeginResume
      BY <3>1, <3>2, <3>a, <3>6, BeginResumeEffect DEF Change
    <3>7. CASE BeginFlush
      BY <1>0, <3>2, <3>a, <3>b, <3>7, BeginFlushEffect DEF Change
    <3>8. CASE Dispose
      BY <3>2, <3>a, <3>8, DisposeEffect DEF Change
    <3>9. CASE Paused
      BY <3>2, <3>9 DEF Paused
    <3>10. CASE Settle
      BY <1>0, <3>2, <3>b, <3>10, StateFollows DEF Settle, Follows
    <3>11. CASE Started \/ Flushed \/ FlushTimeout
      BY <3>2, <3>11 DEF Started, Flushed, FlushTimeout
    <3> QED
      BY <1>3, <3>4, <3>5, <3>6, <3>7, <3>8, <3>9, <3>10, <3>11 DEF Transition
  <2>3. (UNCHANGED provider) \/ (\E a : ProviderStart(a)) \/ (\E a : ProviderStop(a))
    BY <1>3 DEF Transition, BeginInit, Started, BeginPause, Paused, BeginResume, BeginFlush, Flushed,
                FlushTimeout, Settle, Dispose, Idle
  <2> QED
    BY <1>1, <1>2, <2>1, <2>2, <2>3
<1>4. CASE ProviderNext
  <2>1. audio' = audio /\ asr'.buffer = asr.buffer /\ asr'.overwritten = asr.overwritten
    BY <1>4, ProviderEventOK DEF ProviderNext, lifecycle, EventOK, Follows
  <2>2. CASE kind = "amazon" /\ AmazonNext /\ UNCHANGED <<ms, rt>>
    <3>1. CASE sent' = sent /\ amz'.queue = amz.queue
      BY <1>a, <2>1, <2>2, <3>1 DEF LineKept, AudioInv
    <3>2. CASE /\ amz.queue # <<>> /\ Sends(View(asr.buffer, Head(amz.queue)))
               /\ amz'.queue = Tail(amz.queue)
      <4>1. ASSUME Line PROVE Line'
        <5>1. Held = View(asr.buffer, Head(amz.queue)) /\ InLine(sent, Held, GetAudioBuffer(asr.buffer), audio)
          BY <2>2, <3>2, <4>1 DEF Held, Line
        <5>2. amz.queue \in Seq(0 .. MaxBuffer) /\ Head(amz.queue) \in 0 .. MaxBuffer
              /\ Len(amz'.queue) = Len(amz.queue) - 1 /\ amz'.queue \in Seq(0 .. MaxBuffer)
          <6>1. amz.queue \in Seq(0 .. MaxBuffer)
            BY <1>0 DEF Transcribers
          <6> QED
            BY <3>2, <6>1, HeadTailProperties
        <5>3. amz'.queue = <<>>
          <6>1. Len(amz'.queue) = 0
            BY <3>2, <4>1, <5>2 DEF Line, OneView
          <6> QED
            BY <5>2, <6>1, EmptySeq, SeqEqual
        <5>4. Held \in Seq(Nat) /\ GetAudioBuffer(asr.buffer) \in Seq(Nat) /\ Len(<<>>) = 0
          BY <1>0, <5>1, <5>2, BufferType DEF Asrs
        <5>5. InLine(sent', <<>>, GetAudioBuffer(asr.buffer), audio)
          BY <1>0, <3>2, <5>1, <5>4, SendInLine
        <5>6. Held' = <<>>
          BY <1>0, <2>2, <5>3 DEF Held
        <5> QED
          BY <2>1, <5>3, <5>5, <5>6 DEF Line, OneView
      <4> QED
        BY <1>0, <2>1, <2>2, <4>1 DEF AudioInv, Emptied
    <3> QED
      BY <2>2, <3>1, <3>2, AmazonAudio
  <2>3. CASE kind = "microsoft" /\ MicrosoftNext /\ UNCHANGED <<amz, rt>>
    BY <1>a, <2>1, <2>3, MicrosoftAudio DEF LineKept, AudioInv
  <2>4. CASE Realtime /\ RealtimeNext /\ UNCHANGED <<amz, ms>>
    <3>1. /\ Emptied(rt')
          /\ \/ sent' = sent /\ rt'.preArm = rt.preArm
             \/ Sends(PacketsOf(rt.preArm)) /\ rt'.preArm = <<>>
      BY <2>4, RealtimeAudio DEF AudioInv
    <3>2. CASE sent' = sent /\ rt'.preArm = rt.preArm
      BY <1>a, <2>1, <2>4, <3>1, <3>2 DEF LineKept
    <3>3. CASE Sends(PacketsOf(rt.preArm)) /\ rt'.preArm = <<>>
      <4>1. Held = PacketsOf(rt.preArm) /\ Held' = PacketsOf(rt'.preArm)
        BY <1>0, <2>4 DEF Realtime, Held
      <4>2. /\ PacketsOf(rt.preArm) \in Seq(Nat) /\ Len(PacketsOf(rt'.preArm)) = 0
            /\ GetAudioBuffer(asr.buffer) \in Seq(Nat)
        <5>1. rt.preArm \in Seq(Chunks) /\ <<>> \in Seq(Chunks) /\ Len(<<>>) = 0
          BY <1>0 DEF RealtimeTranscribers, Chunks
        <5> QED
          BY <1>0, <3>3, <5>1, PacketsType, BufferType DEF Asrs
      <4>3. ASSUME Line PROVE Line'
        <5>1. InLine(sent', Held', GetAudioBuffer(asr.buffer), audio)
          BY <1>0, <3>3, <4>1, <4>2, <4>3, SendInLine DEF Line
        <5> QED
          BY <2>1, <2>4, <4>3, <5>1 DEF Line, OneView
      <4> QED
        BY <1>0, <2>1, <3>1, <4>3 DEF AudioInv, Emptied
    <3> QED
      BY <3>1, <3>2, <3>3
  <2> QED
    BY <1>4, <2>2, <2>3, <2>4 DEF ProviderNext
<1>5. CASE (\E status \in {"active", "paused", "absent"} : Snapshot(status)) \/ StopAsr \/ UNCHANGED vars
  BY <1>1, <1>5 DEF Snapshot, StopAsr, vars, lifecycle
<1>6. CASE Transcribe
  <2> DEFINE a    == Adds(audio + 1)
             held == GetAudioBuffer(a.buffer)
             b    == [a EXCEPT !.buffer = FlushBuffer(@)]
  <2>1. Held \in Seq(Nat) /\ asr.buffer \in CircularBuffers
    <3>1. rt.preArm \in Seq(Chunks) /\ asr.buffer \in CircularBuffers
      BY <1>0 DEF RealtimeTranscribers, Chunks, Asrs
    <3>2. amz.queue # <<>> => Head(amz.queue) \in 0 .. MaxBuffer
      BY <1>0, HeadTailProperties DEF Transcribers
    <3> QED
      BY <3>1, <3>2, PacketsType, BufferType, EmptySeq DEF Held
  <2>2. audio' = audio + 1 /\ audio + 1 \in Nat
    BY <1>0, <1>6 DEF Transcribe
  <2>3. /\ a \in Asrs /\ a.buffer = Add(asr.buffer, audio + 1) /\ a.buffer \in CircularBuffers
        /\ a.overwritten = (asr.overwritten \/ amz.queue # <<>>)
    BY <1>0, <2>2, AddsType DEF Asrs
  <2>4. b \in Asrs /\ b.buffer = FlushBuffer(a.buffer) /\ b.overwritten = a.overwritten
    <3> HIDE DEF a
    <3> QED
      BY <2>3, BufferType DEF Asrs
  <2>5. \/ (UNCHANGED asr \/ asr' = a) /\ Idle
        \/ Len(held) >= MinBuffer /\ ProviderTranscribe(b, held)
    BY <1>6 DEF Transcribe
  <2>6. held \in Seq(Nat) /\ Len(held) <= MaxBuffer
    BY <2>3, BufferType, AsrLimits DEF CircularBuffers
  <2>7. ASSUME Line
        PROVE  /\ InLine(sent, Held, held, audio + 1)
               /\ InLine(sent, Held, GetAudioBuffer(asr.buffer), audio + 1)
    <3>1. GetAudioBuffer(asr.buffer) \in Seq(Nat) /\ InLine(sent, Held, GetAudioBuffer(asr.buffer), audio)
      BY <2>1, <2>7, BufferType DEF Line
    <3>2. held \in {Append(GetAudioBuffer(asr.buffer), audio + 1), <<audio + 1>>}
      BY <2>1, <2>2, <2>3, AddGives
    <3> HIDE DEF held
    <3>3. InLine(sent, Held, held, audio + 1)
      BY <1>0, <2>1, <3>1, <3>2, AddInLine
    <3>4. InLine(sent, Held, GetAudioBuffer(asr.buffer), audio + 1)
      <4>1. \A x \in Nat : (x <= audio) => (x <= audio + 1)
        BY <1>0
      <4>2. sent.last \in Nat /\ (\A i \in 1 .. Len(Held) : Held[i] \in Nat)
            /\ (\A i \in 1 .. Len(GetAudioBuffer(asr.buffer)) : GetAudioBuffer(asr.buffer)[i] \in Nat)
        BY <1>0, <2>1, <3>1 DEF Transmissions
      <4> QED
        BY <3>1, <4>1, <4>2 DEF InLine, Between
    <3> QED
      BY <3>3, <3>4
  <2> HIDE DEF a, b
  <2>8. CASE (UNCHANGED asr \/ asr' = a) /\ Idle
    <3>1. amz' = amz /\ rt' = rt /\ sent' = sent
      BY <2>8 DEF Idle, provider
    <3>2. CASE UNCHANGED asr
      <4>1. Held' = Held
        BY <1>0, <3>1, <3>2 DEF Held
      <4>2. Line => Line'
        BY <2>2, <2>7, <3>1, <3>2, <4>1 DEF Line, OneView
      <4> QED
        BY <1>0, <3>1, <3>2, <4>2 DEF AudioInv, Emptied
    <3>3. CASE asr' = a
      <4>1. ASSUME ~asr'.overwritten PROVE Line'
        <5>1. Line /\ amz.queue = <<>>
          BY <2>3, <3>3, <4>1 DEF AudioInv
        <5>2. Held' = Held
          BY <1>0, <3>1, <5>1 DEF Held
        <5>3. InLine(sent, Held, held, audio + 1)
          BY <2>7, <5>1
        <5> QED
          BY <2>2, <3>1, <3>3, <5>1, <5>2, <5>3 DEF Line, OneView
      <4> QED
        BY <1>0, <3>1, <4>1 DEF AudioInv, Emptied
    <3> QED
      BY <2>8, <3>2, <3>3
  <2>9. CASE Len(held) >= MinBuffer /\ ProviderTranscribe(b, held)
    <3> DEFINE buffer == a.buffer
    <3>1. held = GetAudioBuffer(buffer) /\ buffer \in CircularBuffers /\ b.buffer = FlushBuffer(buffer)
      BY <2>3, <2>4
    <3> HIDE DEF held, buffer
    <3>2. held # <<>>
      BY <2>6, <2>9, AsrLimits
    <3>3. asr'.buffer = FlushBuffer(buffer) /\ asr'.overwritten = a.overwritten
      BY <2>4, <2>6, <2>9, <3>1, <3>2, ProviderTranscribeOK DEF Follows
    <3>4. Emptied(rt')
      BY <1>0, <2>6, <2>9, <3>2, TranscribeEmpties DEF AudioInv
    <3>5. ASSUME ~asr'.overwritten PROVE Line'
      <4>1. Line /\ amz.queue = <<>>
        BY <2>3, <3>3, <3>5 DEF AudioInv
      <4>2. InLine(sent, Held, held, audio + 1)
        BY <2>7, <4>1
      <4>3. InLine(sent', Held', <<>>, audio + 1) /\ (amz'.queue # <<>> => Len(amz'.queue) = 1)
        BY <1>0, <2>2, <2>9, <3>1, <3>2, <4>1, <4>2, TranscribeInLine DEF AudioInv
      <4>4. GetAudioBuffer(asr'.buffer) = <<>> /\ asr'.buffer.pointer = 0
        BY <3>1, <3>3, FlushGives, BufferType
      <4> QED
        BY <2>2, <4>3, <4>4 DEF Line, OneView
    <3> QED
      BY <1>0, <3>4, <3>5 DEF AudioInv, Emptied
  <2> QED
    BY <2>5, <2>8, <2>9
<1> QED
  BY <1>3, <1>4, <1>5, <1>6 DEF Next

-----------------------------------------------------------------------------
(* The theorem *)

\* transcribe(), the audio queues of the providers and the pre-arm buffer: however starts,
\* pauses, reconnections and arming cross the packets of the stream, the service gets
\* them in their order, none twice, until a packet arrives while Amazon has a view of the
\* buffer in its queue and overwrites what that view shows.
THEOREM AudioIsInOrder == Spec => []AudioInOrder
<1>1. Init => AudioInv
  <2> SUFFICES ASSUME Init PROVE AudioInv
    OBVIOUS
  <2>1. rt.preArm = <<>> /\ amz.queue = <<>> /\ sent.last = 0 /\ sent.ordered /\ audio = 0
        /\ ~rt.ready /\ asr.buffer.pointer = 0
    BY DEF Init, NewRealtime, NewAmazon, NewAsr
  <2>2. <<>> \in Seq(Chunks) /\ Len(<<>>) = 0
    OBVIOUS
  <2>3. Len(Held) = 0
    BY <2>1, <2>2, PacketsType DEF Held
  <2>4. Len(GetAudioBuffer(asr.buffer)) = 0
    BY <2>1 DEF GetAudioBuffer, View
  <2>5. Line
    BY <2>1, <2>3, <2>4 DEF Line, OneView, InLine, Rising, Between, Precede
  <2> QED
    BY <2>1, <2>5 DEF AudioInv, Emptied
<1>2. IInv /\ IInv' /\ AudioInv /\ [Next]_vars => AudioInv'
  BY AudioStep DEF IInv
<1>3. AudioInv => AudioInOrder
  BY DEF AudioInv, Line, InLine, AudioInOrder
<1> QED
  BY <1>1, <1>2, <1>3, Invariant, PTL DEF Spec

=============================================================================
