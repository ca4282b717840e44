-------------------------- MODULE TranscriberStream ---------------------------
(***************************************************************************)
(* The link between one running bot and its Transcriber: the WebSockets    *)
(* that BrokerClient opens one after the other, the TranscriberStream on   *)
(* each of them, the audio buffer they share, the reconnection with its    *)
(* bounded backoff, the init-ack watchdog and the restart after the native *)
(* diarization was lost.                                                   *)
(*                                                                         *)
(* An action is one event of the process: a frame of the bot, an event of  *)
(* a socket, a timer.  The Transcriber and the network decide what happens *)
(* to a socket; a message may still arrive on a socket that this side is   *)
(* closing.  A frame is its number.  Delays are abstracted to "later".     *)
(***************************************************************************)
EXTENDS Naturals, Sequences, FiniteSets

CONSTANTS
    Sockets,        \* WebSocket objects; a closed one stands for a new one again
    MaxBuffer,      \* MAX_AUDIO_BUFFER_CHUNKS
    MaxRetries,     \* RECONNECT_MAX_RETRIES
    MaxFrames       \* bound on the frames the bot produces

ASSUME LimitsAssumption == MaxBuffer \in Nat \ {0} /\ MaxRetries \in Nat /\ MaxFrames \in Nat

VARIABLES
    ws,             \* the state of each socket
    current,        \* record.ws, and the socket of record.stream
    ready,          \* streams that were acknowledged
    ackTimer,       \* streams whose init-ack watchdog is armed
    buffered,       \* audioBuffer.buffered, shared by all streams of the bot
    droppedFrames,  \* audioBuffer.droppedFrames: frames that left the full buffer
    attempts,       \* record.reconnectAttempts
    timers,         \* reconnect timers that will fire
    tracked,        \* record.reconnectTimer is not null
    degraded,       \* the bot has reported the loss of native diarization
    stopping,       \* record.stopping: the bot is stopped for good
    frames,         \* frames the bot has produced
    sent            \* frames handed to an open socket, in order

sockets == <<ws, current, ready, ackTimer>>
retry   == <<attempts, timers, tracked>>
audio   == <<buffered, droppedFrames, frames, sent>>
vars    == <<sockets, retry, audio, degraded, stopping>>

\* "closing" after our close() of an open socket, on which messages still arrive;
\* "ending" when only the 'close' event is to come.
TypeOK ==
    /\ ws \in [Sockets -> {"connecting", "open", "closing", "ending", "closed"}]
    /\ current \in Sockets
    /\ ready \subseteq Sockets
    /\ ackTimer \subseteq Sockets
    /\ buffered \in Seq(1 .. MaxFrames) /\ Len(buffered) <= MaxBuffer
    /\ droppedFrames \in 0 .. MaxFrames
    /\ attempts \in 0 .. MaxRetries
    /\ timers \in Nat
    /\ tracked \in BOOLEAN
    /\ degraded \in BOOLEAN
    /\ stopping \in BOOLEAN
    /\ frames \in 0 .. MaxFrames
    /\ sent \in Seq(1 .. MaxFrames)

\* The bot has joined; _connectTranscriber opens the first socket.
Init ==
    /\ current \in Sockets
    /\ ws = [s \in Sockets |-> IF s = current THEN "connecting" ELSE "closed"]
    /\ ready = {}
    /\ ackTimer = {}
    /\ buffered = <<>>
    /\ droppedFrames = 0
    /\ attempts = 0
    /\ timers = 0
    /\ tracked = FALSE
    /\ degraded = FALSE
    /\ stopping = FALSE
    /\ frames = 0
    /\ sent = <<>>

-----------------------------------------------------------------------------
(* Sockets *)

\* ws.close(): a handshake in progress is aborted, an open connection is closed
\* once the peer has answered.
Closing(s) == CASE ws[s] = "connecting" -> "ending"
                [] ws[s] = "open"       -> "closing"
                [] OTHER                -> ws[s]

\* _openSocket: the previous stream is detached from the bot and loses its
\* watchdog; its socket is left as it is.
OpenSocket(s, states) ==
    /\ states[s] = "closed"
    /\ ws' = [states EXCEPT ![s] = "connecting"]
    /\ current' = s
    /\ ready' = ready \ {s}
    /\ ackTimer' = ackTimer \ {current}

\* 'open': the backoff starts over, the stream sends init and arms its watchdog.
SocketOpen(s) ==
    /\ ws[s] = "connecting"
    /\ ws' = [ws EXCEPT ![s] = "open"]
    /\ attempts' = 0
    /\ ackTimer' = ackTimer \cup {s}
    /\ UNCHANGED <<current, ready, timers, tracked, audio, degraded, stopping>>

\* The connection is refused.
SocketRefused(s) ==
    /\ ws[s] = "connecting"
    /\ ws' = [ws EXCEPT ![s] = "ending"]
    /\ UNCHANGED <<current, ready, ackTimer, retry, audio, degraded, stopping>>

\* The Transcriber closes the connection, or it breaks.
SocketLost(s) ==
    /\ ws[s] = "open"
    /\ ws' = [ws EXCEPT ![s] = "ending"]
    /\ UNCHANGED <<current, ready, ackTimer, retry, audio, degraded, stopping>>

\* Mutant: what was sent stays in the buffer.
Flush_Keeps(s) ==
    /\ sent' = IF ws[s] = "open" THEN sent \o buffered ELSE sent
    /\ UNCHANGED buffered

\* _flush of the stream on socket s.
Flush(s) ==
    /\ sent' = IF ws[s] = "open" THEN sent \o buffered ELSE sent
    /\ buffered' = <<>>

\* 'message' with the ack.  The handler stays on the socket of a stream that was
\* detached, and a message can arrive while the socket is closing.
Ack(s) ==
    /\ s \notin ready
    /\ ws[s] \in {"open", "closing"}
    /\ ready' = ready \cup {s}
    /\ ackTimer' = ackTimer \ {s}
    /\ Flush(s)
    /\ UNCHANGED <<ws, current, retry, droppedFrames, frames, degraded, stopping>>

\* stopBot clears the timer it knows of.
ClearTimer ==
    /\ timers' = IF tracked THEN timers - 1 ELSE timers
    /\ tracked' = FALSE

\* Mutant: a reconnection is not counted.
ScheduleReconnect_Uncounted ==
    /\ timers' = timers + 1
    /\ tracked' = TRUE
    /\ UNCHANGED <<attempts, stopping>>

\* _scheduleReconnect, after the record's socket closed: once the retries are used up the bot
\* is stopped.
ScheduleReconnect ==
    IF attempts >= MaxRetries
    THEN /\ ClearTimer
         /\ stopping' = TRUE
         /\ UNCHANGED attempts
    ELSE /\ attempts' = attempts + 1
         /\ timers' = timers + 1
         /\ tracked' = TRUE
         /\ UNCHANGED stopping

\* 'close': the stream buffers again; only the socket of the record makes the
\* broker client reconnect, and only if the bot is not being stopped.
SocketClosed(s) ==
    /\ ws[s] \in {"closing", "ending"}
    /\ ws' = [ws EXCEPT ![s] = "closed"]
    /\ ready' = ready \ {s}
    /\ ackTimer' = ackTimer \ {s}
    /\ IF s = current /\ ~stopping THEN ScheduleReconnect
                                   ELSE UNCHANGED <<retry, stopping>>
    /\ UNCHANGED <<current, audio, degraded>>

\* No ack in time: the watchdog closes the socket.
AckTimeout(s) ==
    /\ s \in ackTimer
    /\ ackTimer' = ackTimer \ {s}
    /\ ws' = [ws EXCEPT ![s] = Closing(s)]
    /\ UNCHANGED <<current, ready, retry, audio, degraded, stopping>>

\* Mutant: the timer does not look whether the bot was stopped.
ReconnectTimer_Unchecked(s) ==
    /\ timers > 0
    /\ timers' = timers - 1
    /\ tracked' = FALSE
    /\ OpenSocket(s, ws)
    /\ UNCHANGED <<attempts, audio, degraded, stopping>>

\* A reconnect timer fires.  One that stopBot did not know of, because another one
\* was set or fired since, finds the record stopping.
ReconnectTimer(s) ==
    /\ timers > 0
    /\ timers' = timers - 1
    /\ tracked' = FALSE
    /\ IF stopping THEN UNCHANGED sockets ELSE OpenSocket(s, ws)
    /\ UNCHANGED <<attempts, audio, degraded, stopping>>

\* The bot reports, once, that native diarization is lost: the socket is closed and
\* another one opened, which advertises 'asr'.
DiarizationDegraded(s) ==
    /\ ~degraded
    /\ ~stopping
    /\ degraded' = TRUE
    /\ OpenSocket(s, [ws EXCEPT ![current] = Closing(current)])
    /\ UNCHANGED <<retry, audio, stopping>>

\* stopBot: the timer is cleared, the socket of the record closed.
Stop ==
    /\ ~stopping
    /\ stopping' = TRUE
    /\ ClearTimer
    /\ ws' = [ws EXCEPT ![current] = Closing(current)]
    /\ UNCHANGED <<current, ready, ackTimer, attempts, audio, degraded>>

-----------------------------------------------------------------------------
(* Audio *)

\* Mutant: one frame too many.
Buffer_OffByOne(f) ==
    IF Len(buffered) > MaxBuffer
    THEN buffered' = Append(Tail(buffered), f) /\ droppedFrames' = droppedFrames + 1
    ELSE buffered' = Append(buffered, f) /\ UNCHANGED droppedFrames

\* The full buffer drops its oldest frame.
Buffer(f) ==
    IF Len(buffered) >= MaxBuffer
    THEN buffered' = Append(Tail(buffered), f) /\ droppedFrames' = droppedFrames + 1
    ELSE buffered' = Append(buffered, f) /\ UNCHANGED droppedFrames

\* _sendAudio of the attached stream.  An acknowledged stream drops the frame when
\* its socket is not open.  A bot whose meeting mixes the audio goes on producing
\* it while it leaves.
Audio ==
    /\ frames < MaxFrames
    /\ frames' = frames + 1
    /\ IF current \in ready
       THEN /\ sent' = IF ws[current] = "open" THEN Append(sent, frames + 1) ELSE sent
            /\ UNCHANGED <<buffered, droppedFrames>>
       ELSE /\ Buffer(frames + 1)
            /\ UNCHANGED sent
    /\ UNCHANGED <<sockets, retry, degraded, stopping>>

-----------------------------------------------------------------------------
(* Specification *)

Next ==
    \/ Audio
    \/ Stop
    \/ \E s \in Sockets :
           \/ SocketOpen(s) \/ SocketRefused(s) \/ SocketLost(s) \/ SocketClosed(s)
           \/ Ack(s) \/ AckTimeout(s)
           \/ ReconnectTimer(s) \/ DiarizationDegraded(s)

\* Timers fire, a connection attempt ends one way or the other, and a socket that
\* is closing emits 'close'.  Nothing is assumed of the Transcriber.
Fairness ==
    /\ \A s \in Sockets :
           /\ WF_vars(SocketOpen(s) \/ SocketRefused(s))
           /\ WF_vars(SocketClosed(s))
           /\ WF_vars(AckTimeout(s))
    /\ WF_vars(\E s \in Sockets : ReconnectTimer(s))

Spec == Init /\ [][Next]_vars /\ Fairness

-----------------------------------------------------------------------------
(* Properties *)

\* Frames in the order of their numbers, none twice.
Ascending(s) == \A i, j \in 1 .. Len(s) : i < j => s[i] < s[j]

\* All of s before all of t; all of s up to n.
Before(s, t) == \A i \in 1 .. Len(s), j \in 1 .. Len(t) : s[i] < t[j]
UpTo(s, n) == \A i \in 1 .. Len(s) : s[i] <= n

\* Over all sockets of the bot the frames are handed over in the order in which
\* they were captured and none twice, although streams come and go and share the
\* buffer that each of them flushes.
InOrder == Ascending(sent)

\* Why: the buffer continues what was sent, and is empty while the stream of the
\* record sends directly.
BufferFollows ==
    /\ Ascending(buffered)
    /\ Before(sent, buffered)
    /\ UpTo(sent, frames)
    /\ UpTo(buffered, frames)
    /\ current \in ready => buffered = <<>>

\* A timer the record knows of is one that will fire, and a frame that was dropped
\* was produced.
CountersAgree ==
    /\ tracked => timers > 0
    /\ droppedFrames <= frames

\* After an intentional stop, or after the retries are used up, no timer, late
\* close or watchdog opens another socket.
StoppedStaysClosed ==
    [][stopping => \A s \in Sockets : ws'[s] = "connecting" => ws[s] = "connecting"]_vars

\* "After the retries are exhausted we give up": if from some time on no socket
\* opens any more, the bot is stopped.
UnreachableIsFatal == <>[](\A s \in Sockets : ws[s] # "open") => <>stopping
=============================================================================
