-------------------------- MODULE RealtimeTranscriber -------------------------
(***************************************************************************)
(* The providers that hold one WebSocket to their service: openai_streaming*)
(* with its two protocols ("vllm" and "openai"), and linto.  start() opens *)
(* a socket, stop() closes it, both synchronously.  After a failure of the *)
(* socket, or when the watchdog of an armed vLLM session hears nothing, a  *)
(* timer calls start() again.                                              *)
(*                                                                         *)
(* The generation that the handlers of a socket compare, _connGeneration,  *)
(* changes where this.ws does: a handler is current when its socket is     *)
(* this.ws.  The handler of messages does not compare it.  A socket that   *)
(* is closing still delivers what its peer sends before it answers.        *)
(***************************************************************************)
EXTENDS Asr

CONSTANTS
    MaxPreArm,  \* packets that PRE_ARM_BUFFER_MAX_BYTES hold
    MaxRetries  \* WATCHDOG_MAX_RETRIES

ASSUME RealtimeLimits == MaxPreArm \in Nat \ {0} /\ MaxRetries \in Nat \ {0}

VARIABLE rt     \* the transcriber, see RealtimeTranscribers

\* A socket is named by the start that opened it.
Sockets == 1 .. MaxStarts

RealtimeTranscribers ==
    [ws         : 0 .. MaxStarts,        \* this.ws, 0 if null
     at         : [Sockets -> {"unused", "connecting", "open", "closing", "closed"}],
     created    : SUBSET Sockets,        \* sockets whose session.created has come
     ready      : BOOLEAN,               \* _sessionReady
     armed      : BOOLEAN,
     updateSent : BOOLEAN,
     watchdog   : 0 .. MaxStarts,        \* the socket it was set for, 0 if none is set
     retries    : 0 .. MaxRetries,       \* _watchdogRetries, which counts on above the maximum
     timer      : BOOLEAN,               \* the reconnection
     ticking    : BOOLEAN,               \* segmentationTimer
     text       : BOOLEAN,               \* accumulatedText is not empty
     preArm     : Seq([packet : Nat, chunk : Nat]),  \* a chunk is named by its first packet
     thrown     : BOOLEAN]               \* a handler has thrown, which nobody catches

NewRealtime == [ws |-> 0, at |-> [s \in Sockets |-> "unused"], created |-> {}, ready |-> FALSE,
                armed |-> FALSE, updateSent |-> FALSE, watchdog |-> 0, retries |-> 0,
                timer |-> FALSE, ticking |-> FALSE, text |-> FALSE, preArm |-> <<>>,
                thrown |-> FALSE]

IsOpen(r) == r.ws # 0 /\ r.at[r.ws] = "open"

\* this.ws.send() throws: there is no socket, or it is still connecting.
SendThrows(r) == r.ws = 0 \/ (r.ws # 0 /\ r.at[r.ws] = "connecting")

\* start(): a new socket.  The previous one is left as it is.
RealtimeStart(a, r) ==
    /\ NextStart
    /\ rt' = [r EXCEPT !.ws = starts', !.at[starts'] = "connecting", !.ready = FALSE,
                       !.armed = FALSE, !.updateSent = FALSE, !.text = FALSE]
    /\ asr' = OnConnecting(a)

\* stop(): what it leaves of the transcriber...
Stopping(r) ==
    [r EXCEPT !.ws = 0, !.watchdog = 0, !.timer = FALSE, !.ticking = FALSE, !.text = FALSE,
              !.at = [s \in Sockets |-> IF s # r.ws THEN @[s]
                                        ELSE IF @[s] = "open" THEN "closing" ELSE "closed"]]

\* ... and the text it flushes as a final.
FlushText(a, r) == IF r.text THEN OnTranscribed(a, TRUE, FALSE) ELSE a

RealtimeStop(a) ==
    /\ rt' = Stopping(rt)
    /\ asr' = FlushText(a, rt)
    /\ UNCHANGED <<call, starts>>

\* _flushPreArmBuffer and the 'ready' that follows it.
MakeReady(a, r) ==
    /\ rt' = [r EXCEPT !.ready = TRUE, !.preArm = <<>>]
    /\ Sends([i \in DOMAIN r.preArm |-> r.preArm[i].packet])
    /\ asr' = OnReady(a)

\* _tryArm: the commit, the buffered audio, 'ready', and the timers.
CanArm(r) == ~r.armed /\ r.updateSent /\ IsOpen(r)
Arm(a, r) == MakeReady(a, [r EXCEPT !.armed = TRUE, !.ticking = TRUE, !.watchdog = r.ws])

-----------------------------------------------------------------------------
(* The socket *)

\* 'open'.  The linto provider sends its configuration, on this.ws, and is ready.
SocketOpen(s) ==
    /\ rt.at[s] = "connecting"
    /\ LET r == [rt EXCEPT !.at[s] = "open"]
       IN  IF kind # "linto"
           THEN rt' = r /\ UNCHANGED asr
           ELSE IF SendThrows(r)
           THEN rt' = [r EXCEPT !.thrown = TRUE] /\ UNCHANGED asr
           ELSE rt' = r /\ asr' = OnReady(asr)
    /\ UNCHANGED <<call, starts, results, faults, sent>>

\* session.created: _onSessionCreated sends on this.ws, whichever socket spoke.
SessionCreated(s) ==
    /\ kind # "linto"
    /\ rt.at[s] \in {"open", "closing"}
    /\ s \notin rt.created
    /\ LET r == [rt EXCEPT !.created = @ \cup {s}]
           u == [r EXCEPT !.updateSent = TRUE]
       IN  IF SendThrows(r)
           THEN rt' = [r EXCEPT !.thrown = TRUE] /\ UNCHANGED <<asr, sent>>
           ELSE IF kind = "openai"
           THEN MakeReady(asr, u)
           ELSE IF CanArm(u)
           THEN Arm(asr, u)
           ELSE rt' = u /\ UNCHANGED <<asr, sent>>
    /\ UNCHANGED <<call, starts, results, faults>>

Speaks(s) == rt.at[s] \in {"open", "closing"} /\ (kind = "linto" \/ s \in rt.created)

\* _onTranscriptionEvidence
Evidence(r) == [r EXCEPT !.retries = 0, !.watchdog = 0]

\* A delta, or a partial of linto; at the end of a sentence the deltas so far are
\* emitted as a final first.
DeltaMessage(s) ==
    /\ Speaks(s)
    /\ NextResult
    /\ rt' = IF kind = "linto" THEN rt ELSE [Evidence(rt) EXCEPT !.text = TRUE]
    /\ \E a \in {asr} \cup (IF kind # "linto" /\ rt.text
                          THEN {OnTranscribed(asr, TRUE, s # starts)} ELSE {}) :
           asr' = OnTranscribing(a, TRUE, s # starts)
    /\ UNCHANGED <<call, starts, faults, sent>>

\* A final of the service.
FinalMessage(s) ==
    /\ Speaks(s)
    /\ NextResult
    /\ rt' = IF kind = "linto" THEN rt ELSE [Evidence(rt) EXCEPT !.text = FALSE]
    /\ asr' = OnTranscribed(asr, TRUE, s # starts)
    /\ UNCHANGED <<call, starts, faults, sent>>

\* An error event of the service: it is reported, and that is all.
ErrorMessage(s) ==
    /\ Speaks(s) /\ kind # "linto"
    /\ asr' = OnError(asr)
    /\ NextFault
    /\ UNCHANGED <<rt, call, starts, results, sent>>

\* 'error': of the current socket it is reported, the transcriber is stopped and will
\* start again, unless the failure is critical.
SocketError(s) ==
    /\ rt.at[s] \in {"connecting", "open"}
    /\ LET r == [rt EXCEPT !.at[s] = "closed"]
       IN  IF s # rt.ws
           THEN rt' = r /\ UNCHANGED asr
           ELSE /\ \E critical \in BOOLEAN : rt' = [Stopping(r) EXCEPT !.timer = ~critical]
                /\ asr' = FlushText(OnError(asr), r)
    /\ NextFault
    /\ UNCHANGED <<call, starts, results, sent>>

\* 'close'.
SocketClose(s) ==
    /\ rt.at[s] \in {"open", "closing"}
    /\ rt' = [rt EXCEPT !.at[s] = "closed"]
    /\ asr' = IF s = rt.ws THEN OnClosed(asr) ELSE asr
    /\ UNCHANGED <<call, starts, results, faults, sent>>

-----------------------------------------------------------------------------
(* Timers *)

\* _runSegmentationTick finds an end of the segment.
SegmentationTick ==
    /\ rt.ticking /\ rt.text
    /\ rt' = [rt EXCEPT !.text = FALSE]
    /\ asr' = OnTranscribed(asr, TRUE, FALSE)
    /\ UNCHANGED <<call, starts, results, faults, sent>>

\* _onWatchdogTimeout and _forceResession; the last of the fast retries is reported
\* as an error.
WatchdogTimeout ==
    /\ rt.watchdog # 0
    /\ IF rt.watchdog # rt.ws
       THEN rt' = [rt EXCEPT !.watchdog = 0] /\ UNCHANGED asr
       ELSE LET tries == rt.retries + 1
                a     == IF tries = MaxRetries THEN OnError(asr) ELSE asr
            IN  /\ rt' = [Stopping(rt) EXCEPT !.timer = TRUE,
                                              !.retries = IF tries > MaxRetries THEN @ ELSE tries]
                /\ asr' = FlushText(a, rt)
    /\ UNCHANGED <<call, starts, results, faults, sent>>

\* The timer of a reconnection: start(), outside the transitions of the ASR.
Reconnect ==
    /\ rt.timer
    /\ RealtimeStart(asr, [rt EXCEPT !.timer = FALSE])
    /\ UNCHANGED <<call, results, faults, sent>>

-----------------------------------------------------------------------------
(* Audio *)

\* _bufferPreArm: the oldest chunks are dropped until the rest fits, or is the newest
\* chunk alone.
PreArm(r, packets) ==
    LET all   == r.preArm \o [i \in DOMAIN packets |-> [packet |-> packets[i], chunk |-> packets[1]]]
        first(i) == i = 1 \/ all[i].chunk # all[i - 1].chunk
        fits(i) == Len(all) - i + 1 <= MaxPreArm \/ all[i].chunk = packets[1]
        keep  == CHOOSE i \in DOMAIN all : /\ first(i) /\ fits(i)
                                           /\ \A j \in 1 .. (i - 1) : ~(first(j) /\ fits(j))
    IN  [r EXCEPT !.preArm = SubSeq(all, keep, Len(all))]

\* transcribe()
RealtimeTranscribe(a, packets) ==
    IF IsOpen(rt) /\ (rt.ready \/ kind = "linto")
    THEN Sends(packets) /\ asr' = a /\ UNCHANGED rt
    ELSE IF kind = "linto"
    THEN asr' = a /\ UNCHANGED <<rt, sent>>
    ELSE LET r == PreArm(rt, packets)
         IN  IF kind = "vllm" /\ CanArm(r)
             THEN Arm(a, r)
             ELSE rt' = r /\ asr' = a /\ UNCHANGED sent

RealtimeNext ==
    \/ \E s \in Sockets :
           \/ SocketOpen(s) \/ SessionCreated(s) \/ DeltaMessage(s) \/ FinalMessage(s)
           \/ ErrorMessage(s) \/ SocketError(s) \/ SocketClose(s)
    \/ SegmentationTick \/ WatchdogTimeout \/ Reconnect

\* Sockets that are, or may become, open.
RealtimeStreams == {s \in Sockets : rt.at[s] \in {"connecting", "open"}}
=============================================================================
