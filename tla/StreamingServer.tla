--------------------------- MODULE StreamingServer ----------------------------
(***************************************************************************)
(* The ingest side of one Transcriber, for the channels of one session:    *)
(* the WebSocket, SRT and RTMP servers with their maps of running          *)
(* connections, the map of ASRs they share, the orderly stop of an ASR     *)
(* (flush, end-of-stream marker, segment cursor, deactivation), and the    *)
(* force-cut when the session leaves the broadcast snapshot.               *)
(*                                                                         *)
(* The process is one event loop; an action is one event with everything   *)
(* that runs until the next await that really waits.  pendingChannels is   *)
(* filled and emptied within one such turn, so it never refuses anybody.   *)
(* An ASR is named by the connection that started it; it publishes finals  *)
(* until its flush is over.                                                *)
(***************************************************************************)
EXTENDS Naturals, FiniteSets, SequencesExt

CONSTANTS
    Channels,       \* the channels of the session
    Protocols,      \* the servers that run: a subset of "WS", "SRT", "RTMP"
    MaxConnections, \* bound on the connections
    MaxFinals,      \* bound on the finals of all ASRs together
    MaxSnapshots    \* bound on the changes of the snapshot and the clears

ASSUME ProtocolsAssumption == Protocols \subseteq {"WS", "SRT", "RTMP"}
ASSUME StreamingLimits == MaxConnections \in Nat /\ MaxFinals \in Nat /\ MaxSnapshots \in Nat

\* Connections in the order in which they are accepted; 0 is none.
Conns == 1 .. MaxConnections

VARIABLES
    (* Connections *)
    conn,           \* "waiting": a WebSocket before its init; "live": it streams;
                    \* "stale": cleaned up, with an event still to come
    protocol,       \* the server each connection came to
    channel,        \* the channel each connection is for
    knownId,        \* channel.lastSegmentId of the snapshot each connection came under
    running,        \* runningChannels of each server
    listed,         \* runningSessions[session] of each server, an array of connections
    turn,           \* the order in which connections were added to it, 0 if not yet
    (* ASRs *)
    ASRs,           \* the ASR of each channel
    asr,            \* the state of each ASR
    segmentId,      \* the next segment of each ASR
    lastSegmentIds, \* the cursor kept per channel, 0 if none
    (* The broker *)
    session,        \* the session is in the snapshot
    snapshotId,     \* channel.lastSegmentId in the snapshot
    finals,         \* segment ids of the finals published per channel
    deactivated,    \* 'inactive' messages published for each ASR
    (* Bookkeeping *)
    met,            \* a connection came while another one of its channel was still
                    \* around, and not both were RTMP
    hurried,        \* an ASR started before the previous one of its channel was done
    snapshots       \* snapshot changes and clears so far

connections == <<conn, protocol, channel, knownId, running, listed, turn>>
asrs        == <<ASRs, asr, segmentId, lastSegmentIds>>
published   == <<session, snapshotId, finals, deactivated, snapshots>>
history     == <<met, hurried>>
vars        == <<connections, asrs, published, history>>

TypeOK ==
    /\ conn \in [Conns -> {"unused", "waiting", "live", "stale", "gone"}]
    /\ protocol \in [Conns -> Protocols]
    /\ channel \in [Conns -> Channels]
    /\ knownId \in [Conns -> Nat]
    /\ running \in [Protocols -> [Channels -> Conns \cup {0}]]
    /\ listed \in [Protocols -> SUBSET Conns]
    /\ turn \in [Conns -> Nat]
    /\ ASRs \in [Channels -> Conns \cup {0}]
    /\ asr \in [Conns -> {"none", "live", "flushing", "disposed"}]
    /\ segmentId \in [Conns -> Nat]
    /\ lastSegmentIds \in [Channels -> Nat]
    /\ session \in BOOLEAN
    /\ snapshotId \in [Channels -> Nat]
    /\ finals \in [Channels -> Seq(Nat)]
    /\ deactivated \in [Conns -> 0 .. 1]
    /\ met \in BOOLEAN
    /\ hurried \in BOOLEAN
    /\ snapshots \in 0 .. MaxSnapshots

Init ==
    /\ conn = [c \in Conns |-> "unused"]
    /\ protocol \in [Conns -> Protocols]
    /\ channel \in [Conns -> Channels]
    /\ knownId = [c \in Conns |-> 0]
    /\ running = [p \in Protocols |-> [ch \in Channels |-> 0]]
    /\ listed = [p \in Protocols |-> {}]
    /\ turn = [c \in Conns |-> 0]
    /\ ASRs = [ch \in Channels |-> 0]
    /\ asr = [c \in Conns |-> "none"]
    /\ segmentId = [c \in Conns |-> 0]
    /\ lastSegmentIds = [ch \in Channels |-> 0]
    /\ session = TRUE
    /\ snapshotId = [ch \in Channels |-> 0]
    /\ finals = [ch \in Channels |-> <<>>]
    /\ deactivated = [c \in Conns |-> 0]
    /\ met = FALSE
    /\ hurried = FALSE
    /\ snapshots = 0

-----------------------------------------------------------------------------
(* Helpers *)

\* Connections that have not come yet are taken in order.
Fresh(c) == conn[c] = "unused" /\ \A d \in Conns : d < c => conn[d] # "unused"

\* Mutant: the ASR leaves the map only when its flush is over.
StopAsr_AfterFlush(chans) ==
    /\ asr' = [a \in Conns |-> IF \E ch \in chans : ASRs[ch] = a THEN "flushing" ELSE asr[a]]
    /\ UNCHANGED ASRs

\* _stopAsr up to its flush, for the channels a 'session-stop' names: the ASR of
\* the channel leaves the map at once, whoever started it.
StopAsr(chans) ==
    /\ asr' = [a \in Conns |-> IF \E ch \in chans : ASRs[ch] = a THEN "flushing" ELSE asr[a]]
    /\ ASRs' = [ch \in Channels |-> IF ch \in chans THEN 0 ELSE ASRs[ch]]

\* What a server forgets in the cleanup of one of its connections of channel ch:
\* everything it has for the channel.
Without(list, ch) == {d \in list : channel[d] # ch}

\* A connection that was cleaned up: the 'close' of a WebSocket, or the 'exit' of
\* its worker, is still handled, and so is the failure of an SRT read that was in
\* progress.  An RTMP publisher is unknown from then on.
Residue(c) == CASE protocol[c] = "RTMP" -> {"gone"}
                [] OTHER                -> {"gone", "stale"}

\* resolveInitialSegmentId, with the channel as the snapshot had it when the
\* connection came.
InitialSegment(ch, known) ==
    IF lastSegmentIds[ch] # 0 THEN lastSegmentIds[ch] ELSE known + 1

\* Whether connection c meets another one of its channel.
Meets(c) == \E d \in Conns \ {c} :
    /\ conn[d] \in {"waiting", "live", "stale"}
    /\ channel[d] = channel[c]
    /\ ~(protocol[c] = "RTMP" /\ protocol[d] = "RTMP")

\* Mutant: a connection that is running keeps its place.
Register_KeepsOld(c, known, runningNow, listedNow) ==
    /\ segmentId' = [segmentId EXCEPT ![c] = InitialSegment(channel[c], known)]
    /\ lastSegmentIds' = [lastSegmentIds EXCEPT ![channel[c]] = 0]
    /\ running' = [runningNow EXCEPT ![protocol[c]][channel[c]] = IF @ = 0 THEN c ELSE @]
    /\ listed' = [listedNow EXCEPT ![protocol[c]] = @ \cup {c}]
    /\ turn' = [turn EXCEPT ![c] = Cardinality({d \in Conns : turn[d] # 0}) + 1]
    /\ hurried' = (hurried \/ \E a \in Conns \ {c} :
                       channel[a] = channel[c] /\ asr[a] \in {"live", "flushing"})

\* 'session-start' of connection c: an ASR is created and takes its channel's place
\* in the map; the channel is activated; then the connection is registered.
Register(c, known, runningNow, listedNow) ==
    /\ segmentId' = [segmentId EXCEPT ![c] = InitialSegment(channel[c], known)]
    /\ lastSegmentIds' = [lastSegmentIds EXCEPT ![channel[c]] = 0]
    /\ running' = [runningNow EXCEPT ![protocol[c]][channel[c]] = c]
    /\ listed' = [listedNow EXCEPT ![protocol[c]] = @ \cup {c}]
    /\ turn' = [turn EXCEPT ![c] = Cardinality({d \in Conns : turn[d] # 0}) + 1]
    /\ hurried' = (hurried \/ \E a \in Conns \ {c} :
                       channel[a] = channel[c] /\ asr[a] \in {"live", "flushing"})

-----------------------------------------------------------------------------
(* Connections *)

\* A connection is accepted and starts: a running one of the channel is cleaned up,
\* which stops the ASR of the channel.
Accept(c) ==
    LET p   == protocol[c]
        ch  == channel[c]
        old == running[p][ch]
    IN  /\ Fresh(c)
        /\ session
        /\ IF old = 0
           THEN conn' = [conn EXCEPT ![c] = "live"]
           ELSE \E left \in Residue(old) :
                    conn' = [conn EXCEPT ![c] = "live", ![old] = left]
        /\ asr' = [a \in Conns |-> IF a = c THEN "live"
                                   ELSE IF old # 0 /\ ASRs[ch] = a THEN "flushing"
                                   ELSE asr[a]]
        /\ ASRs' = [ASRs EXCEPT ![ch] = c]
        /\ Register(c, snapshotId[ch], running, IF old = 0 THEN listed
                                ELSE [listed EXCEPT ![p] = Without(@, ch)])
        /\ knownId' = [knownId EXCEPT ![c] = snapshotId[ch]]
        /\ met' = (met \/ Meets(c))
        /\ UNCHANGED <<protocol, channel, published>>

\* onConnection of the SRT server.
ConnectSRT(c) == protocol[c] = "SRT" /\ Accept(c)

\* onConnection of the RTMP server.
ConnectRTMP(c) == protocol[c] = "RTMP" /\ Accept(c)

\* onConnection of the WebSocket server: a running connection of the channel is
\* cleaned up; the new one waits for its init and is not registered anywhere.
ConnectWS(c) ==
    LET ch  == channel[c]
        old == running["WS"][ch]
    IN  /\ Fresh(c)
        /\ session
        /\ protocol[c] = "WS"
        /\ IF old = 0
           THEN /\ conn' = [conn EXCEPT ![c] = "waiting"]
                /\ UNCHANGED <<running, listed, ASRs, asr>>
           ELSE /\ \E left \in Residue(old) :
                       conn' = [conn EXCEPT ![c] = "waiting", ![old] = left]
                /\ running' = [running EXCEPT !["WS"][ch] = 0]
                /\ listed' = [listed EXCEPT !["WS"] = Without(@, ch)]
                /\ StopAsr({ch})
        /\ knownId' = [knownId EXCEPT ![c] = snapshotId[ch]]
        /\ met' = (met \/ Meets(c))
        /\ UNCHANGED <<protocol, channel, turn, segmentId, lastSegmentIds, published, hurried>>

\* handleInitMessage with a valid init.  Nothing is checked again: neither the
\* session nor who streams to the channel now.
InitMessage(c) ==
    /\ conn[c] = "waiting"
    /\ conn' = [conn EXCEPT ![c] = "live"]
    /\ asr' = [asr EXCEPT ![c] = "live"]
    /\ ASRs' = [ASRs EXCEPT ![channel[c]] = c]
    /\ Register(c, knownId[c], running, listed)
    /\ met' = (met \/ Meets(c))
    /\ UNCHANGED <<protocol, channel, knownId, published>>

\* An invalid init, or the client leaves before it: there is nothing to clean up.
WaitingGone(c) ==
    /\ conn[c] = "waiting"
    /\ conn' = [conn EXCEPT ![c] = "gone"]
    /\ UNCHANGED <<protocol, channel, knownId, running, listed, turn, asrs, published, history>>

\* Mutant: the cleanup keeps the connection in runningSessions.
Cleanup_StaysListed(c) ==
    /\ running' = [running EXCEPT ![protocol[c]][channel[c]] = 0]
    /\ UNCHANGED listed
    /\ StopAsr({channel[c]})

\* cleanupWebsocket, or cleanupConnection, of connection c: it is keyed by the
\* channel, whichever connection runs there now.
Cleanup(c) ==
    /\ running' = [running EXCEPT ![protocol[c]][channel[c]] = 0]
    /\ listed' = [listed EXCEPT ![protocol[c]] = Without(@, channel[c])]
    /\ StopAsr({channel[c]})

\* A live connection is over.
Close(c) ==
    /\ conn[c] = "live"
    /\ \E left \in Residue(c) : conn' = [conn EXCEPT ![c] = left]
    /\ Cleanup(c)
    /\ UNCHANGED <<protocol, channel, knownId, turn, segmentId, lastSegmentIds, published,
                   history>>

\* The WebSocket is closed or fails, or its worker does.
CloseWS(c) == protocol[c] = "WS" /\ Close(c)

\* The SRT connection is closed or broken, its worker fails, or no packet came for
\* channelTimeoutSeconds.
CloseSRT(c) == protocol[c] = "SRT" /\ Close(c)

\* donePublish, or the worker fails.
CloseRTMP(c) == protocol[c] = "RTMP" /\ Close(c)

\* The event that was still to come after the cleanup: another cleanup.
LateClose(c) ==
    /\ conn[c] = "stale"
    /\ conn' = [conn EXCEPT ![c] = "gone"]
    /\ Cleanup(c)
    /\ UNCHANGED <<protocol, channel, knownId, turn, segmentId, lastSegmentIds, published,
                   history>>

-----------------------------------------------------------------------------
(* The snapshot *)

Snapshot ==
    /\ snapshots < MaxSnapshots
    /\ snapshots' = snapshots + 1

\* Mutant: the loop ends after its first turn.
CutFirst_OneTurn ==
    {c \in Conns : \E p \in Protocols : c \in listed[p] /\ \A d \in listed[p] : turn[c] <= turn[d]}

\* The connections that stopRunningSession cleans up: of each channel the first
\* one in the list; the others only leave the list with it.
CutFirst == {c \in Conns : \E p \in Protocols :
    /\ c \in listed[p]
    /\ \A d \in listed[p] : channel[d] = channel[c] => turn[c] <= turn[d]}

\* setSessions: the session has left the snapshot and every server cuts what it has
\* listed for it.
SessionGone ==
    /\ session
    /\ Snapshot
    /\ session' = FALSE
    /\ \E left \in [CutFirst -> {"gone", "stale"}] :
           /\ \A c \in CutFirst : left[c] \in Residue(c)
           /\ conn' = [c \in Conns |-> IF c \in CutFirst THEN left[c] ELSE conn[c]]
    /\ StopAsr({channel[c] : c \in CutFirst})
    /\ running' = [p \in Protocols |-> [ch \in Channels |->
                      IF \E c \in listed[p] : channel[c] = ch
                      THEN 0 ELSE running[p][ch]]]
    /\ listed' = [p \in Protocols |-> {}]
    /\ UNCHANGED <<protocol, channel, knownId, turn, segmentId, lastSegmentIds, snapshotId, finals,
                   deactivated, history>>

\* A snapshot with the session in it, and the last segments the database knows of.
SessionListed ==
    /\ Snapshot
    /\ session' = TRUE
    /\ snapshotId' = [ch \in Channels |->
                        IF finals[ch] = <<>> THEN snapshotId[ch] ELSE Last(finals[ch])]
    /\ UNCHANGED <<connections, asrs, finals, deactivated, history>>

\* clearSession, after PUT /sessions/:id/clear has wiped the captions: the cursors
\* are dropped, an ASR that runs goes on counting.
ClearSession ==
    /\ Snapshot
    /\ lastSegmentIds' = [ch \in Channels |-> 0]
    /\ snapshotId' = [ch \in Channels |-> 0]
    /\ finals' = [ch \in Channels |-> <<>>]
    /\ UNCHANGED <<connections, ASRs, asr, segmentId, session, deactivated, history>>

-----------------------------------------------------------------------------
(* ASRs *)

\* The provider delivers a final, also while it is flushed.
Final(a) ==
    /\ asr[a] \in {"live", "flushing"}
    /\ FoldFunction(LAMBDA s, n : Len(s) + n, 0, finals) < MaxFinals
    /\ finals' = [finals EXCEPT ![channel[a]] = Append(@, segmentId[a])]
    /\ segmentId' = [segmentId EXCEPT ![a] = @ + 1]
    /\ UNCHANGED <<connections, ASRs, asr, lastSegmentIds, session, snapshotId,
                   deactivated, snapshots, history>>

\* Mutant: the cursor is not kept.
FlushDone_ForgetsCursor(a) ==
    /\ asr[a] = "flushing"
    /\ asr' = [asr EXCEPT ![a] = "disposed"]
    /\ deactivated' = [deactivated EXCEPT ![a] = @ + 1]
    /\ UNCHANGED <<connections, ASRs, segmentId, lastSegmentIds, session, snapshotId,
                   finals, snapshots, history>>

\* _stopAsr after its flush: the end-of-stream marker (which has no segment id), the
\* cursor, and 'inactive'.
FlushDone(a) ==
    /\ asr[a] = "flushing"
    /\ asr' = [asr EXCEPT ![a] = "disposed"]
    /\ lastSegmentIds' = [lastSegmentIds EXCEPT ![channel[a]] = segmentId[a] + 1]
    /\ deactivated' = [deactivated EXCEPT ![a] = @ + 1]
    /\ UNCHANGED <<connections, ASRs, segmentId, session, snapshotId, finals, snapshots,
                   history>>

-----------------------------------------------------------------------------
(* Specification *)

Next ==
    \/ \E c \in Conns :
           \/ ConnectSRT(c) \/ ConnectRTMP(c)
           \/ ConnectWS(c) \/ InitMessage(c) \/ WaitingGone(c)
           \/ CloseWS(c) \/ CloseSRT(c) \/ CloseRTMP(c) \/ LateClose(c)
           \/ Final(c) \/ FlushDone(c)
    \/ SessionGone
    \/ SessionListed
    \/ ClearSession

Spec == Init /\ [][Next]_vars

-----------------------------------------------------------------------------
(* Properties *)

\* As long as no connection has met another one of its channel that was still
\* around (RTMP publishers may), every live connection feeds its own ASR and is
\* registered, so that its audio is transcribed and a force-cut finds it.
Served ==
    ~met => \A c \in Conns : conn[c] = "live" =>
        /\ ASRs[channel[c]] = c
        /\ running[protocol[c]][channel[c]] = c
        /\ c \in listed[protocol[c]]

\* On the same condition, no SRT or RTMP stream goes on after its session has left
\* the snapshot.
CutWhenGone ==
    ~met /\ ~session => \A c \in Conns : conn[c] = "live" => protocol[c] = "WS"

\* An RTMP publisher is listed under a session only while the server knows it:
\* stopRunningSession loops until the list is empty, and the cleanup of an unknown
\* publisher takes nothing off it.
ForceCutEnds ==
    "RTMP" \in Protocols => \A c \in listed["RTMP"] : conn[c] = "live"

\* Whatever stops a stream, and however often, its ASR is flushed, marked and
\* deactivated at most once, and is out of the map before.
StoppedOnce ==
    \A a \in Conns :
        /\ asr[a] \in {"flushing", "disposed"} => \A ch \in Channels : ASRs[ch] # a
        /\ deactivated[a] = IF asr[a] = "disposed" THEN 1 ELSE 0

\* Unless an ASR is started before the previous one of its channel is disposed, the
\* finals of a channel have ascending segment ids over all its streams, also after
\* a clear.
SegmentsAscend ==
    ~hurried => \A ch \in Channels : \A i, j \in 1 .. Len(finals[ch]) :
        i < j => finals[ch][i] < finals[ch][j]

\* "Support same-transcriber reconnection (force-clean old worker)": what is still to
\* come of a connection that was replaced leaves the stream that replaced it alone.
ReconnectedIsServed ==
    [][\A c, d \in Conns :
          (conn[c] = "stale" /\ conn'[c] = "gone" /\ conn[d] = "live" /\ ASRs[channel[d]] = d)
              => ASRs'[channel[d]] = d]_vars
=============================================================================
