------------------------ MODULE StreamingServerProofs -------------------------
(***************************************************************************)
(* What a Transcriber promises of its streams, for any channels, any of    *)
(* its servers and any number of connections, finals and snapshots.        *)
(***************************************************************************)
EXTENDS StreamingServer, FiniteSetTheorems, TLAPS

\* The ASRs that may publish finals, and the connections that are still around.
Active == {a \in Conns : asr[a] \in {"live", "flushing"}}
Around == {c \in Conns : conn[c] \in {"waiting", "live", "stale"}}

\* How far a connection is, which servers know that position, and that it has no
\* ASR before it streams.
ConnsMatch == \A c \in Conns :
    /\ conn[c] = "waiting" => protocol[c] = "WS"
    /\ conn[c] = "stale" => protocol[c] # "RTMP"
    /\ conn[c] \in {"unused", "waiting"} => asr[c] = "none"

\* The map of ASRs has live ones, under their channel.
MapMatches == \A ch \in Channels : ASRs[ch] # 0 =>
    asr[ASRs[ch]] = "live" /\ channel[ASRs[ch]] = ch

\* The maps of a server have connections of that server, under their channel.
ListsMatch == \A p \in Protocols :
    /\ \A ch \in Channels : running[p][ch] # 0 =>
           /\ protocol[running[p][ch]] = p
           /\ channel[running[p][ch]] = ch
           /\ conn[running[p][ch]] \notin {"unused", "waiting"}
    /\ \A c \in listed[p] : protocol[c] = p /\ conn[c] \notin {"unused", "waiting"}

\* An ASR is deactivated when it is disposed.
CountMatches == \A a \in Conns : deactivated[a] = IF asr[a] = "disposed" THEN 1 ELSE 0

\* As long as no connection has met another one, each has its channel for itself and
\* the maps of the servers have streams only.
Alone == ~met => \A c, d \in Around : channel[c] = channel[d] => c = d
MapsLive == ~met => \A p \in Protocols :
    /\ \A c \in listed[p] : conn[c] = "live"
    /\ \A ch \in Channels : running[p][ch] # 0 => conn[running[p][ch]] = "live"

ServeInv == Alone /\ MapsLive /\ Served /\ CutWhenGone

\* As long as no ASR was started too early there is one per channel, its next segment is newer
\* than the finals of its channel, and between two ASRs the cursor that is kept is.
Above(s, n) == \A i \in 1 .. Len(s) : s[i] < n
Ascending(s) == \A i, j \in 1 .. Len(s) : i < j => s[i] < s[j]
SegmentInv == ~hurried =>
    /\ \A a, b \in Active : channel[a] = channel[b] => a = b
    /\ \A ch \in Channels : Ascending(finals[ch])
    /\ \A a \in Active : Above(finals[channel[a]], segmentId[a])
    /\ \A ch \in Channels : (\A a \in Active : channel[a] # ch) => Above(finals[ch], lastSegmentIds[ch])

ShapeInv == TypeOK /\ ConnsMatch /\ MapMatches /\ ListsMatch /\ CountMatches

-----------------------------------------------------------------------------
(* What the helpers of the model do *)

LEMMA NoConnIsZero == 0 \notin Conns
BY DEF Conns

\* The maps of a server name connections.
LEMMA RunningType ==
    ASSUME TypeOK, NEW p \in Protocols, NEW ch \in Channels
    PROVE  running[p][ch] \in Conns \cup {0}
<1>1. running[p] \in [Channels -> Conns \cup {0}]
  BY DEF TypeOK
<1> QED
  BY <1>1

LEMMA ListedType == TypeOK => \A p \in Protocols : listed[p] \in SUBSET Conns
BY DEF TypeOK

\* A stop takes the ASRs of its channels out of the map and flushes them.
LEMMA StopEffect ==
    ASSUME TypeOK, NEW chans \in SUBSET Channels, StopAsr(chans)
    PROVE  /\ asr' \in [Conns -> {"none", "live", "flushing", "disposed"}]
           /\ ASRs' \in [Channels -> Conns \cup {0}]
           /\ \A a \in Conns :
                  asr'[a] = IF \E ch \in chans : ASRs[ch] = a THEN "flushing" ELSE asr[a]
           /\ \A ch \in Channels : ASRs'[ch] = IF ch \in chans THEN 0 ELSE ASRs[ch]
BY DEF StopAsr, TypeOK

\* A cleanup also takes the channel out of the maps of its server.
LEMMA CleanupEffect ==
    ASSUME TypeOK, NEW c \in Conns, Cleanup(c)
    PROVE  /\ StopAsr({channel[c]}) /\ {channel[c]} \in SUBSET Channels
           /\ running' \in [Protocols -> [Channels -> Conns \cup {0}]]
           /\ listed' \in [Protocols -> SUBSET Conns]
           /\ \A p \in Protocols, ch \in Channels :
                  running'[p][ch] = IF p = protocol[c] /\ ch = channel[c] THEN 0 ELSE running[p][ch]
           /\ \A p \in Protocols :
                  listed'[p] = IF p = protocol[c] THEN {d \in listed[p] : channel[d] # channel[c]}
                               ELSE listed[p]
<1>1. protocol[c] \in Protocols /\ channel[c] \in Channels
  BY DEF TypeOK
<1>2. StopAsr({channel[c]})
  BY DEF Cleanup
<1>3. /\ running' \in [Protocols -> [Channels -> Conns \cup {0}]]
      /\ \A p \in Protocols, ch \in Channels :
             running'[p][ch] = IF p = protocol[c] /\ ch = channel[c] THEN 0 ELSE running[p][ch]
  BY <1>1 DEF Cleanup, TypeOK
<1>4. listed' = [listed EXCEPT ![protocol[c]] = Without(listed[protocol[c]], channel[c])]
  BY DEF Cleanup
<1>5. \A S \in SUBSET Conns, ch \in Channels : Without(S, ch) \in SUBSET Conns
  BY DEF Without
<1>6. listed' \in [Protocols -> SUBSET Conns]
  BY <1>1, <1>4, <1>5 DEF TypeOK
<1>7. \A p \in Protocols :
          listed'[p] = IF p = protocol[c] THEN Without(listed[p], channel[c]) ELSE listed[p]
  BY <1>1, <1>4 DEF TypeOK
<1> QED
  BY <1>1, <1>2, <1>3, <1>6, <1>7 DEF Without

\* What a connection leaves behind is not a stream, and an RTMP one leaves nothing.
LEMMA ResidueEffect ==
    ASSUME TypeOK, NEW c \in Conns, NEW left \in Residue(c)
    PROVE  left \in {"gone", "stale"} /\ (protocol[c] = "RTMP" => left = "gone")
BY DEF Residue

\* The first segment of an ASR.
LEMMA InitialSegmentType ==
    ASSUME TypeOK, NEW ch \in Channels, NEW known \in Nat
    PROVE  InitialSegment(ch, known) \in Nat
BY DEF InitialSegment, TypeOK

\* The turn of a connection is a number.
LEMMA TurnType ==
    Cardinality({d \in Conns : turn[d] # 0}) + 1 \in Nat
<1>1. IsFiniteSet(Conns)
  BY StreamingLimits, FS_Interval DEF Conns
<1>2. IsFiniteSet({d \in Conns : turn[d] # 0})
  BY <1>1, FS_Subset
<1> QED
  BY <1>2, FS_CardinalityType

\* An accepted connection streams, and the one it replaces is cleaned up.
LEMMA AcceptEffect ==
    ASSUME ShapeInv, NEW c \in Conns, Accept(c)
    PROVE  /\ conn[c] = "unused" /\ asr[c] = "none" /\ session
           /\ conn' \in [Conns -> {"unused", "waiting", "live", "stale", "gone"}]
           /\ conn'[c] = "live"
           /\ \A d \in Conns \ {c} :
                  \/ conn'[d] = conn[d] /\ d # running[protocol[c]][channel[c]]
                  \/ /\ d = running[protocol[c]][channel[c]]
                     /\ conn'[d] \in {"gone", "stale"}
                     /\ protocol[d] = "RTMP" => conn'[d] = "gone"
           /\ asr' \in [Conns -> {"none", "live", "flushing", "disposed"}]
           /\ asr'[c] = "live"
           /\ \A a \in Conns \ {c} :
                  asr'[a] = asr[a] \/ (asr'[a] = "flushing" /\ a = ASRs[channel[c]])
           /\ ASRs' = [ASRs EXCEPT ![channel[c]] = c]
           /\ running' \in [Protocols -> [Channels -> Conns \cup {0}]]
           /\ listed' \in [Protocols -> SUBSET Conns]
           /\ \A p \in Protocols, ch \in Channels :
                  running'[p][ch] = IF p = protocol[c] /\ ch = channel[c] THEN c ELSE running[p][ch]
           /\ \A p \in Protocols : p # protocol[c] => listed'[p] = listed[p]
           /\ listed'[protocol[c]] =
                  {d \in listed[protocol[c]] : running[protocol[c]][channel[c]] = 0
                                               \/ channel[d] # channel[c]} \cup {c}
<1> DEFINE p == protocol[c]
           ch == channel[c]
           old == running[p][ch]
           rest == IF old = 0 THEN listed ELSE [listed EXCEPT ![p] = Without(@, ch)]
<1>a. TypeOK /\ p \in Protocols /\ ch \in Channels
  BY DEF ShapeInv, TypeOK
<1>0. TypeOK /\ p \in Protocols /\ ch \in Channels /\ old \in Conns \cup {0} /\ 0 \notin Conns
  BY <1>a, RunningType, NoConnIsZero
<1>1. conn[c] = "unused" /\ asr[c] = "none" /\ session
  BY DEF Accept, Fresh, ShapeInv, ConnsMatch
<1>2. old # c
  BY <1>0, <1>1 DEF ShapeInv, ListsMatch
<1>3. /\ conn' \in [Conns -> {"unused", "waiting", "live", "stale", "gone"}]
      /\ conn'[c] = "live"
      /\ \A d \in Conns \ {c} :
             \/ conn'[d] = conn[d] /\ d # old
             \/ /\ d = old
                /\ conn'[d] \in {"gone", "stale"}
                /\ protocol[d] = "RTMP" => conn'[d] = "gone"
  <2>1. CASE old = 0
    BY <1>0, <2>1 DEF Accept, TypeOK
  <2>2. CASE old # 0
    <3>1. PICK left \in Residue(old) : conn' = [conn EXCEPT ![c] = "live", ![old] = left]
      BY <2>2 DEF Accept
    <3>2. left \in {"gone", "stale"} /\ (protocol[old] = "RTMP" => left = "gone")
      BY <1>0, <2>2, ResidueEffect
    <3> QED
      BY <1>0, <1>2, <2>2, <3>1, <3>2 DEF TypeOK
  <2> QED
    BY <2>1, <2>2
<1>4. /\ asr' \in [Conns -> {"none", "live", "flushing", "disposed"}]
      /\ asr'[c] = "live"
      /\ \A a \in Conns \ {c} : asr'[a] = asr[a] \/ (asr'[a] = "flushing" /\ a = ASRs[ch])
      /\ ASRs' = [ASRs EXCEPT ![ch] = c]
  BY <1>0 DEF Accept, TypeOK
<1>5. Register(c, snapshotId[ch], running, rest) /\ snapshotId[ch] \in Nat
  BY <1>0 DEF Accept, TypeOK
<1>6. rest \in [Protocols -> SUBSET Conns] /\ running \in [Protocols -> [Channels -> Conns \cup {0}]]
  BY <1>0 DEF Without, TypeOK
<1>7. /\ \A q \in Protocols : q # p => rest[q] = listed[q]
      /\ rest[p] = {d \in listed[p] : old = 0 \/ channel[d] # ch}
  <2>1. CASE old = 0
    <3>1. listed[p] = {d \in listed[p] : old = 0 \/ channel[d] # ch}
      BY <2>1
    <3> QED
      BY <2>1, <3>1
  <2>2. CASE old # 0
    <3>1. Without(listed[p], ch) = {d \in listed[p] : old = 0 \/ channel[d] # ch}
      BY <2>2 DEF Without
    <3> QED
      BY <1>0, <2>2, <3>1 DEF TypeOK
  <2> QED
    BY <2>1, <2>2
<1>8. running' = [running EXCEPT ![p][ch] = c] /\ listed' = [rest EXCEPT ![p] = @ \cup {c}]
  BY <1>5 DEF Register
<1>9. /\ running' \in [Protocols -> [Channels -> Conns \cup {0}]]
      /\ \A q \in Protocols, h \in Channels :
             running'[q][h] = IF q = p /\ h = ch THEN c ELSE running[q][h]
  BY <1>0, <1>6, <1>8
<1> HIDE DEF p, ch, old, rest
<1>10. /\ listed' \in [Protocols -> SUBSET Conns]
       /\ \A q \in Protocols : listed'[q] = IF q = p THEN rest[q] \cup {c} ELSE rest[q]
  BY <1>0, <1>6, <1>8
<1> QED
  BY <1>0, <1>1, <1>3, <1>4, <1>7, <1>9, <1>10 DEF p, ch, old

\* A WebSocket waits for its init, and the one it replaces is cleaned up.
LEMMA ConnectWSEffect ==
    ASSUME ShapeInv, NEW c \in Conns, ConnectWS(c)
    PROVE  /\ conn[c] = "unused" /\ protocol[c] = "WS"
           /\ conn' \in [Conns -> {"unused", "waiting", "live", "stale", "gone"}]
           /\ conn'[c] = "waiting"
           /\ \A d \in Conns \ {c} :
                  \/ conn'[d] = conn[d] /\ d # running["WS"][channel[c]]
                  \/ /\ d = running["WS"][channel[c]]
                     /\ conn'[d] \in {"gone", "stale"}
                     /\ protocol[d] = "WS"
           /\ \/ StopAsr({channel[c]}) /\ running["WS"][channel[c]] # 0
              \/ UNCHANGED <<ASRs, asr>>
           /\ running' \in [Protocols -> [Channels -> Conns \cup {0}]]
           /\ listed' \in [Protocols -> SUBSET Conns]
           /\ \A p \in Protocols, ch \in Channels :
                  running'[p][ch] = IF p = "WS" /\ ch = channel[c] THEN 0 ELSE running[p][ch]
           /\ \A p \in Protocols : listed'[p] \subseteq listed[p]
           /\ \A p \in Protocols : \A d \in listed[p] :
                  d \in listed'[p] \/ (channel[d] = channel[c] /\ running["WS"][channel[c]] # 0)
<1> DEFINE ch == channel[c]
           old == running["WS"][ch]
<1>0. TypeOK /\ ch \in Channels /\ protocol[c] = "WS" /\ conn[c] = "unused"
  BY DEF ShapeInv, TypeOK, ConnectWS, Fresh
<1>a. "WS" \in Protocols
  BY <1>0 DEF TypeOK
<1>1. "WS" \in Protocols /\ old \in Conns \cup {0} /\ 0 \notin Conns
  BY <1>0, <1>a, RunningType, NoConnIsZero
<1>2. CASE old = 0
  <2>1. conn' = [conn EXCEPT ![c] = "waiting"] /\ UNCHANGED <<running, listed, ASRs, asr>>
    BY <1>2 DEF ConnectWS
  <2>2. \A p \in Protocols, h \in Channels :
            running'[p][h] = IF p = "WS" /\ h = ch THEN 0 ELSE running[p][h]
    BY <1>2, <2>1
  <2> QED
    BY <1>0, <1>1, <1>2, <2>1, <2>2 DEF TypeOK
<1>3. CASE old # 0
  <2>1. PICK left \in Residue(old) : conn' = [conn EXCEPT ![c] = "waiting", ![old] = left]
    BY <1>3 DEF ConnectWS
  <2>2. left \in {"gone", "stale"} /\ protocol[old] = "WS" /\ old # c
    BY <1>0, <1>1, <1>3, ResidueEffect DEF ShapeInv, ListsMatch
  <2>3. /\ conn' \in [Conns -> {"unused", "waiting", "live", "stale", "gone"}]
        /\ conn'[c] = "waiting"
        /\ \A d \in Conns \ {c} : \/ conn'[d] = conn[d] /\ d # old
                                  \/ d = old /\ conn'[d] \in {"gone", "stale"} /\ protocol[d] = "WS"
    BY <1>0, <1>1, <1>3, <2>1, <2>2 DEF TypeOK
  <2>4. /\ running' = [running EXCEPT !["WS"][ch] = 0]
        /\ listed' = [listed EXCEPT !["WS"] = Without(@, ch)]
        /\ StopAsr({ch})
    BY <1>3 DEF ConnectWS
  <2>5. /\ running' \in [Protocols -> [Channels -> Conns \cup {0}]]
        /\ \A p \in Protocols, h \in Channels :
               running'[p][h] = IF p = "WS" /\ h = ch THEN 0 ELSE running[p][h]
    BY <1>0, <1>1, <2>4 DEF TypeOK
  <2>6. /\ listed' \in [Protocols -> SUBSET Conns]
        /\ \A p \in Protocols : listed'[p] \subseteq listed[p]
        /\ \A p \in Protocols : \A d \in listed[p] : d \in listed'[p] \/ channel[d] = ch
    BY <1>0, <1>1, <2>4 DEF TypeOK, Without
  <2> QED
    BY <1>0, <1>3, <2>3, <2>4, <2>5, <2>6
<1> QED
  BY <1>2, <1>3

\* The init of a WebSocket makes it a stream.
LEMMA InitMessageEffect ==
    ASSUME ShapeInv, NEW c \in Conns, InitMessage(c)
    PROVE  /\ conn[c] = "waiting" /\ asr[c] = "none" /\ protocol[c] = "WS"
           /\ conn' = [conn EXCEPT ![c] = "live"]
           /\ asr' = [asr EXCEPT ![c] = "live"]
           /\ ASRs' = [ASRs EXCEPT ![channel[c]] = c]
           /\ running' \in [Protocols -> [Channels -> Conns \cup {0}]]
           /\ listed' \in [Protocols -> SUBSET Conns]
           /\ \A p \in Protocols, ch \in Channels :
                  running'[p][ch] = IF p = protocol[c] /\ ch = channel[c] THEN c ELSE running[p][ch]
           /\ \A p \in Protocols :
                  listed'[p] = IF p = protocol[c] THEN listed[p] \cup {c} ELSE listed[p]
<1>1. TypeOK /\ knownId[c] \in Nat /\ Register(c, knownId[c], running, listed)
  BY DEF InitMessage, ShapeInv, TypeOK
<1>2. conn[c] = "waiting" /\ asr[c] = "none" /\ protocol[c] = "WS"
  BY DEF InitMessage, ShapeInv, ConnsMatch
<1>3. /\ running \in [Protocols -> [Channels -> Conns \cup {0}]]
      /\ listed \in [Protocols -> SUBSET Conns]
  BY <1>1 DEF TypeOK
<1>4. /\ conn' = [conn EXCEPT ![c] = "live"]
      /\ asr' = [asr EXCEPT ![c] = "live"]
      /\ ASRs' = [ASRs EXCEPT ![channel[c]] = c]
  BY DEF InitMessage
<1>5. protocol[c] \in Protocols /\ channel[c] \in Channels
  BY <1>1 DEF TypeOK
<1>6. /\ running' = [running EXCEPT ![protocol[c]][channel[c]] = c]
      /\ listed' = [listed EXCEPT ![protocol[c]] = @ \cup {c}]
  BY <1>1 DEF Register
<1>7. /\ running' \in [Protocols -> [Channels -> Conns \cup {0}]]
      /\ \A p \in Protocols, ch \in Channels :
             running'[p][ch] = IF p = protocol[c] /\ ch = channel[c] THEN c ELSE running[p][ch]
  BY <1>3, <1>5, <1>6
<1>8. /\ listed' \in [Protocols -> SUBSET Conns]
      /\ \A p \in Protocols :
             listed'[p] = IF p = protocol[c] THEN listed[p] \cup {c} ELSE listed[p]
  BY <1>3, <1>5, <1>6
<1> QED
  BY <1>2, <1>4, <1>7, <1>8

\* The snapshot without the session cuts what the servers have listed.
LEMMA SessionGoneEffect ==
    ASSUME TypeOK, SessionGone
    PROVE  /\ conn' \in [Conns -> {"unused", "waiting", "live", "stale", "gone"}]
           /\ \A c \in Conns \ CutFirst : conn'[c] = conn[c]
           /\ \A c \in CutFirst : /\ conn'[c] \in {"gone", "stale"}
                                  /\ protocol[c] = "RTMP" => conn'[c] = "gone"
           /\ {channel[c] : c \in CutFirst} \in SUBSET Channels
           /\ StopAsr({channel[c] : c \in CutFirst})
           /\ running' \in [Protocols -> [Channels -> Conns \cup {0}]]
           /\ \A p \in Protocols, ch \in Channels : running'[p][ch] \in {running[p][ch], 0}
           /\ listed' = [p \in Protocols |-> {}]
<1>1. CutFirst \subseteq Conns
  BY DEF CutFirst
<1>2. PICK left \in [CutFirst -> {"gone", "stale"}] :
         /\ \A c \in CutFirst : left[c] \in Residue(c)
         /\ conn' = [c \in Conns |-> IF c \in CutFirst THEN left[c] ELSE conn[c]]
  BY DEF SessionGone
<1>3. \A c \in CutFirst : left[c] \in {"gone", "stale"} /\ (protocol[c] = "RTMP" => left[c] = "gone")
  BY <1>1, <1>2, ResidueEffect
<1>4. conn' \in [Conns -> {"unused", "waiting", "live", "stale", "gone"}]
  BY <1>2, <1>3 DEF TypeOK
<1>5. {channel[c] : c \in CutFirst} \in SUBSET Channels
  BY <1>1 DEF TypeOK
<1>6. \A p \in Protocols, ch \in Channels : running[p][ch] \in Conns \cup {0}
  BY RunningType
<1>7. /\ running' \in [Protocols -> [Channels -> Conns \cup {0}]]
      /\ \A p \in Protocols, ch \in Channels : running'[p][ch] \in {running[p][ch], 0}
  BY <1>6 DEF SessionGone
<1> QED
  BY <1>1, <1>2, <1>3, <1>4, <1>5, <1>7 DEF SessionGone

-----------------------------------------------------------------------------
(* Types *)

LEMMA SnapshotType == TypeOK /\ Snapshot => snapshots' \in 0 .. MaxSnapshots
BY StreamingLimits DEF TypeOK, Snapshot

LEMMA TypeStep == ShapeInv /\ [Next]_vars => TypeOK'
<1> SUFFICES ASSUME ShapeInv, [Next]_vars PROVE TypeOK'
  OBVIOUS
<1>0. TypeOK /\ CountMatches
  BY DEF ShapeInv
<1>1. ASSUME NEW c \in Conns, ConnectSRT(c) \/ ConnectRTMP(c) PROVE TypeOK'
  <2>1. Accept(c)
    BY <1>1 DEF ConnectSRT, ConnectRTMP
  <2>2. /\ segmentId' \in [Conns -> Nat] /\ lastSegmentIds' \in [Channels -> Nat]
        /\ turn' \in [Conns -> Nat] /\ hurried' \in BOOLEAN
    BY <1>0, <2>1, InitialSegmentType, TurnType DEF Accept, Register, TypeOK
  <2>3. knownId' \in [Conns -> Nat] /\ met' \in BOOLEAN
    BY <1>0, <2>1 DEF Accept, TypeOK
  <2>4. ASRs' \in [Channels -> Conns \cup {0}]
    <3>1. ASRs' = [ASRs EXCEPT ![channel[c]] = c]
      BY <2>1, AcceptEffect
    <3> QED
      BY <1>0, <3>1 DEF TypeOK
  <2>5. UNCHANGED <<protocol, channel, published>>
    BY <2>1 DEF Accept
  <2> QED
    BY <1>0, <2>1, <2>2, <2>3, <2>4, <2>5, AcceptEffect DEF TypeOK, published
<1>2. ASSUME NEW c \in Conns, ConnectWS(c) PROVE TypeOK'
  <2>1. knownId' \in [Conns -> Nat] /\ met' \in BOOLEAN
    BY <1>0, <1>2 DEF ConnectWS, TypeOK
  <2>2. {channel[c]} \in SUBSET Channels
    BY <1>0 DEF TypeOK
  <2>3. /\ asr' \in [Conns -> {"none", "live", "flushing", "disposed"}]
        /\ ASRs' \in [Channels -> Conns \cup {0}]
    BY <1>0, <1>2, <2>2, ConnectWSEffect, StopEffect DEF TypeOK
  <2>4. UNCHANGED <<protocol, channel, turn, segmentId, lastSegmentIds, published, hurried>>
    BY <1>2 DEF ConnectWS
  <2> QED
    BY <1>0, <1>2, <2>1, <2>3, <2>4, ConnectWSEffect DEF TypeOK, published
<1>3. ASSUME NEW c \in Conns, InitMessage(c) PROVE TypeOK'
  <2>1. /\ segmentId' \in [Conns -> Nat] /\ lastSegmentIds' \in [Channels -> Nat]
        /\ turn' \in [Conns -> Nat] /\ hurried' \in BOOLEAN
    BY <1>0, <1>3, InitialSegmentType, TurnType DEF InitMessage, Register, TypeOK
  <2>2. /\ conn' \in [Conns -> {"unused", "waiting", "live", "stale", "gone"}]
        /\ asr' \in [Conns -> {"none", "live", "flushing", "disposed"}]
        /\ ASRs' \in [Channels -> Conns \cup {0}] /\ met' \in BOOLEAN
    BY <1>0, <1>3 DEF InitMessage, TypeOK
  <2>3. UNCHANGED <<protocol, channel, knownId, published>>
    BY <1>3 DEF InitMessage
  <2> QED
    BY <1>0, <1>3, <2>1, <2>2, <2>3, InitMessageEffect DEF TypeOK, published
<1>4. ASSUME NEW c \in Conns, WaitingGone(c) PROVE TypeOK'
  BY <1>0, <1>4 DEF WaitingGone, TypeOK, asrs, published, history
<1>5. ASSUME NEW c \in Conns, Close(c) \/ LateClose(c) PROVE TypeOK'
  <2>1. Cleanup(c) /\ UNCHANGED <<protocol, channel, knownId, turn, segmentId, lastSegmentIds, published, history>>
    BY <1>5 DEF Close, LateClose
  <2>2. conn' \in [Conns -> {"unused", "waiting", "live", "stale", "gone"}]
    BY <1>0, <1>5, ResidueEffect DEF Close, LateClose, TypeOK
  <2>3. /\ asr' \in [Conns -> {"none", "live", "flushing", "disposed"}]
        /\ ASRs' \in [Channels -> Conns \cup {0}]
    BY <1>0, <2>1, CleanupEffect, StopEffect
  <2> QED
    BY <1>0, <2>1, <2>2, <2>3, CleanupEffect DEF TypeOK, published, history
<1>6. ASSUME NEW a \in Conns, Final(a) PROVE TypeOK'
  <2>0. channel[a] \in Channels /\ segmentId[a] \in Nat /\ finals[channel[a]] \in Seq(Nat)
    BY <1>0 DEF TypeOK
  <2>1. finals' \in [Channels -> Seq(Nat)] /\ segmentId' \in [Conns -> Nat]
    <3>1. Append(finals[channel[a]], segmentId[a]) \in Seq(Nat) /\ segmentId[a] + 1 \in Nat
      BY <2>0
    <3> QED
      BY <1>0, <1>6, <2>0, <3>1 DEF Final, TypeOK
  <2> QED
    BY <1>0, <1>6, <2>1 DEF Final, TypeOK, connections, history
<1>7. ASSUME NEW a \in Conns, FlushDone(a) PROVE TypeOK'
  <2>1. deactivated' \in [Conns -> 0 .. 1]
    <3>1. deactivated[a] + 1 \in 0 .. 1
      BY <1>0, <1>7 DEF FlushDone, CountMatches
    <3> QED
      BY <1>0, <1>7, <3>1 DEF FlushDone, TypeOK
  <2>2. /\ asr' \in [Conns -> {"none", "live", "flushing", "disposed"}]
        /\ lastSegmentIds' \in [Channels -> Nat]
    BY <1>0, <1>7 DEF FlushDone, TypeOK
  <2> QED
    BY <1>0, <1>7, <2>1, <2>2 DEF FlushDone, TypeOK, connections, history
<1>8. CASE SessionGone
  <2>1. UNCHANGED <<protocol, channel, knownId, turn, segmentId, lastSegmentIds, snapshotId,
                    finals, deactivated, history>> /\ Snapshot /\ session' = FALSE
    BY <1>8 DEF SessionGone
  <2>2. /\ asr' \in [Conns -> {"none", "live", "flushing", "disposed"}]
        /\ ASRs' \in [Channels -> Conns \cup {0}]
    BY <1>0, <1>8, SessionGoneEffect, StopEffect
  <2>3. listed' \in [Protocols -> SUBSET Conns]
    BY <1>0, <1>8, SessionGoneEffect
  <2> QED
    BY <1>0, <1>8, <2>1, <2>2, <2>3, SessionGoneEffect, SnapshotType DEF TypeOK, history
<1>9. CASE SessionListed
  <2>1. snapshotId' \in [Channels -> Nat]
    <3>1. \A ch \in Channels : finals[ch] \in Seq(Nat) /\ snapshotId[ch] \in Nat
      BY <1>0 DEF TypeOK
    <3>2. \A s \in Seq(Nat) : s # <<>> => Last(s) \in Nat
      BY DEF Last
    <3> QED
      BY <1>9, <3>1, <3>2 DEF SessionListed
  <2> QED
    BY <1>0, <1>9, <2>1, SnapshotType DEF SessionListed, TypeOK, connections, asrs, history
<1>10. CASE ClearSession
  <2>1. /\ lastSegmentIds' \in [Channels -> Nat] /\ snapshotId' \in [Channels -> Nat]
        /\ finals' \in [Channels -> Seq(Nat)]
    BY <1>10 DEF ClearSession
  <2> QED
    BY <1>0, <1>10, <2>1, SnapshotType DEF ClearSession, TypeOK, connections, history
<1>11. CASE UNCHANGED vars
  BY <1>0, <1>11 DEF vars, connections, asrs, published, history, TypeOK
<1> QED
  BY <1>1, <1>2, <1>3, <1>4, <1>5, <1>6, <1>7, <1>8, <1>9, <1>10, <1>11
     DEF Next, CloseWS, CloseSRT, CloseRTMP

-----------------------------------------------------------------------------
(* The maps and the ASRs *)

\* A stop leaves no ASR in the map that it flushes.
LEMMA StopShape ==
    ASSUME ShapeInv, NEW chans \in SUBSET Channels, StopAsr(chans), UNCHANGED <<channel, deactivated>>
    PROVE  /\ MapMatches' /\ CountMatches'
           /\ \A a \in Conns : asr[a] = "none" => asr'[a] = "none"
<1>0. TypeOK /\ MapMatches /\ CountMatches /\ 0 \notin Conns
  BY NoConnIsZero DEF ShapeInv
<1>1. /\ \A a \in Conns : asr'[a] = IF \E ch \in chans : ASRs[ch] = a THEN "flushing" ELSE asr[a]
      /\ \A ch \in Channels : ASRs'[ch] = IF ch \in chans THEN 0 ELSE ASRs[ch]
  BY <1>0, StopEffect
<1>2. ASSUME NEW ch \in Channels, ASRs'[ch] # 0
      PROVE  asr'[ASRs'[ch]] = "live" /\ channel'[ASRs'[ch]] = ch
  <2>1. ch \notin chans /\ ASRs'[ch] = ASRs[ch] /\ ASRs[ch] \in Conns
    BY <1>0, <1>1, <1>2 DEF TypeOK
  <2>2. asr[ASRs[ch]] = "live" /\ channel[ASRs[ch]] = ch
    BY <1>0, <2>1 DEF MapMatches
  <2>3. \A h \in chans : ASRs[h] # ASRs[ch]
    BY <1>0, <2>1, <2>2 DEF MapMatches
  <2> QED
    BY <1>1, <2>1, <2>2, <2>3
<1>3. \A a \in Conns : (\E ch \in chans : ASRs[ch] = a) => asr[a] = "live"
  BY <1>0 DEF MapMatches
<1>4. CountMatches'
  BY <1>0, <1>1, <1>3 DEF CountMatches
<1>5. MapMatches'
  BY <1>2 DEF MapMatches
<1> QED
  BY <1>1, <1>3, <1>4, <1>5

\* An ASR that starts takes its channel's place in the map.
LEMMA StartShape ==
    ASSUME ShapeInv, TypeOK', NEW c \in Conns, asr[c] = "none", asr'[c] = "live",
           ASRs' = [ASRs EXCEPT ![channel[c]] = c], UNCHANGED <<channel, deactivated>>,
           \A a \in Conns \ {c} :
               asr'[a] = asr[a] \/ (asr'[a] = "flushing" /\ a = ASRs[channel[c]])
    PROVE  /\ MapMatches' /\ CountMatches'
           /\ \A a \in Conns \ {c} : asr[a] = "none" => asr'[a] = "none"
<1>0. TypeOK /\ MapMatches /\ CountMatches /\ 0 \notin Conns /\ channel[c] \in Channels
  BY NoConnIsZero DEF ShapeInv, TypeOK
<1>1. ASSUME NEW ch \in Channels, ASRs'[ch] # 0
      PROVE  asr'[ASRs'[ch]] = "live" /\ channel'[ASRs'[ch]] = ch
  <2>1. CASE ch = channel[c]
    BY <1>0, <2>1 DEF TypeOK
  <2>2. CASE ch # channel[c]
    <3>1. ASRs'[ch] = ASRs[ch] /\ ASRs[ch] \in Conns
      BY <1>0, <1>1, <2>2 DEF TypeOK
    <3>2. asr[ASRs[ch]] = "live" /\ channel[ASRs[ch]] = ch
      BY <1>0, <3>1 DEF MapMatches
    <3>3. ASRs[ch] # c /\ ASRs[ch] # ASRs[channel[c]]
      BY <1>0, <2>2, <3>1, <3>2 DEF MapMatches
    <3> QED
      BY <3>1, <3>2, <3>3
  <2> QED
    BY <2>1, <2>2
<1>2. \A a \in Conns : a = ASRs[channel[c]] => asr[a] = "live"
  BY <1>0 DEF MapMatches
<1>3. CountMatches'
  BY <1>0, <1>2 DEF CountMatches
<1>4. MapMatches'
  BY <1>1 DEF MapMatches
<1> QED
  BY <1>2, <1>3, <1>4

\* Maps that only lose entries, while connections only go on, keep their shape.
LEMMA ListsKept ==
    ASSUME TypeOK, ListsMatch, UNCHANGED <<protocol, channel>>,
           \A d \in Conns : conn[d] \notin {"unused", "waiting"} => conn'[d] \notin {"unused", "waiting"},
           \A p \in Protocols, ch \in Channels : running'[p][ch] = running[p][ch] \/ running'[p][ch] = 0,
           \A p \in Protocols : listed'[p] \subseteq listed[p]
    PROVE  ListsMatch'
<1>1. ASSUME NEW p \in Protocols, NEW ch \in Channels, running'[p][ch] # 0
      PROVE  /\ protocol[running'[p][ch]] = p
             /\ channel[running'[p][ch]] = ch
             /\ conn'[running'[p][ch]] \notin {"unused", "waiting"}
  <2>1. running'[p][ch] = running[p][ch] /\ running[p][ch] \in Conns
    BY <1>1, RunningType
  <2> QED
    BY <1>1, <2>1 DEF ListsMatch
<1>2. ASSUME NEW p \in Protocols, NEW d \in listed'[p]
      PROVE  protocol[d] = p /\ conn'[d] \notin {"unused", "waiting"}
  <2>1. d \in listed[p] /\ d \in Conns
    BY <1>2, ListedType
  <2> QED
    BY <2>1 DEF ListsMatch
<1> QED
  BY <1>1, <1>2 DEF ListsMatch

LEMMA ShapeStep == ShapeInv /\ [Next]_vars => ShapeInv'
<1> SUFFICES ASSUME ShapeInv, [Next]_vars PROVE ConnsMatch' /\ MapMatches' /\ ListsMatch' /\ CountMatches'
  BY TypeStep DEF ShapeInv
<1>0. TypeOK /\ ConnsMatch /\ MapMatches /\ ListsMatch /\ CountMatches /\ TypeOK' /\ 0 \notin Conns
  BY TypeStep, NoConnIsZero DEF ShapeInv
<1>1. ASSUME NEW c \in Conns, ConnectSRT(c) \/ ConnectRTMP(c)
      PROVE  ConnsMatch' /\ MapMatches' /\ ListsMatch' /\ CountMatches'
  <2>1. Accept(c) /\ UNCHANGED <<protocol, channel, deactivated>>
    BY <1>1 DEF ConnectSRT, ConnectRTMP, Accept, published
  <2>2. /\ MapMatches' /\ CountMatches'
        /\ \A a \in Conns \ {c} : asr[a] = "none" => asr'[a] = "none"
    BY <1>0, <2>1, AcceptEffect, StartShape
  <2>3. ConnsMatch'
    BY <1>0, <2>1, <2>2, AcceptEffect DEF ConnsMatch
  <2>4. ASSUME NEW d \in Conns, conn[d] \notin {"unused", "waiting"}
        PROVE  conn'[d] \notin {"unused", "waiting"}
    BY <2>1, <2>4, AcceptEffect
  <2>5. \A p \in Protocols : listed'[p] \subseteq listed[p] \cup {c}
                             /\ (c \in listed'[p] => protocol[c] = p \/ c \in listed[p])
    BY <2>1, AcceptEffect
  <2>6. ASSUME NEW p \in Protocols, NEW ch \in Channels, running'[p][ch] # 0
        PROVE  /\ protocol[running'[p][ch]] = p
               /\ channel[running'[p][ch]] = ch
               /\ conn'[running'[p][ch]] \notin {"unused", "waiting"}
    <3>1. CASE p = protocol[c] /\ ch = channel[c]
      BY <2>1, <3>1, AcceptEffect
    <3>2. CASE ~(p = protocol[c] /\ ch = channel[c])
      <4>1. running'[p][ch] = running[p][ch] /\ running[p][ch] \in Conns
        BY <1>0, <2>1, <2>6, <3>2, AcceptEffect, RunningType
      <4> QED
        BY <1>0, <2>4, <2>6, <4>1 DEF ListsMatch
    <3> QED
      BY <3>1, <3>2
  <2>7. ASSUME NEW p \in Protocols, NEW d \in listed'[p]
        PROVE  protocol[d] = p /\ conn'[d] \notin {"unused", "waiting"}
    <3>1. CASE d = c
      BY <1>0, <2>1, <2>5, <2>7, <3>1, AcceptEffect DEF ListsMatch
    <3>2. CASE d # c
      <4>1. d \in listed[p] /\ d \in Conns
        BY <1>0, <2>5, <2>7, <3>2, ListedType
      <4> QED
        BY <1>0, <2>4, <4>1 DEF ListsMatch
    <3> QED
      BY <3>1, <3>2
  <2>8. ListsMatch'
    BY <2>1, <2>6, <2>7 DEF ListsMatch
  <2> QED
    BY <2>2, <2>3, <2>8
<1>2. ASSUME NEW c \in Conns, ConnectWS(c)
      PROVE  ConnsMatch' /\ MapMatches' /\ ListsMatch' /\ CountMatches'
  <2>1. UNCHANGED <<protocol, channel, deactivated>> /\ {channel[c]} \in SUBSET Channels
    BY <1>0, <1>2 DEF ConnectWS, published, TypeOK
  <2>2. /\ MapMatches' /\ CountMatches'
        /\ \A a \in Conns : asr[a] = "none" => asr'[a] = "none"
    <3>1. CASE StopAsr({channel[c]})
      BY <2>1, <3>1, StopShape
    <3>2. CASE UNCHANGED <<ASRs, asr>>
      BY <1>0, <2>1, <3>2 DEF MapMatches, CountMatches
    <3> QED
      BY <1>2, <3>1, <3>2, ConnectWSEffect
  <2>3. ASSUME NEW d \in Conns, conn[d] \notin {"unused", "waiting"}
        PROVE  conn'[d] \notin {"unused", "waiting"}
    BY <1>2, <2>3, ConnectWSEffect
  <2>4. ConnsMatch'
    BY <1>0, <1>2, <2>1, <2>2, ConnectWSEffect DEF ConnsMatch
  <2>5. \A p \in Protocols, ch \in Channels : running'[p][ch] = running[p][ch] \/ running'[p][ch] = 0
    <3>1. \A p \in Protocols, ch \in Channels :
              running'[p][ch] = IF p = "WS" /\ ch = channel[c] THEN 0 ELSE running[p][ch]
      BY <1>2, ConnectWSEffect
    <3> QED
      BY <3>1
  <2>6. \A p \in Protocols : listed'[p] \subseteq listed[p]
    BY <1>2, ConnectWSEffect
  <2>7. ListsMatch'
    BY <1>0, <2>1, <2>3, <2>5, <2>6, ListsKept
  <2> QED
    BY <2>2, <2>4, <2>7
<1>3. ASSUME NEW c \in Conns, InitMessage(c)
      PROVE  ConnsMatch' /\ MapMatches' /\ ListsMatch' /\ CountMatches'
  <2>1. UNCHANGED <<protocol, channel, deactivated>>
    BY <1>3 DEF InitMessage, published
  <2>2. /\ asr'[c] = "live" /\ conn'[c] = "live"
        /\ \A a \in Conns \ {c} : asr'[a] = asr[a] /\ conn'[a] = conn[a]
    BY <1>0, <1>3, InitMessageEffect DEF TypeOK
  <2>3. MapMatches' /\ CountMatches'
    BY <1>0, <1>3, <2>1, <2>2, InitMessageEffect, StartShape
  <2>4. ConnsMatch'
    BY <1>0, <2>1, <2>2 DEF ConnsMatch
  <2>5. ASSUME NEW d \in Conns, conn[d] \notin {"unused", "waiting"}
        PROVE  conn'[d] \notin {"unused", "waiting"}
    BY <2>2, <2>5
  <2>6. ASSUME NEW p \in Protocols, NEW ch \in Channels, running'[p][ch] # 0
        PROVE  /\ protocol[running'[p][ch]] = p
               /\ channel[running'[p][ch]] = ch
               /\ conn'[running'[p][ch]] \notin {"unused", "waiting"}
    <3>1. CASE p = protocol[c] /\ ch = channel[c]
      BY <1>3, <2>2, <3>1, InitMessageEffect
    <3>2. CASE ~(p = protocol[c] /\ ch = channel[c])
      <4>1. running'[p][ch] = running[p][ch] /\ running[p][ch] \in Conns
        BY <1>0, <1>3, <2>6, <3>2, InitMessageEffect, RunningType
      <4> QED
        BY <1>0, <2>5, <2>6, <4>1 DEF ListsMatch
    <3> QED
      BY <3>1, <3>2
  <2>7. ASSUME NEW p \in Protocols, NEW d \in listed'[p]
        PROVE  protocol[d] = p /\ conn'[d] \notin {"unused", "waiting"}
    <3>0. listed'[p] = IF p = protocol[c] THEN listed[p] \cup {c} ELSE listed[p]
      BY <1>3, InitMessageEffect
    <3>1. CASE d = c /\ p = protocol[c]
      BY <2>2, <3>1
    <3>2. CASE d \in listed[p]
      BY <1>0, <2>5, <3>2, ListedType DEF ListsMatch
    <3> QED
      BY <2>7, <3>0, <3>1, <3>2
  <2> QED
    BY <2>1, <2>3, <2>4, <2>6, <2>7 DEF ListsMatch
<1>4. ASSUME NEW c \in Conns, WaitingGone(c)
      PROVE  ConnsMatch' /\ MapMatches' /\ ListsMatch' /\ CountMatches'
  <2>1. UNCHANGED <<protocol, channel, running, listed, ASRs, asr, deactivated>>
    BY <1>4 DEF WaitingGone, asrs, published
  <2>2. conn'[c] = "gone" /\ \A d \in Conns \ {c} : conn'[d] = conn[d]
    BY <1>0, <1>4 DEF WaitingGone, TypeOK
  <2>3. ConnsMatch' /\ MapMatches' /\ CountMatches'
    BY <1>0, <2>1, <2>2 DEF ConnsMatch, MapMatches, CountMatches
  <2>4. ListsMatch'
    BY <1>0, <2>1, <2>2, ListsKept
  <2> QED
    BY <2>3, <2>4
<1>5. ASSUME NEW c \in Conns, Close(c) \/ LateClose(c)
      PROVE  ConnsMatch' /\ MapMatches' /\ ListsMatch' /\ CountMatches'
  <2>1. Cleanup(c) /\ UNCHANGED <<protocol, channel, deactivated>>
    BY <1>5 DEF Close, LateClose, published
  <2>2. /\ conn'[c] \in {"gone", "stale"} /\ (protocol[c] = "RTMP" => conn'[c] = "gone")
        /\ \A d \in Conns \ {c} : conn'[d] = conn[d]
    <3>1. CASE Close(c)
      BY <1>0, <3>1, ResidueEffect DEF Close, TypeOK
    <3>2. CASE LateClose(c)
      BY <1>0, <3>2 DEF LateClose, TypeOK
    <3> QED
      BY <1>5, <3>1, <3>2
  <2>3. /\ MapMatches' /\ CountMatches'
        /\ \A a \in Conns : asr[a] = "none" => asr'[a] = "none"
    BY <1>0, <2>1, CleanupEffect, StopShape
  <2>4. ConnsMatch'
    BY <1>0, <2>1, <2>2, <2>3 DEF ConnsMatch
  <2>5. /\ \A p \in Protocols, ch \in Channels : running'[p][ch] = running[p][ch] \/ running'[p][ch] = 0
        /\ \A p \in Protocols : listed'[p] \subseteq listed[p]
    BY <1>0, <2>1, CleanupEffect
  <2>6. ListsMatch'
    BY <1>0, <2>1, <2>2, <2>5, ListsKept
  <2> QED
    BY <2>3, <2>4, <2>6
<1>6. ASSUME NEW a \in Conns, Final(a)
      PROVE  ConnsMatch' /\ MapMatches' /\ ListsMatch' /\ CountMatches'
  <2>1. UNCHANGED <<conn, protocol, channel, running, listed, ASRs, asr, deactivated>>
    BY <1>6 DEF Final, connections
  <2> QED
    BY <1>0, <2>1, ListsKept DEF ConnsMatch, MapMatches, CountMatches
<1>7. ASSUME NEW a \in Conns, FlushDone(a)
      PROVE  ConnsMatch' /\ MapMatches' /\ ListsMatch' /\ CountMatches'
  <2>1. UNCHANGED <<conn, protocol, channel, running, listed, ASRs>>
    BY <1>7 DEF FlushDone, connections
  <2>2. /\ asr[a] = "flushing" /\ asr'[a] = "disposed" /\ deactivated'[a] = deactivated[a] + 1
        /\ \A b \in Conns \ {a} : asr'[b] = asr[b] /\ deactivated'[b] = deactivated[b]
    BY <1>0, <1>7 DEF FlushDone, TypeOK
  <2>3. ConnsMatch' /\ MapMatches'
    <3>1. ConnsMatch'
      BY <1>0, <2>1, <2>2 DEF ConnsMatch
    <3>2. \A ch \in Channels : ASRs[ch] \in Conns \cup {0}
      BY <1>0 DEF TypeOK
    <3>3. MapMatches'
      BY <1>0, <2>1, <2>2, <3>2 DEF MapMatches
    <3> QED
      BY <3>1, <3>3
  <2>5. ListsMatch'
    BY <1>0, <2>1, ListsKept
  <2>4. CountMatches'
    BY <1>0, <2>2 DEF CountMatches
  <2> QED
    BY <2>3, <2>4, <2>5
<1>8. CASE SessionGone
  <2>1. UNCHANGED <<protocol, channel, deactivated>>
    BY <1>8 DEF SessionGone
  <2>2. /\ MapMatches' /\ CountMatches'
        /\ \A a \in Conns : asr[a] = "none" => asr'[a] = "none"
    BY <1>0, <1>8, <2>1, SessionGoneEffect, StopShape
  <2>3. \A d \in Conns : \/ conn'[d] = conn[d]
                         \/ conn'[d] \in {"gone", "stale"} /\ (protocol[d] = "RTMP" => conn'[d] = "gone")
    BY <1>0, <1>8, SessionGoneEffect
  <2>4. ConnsMatch'
    BY <1>0, <2>1, <2>2, <2>3 DEF ConnsMatch
  <2>5. /\ \A p \in Protocols, ch \in Channels : running'[p][ch] = running[p][ch] \/ running'[p][ch] = 0
        /\ \A p \in Protocols : listed'[p] = {}
    BY <1>0, <1>8, SessionGoneEffect
  <2>6. ListsMatch'
    BY <1>0, <2>1, <2>3, <2>5, ListsKept
  <2> QED
    BY <2>2, <2>4, <2>6
<1>9. CASE SessionListed \/ ClearSession \/ UNCHANGED vars
  <2>1. UNCHANGED <<conn, protocol, channel, running, listed, ASRs, asr, deactivated>>
    BY <1>9 DEF SessionListed, ClearSession, vars, connections, asrs, published
  <2> QED
    BY <1>0, <2>1, ListsKept DEF ConnsMatch, MapMatches, CountMatches
<1> QED
  BY <1>1, <1>2, <1>3, <1>4, <1>5, <1>6, <1>7, <1>8, <1>9
     DEF Next, CloseWS, CloseSRT, CloseRTMP

-----------------------------------------------------------------------------
(* The force-cut of RTMP *)

LEMMA ForceCutStep == ShapeInv /\ ForceCutEnds /\ [Next]_vars => ForceCutEnds'
<1> SUFFICES ASSUME ShapeInv, ForceCutEnds, [Next]_vars, "RTMP" \in Protocols,
                    NEW d \in listed'["RTMP"]
             PROVE  conn'[d] = "live"
  BY DEF ForceCutEnds
<1>0. TypeOK /\ ConnsMatch /\ ListsMatch /\ listed["RTMP"] \in SUBSET Conns
  BY ListedType DEF ShapeInv
<1>a. ASSUME d \in listed["RTMP"]
      PROVE  d \in Conns /\ conn[d] = "live" /\ protocol[d] = "RTMP"
  BY <1>0, <1>a DEF ForceCutEnds, ListsMatch
<1>1. ASSUME NEW c \in Conns, ConnectSRT(c) \/ ConnectRTMP(c) PROVE conn'[d] = "live"
  <2>1. Accept(c)
    BY <1>1 DEF ConnectSRT, ConnectRTMP
  <2>2. CASE d = c
    BY <2>1, <2>2, AcceptEffect
  <2>3. CASE d # c
    <3>1. /\ d \in listed["RTMP"]
          /\ protocol[c] = "RTMP" => running["RTMP"][channel[c]] = 0 \/ channel[d] # channel[c]
      BY <2>1, <2>3, AcceptEffect
    <3>2. d # running[protocol[c]][channel[c]]
      <4>1. protocol[c] \in Protocols /\ channel[c] \in Channels
        BY <1>0 DEF TypeOK
      <4> QED
        BY <1>0, <1>a, <3>1, <4>1, NoConnIsZero DEF ListsMatch
    <3> QED
      BY <1>a, <2>1, <2>3, <3>1, <3>2, AcceptEffect
  <2> QED
    BY <2>2, <2>3
<1>2. ASSUME NEW c \in Conns, ConnectWS(c) PROVE conn'[d] = "live"
  <2>1. d \in listed["RTMP"]
    BY <1>2, ConnectWSEffect
  <2> QED
    BY <1>2, <1>a, <2>1, ConnectWSEffect
<1>3. ASSUME NEW c \in Conns, InitMessage(c) PROVE conn'[d] = "live"
  <2>1. d \in listed["RTMP"] /\ conn' = [conn EXCEPT ![c] = "live"]
    BY <1>3, InitMessageEffect
  <2> QED
    BY <1>0, <1>a, <2>1 DEF TypeOK
<1>4. ASSUME NEW c \in Conns, WaitingGone(c) PROVE conn'[d] = "live"
  BY <1>0, <1>4, <1>a DEF WaitingGone, TypeOK
<1>5. ASSUME NEW c \in Conns, Close(c) \/ LateClose(c) PROVE conn'[d] = "live"
  <2>1. Cleanup(c) /\ \A e \in Conns \ {c} : conn'[e] = conn[e]
    BY <1>0, <1>5 DEF Close, LateClose, TypeOK
  <2>2. d \in listed["RTMP"] /\ (protocol[c] = "RTMP" => channel[d] # channel[c])
    <3>1. listed'["RTMP"] = IF "RTMP" = protocol[c]
                            THEN {e \in listed["RTMP"] : channel[e] # channel[c]}
                            ELSE listed["RTMP"]
      BY <1>0, <2>1, CleanupEffect
    <3> QED
      BY <3>1
  <2> QED
    BY <1>a, <2>1, <2>2
<1>6. ASSUME NEW a \in Conns, Final(a) \/ FlushDone(a) PROVE conn'[d] = "live"
  BY <1>6, <1>a DEF Final, FlushDone, connections
<1>7. CASE SessionGone
  BY <1>0, <1>7, SessionGoneEffect
<1>8. CASE SessionListed \/ ClearSession \/ UNCHANGED vars
  BY <1>8, <1>a DEF SessionListed, ClearSession, vars, connections
<1> QED
  BY <1>1, <1>2, <1>3, <1>4, <1>5, <1>6, <1>7, <1>8
     DEF Next, CloseWS, CloseSRT, CloseRTMP

-----------------------------------------------------------------------------
(* Streams that are served, and cut *)

\* Who of a channel that has met nobody is around when another connection of it comes:
\* an RTMP stream, which its server knows.
LEMMA NobodyMet ==
    ASSUME ShapeInv, ServeInv, ~met, NEW c \in Conns, ~Meets(c),
           NEW d \in Around, d # c, channel[d] = channel[c]
    PROVE  /\ protocol[c] = "RTMP" /\ protocol[d] = "RTMP"
           /\ conn[d] = "live" /\ running["RTMP"][channel[c]] = d
<1>1. d \in Conns /\ conn[d] \in {"waiting", "live", "stale"}
  BY DEF Around
<1>2. protocol[c] = "RTMP" /\ protocol[d] = "RTMP"
  BY <1>1 DEF Meets
<1>3. conn[d] = "live"
  BY <1>1, <1>2 DEF ShapeInv, ConnsMatch
<1> QED
  BY <1>1, <1>2, <1>3 DEF ServeInv, Served

\* A stream that starts, alone on its channel, is served.
LEMMA ServedStart ==
    ASSUME ShapeInv, ServeInv, ~met, NEW c \in Conns, UNCHANGED <<protocol, channel>>,
           \A d \in Conns \ {c} : conn'[d] = "live" => conn[d] = "live" /\ channel[d] # channel[c],
           ASRs' = [ASRs EXCEPT ![channel[c]] = c],
           running'[protocol[c]][channel[c]] = c, c \in listed'[protocol[c]],
           \A p \in Protocols, ch \in Channels : ch # channel[c] => running'[p][ch] = running[p][ch],
           \A p \in Protocols : \A d \in listed[p] : d \in listed'[p] \/ channel[d] = channel[c]
    PROVE  Served'
<1>0. TypeOK /\ protocol[c] \in Protocols /\ channel[c] \in Channels
  BY DEF ShapeInv, TypeOK
<1>1. ASSUME NEW d \in Conns, conn'[d] = "live"
      PROVE  /\ ASRs'[channel[d]] = d
             /\ running'[protocol[d]][channel[d]] = d
             /\ d \in listed'[protocol[d]]
  <2>1. protocol[d] \in Protocols /\ channel[d] \in Channels
    BY <1>0 DEF TypeOK
  <2>2. CASE d = c
    BY <1>0, <2>2 DEF TypeOK
  <2>3. CASE d # c
    <3>1. conn[d] = "live" /\ channel[d] # channel[c]
      BY <1>1, <2>3
    <3>2. ASRs[channel[d]] = d /\ running[protocol[d]][channel[d]] = d /\ d \in listed[protocol[d]]
      BY <3>1 DEF ServeInv, Served
    <3>3. ASRs'[channel[d]] = d
      BY <1>0, <2>1, <3>1, <3>2 DEF TypeOK
    <3> QED
      BY <2>1, <3>1, <3>2, <3>3
  <2> QED
    BY <2>2, <2>3
<1> QED
  BY <1>1 DEF Served

LEMMA AcceptServes ==
    ASSUME ShapeInv, ServeInv, NEW c \in Conns, Accept(c)
    PROVE  ServeInv'
<1> DEFINE ch == channel[c]
           old == running[protocol[c]][ch]
<1>0. /\ TypeOK /\ ListsMatch /\ protocol[c] \in Protocols /\ ch \in Channels
      /\ UNCHANGED <<protocol, channel, session>> /\ 0 \notin Conns
  BY NoConnIsZero DEF ShapeInv, TypeOK, Accept, published
<1>1. CutWhenGone'
  BY <1>0, AcceptEffect DEF CutWhenGone
<1>2. SUFFICES ASSUME ~met' PROVE Alone' /\ MapsLive' /\ Served'
  BY <1>1 DEF ServeInv, Alone, MapsLive, Served
<1>3. ~met /\ ~Meets(c)
  BY <1>2 DEF Accept
<1>4. ASSUME old # 0 PROVE old \in Conns /\ conn[old] = "live" /\ channel[old] = ch /\ protocol[old] = protocol[c]
  BY <1>0, <1>3, <1>4, RunningType DEF ListsMatch, ServeInv, MapsLive
<1>5. ASSUME NEW d \in Conns \ {c}, conn'[d] \in {"waiting", "live", "stale"}
      PROVE  d \in Around /\ channel[d] # ch /\ conn'[d] = conn[d]
  <2>1. CASE d = old
    <3>1. conn[d] = "live" /\ channel[d] = ch /\ d \in Around
      BY <1>0, <1>4, <2>1 DEF Around
    <3>2. protocol[d] = "RTMP"
      BY <1>3, <3>1, NobodyMet
    <3> QED
      BY <1>5, <2>1, <3>2, AcceptEffect
  <2>2. CASE d # old
    <3>1. conn'[d] = conn[d] /\ d \in Around
      BY <1>5, <2>2, AcceptEffect DEF Around
    <3>2. channel[d] # ch
      BY <1>3, <2>2, <3>1, NobodyMet
    <3> QED
      BY <3>1, <3>2
  <2> QED
    BY <2>1, <2>2
<1>6. Alone'
  <2>1. ASSUME NEW d \in Around', NEW e \in Around', channel[d] = channel[e] PROVE d = e
    <3>1. /\ d \in Conns /\ conn'[d] \in {"waiting", "live", "stale"}
          /\ e \in Conns /\ conn'[e] \in {"waiting", "live", "stale"}
      BY DEF Around
    <3> QED
      BY <1>3, <1>5, <2>1, <3>1 DEF ServeInv, Alone
  <2> QED
    BY <1>0, <2>1 DEF Alone
<1>7. Served'
  <2>1. \A d \in Conns \ {c} : conn'[d] = "live" => conn[d] = "live" /\ channel[d] # ch
    BY <1>5
  <2>2. /\ ASRs' = [ASRs EXCEPT ![ch] = c]
        /\ running'[protocol[c]][ch] = c /\ c \in listed'[protocol[c]]
        /\ \A p \in Protocols, h \in Channels : h # ch => running'[p][h] = running[p][h]
    BY <1>0, AcceptEffect
  <2>3. \A p \in Protocols : \A d \in listed[p] : d \in listed'[p] \/ channel[d] = ch
    BY <1>0, AcceptEffect
  <2> QED
    BY <1>0, <1>3, <2>1, <2>2, <2>3, ServedStart
<1>8. ASSUME NEW p \in Protocols, NEW d \in listed'[p] PROVE conn'[d] = "live"
  <2>1. CASE d = c
    BY <2>1, AcceptEffect
  <2>2. CASE d # c
    <3>1. d \in listed[p] /\ (p = protocol[c] => old = 0 \/ channel[d] # ch)
      BY <1>8, <2>2, AcceptEffect
    <3>2. d \in Conns /\ conn[d] = "live" /\ protocol[d] = p
      BY <1>0, <1>3, <3>1, ListedType DEF ListsMatch, ServeInv, MapsLive
    <3>3. d # old
      BY <1>0, <1>4, <3>1, <3>2
    <3> QED
      BY <2>2, <3>2, <3>3, AcceptEffect
  <2> QED
    BY <2>1, <2>2
<1>9. ASSUME NEW p \in Protocols, NEW h \in Channels, running'[p][h] # 0
      PROVE  conn'[running'[p][h]] = "live"
  <2>1. CASE p = protocol[c] /\ h = ch
    BY <2>1, AcceptEffect
  <2>2. CASE ~(p = protocol[c] /\ h = ch)
    <3>1. running'[p][h] = running[p][h] /\ running[p][h] \in Conns
      BY <1>0, <1>9, <2>2, AcceptEffect, RunningType
    <3>2. /\ conn[running[p][h]] = "live" /\ channel[running[p][h]] = h
          /\ protocol[running[p][h]] = p
      BY <1>0, <1>3, <1>9, <3>1 DEF ListsMatch, ServeInv, MapsLive
    <3>3. running[p][h] # c /\ running[p][h] # old
      BY <1>0, <1>4, <2>2, <3>1, <3>2, AcceptEffect
    <3> QED
      BY <3>1, <3>2, <3>3, AcceptEffect
  <2> QED
    BY <2>1, <2>2
<1> QED
  BY <1>6, <1>7, <1>8, <1>9 DEF MapsLive

LEMMA ConnectWSServes ==
    ASSUME ShapeInv, ServeInv, NEW c \in Conns, ConnectWS(c)
    PROVE  ServeInv'
<1>0. /\ TypeOK /\ ListsMatch /\ channel[c] \in Channels /\ protocol[c] = "WS"
      /\ UNCHANGED <<protocol, channel, session>> /\ 0 \notin Conns /\ session
  BY NoConnIsZero DEF ShapeInv, TypeOK, ConnectWS, published
<1>1. CutWhenGone'
  BY <1>0 DEF CutWhenGone
<1>2. SUFFICES ASSUME ~met' PROVE Alone' /\ MapsLive' /\ Served'
  BY <1>1 DEF ServeInv, Alone, MapsLive, Served
<1>3. ~met /\ ~Meets(c)
  BY <1>2 DEF ConnectWS
<1>4. ASSUME NEW d \in Around, d # c PROVE channel[d] # channel[c]
  BY <1>0, <1>3, <1>4, NobodyMet
<1>5. running["WS"][channel[c]] = 0
  <2> SUFFICES ASSUME running["WS"][channel[c]] # 0 PROVE FALSE
    OBVIOUS
  <2>1. "WS" \in Protocols
    BY <1>0 DEF TypeOK
  <2>2. running["WS"][channel[c]] \in Conns
    BY <1>0, <2>1, RunningType
  <2>3. /\ conn[running["WS"][channel[c]]] = "live"
        /\ channel[running["WS"][channel[c]]] = channel[c]
    BY <1>0, <1>3, <2>1, <2>2 DEF ListsMatch, ServeInv, MapsLive
  <2> QED
    BY <1>4, <2>2, <2>3, ConnectWSEffect DEF Around
<1>6. UNCHANGED <<running, listed, ASRs, asr>> /\ conn' = [conn EXCEPT ![c] = "waiting"]
  BY <1>5 DEF ConnectWS
<1>7. conn[c] = "unused" /\ conn'[c] = "waiting" /\ \A d \in Conns \ {c} : conn'[d] = conn[d]
  BY <1>0, <1>6, ConnectWSEffect DEF TypeOK
<1>8. Alone'
  <2>1. ASSUME NEW d \in Around', NEW e \in Around', channel[d] = channel[e] PROVE d = e
    <3>1. d \in Conns /\ e \in Conns /\ (d # c => d \in Around) /\ (e # c => e \in Around)
      BY <1>7 DEF Around
    <3> QED
      BY <1>3, <1>4, <2>1, <3>1 DEF ServeInv, Alone
  <2> QED
    BY <1>0, <2>1 DEF Alone
<1>9. Served'
  BY <1>0, <1>3, <1>6, <1>7 DEF ServeInv, Served
<1>10. \A p \in Protocols : \A d \in listed[p] : d \in Conns /\ d # c
  BY <1>0, <1>7, ListedType DEF ListsMatch
<1>11. \A p \in Protocols, ch \in Channels : running[p][ch] # 0 => running[p][ch] \in Conns \ {c}
  BY <1>0, <1>7, RunningType DEF ListsMatch
<1>12. MapsLive'
  BY <1>3, <1>6, <1>7, <1>10, <1>11 DEF ServeInv, MapsLive
<1> QED
  BY <1>8, <1>9, <1>12

LEMMA InitServes ==
    ASSUME ShapeInv, ServeInv, NEW c \in Conns, InitMessage(c)
    PROVE  ServeInv'
<1>0. /\ TypeOK /\ ListsMatch /\ channel[c] \in Channels /\ protocol[c] \in Protocols
      /\ UNCHANGED <<protocol, channel, session>> /\ 0 \notin Conns /\ (met => met')
  BY NoConnIsZero DEF ShapeInv, TypeOK, InitMessage, published
<1>1. /\ conn[c] = "waiting" /\ conn'[c] = "live" /\ protocol[c] = "WS"
      /\ \A d \in Conns \ {c} : conn'[d] = conn[d]
  BY <1>0, InitMessageEffect DEF TypeOK
<1>2. CutWhenGone'
  BY <1>0, <1>1 DEF ServeInv, CutWhenGone
<1>3. SUFFICES ASSUME ~met' PROVE Alone' /\ MapsLive' /\ Served'
  BY <1>2 DEF ServeInv, Alone, MapsLive, Served
<1>4. ~met /\ c \in Around /\ Around' = Around
  BY <1>0, <1>1, <1>3 DEF Around
<1>5. Alone'
  BY <1>0, <1>4 DEF ServeInv, Alone
<1>6. Served'
  <2>1. \A d \in Conns \ {c} : conn'[d] = "live" => conn[d] = "live" /\ channel[d] # channel[c]
    BY <1>1, <1>4 DEF ServeInv, Alone, Around
  <2>2. /\ ASRs' = [ASRs EXCEPT ![channel[c]] = c]
        /\ running'[protocol[c]][channel[c]] = c /\ c \in listed'[protocol[c]]
        /\ \A p \in Protocols, ch \in Channels : ch # channel[c] => running'[p][ch] = running[p][ch]
    <3>1. ASRs' = [ASRs EXCEPT ![channel[c]] = c]
      BY InitMessageEffect
    <3>2. \A p \in Protocols, ch \in Channels :
              running'[p][ch] = IF p = protocol[c] /\ ch = channel[c] THEN c ELSE running[p][ch]
      BY InitMessageEffect
    <3>3. c \in listed'[protocol[c]]
      <4>1. \A p \in Protocols :
                listed'[p] = IF p = protocol[c] THEN listed[p] \cup {c} ELSE listed[p]
        BY InitMessageEffect
      <4> QED
        BY <1>0, <4>1
    <3> QED
      BY <1>0, <3>1, <3>2, <3>3
  <2>3. \A p \in Protocols : \A d \in listed[p] : d \in listed'[p] \/ channel[d] = channel[c]
    BY <1>0, InitMessageEffect
  <2> QED
    BY <1>0, <1>4, <2>1, <2>2, <2>3, ServedStart
<1>7. ASSUME NEW p \in Protocols, NEW d \in listed'[p] PROVE conn'[d] = "live"
  <2>1. d = c \/ d \in listed[p]
    <3>1. listed'[p] = IF p = protocol[c] THEN listed[p] \cup {c} ELSE listed[p]
      BY InitMessageEffect
    <3> QED
      BY <1>7, <3>1
  <2>2. d \in listed[p] => d \in Conns /\ conn[d] = "live"
    BY <1>0, <1>4, ListedType DEF ServeInv, MapsLive
  <2> QED
    BY <1>1, <2>1, <2>2
<1>8. ASSUME NEW p \in Protocols, NEW ch \in Channels, running'[p][ch] # 0
      PROVE  conn'[running'[p][ch]] = "live"
  <2>1. running'[p][ch] = c \/ (running'[p][ch] = running[p][ch] /\ running[p][ch] \in Conns)
    BY <1>0, <1>8, InitMessageEffect, RunningType
  <2> QED
    BY <1>1, <1>4, <1>8, <2>1 DEF ServeInv, MapsLive
<1> QED
  BY <1>5, <1>6, <1>7, <1>8 DEF MapsLive

\* A connection that ends takes what is kept of its channel along, and nothing else.
LEMMA EndServes ==
    ASSUME ShapeInv, ServeInv, NEW c \in Conns, Close(c) \/ LateClose(c)
    PROVE  ServeInv'
<1>0. /\ TypeOK /\ ListsMatch /\ channel[c] \in Channels /\ protocol[c] \in Protocols
      /\ UNCHANGED <<protocol, channel, session, met>> /\ Cleanup(c)
  BY DEF ShapeInv, TypeOK, Close, LateClose, published, history
<1>1. /\ conn'[c] \in {"gone", "stale"} /\ c \in Around
      /\ \A d \in Conns \ {c} : conn'[d] = conn[d]
  <2>1. CASE Close(c)
    BY <1>0, <2>1, ResidueEffect DEF Close, TypeOK, Around
  <2>2. CASE LateClose(c)
    BY <1>0, <2>2 DEF LateClose, TypeOK, Around
  <2> QED
    BY <2>1, <2>2
<1>2. CutWhenGone'
  BY <1>0, <1>1 DEF ServeInv, CutWhenGone
<1>3. SUFFICES ASSUME ~met PROVE Alone' /\ MapsLive' /\ Served'
  BY <1>0, <1>2 DEF ServeInv, Alone, MapsLive, Served
<1>4. Alone'
  <2>1. Around' \subseteq Around
    BY <1>1 DEF Around
  <2> QED
    BY <1>0, <1>3, <2>1 DEF ServeInv, Alone
<1>5. /\ \A ch \in Channels : ch # channel[c] => ASRs'[ch] = ASRs[ch]
      /\ \A p \in Protocols, ch \in Channels : ch # channel[c] => running'[p][ch] = running[p][ch]
      /\ \A p \in Protocols : \A d \in listed[p] : d \in listed'[p] \/ channel[d] = channel[c]
  <2>1. StopAsr({channel[c]}) /\ {channel[c]} \in SUBSET Channels
    BY <1>0, CleanupEffect
  <2>2. \A ch \in Channels : ASRs'[ch] = IF ch \in {channel[c]} THEN 0 ELSE ASRs[ch]
    BY <1>0, <2>1, StopEffect
  <2>3. \A p \in Protocols, ch \in Channels :
            running'[p][ch] = IF p = protocol[c] /\ ch = channel[c] THEN 0 ELSE running[p][ch]
    BY <1>0, CleanupEffect
  <2>4. \A p \in Protocols :
            listed'[p] = IF p = protocol[c] THEN {e \in listed[p] : channel[e] # channel[c]}
                         ELSE listed[p]
    BY <1>0, CleanupEffect
  <2> QED
    BY <2>2, <2>3, <2>4
<1>6. Served'
  <2>1. ASSUME NEW d \in Conns, conn'[d] = "live"
        PROVE  /\ ASRs'[channel[d]] = d
               /\ running'[protocol[d]][channel[d]] = d
               /\ d \in listed'[protocol[d]]
    <3>1. conn[d] = "live" /\ d \in Around /\ d # c
      BY <1>1, <2>1 DEF Around
    <3>2. channel[d] # channel[c] /\ channel[d] \in Channels /\ protocol[d] \in Protocols
      BY <1>0, <1>1, <1>3, <3>1 DEF ServeInv, Alone, TypeOK
    <3>3. ASRs[channel[d]] = d /\ running[protocol[d]][channel[d]] = d /\ d \in listed[protocol[d]]
      BY <1>3, <3>1 DEF ServeInv, Served
    <3> QED
      BY <1>5, <3>2, <3>3
  <2> QED
    BY <1>0, <2>1 DEF Served
<1>7. ASSUME NEW p \in Protocols, NEW d \in listed'[p] PROVE conn'[d] = "live"
  <2>1. d \in listed[p] /\ (p = protocol[c] => channel[d] # channel[c])
    <3>1. listed'[p] = IF p = protocol[c] THEN {e \in listed[p] : channel[e] # channel[c]}
                       ELSE listed[p]
      BY <1>0, CleanupEffect
    <3> QED
      BY <1>7, <3>1
  <2>2. d \in Conns /\ conn[d] = "live" /\ protocol[d] = p
    BY <1>0, <1>3, <2>1, ListedType DEF ListsMatch, ServeInv, MapsLive
  <2> QED
    BY <1>1, <2>1, <2>2
<1>8. ASSUME NEW p \in Protocols, NEW ch \in Channels, running'[p][ch] # 0
      PROVE  conn'[running'[p][ch]] = "live"
  <2>1. ~(p = protocol[c] /\ ch = channel[c]) /\ running'[p][ch] = running[p][ch]
    BY <1>0, <1>8, CleanupEffect
  <2>2. /\ running[p][ch] \in Conns /\ conn[running[p][ch]] = "live"
        /\ protocol[running[p][ch]] = p /\ channel[running[p][ch]] = ch
    BY <1>0, <1>3, <1>8, <2>1, RunningType DEF ListsMatch, ServeInv, MapsLive
  <2> QED
    BY <1>1, <2>1, <2>2
<1> QED
  BY <1>4, <1>6, <1>7, <1>8 DEF MapsLive

\* The session leaves the snapshot: whoever streams is listed, the only one of its
\* channel, and cut.
LEMMA GoneServes ==
    ASSUME ShapeInv, ServeInv, SessionGone
    PROVE  ServeInv'
<1>0. TypeOK /\ UNCHANGED <<protocol, channel, met>>
  BY DEF ShapeInv, SessionGone, history
<1>1. SUFFICES ASSUME ~met PROVE Alone' /\ MapsLive' /\ Served' /\ CutWhenGone'
  BY <1>0 DEF ServeInv, Alone, MapsLive, Served, CutWhenGone
<1>2. ASSUME NEW d \in Conns, conn[d] = "live" PROVE d \in CutFirst
  <2>1. protocol[d] \in Protocols /\ d \in listed[protocol[d]] /\ turn[d] \in Nat
    BY <1>0, <1>1, <1>2 DEF ServeInv, Served, TypeOK
  <2>2. ASSUME NEW e \in listed[protocol[d]], channel[e] = channel[d] PROVE e = d
    BY <1>0, <1>1, <1>2, <2>1, <2>2, ListedType DEF ServeInv, Alone, MapsLive, Around
  <2> QED
    BY <2>1, <2>2 DEF CutFirst
<1>3. ASSUME NEW d \in Conns PROVE conn'[d] # "live" /\ (d \in Around' => d \in Around)
  <2>1. CASE d \in CutFirst
    <3>1. conn[d] = "live"
      BY <1>1, <2>1 DEF CutFirst, ServeInv, MapsLive
    <3> QED
      BY <1>0, <2>1, <3>1, SessionGoneEffect DEF Around
  <2>2. CASE d \notin CutFirst
    BY <1>0, <1>2, <2>2, SessionGoneEffect DEF Around
  <2> QED
    BY <2>1, <2>2
<1>4. Alone'
  <2>1. Around' \subseteq Around
    BY <1>3 DEF Around
  <2> QED
    BY <1>0, <1>1, <2>1 DEF ServeInv, Alone
<1>5. Served' /\ CutWhenGone'
  BY <1>3 DEF Served, CutWhenGone
<1>6. MapsLive'
  <2>1. \A p \in Protocols : listed'[p] = {}
    BY <1>0, SessionGoneEffect
  <2>2. ASSUME NEW p \in Protocols, NEW ch \in Channels PROVE running'[p][ch] = 0
    <3>1. CASE running[p][ch] = 0
      BY <1>0, <3>1, SessionGoneEffect
    <3>2. CASE running[p][ch] # 0
      <4>1. /\ running[p][ch] \in Conns /\ conn[running[p][ch]] = "live"
            /\ protocol[running[p][ch]] = p /\ channel[running[p][ch]] = ch
        BY <1>0, <1>1, <3>2, RunningType DEF ShapeInv, ListsMatch, ServeInv, MapsLive
      <4>2. running[p][ch] \in listed[p]
        BY <1>1, <4>1 DEF ServeInv, Served
      <4> QED
        BY <4>1, <4>2 DEF SessionGone
    <3> QED
      BY <3>1, <3>2
  <2> QED
    BY <2>1, <2>2 DEF MapsLive
<1> QED
  BY <1>4, <1>5, <1>6

LEMMA ServeStep == ShapeInv /\ ServeInv /\ [Next]_vars => ServeInv'
<1> SUFFICES ASSUME ShapeInv, ServeInv, [Next]_vars PROVE ServeInv'
  OBVIOUS
<1>1. ASSUME UNCHANGED <<conn, protocol, channel, running, listed, ASRs, met>>,
             session' = session \/ session'
      PROVE  ServeInv'
  BY <1>1 DEF ServeInv, Alone, MapsLive, Served, CutWhenGone, Around
<1>2. ASSUME NEW c \in Conns, WaitingGone(c) PROVE ServeInv'
  <2>0. UNCHANGED <<protocol, channel, running, listed, ASRs, met, session>> /\ TypeOK /\ ListsMatch
    BY <1>2 DEF WaitingGone, asrs, published, history, ShapeInv
  <2>1. conn[c] = "waiting" /\ conn'[c] = "gone" /\ \A d \in Conns \ {c} : conn'[d] = conn[d]
    BY <1>2, <2>0 DEF WaitingGone, TypeOK
  <2>2. Around' \subseteq Around
    BY <2>1 DEF Around
  <2>3. Alone' /\ Served' /\ CutWhenGone'
    BY <2>0, <2>1, <2>2 DEF ServeInv, Alone, Served, CutWhenGone
  <2>4. /\ \A p \in Protocols : \A d \in listed[p] : d \in Conns \ {c}
        /\ \A p \in Protocols, ch \in Channels : running[p][ch] # 0 => running[p][ch] \in Conns \ {c}
    BY <2>0, <2>1, ListedType, RunningType DEF ListsMatch
  <2>5. MapsLive'
    BY <2>0, <2>1, <2>4 DEF ServeInv, MapsLive
  <2> QED
    BY <2>3, <2>5 DEF ServeInv
<1>3. ASSUME NEW a \in Conns, Final(a) \/ FlushDone(a) PROVE ServeInv'
  BY <1>1, <1>3 DEF Final, FlushDone, connections, history
<1>4. CASE SessionListed \/ ClearSession \/ UNCHANGED vars
  BY <1>1, <1>4 DEF SessionListed, ClearSession, vars, connections, asrs, history, published
<1> QED
  BY <1>2, <1>3, <1>4, AcceptServes, ConnectWSServes, InitServes, EndServes, GoneServes
     DEF Next, ConnectSRT, ConnectRTMP, CloseWS, CloseSRT, CloseRTMP

-----------------------------------------------------------------------------
(* Segment ids *)

\* A final with a newer id keeps the order.
LEMMA AppendAscends ==
    ASSUME NEW s \in Seq(Nat), NEW n \in Nat, Ascending(s), Above(s, n)
    PROVE  Ascending(Append(s, n)) /\ Above(Append(s, n), n + 1)
BY DEF Ascending, Above

\* What is above a number is above a larger one; nothing is above zero.
LEMMA AboveMore ==
    ASSUME NEW s \in Seq(Nat), NEW m \in Nat, NEW n \in Nat, Above(s, m), m <= n
    PROVE  Above(s, n)
BY DEF Above

LEMMA AboveZero ==
    ASSUME NEW s \in Seq(Nat), NEW n \in Nat, Above(s, 0)
    PROVE  Above(s, n)
BY DEF Above

\* The ASR that starts, with the others of its channel over, goes on after the finals.
LEMMA StartAscends ==
    ASSUME TypeOK, TypeOK', SegmentInv, NEW c \in Conns, NEW known \in Nat,
           asr[c] = "none", asr'[c] = "live",
           \A a \in Conns \ {c} : \/ asr'[a] = asr[a]
                                  \/ asr'[a] = "flushing" /\ asr[a] = "live",
           segmentId' = [segmentId EXCEPT ![c] = InitialSegment(channel[c], known)],
           lastSegmentIds' = [lastSegmentIds EXCEPT ![channel[c]] = 0],
           hurried' = (hurried \/ \E a \in Conns \ {c} :
                          channel[a] = channel[c] /\ asr[a] \in {"live", "flushing"}),
           UNCHANGED <<channel, finals>>
    PROVE  SegmentInv'
<1> SUFFICES ASSUME ~hurried' PROVE SegmentInv'
  BY DEF SegmentInv
<1>0. /\ ~hurried
      /\ \A a \in Conns \ {c} : channel[a] = channel[c] => asr[a] \notin {"live", "flushing"}
      /\ channel[c] \in Channels
      /\ \A ch \in Channels : finals[ch] \in Seq(Nat) /\ lastSegmentIds[ch] \in Nat
  BY DEF TypeOK
<1>1. Active' = Active \cup {c} /\ c \notin Active
  BY DEF Active
<1>2. \A a \in Active : channel[a] # channel[c]
  BY <1>0, <1>1 DEF Active
<1>3. \A a, b \in Active' : channel[a] = channel[b] => a = b
  BY <1>0, <1>1, <1>2 DEF SegmentInv
<1>4. Above(finals[channel[c]], segmentId'[c])
  <2>1. Above(finals[channel[c]], lastSegmentIds[channel[c]])
    BY <1>0, <1>2 DEF SegmentInv
  <2>2. segmentId'[c] = IF lastSegmentIds[channel[c]] # 0 THEN lastSegmentIds[channel[c]] ELSE known + 1
    BY DEF InitialSegment, TypeOK
  <2> QED
    BY <1>0, <2>1, <2>2, AboveZero
<1>5. ASSUME NEW a \in Active' PROVE Above(finals[channel[a]], segmentId'[a])
  <2>1. CASE a = c
    BY <1>4, <2>1
  <2>2. CASE a # c
    <3>1. a \in Active /\ a \in Conns /\ segmentId'[a] = segmentId[a]
      BY <1>1, <2>2 DEF Active, TypeOK
    <3> QED
      BY <1>0, <3>1 DEF SegmentInv
  <2> QED
    BY <2>1, <2>2
<1>6. ASSUME NEW ch \in Channels, \A a \in Active' : channel[a] # ch
      PROVE  Above(finals[ch], lastSegmentIds'[ch])
  <2>1. ch # channel[c] /\ (\A a \in Active : channel[a] # ch)
    BY <1>1, <1>6
  <2>2. lastSegmentIds'[ch] = lastSegmentIds[ch]
    BY <2>1 DEF TypeOK
  <2> QED
    BY <1>0, <2>1, <2>2 DEF SegmentInv
<1> QED
  BY <1>0, <1>3, <1>5, <1>6 DEF SegmentInv

\* A stop changes who may publish finals only in name.
LEMMA StopAscends ==
    ASSUME ShapeInv, SegmentInv, NEW chans \in SUBSET Channels, StopAsr(chans),
           UNCHANGED <<channel, finals, segmentId, lastSegmentIds, hurried>>
    PROVE  SegmentInv'
<1>1. \A a \in Conns : asr'[a] = asr[a] \/ (asr'[a] = "flushing" /\ asr[a] = "live")
  <2>1. \A a \in Conns : asr'[a] = IF \E ch \in chans : ASRs[ch] = a THEN "flushing" ELSE asr[a]
    BY StopEffect DEF ShapeInv
  <2>2. \A a \in Conns : (\E ch \in chans : ASRs[ch] = a) => asr[a] = "live"
    BY NoConnIsZero DEF ShapeInv, MapMatches
  <2> QED
    BY <2>1, <2>2
<1>2. Active' = Active
  BY <1>1 DEF Active
<1> QED
  BY <1>2 DEF SegmentInv

LEMMA SegmentStep == ShapeInv /\ SegmentInv /\ [Next]_vars => SegmentInv'
<1> SUFFICES ASSUME ShapeInv, SegmentInv, [Next]_vars PROVE SegmentInv'
  OBVIOUS
<1>0. TypeOK /\ TypeOK' /\ MapMatches /\ 0 \notin Conns
  BY TypeStep, NoConnIsZero DEF ShapeInv
<1>1. ASSUME UNCHANGED <<channel, asr, finals, segmentId, lastSegmentIds, hurried>> PROVE SegmentInv'
  BY <1>1 DEF SegmentInv, Active
<1>2. ASSUME NEW c \in Conns, Accept(c) PROVE SegmentInv'
  <2>1. /\ channel[c] \in Channels /\ snapshotId[channel[c]] \in Nat
        /\ UNCHANGED <<channel, finals>>
    BY <1>0, <1>2 DEF Accept, TypeOK, published
  <2>2. asr[c] = "none" /\ asr'[c] = "live"
    BY <1>2, AcceptEffect
  <2>3. \A a \in Conns \ {c} : \/ asr'[a] = asr[a]
                               \/ asr'[a] = "flushing" /\ asr[a] = "live"
    BY <1>0, <1>2, <2>1, AcceptEffect DEF MapMatches
  <2>4. /\ segmentId' = [segmentId EXCEPT ![c] = InitialSegment(channel[c], snapshotId[channel[c]])]
        /\ lastSegmentIds' = [lastSegmentIds EXCEPT ![channel[c]] = 0]
        /\ hurried' = (hurried \/ \E a \in Conns \ {c} :
                          channel[a] = channel[c] /\ asr[a] \in {"live", "flushing"})
    BY <1>2 DEF Accept, Register
  <2> QED
    BY <1>0, <2>1, <2>2, <2>3, <2>4, StartAscends
<1>3. ASSUME NEW c \in Conns, ConnectWS(c) PROVE SegmentInv'
  <2>1. /\ {channel[c]} \in SUBSET Channels
        /\ UNCHANGED <<channel, finals, segmentId, lastSegmentIds, hurried>>
    BY <1>0, <1>3 DEF ConnectWS, TypeOK, published
  <2> QED
    BY <1>1, <1>3, <2>1, ConnectWSEffect, StopAscends
<1>4. ASSUME NEW c \in Conns, InitMessage(c) PROVE SegmentInv'
  <2>1. knownId[c] \in Nat /\ UNCHANGED <<channel, finals>>
    BY <1>0, <1>4 DEF InitMessage, TypeOK, published
  <2>2. /\ asr[c] = "none" /\ asr'[c] = "live"
        /\ \A a \in Conns \ {c} : asr'[a] = asr[a]
    BY <1>0, <1>4, InitMessageEffect DEF TypeOK
  <2>3. /\ segmentId' = [segmentId EXCEPT ![c] = InitialSegment(channel[c], knownId[c])]
        /\ lastSegmentIds' = [lastSegmentIds EXCEPT ![channel[c]] = 0]
        /\ hurried' = (hurried \/ \E a \in Conns \ {c} :
                          channel[a] = channel[c] /\ asr[a] \in {"live", "flushing"})
    BY <1>4 DEF InitMessage, Register
  <2> QED
    BY <1>0, <2>1, <2>2, <2>3, StartAscends
<1>5. ASSUME NEW c \in Conns, WaitingGone(c) PROVE SegmentInv'
  BY <1>1, <1>5 DEF WaitingGone, asrs, published, history
<1>6. ASSUME NEW c \in Conns, Close(c) \/ LateClose(c) PROVE SegmentInv'
  <2>1. /\ Cleanup(c)
        /\ UNCHANGED <<channel, finals, segmentId, lastSegmentIds, hurried>>
    BY <1>6 DEF Close, LateClose, published, history
  <2> QED
    BY <1>0, <2>1, CleanupEffect, StopAscends
<1>7. ASSUME NEW a \in Conns, Final(a) PROVE SegmentInv'
  <2>0. UNCHANGED <<channel, asr, lastSegmentIds, hurried>> /\ a \in Active
    BY <1>7 DEF Final, connections, history, Active
  <2>1. /\ channel[a] \in Channels /\ segmentId[a] \in Nat
        /\ \A ch \in Channels : finals[ch] \in Seq(Nat)
    BY <1>0 DEF TypeOK
  <2>2. /\ \A ch \in Channels : finals'[ch] = IF ch = channel[a] THEN Append(finals[ch], segmentId[a])
                                              ELSE finals[ch]
        /\ \A b \in Conns : segmentId'[b] = IF b = a THEN segmentId[a] + 1 ELSE segmentId[b]
    BY <1>0, <1>7 DEF Final, TypeOK
  <2> SUFFICES ASSUME ~hurried PROVE SegmentInv'
    BY <2>0 DEF SegmentInv
  <2>3. /\ Ascending(Append(finals[channel[a]], segmentId[a]))
        /\ Above(Append(finals[channel[a]], segmentId[a]), segmentId[a] + 1)
    BY <2>0, <2>1, AppendAscends DEF SegmentInv
  <2>4. \A b \in Active \ {a} : channel[b] # channel[a] /\ b \in Conns /\ channel[b] \in Channels
    BY <1>0, <2>0 DEF SegmentInv, Active, TypeOK
  <2>5. ASSUME NEW b \in Active PROVE Above(finals'[channel[b]], segmentId'[b])
    <3>1. CASE b = a
      BY <2>1, <2>2, <2>3, <3>1
    <3>2. CASE b # a
      BY <2>2, <2>4, <3>2 DEF SegmentInv
    <3> QED
      BY <3>1, <3>2
  <2>6. ASSUME NEW ch \in Channels, \A b \in Active : channel[b] # ch
        PROVE  Above(finals'[ch], lastSegmentIds[ch])
    BY <2>0, <2>2, <2>6 DEF SegmentInv
  <2>7. \A ch \in Channels : Ascending(finals'[ch])
    BY <2>2, <2>3 DEF SegmentInv
  <2>8. Active' = Active
    BY <2>0 DEF Active
  <2> QED
    BY <2>0, <2>5, <2>6, <2>7, <2>8 DEF SegmentInv
<1>8. ASSUME NEW a \in Conns, FlushDone(a) PROVE SegmentInv'
  <2>0. UNCHANGED <<channel, segmentId, finals, hurried>> /\ a \in Active
    BY <1>8 DEF FlushDone, connections, history, Active
  <2>1. /\ channel[a] \in Channels /\ segmentId[a] \in Nat
        /\ \A ch \in Channels : finals[ch] \in Seq(Nat)
    BY <1>0 DEF TypeOK
  <2>2. Active' = Active \ {a}
    BY <1>0, <1>8 DEF FlushDone, TypeOK, Active
  <2>3. /\ lastSegmentIds'[channel[a]] = segmentId[a] + 1
        /\ \A ch \in Channels : ch # channel[a] => lastSegmentIds'[ch] = lastSegmentIds[ch]
    BY <1>0, <1>8, <2>1 DEF FlushDone, TypeOK
  <2> SUFFICES ASSUME ~hurried PROVE SegmentInv'
    BY <2>0 DEF SegmentInv
  <2>4. Above(finals[channel[a]], segmentId[a] + 1)
    <3>1. Above(finals[channel[a]], segmentId[a])
      BY <2>0 DEF SegmentInv
    <3> QED
      BY <2>1, <3>1, AboveMore
  <2>5. ASSUME NEW ch \in Channels, \A b \in Active' : channel[b] # ch
        PROVE  Above(finals[ch], lastSegmentIds'[ch])
    <3>1. CASE ch = channel[a]
      BY <2>3, <2>4, <3>1
    <3>2. CASE ch # channel[a]
      BY <2>2, <2>3, <2>5, <3>2 DEF SegmentInv
    <3> QED
      BY <3>1, <3>2
  <2> QED
    BY <2>0, <2>2, <2>5 DEF SegmentInv
<1>9. CASE SessionGone
  <2>1. UNCHANGED <<channel, finals, segmentId, lastSegmentIds, hurried>>
    BY <1>9 DEF SessionGone, history
  <2> QED
    BY <1>0, <1>9, <2>1, SessionGoneEffect, StopAscends
<1>10. CASE SessionListed
  BY <1>1, <1>10 DEF SessionListed, connections, asrs, history
<1>11. CASE ClearSession
  <2>1. UNCHANGED <<channel, asr, segmentId, hurried>> /\ \A ch \in Channels : finals'[ch] = <<>>
    BY <1>11 DEF ClearSession, connections, history
  <2>2. \A n : Above(<<>>, n) /\ Ascending(<<>>)
    BY DEF Above, Ascending
  <2>3. \A a \in Active : channel[a] \in Channels
    BY <1>0 DEF Active, TypeOK
  <2> QED
    BY <2>1, <2>2, <2>3 DEF SegmentInv, Active
<1>12. CASE UNCHANGED vars
  BY <1>1, <1>12 DEF vars, connections, asrs, published, history
<1> QED
  BY <1>2, <1>3, <1>4, <1>5, <1>6, <1>7, <1>8, <1>9, <1>10, <1>11, <1>12
     DEF Next, ConnectSRT, ConnectRTMP, CloseWS, CloseSRT, CloseRTMP

-----------------------------------------------------------------------------
(* The theorems *)

LEMMA StreamInit == Init => ShapeInv /\ ForceCutEnds /\ ServeInv /\ SegmentInv
<1> SUFFICES ASSUME Init PROVE ShapeInv /\ ForceCutEnds /\ ServeInv /\ SegmentInv
  OBVIOUS
<1>1. TypeOK
  <2>1. 0 \in 0 .. 1 /\ 0 \in 0 .. MaxSnapshots
    BY StreamingLimits
  <2>2. finals \in [Channels -> Seq(Nat)]
    BY DEF Init
  <2> QED
    BY <2>1, <2>2 DEF Init, TypeOK
<1>2. ConnsMatch /\ MapMatches /\ CountMatches
  BY DEF Init, ConnsMatch, MapMatches, CountMatches
<1>3. ListsMatch /\ ForceCutEnds
  BY DEF Init, ListsMatch, ForceCutEnds
<1>4. Around = {} /\ Active = {}
  BY DEF Init, Around, Active
<1>5. ServeInv
  BY <1>4 DEF Init, ServeInv, Alone, MapsLive, Served, CutWhenGone
<1>6. SegmentInv
  <2>1. \A ch \in Channels : finals[ch] = <<>>
    BY DEF Init
  <2>2. \A n : Above(<<>>, n) /\ Ascending(<<>>)
    BY DEF Above, Ascending
  <2> QED
    BY <1>4, <2>1, <2>2 DEF SegmentInv
<1> QED
  BY <1>1, <1>2, <1>3, <1>5, <1>6 DEF ShapeInv

LEMMA StreamInvariance == Spec => [](ShapeInv /\ ForceCutEnds /\ ServeInv /\ SegmentInv)
BY StreamInit, ShapeStep, ForceCutStep, ServeStep, SegmentStep, PTL DEF Spec

\* Whatever stops a stream - its end, a late event of a connection that was replaced, a
\* force-cut - _stopAsr flushes, marks and deactivates its ASR once.
THEOREM AsrStopsOnce == Spec => []StoppedOnce
<1>1. ShapeInv => StoppedOnce
  BY NoConnIsZero DEF ShapeInv, MapMatches, CountMatches, StoppedOnce
<1> QED
  BY StreamInvariance, <1>1, PTL

\* stopRunningSession of the RTMP server ends: whatever it has listed is a stream it
\* can clean up.
THEOREM RTMPCutEnds == Spec => []ForceCutEnds
BY StreamInvariance, PTL

\* A live connection that has met no other one feeds the ASR of its channel and is in
\* the maps of its server.
THEOREM LiveIsServed == Spec => []Served
<1>1. ServeInv => Served
  BY DEF ServeInv
<1> QED
  BY StreamInvariance, <1>1, PTL

\* The same connections do not outlive the session in the snapshot, but for the WebSockets
\* that wait for their init.
THEOREM GoneIsCut == Spec => []CutWhenGone
<1>1. ServeInv => CutWhenGone
  BY DEF ServeInv
<1> QED
  BY StreamInvariance, <1>1, PTL

\* As long as no ASR starts before the previous one of its channel is disposed, a
\* segment id is used once and ids ascend, over reconnections and clears.
THEOREM FinalsAscend == Spec => []SegmentsAscend
<1>1. SegmentInv => SegmentsAscend
  BY DEF SegmentInv, SegmentsAscend, Ascending
<1> QED
  BY StreamInvariance, <1>1, PTL

=============================================================================
