-------------------------- MODULE MCStreamingServer --------------------------
(***************************************************************************)
(* Instances of StreamingServer for TLC.                                   *)
(***************************************************************************)
EXTENDS StreamingServer, TLC

AllProtocols == {"WS", "SRT", "RTMP"}
WebSocketOnly == {"WS"}

\* Nothing tells one channel from another.
Symmetry == Permutations(Channels)
=============================================================================
