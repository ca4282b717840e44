------------------------- MODULE MCSessionLifecycle -------------------------
(***************************************************************************)
(* Instances of SessionLifecycle for TLC: how often each bounded kind of   *)
(* event may happen.                                                       *)
(***************************************************************************)
EXTENDS SessionLifecycle, TLC

Bounds(stream, replace, final, req, bot, crash, fault) ==
    [k \in Kinds |-> CASE k = "stream"  -> stream
                       [] k = "replace" -> replace
                       [] k = "final"   -> final
                       [] k = "request" -> req
                       [] k = "bot"     -> bot
                       [] k = "crash"   -> crash
                       [] k = "fault"   -> fault]

TakeoverLimit == Bounds(2, 0, 1, 1, 1, 0, 0)
CrashLimit     == Bounds(2, 1, 0, 0, 0, 1, 0)
FaultLimit     == Bounds(1, 0, 1, 1, 0, 0, 1)
LiveLimit == Bounds(2, 0, 0, 2, 0, 0, 0)

Symmetry == Permutations(Channels) \cup Permutations(Transcribers)

=============================================================================
