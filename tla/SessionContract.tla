---------------------------- MODULE SessionContract ----------------------------
(***************************************************************************)
(* What a session is to its users (the clients of the REST API and Studio):*)
(* a status, whether it says since when it is paused, and the captions     *)
(* kept for each channel.  Each step is atomic here and looks at the       *)
(* present only; nothing is said about who takes it or when.               *)
(***************************************************************************)
EXTENDS Naturals

CONSTANT Channels

VARIABLES status, paused, captions

contract == <<status, paused, captions>>

NoCaptions == [c \in Channels |-> 0]

Init ==
    /\ status \in {"on_schedule", "ready"}
    /\ paused = FALSE
    /\ captions = NoCaptions

\* A session that is neither paused nor over starts or stops streaming.
Run ==
    /\ status \in {"on_schedule", "ready", "active"}
    /\ status' \in {"ready", "active"}
    /\ UNCHANGED <<paused, captions>>

\* Only a running session is paused, and it tells since when.
Pause ==
    /\ status = "active" /\ status' = "paused"
    /\ paused' = TRUE
    /\ UNCHANGED captions

\* A paused session is resumed by its user, or becomes ready when its streams are lost.
Unpause ==
    /\ status = "paused" /\ status' \in {"active", "ready"}
    /\ paused' = FALSE
    /\ UNCHANGED captions

\* A session is over whenever somebody ends it; nothing follows but its deletion.
Terminate ==
    /\ status # "deleted" /\ status' = "terminated"
    /\ UNCHANGED <<paused, captions>>

Delete ==
    /\ status' = "deleted"
    /\ paused' = FALSE
    /\ captions' = NoCaptions

\* One more caption of a session that exists, its late ones after the end included.
Caption(c) ==
    /\ status # "deleted"
    /\ captions' = [captions EXCEPT ![c] = @ + 1]
    /\ UNCHANGED <<status, paused>>

Clear ==
    /\ captions' = NoCaptions
    /\ UNCHANGED <<status, paused>>

Next ==
    \/ Run \/ Pause \/ Unpause \/ Terminate \/ Delete \/ Clear
    \/ \E c \in Channels : Caption(c)

Spec == Init /\ [][Next]_contract
=============================================================================
