----------------------------- MODULE MCBotRouting -----------------------------
(***************************************************************************)
(* Instances of BotRouting for TLC: two bots, one after or beside the      *)
(* other on one channel.                                                   *)
(***************************************************************************)
EXTENDS BotRouting, TLC

CONSTANTS b1, b2, c1

OneChannel == b1 :> c1 @@ b2 :> c1

Symmetry == Permutations(Replicas) \cup Permutations(Bots)
=============================================================================
