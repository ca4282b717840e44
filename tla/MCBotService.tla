---------------------------- MODULE MCBotService ----------------------------
(***************************************************************************)
(* Instances of BotService for TLC.                                        *)
(***************************************************************************)
EXTENDS BotService
=============================================================================
