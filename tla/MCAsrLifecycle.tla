---------------------------- MODULE MCAsrLifecycle ----------------------------
(***************************************************************************)
(* Instances of AsrLifecycle for TLC.                                      *)
(***************************************************************************)
EXTENDS AsrLifecycle

AllProviders == {"amazon", "microsoft", "vllm", "openai", "linto", "none"}
Amazon       == {"amazon"}
=============================================================================
