------------------------ MODULE MCTranslationPipeline ------------------------
(***************************************************************************)
(* Instances of TranslationPipeline for TLC.                               *)
(***************************************************************************)
EXTENDS TranslationPipeline

AllModes == {"eco", "punctuated", "live"}
=============================================================================
