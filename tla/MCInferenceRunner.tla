------------------------- MODULE MCInferenceRunner -------------------------
(* Small instances of InferenceRunner for TLC. *)
EXTENDS InferenceRunner, TLC
=============================================================================
