------------------------- MODULE MCSubmitLifecycle -------------------------
(* SubmitLifecycle with model values for its users. *)
EXTENDS SubmitLifecycle

CONSTANTS u1, u2
=============================================================================
