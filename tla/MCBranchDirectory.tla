------------------------- MODULE MCBranchDirectory -------------------------
(* BranchDirectory with two saves, a create and a delete. *)
EXTENDS BranchDirectory

CONSTANTS s1, s2, c1, d1, h1
=============================================================================
