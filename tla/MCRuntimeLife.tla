--------------------------- MODULE MCRuntimeLife ---------------------------
(* Three threads; a constructor of three objects stands for one of 23.       *)
EXTENDS RuntimeLife
=============================================================================
