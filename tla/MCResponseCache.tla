--------------------------- MODULE MCResponseCache ---------------------------
(* A small instance of ResponseCache for TLC.                              *)
EXTENDS ResponseCache, TLC

Symmetry == Permutations(Writer)
==============================================================================
