----------------------------- MODULE MCServePath -----------------------------
(* A small instance of ServePath for TLC.                                  *)
EXTENDS ServePath, TLC

(* Tables, requests and definitions are interchangeable.                   *)
Symmetry == Permutations(Table) \cup Permutations(Request) \cup Permutations(Def)
==============================================================================
