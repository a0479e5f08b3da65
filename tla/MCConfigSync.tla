---------------------------- MODULE MCConfigSync ----------------------------
(* A small instance of ConfigSync for TLC: the second file is offloader.yml *)
(* and has to be there, and the second upload of all is a bad revision if  *)
(* it is one of that file.                                                 *)
EXTENDS ConfigSync

Main == 2
MCValidTrees == {t \in Tree : t[Main] \notin {0, 2}}
=============================================================================
