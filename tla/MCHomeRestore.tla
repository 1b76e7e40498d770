--------------------------- MODULE MCHomeRestore ----------------------------
(***************************************************************************)
(* Instances of HomeRestore for TLC: the layout file, a file and a         *)
(* directory; every home and every backup that is made of them.            *)
(***************************************************************************)
EXTENDS HomeRestore

MCDirectories == {N}
=============================================================================
