--------------------------- MODULE MCProcessBounds ---------------------------
(* Bounds of one and of three characters, chunks of two, a pipe of two.      *)
EXTENDS ProcessBounds, TLC

MCBound == [stdout |-> 3, stderr |-> 1]
=============================================================================
