------------------------ MODULE MCSessionInspection ------------------------
(* Files of two groups and a resume of two: the third group begins a file,   *)
(* and a resumed run cuts a history of three.                                *)
EXTENDS SessionInspection, TLC

MCSymmetry == Permutations(Sessions)
=============================================================================
