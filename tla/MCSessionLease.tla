--------------------------- MODULE MCSessionLease ---------------------------
(* Two processes that each may run, delete and, the first, also list.  One *)
(* process may delete while the other waits, and then create: every race   *)
(* needs two processes only.                                               *)
EXTENDS SessionLease, TLC

CONSTANTS p1, p2

MCRunner == {p1, p2}
MCDeleter == {p1, p2}
MCProber == {p1}
MCNone == {}
=============================================================================
