---------------------------- MODULE MCConnections ----------------------------
(* Two processes, an API-key provider and Codex; two connects.               *)
EXTENDS Connections, TLC

CONSTANTS p1, p2
MCProc == {p1, p2}
=============================================================================
