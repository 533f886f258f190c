----------------------------- MODULE MCCodexExec -----------------------------
(* One stream of up to four messages, of which three are retained.           *)
EXTENDS CodexExec, MCProcessBounds

MCExecInit == ExecInit /\ bad["stderr"] = 0 /\ bad["stdout"] = 0

MCExecSpec == MCExecInit /\ [][ExecNext]_<<subprocess, codexExec>>
=============================================================================
