----------------------------- MODULE MCToolCalls -----------------------------
(* One part at a time of what the agent calls and what it calls it with: the *)
(* tools write_file and run_python_file, `codex exec`, and the stored        *)
(* connections to the providers.                                             *)
(*                                                                           *)
(* write_file: three changes by other programs, one between any three steps  *)
(* of the call, or a name that is changed and changed back in between.       *)
(* run_python_file: bounds of one and of three characters, chunks of two, a  *)
(* pipe of two.  Connections: two processes, an API-key provider and Codex,  *)
(* two connects.                                                             *)
EXTENDS WriteFile, MCProcessBounds, CodexExec, MCConnections

VARIABLE tool   \* which of them it is

others == <<subprocess, codexExec, connections>>

\* Both pipes may be cut at the bound; standard output alone may not be UTF-8 (one
\* drain function reads both).
UTF8Errors == bad["stderr"] = 0

NoExec == finalFile = "absent" /\ code = 0
NoWrite == Init /\ ~parent /\ node.other = "absent"
NoSubprocess ==
  /\ caller = [does |-> "returned", stream |-> "stdout"]
  /\ timedOut = FALSE /\ child = "exited" /\ heirs = {}
  /\ written = [s \in Stream |-> 0] /\ bad = written /\ taken = written
  /\ drain = [s \in Stream |-> [pc |-> "eof", decoded |-> 0, retained |-> 0, truncated |-> FALSE]]
  /\ closed = [s \in Stream |-> TRUE]

\* ConnectionsInit is one state, in which the other parts leave the connections.
ToolInit ==
  /\ ConnectionsInit
  /\ \/ tool = "write_file" /\ Init /\ NoSubprocess /\ NoExec
     \/ tool = "run_python_file" /\ NoWrite /\ SubprocessInit /\ UTF8Errors /\ NoExec
     \/ tool = "codex_exec" /\ NoWrite /\ ExecInit /\ UTF8Errors
     \/ tool = "connections" /\ NoWrite /\ NoSubprocess /\ NoExec

ToolNext ==
  \/ tool = "write_file" /\ Next /\ UNCHANGED <<tool, others>>
  \/ tool = "run_python_file" /\ SubprocessNext /\ UNCHANGED <<tool, vars, codexExec, connections>>
  \/ tool = "codex_exec" /\ ExecNext /\ UNCHANGED <<tool, vars, connections>>
  \/ tool = "connections" /\ ConnectionsNext /\ UNCHANGED <<tool, vars, subprocess, codexExec>>

ToolSpec ==
  ToolInit /\ [][ToolNext]_<<tool, vars, others>> /\ Fairness /\ ConnectionsFairness
=============================================================================
