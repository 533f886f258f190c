------------------------------ MODULE CodexExec ------------------------------
(***************************************************************************)
(* `codex exec` (codex_bridge.py, codex_cli.py): the official CLI, found   *)
(* and logged in, runs as the child of ProcessBounds and leaves its answer *)
(* on stdout and in a file.                                                *)
(*                                                                         *)
(* A character of stdout is a line with a message of the agent, the n-th   *)
(* the message n; a line that was cut is no JSON and not retained.         *)
(***************************************************************************)
EXTENDS ProcessBounds

VARIABLES
  finalFile,   \* --output-last-message: "absent", "begun", "whole", or "long": beyond the bound
  code         \* the return code of the CLI; Killed as well

codexExec == <<finalFile, code>>

Killed == -9
NoMessage == 0
PartOf(n) == -n     \* of the message n only the beginning

\* Without the CLI, or without a login, there is no call.
ExecInit == SubprocessInit /\ finalFile = "absent" /\ code = 0

\* The CLI.  It says nothing after it has begun with the file, and succeeds only when the
\* file is whole, or if it knows no such file.
Say ==
  child = "runs" /\ finalFile = "absent" /\ Write("stdout") /\ UNCHANGED codexExec

WriteFinal ==
  /\ child = "runs" /\ caller.does # "returned"
  /\ \/ finalFile = "absent" /\ finalFile' = "begun"
     \/ finalFile = "begun" /\ finalFile' \in {"whole", "long"}
  /\ UNCHANGED <<subprocess, code>>

ExitWith(c) ==
  /\ c = 0 => finalFile # "begun"
  /\ Exit /\ code' = c
  /\ UNCHANGED finalFile

KillCli == Kill /\ code' = (IF child = "runs" THEN Killed ELSE code) /\ UNCHANGED finalFile

ExecNext ==
  \/ Say \/ WriteFinal \/ KillCli
  \/ \E c \in {0, 1} : ExitWith(c)
  \/ (Fork \/ HeirEnds \/ Reap \/ Expire \/ Join \/ LeaveThread \/ Close) /\ UNCHANGED codexExec
  \/ \E s \in Stream : Drain(s) /\ UNCHANGED codexExec

-----------------------------------------------------------------------------
(* CodexBridge.exec, after run_bounded_subprocess has returned             *)

\* A drain that has not ended by then has left nothing.
Left(s) == drain[s].pc \in Drained
Captured == IF Left("stdout") THEN drain["stdout"].retained ELSE 0

\* The file if there is one, whole or not; else the last message in what was retained of stdout.
FinalMessage ==
  CASE finalFile = "whole" -> written["stdout"]
    [] finalFile \in {"begun", "long"} -> PartOf(written["stdout"])
    [] OTHER -> Captured

OutputTruncated_FileOnly == finalFile = "long"

OutputTruncated == finalFile = "long" \/ \E s \in Stream : Left(s) /\ drain[s].truncated

\* The CodexExecResult: of a call that timed out or failed the message, if there is one;
\* without one exec raises, which codex_cli turns into exit code 1.
ExecResult ==
  IF FinalMessage = NoMessage /\ (timedOut \/ code # 0)
  THEN [exit |-> 1, message |-> NoMessage, truncated |-> FALSE]
  ELSE [exit |-> code, message |-> FinalMessage, truncated |-> OutputTruncated]

\* What the command prints and exits with: of the result the message and the code, not the
\* mark.
Printed == [exit |-> ExecResult.exit, message |-> ExecResult.message]

-----------------------------------------------------------------------------
(* Properties                                                              *)

\* A result of CodexBridge.exec with exit code 0 has the last message of the CLI, or is marked
\* as cut: never an earlier message or a part of one, although the file may be missing or
\* unfinished, the call may have timed out, and a process in the background may hold the pipe.
\* Only output that could not be read to its end (not UTF-8) escapes.  It is about the object
\* that exec returns: the command line drops the mark (PrintedIsTheLast).
AnswerIsTheLast ==
  caller.does = "returned" /\ ExecResult.exit = 0 /\ drain["stdout"].pc = "eof"
  => ExecResult.truncated \/ ExecResult.message = written["stdout"]

\* What the specification of bounded output says of users: an answer that is not complete is
\* not presented as complete.  Here it is: the message is printed without a mark.
PrintedIsTheLast ==
  caller.does = "returned" /\ Printed.exit = 0 /\ drain["stdout"].pc = "eof"
  => Printed.message = written["stdout"]
=============================================================================
