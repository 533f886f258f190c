----------------------------- MODULE MCAgentLoop -----------------------------
(* A tool that only reads and two that ask, one of them also with arguments  *)
(* that are refused; two call ids.  Results fit the budget or exceed it.     *)
EXTENDS AgentLoop

MCCall ==
  [id : {"a", "b"}, tool : {"write"}, prepared : {TRUE}]
    \cup {[id |-> "a", tool |-> "read", prepared |-> TRUE],
          [id |-> "a", tool |-> "python", prepared |-> TRUE],
          [id |-> "b", tool |-> "write", prepared |-> FALSE]}

\* A resumed session, whose window holds a round of tools.
MCInitial ==
  {<<Message("user", {}, NoId, 1), Message("assistant", {"a"}, NoId, 1),
     Message("tool", {}, "a", 1), Message("assistant", {}, NoId, 1)>>}
=============================================================================
