------------------------------ MODULE WriteFile ------------------------------
(***************************************************************************)
(* The tool write_file (tools/write_file.py): one approved call replaces a *)
(* file of the workspace while other programs (an editor, git, the user)   *)
(* change the same names, any operation fails and the call is interrupted. *)
(*                                                                         *)
(* The call is given the name "path".  "other" is another file of the      *)
(* workspace, in its top directory, "outside" one that is not in it.       *)
(***************************************************************************)
EXTENDS Naturals

CONSTANTS
  MaxChanges    \* bound: changes made by other programs

ASSUME ChangesAssumption == MaxChanges \in Nat

VARIABLES
  pc,        \* where the call is
  node,      \* what each name leads to
  parent,    \* is the directory of "path" there
  target,    \* target_file: the name that is written
  temporary, \* the file made by mkstemp in the directory of the target; "stuck" if it could not
             \* be removed
  changes    \* changes made by other programs

vars == <<pc, node, parent, target, temporary, changes>>

Names == {"path", "other", "outside"}

\* A file is known by what it holds: what was there at first or what another program
\* wrote, the content of this call, or the beginning of it.  A link is the name it leads to.
Files == {"theirs", "new", "partial"}
Links == {"other", "outside"}
IsLink(name) == node[name] \in Links

Ended == {"done", "refused", "failed", "stopped"}

\* resolve_path_within: realpath, and whether it lies in the workspace.
RealPath(name) == IF IsLink(name) THEN node[name] ELSE name
Within(name) == name # "outside"

Holding(name) == name = "path" => parent
IsDir(name) == node[name] = "directory"

-----------------------------------------------------------------------------
Init ==
  /\ pc = "validate"
  /\ parent \in BOOLEAN
  /\ \E there \in {"absent", "directory", "theirs"} \cup Links,
        beside \in {"absent", "directory", "theirs"} :
       /\ ~parent => there = "absent"
       /\ node = [path |-> there, other |-> beside, outside |-> "theirs"]
  /\ target = "path"
  /\ temporary = "none"
  /\ changes = 0

\* A call that returns an error; what it has staged is removed, and if that fails too the
\* failure is passed over.
GiveUp_KeepsFile(outcome) == pc' = outcome /\ UNCHANGED temporary

GiveUp(outcome) ==
  /\ pc' = outcome
  /\ \/ temporary' = "none"
     \/ temporary # "none" /\ temporary' = "stuck"

\* validate_write_target, at the start of the call as when it was prepared.
Validate ==
  /\ pc = "validate"
  /\ pc' = IF Within(RealPath("path")) /\ ~IsDir(RealPath("path"))
           THEN "resolve" ELSE "refused"
  /\ UNCHANGED <<node, parent, target, temporary, changes>>

\* The path is resolved again: the name found now is the one that is written.
Accepted_AsValidated(name) == TRUE

Accepted(name) == Within(name)

Resolve ==
  /\ pc = "resolve"
  /\ IF Accepted(RealPath("path"))
     THEN pc' = "ensure_parent" /\ target' = RealPath("path")
     ELSE pc' = "refused" /\ UNCHANGED target
  /\ UNCHANGED <<node, parent, temporary, changes>>

\* _ensure_parent_within_workspace: makedirs may fail.
EnsureParent ==
  /\ pc = "ensure_parent"
  /\ \/ pc' = "mkstemp" /\ parent' = (parent \/ target = "path")
     \/ pc' = "refused" /\ ~Holding(target) /\ UNCHANGED parent
  /\ UNCHANGED <<node, target, temporary, changes>>

Mkstemp ==
  /\ pc = "mkstemp"
  /\ \/ Holding(target) /\ pc' = "stage" /\ temporary' = "partial"
     \/ GiveUp("failed")
  /\ UNCHANGED <<node, parent, target, changes>>

\* The content is written and synced, or an exception is raised halfway.
Stage_InPlace ==
  /\ pc = "stage"
  /\ \/ pc' = "revalidate" /\ node' = [node EXCEPT ![target] = "partial"]
     \/ GiveUp("failed") /\ UNCHANGED node
  /\ UNCHANGED <<parent, target, temporary, changes>>

Stage ==
  /\ pc = "stage"
  /\ \/ pc' = "revalidate"
        /\ temporary' = IF temporary = "none" THEN "none" ELSE "whole"
     \/ GiveUp("failed")
  /\ UNCHANGED <<node, parent, target, changes>>

\* _revalidate_before_replace.  realpath also follows the target that was resolved: a
\* link put in its place is noticed only if it leaves the workspace.
Unchanged == RealPath("path") = RealPath(target)

Revalidate ==
  /\ pc = "revalidate"
  /\ IF Within(RealPath("path")) /\ Unchanged /\ ~IsDir(RealPath("path"))
     THEN pc' = "replace" /\ UNCHANGED temporary
     ELSE GiveUp("refused")
  /\ UNCHANGED <<node, parent, target, changes>>

\* os.replace puts the staged file in the place of a file or a link of that name; it
\* fails for a directory and when the staged file is gone.
Replace ==
  /\ pc = "replace"
  /\ \/ /\ temporary # "none" /\ Holding(target) /\ ~IsDir(target)
        /\ node' = [node EXCEPT ![target] = IF temporary = "whole" THEN "new" ELSE "partial"]
        /\ pc' = "done"
        /\ temporary' = "none"
     \/ GiveUp("failed") /\ UNCHANGED node
  /\ UNCHANGED <<parent, target, changes>>

\* KeyboardInterrupt, a signal, a crash: no handler removes the staged file.
Interrupt ==
  /\ pc \notin Ended
  /\ pc' = "stopped"
  /\ UNCHANGED <<node, parent, target, temporary, changes>>

Call ==
  \/ Validate \/ Resolve \/ EnsureParent \/ Mkstemp \/ Stage \/ Revalidate \/ Replace
  \/ Interrupt

-----------------------------------------------------------------------------
(* Other programs                                                          *)

Elsewhere(change) ==
  /\ pc \notin Ended
  /\ changes < MaxChanges
  /\ changes' = changes + 1
  /\ change
  /\ UNCHANGED <<pc, target>>

\* A name is removed, written, replaced by a directory or by a link.
Change(name) ==
  /\ Holding(name)
  /\ \E what \in {"absent", "directory", "theirs"} \cup (IF name = "path" THEN Links ELSE {}) :
       what # node[name] /\ node' = [node EXCEPT ![name] = what]
  /\ UNCHANGED <<parent, temporary>>

\* The directory goes with everything in it, the staged file too.
RemoveParent ==
  /\ parent
  /\ parent' = FALSE
  /\ node' = [node EXCEPT !.path = "absent"]
  /\ temporary' = IF target = "path" THEN "none" ELSE temporary

MakeParent ==
  /\ ~parent
  /\ parent' = TRUE
  /\ UNCHANGED <<node, temporary>>

Next ==
  \/ Call
  \/ \E name \in {"path", "other"} : Elsewhere(Change(name))
  \/ Elsewhere(RemoveParent)
  \/ Elsewhere(MakeParent)

Spec == Init /\ [][Next]_vars
-----------------------------------------------------------------------------
(* Properties                                                              *)

\* What is staged lies in a directory that is there; a target is in the workspace
\* whatever happened to the path since it was validated.
TypeOK ==
  /\ pc \in {"validate", "resolve", "ensure_parent", "mkstemp", "stage", "revalidate",
             "replace"} \cup Ended
  /\ node \in [Names -> {"absent", "directory"} \cup Files \cup Links]
  /\ parent \in BOOLEAN /\ (~parent => node.path = "absent")
  /\ target \in Names /\ Within(target)
  /\ temporary \in {"none", "partial", "whole", "stuck"}
  /\ temporary # "none" => Holding(target)
  /\ changes \in 0..MaxChanges

\* A call that reports success has put its whole content in the place of the one name it
\* resolved; a call that fails, is refused or is stopped anywhere leaves every name as
\* it was, and nothing beyond the workspace is ever touched.
WriteIsAtomic ==
  [][pc' # pc =>
       IF pc' = "done"
       THEN /\ node'[target] = "new"
            /\ \A name \in Names \ {target} : node'[name] = node[name]
            /\ Within(target)
       ELSE node' = node]_vars

\* Once the call has returned no staged file is left: none if it reports success, and none
\* after an error but one that could not be removed.  Only an interruption may leave another.
NothingLeftBehind ==
  /\ pc = "done" => temporary = "none"
  /\ pc \in {"refused", "failed"} => temporary \in {"none", "stuck"}
=============================================================================
