--------------------------- MODULE DurableHistory ---------------------------
(***************************************************************************)
(* What a session's history promises, whatever files it is made of: one    *)
(* value, the newest complete generation a reader with access to the       *)
(* session directory can recover.  A checkpoint lands in a single step,    *)
(* may be reported only after it has landed, and when it is abandoned      *)
(* leaves the old value or the new one.  Only erasing the session takes    *)
(* the value back.                                                         *)
(*                                                                         *)
(* SessionCheckpoint implements this; the refinement is checked there.     *)
(***************************************************************************)
EXTENDS Naturals, Sequences

CONSTANT NoGeneration   \* no checkpoint in progress

VARIABLES
  stored,    \* the newest complete generation that can be recovered
  pending    \* the generation being committed, or NoGeneration

dhVars == <<stored, pending>>

\* A generation is dated by its newest group: groups are numbered as they are
\* produced, and a generation always ends with the one that caused it.
Newest(gen) == IF gen = <<>> THEN 0 ELSE gen[Len(gen)].id

Init == pending = NoGeneration

Begin ==
  /\ pending = NoGeneration
  /\ pending' # NoGeneration
  /\ Newest(pending') > Newest(stored)
  /\ UNCHANGED stored

Land ==
  /\ pending # NoGeneration
  /\ stored' = pending
  /\ UNCHANGED pending

Return ==
  /\ pending # NoGeneration
  /\ stored = pending
  /\ pending' = NoGeneration
  /\ UNCHANGED stored

Abandon ==
  /\ pending # NoGeneration
  /\ pending' = NoGeneration
  /\ UNCHANGED stored

Erase ==
  /\ pending = NoGeneration
  /\ stored' = <<>>
  /\ UNCHANGED pending

Next == Begin \/ Land \/ Return \/ Abandon \/ Erase

Spec == Init /\ [][Next]_dhVars
=============================================================================
