------------------------------ MODULE MCStores ------------------------------
(* What is written in several steps, any of which may be the last: the       *)
(* files of a session, or the records of a release.  Neither sees the other. *)
EXTENDS MCSessionCheckpoint, MCReleaseCandidate

VARIABLE store   \* which of them it is

NoSession == Init /\ ~directory
NoRelease == ReleaseInit /\ tree.code = "good" /\ tree.matrix = NoFile

StoreInit ==
  \/ store = "session" /\ Init /\ NoRelease
  \/ store = "release" /\ NoSession /\ ReleaseInit

\* The bounds end the work on a release; a session never has nothing to do.
StoreNext ==
  \/ store = "session" /\ Next /\ UNCHANGED <<store, release>>
  \/ store = "release" /\ (ReleaseNext \/ UNCHANGED release) /\ UNCHANGED <<store, vars>>

StoreSpec == StoreInit /\ [][StoreNext]_<<store, vars, release>>
=============================================================================
