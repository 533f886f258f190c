------------------------------ MODULE MCAccess ------------------------------
(* What a run may touch: its session, under the lease, and the paths of the  *)
(* workspace, under its exceptions.  Neither sees the other.                 *)
EXTENDS MCSessionLease, MCWorkspacePrivacy

VARIABLE subject   \* which of them it is

AnyIgnoreFiles == CHOOSE f \in IgnoreFiles : TRUE

AccessInit ==
  /\ subject \in {"sessions", "workspace"}
  /\ Init /\ PrivacyInit
  /\ subject = "sessions" => ignoring = AnyIgnoreFiles

AccessNext ==
  \/ subject = "sessions" /\ Next /\ UNCHANGED <<subject, privacy>>
  \/ subject = "workspace" /\ PrivacyNext /\ UNCHANGED <<subject, vars>>

AccessSpec == AccessInit /\ [][AccessNext]_<<subject, vars, privacy>> /\ Fairness
=============================================================================
