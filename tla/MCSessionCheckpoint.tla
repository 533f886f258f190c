------------------------ MODULE MCSessionCheckpoint ------------------------
(* A workspace with one protected directory and one file inside it.        *)
EXTENDS SessionCheckpoint, TLC

CONSTANTS dir, file

MCPath == {dir, file}
MCDirectory == {dir}
MCBelow == (dir :> {dir, file}) @@ (file :> {file})
=============================================================================
