------------------------- MODULE MCReleaseCandidate -------------------------
EXTENDS ReleaseCandidate

MCGates == <<"official-check", "python-matrix", "release-baseline">>

Finding(severity, status) == [severity |-> severity, status |-> status]

\* A major finding is fixed, a minor one accepted; or the major one is open again.
MCPublished == {Finding("major", "fixed"), Finding("minor", "accepted")}
MCReopened == {Finding("major", "open"), Finding("minor", "accepted")}
MCDispositions == {MCPublished, MCReopened}
=============================================================================
