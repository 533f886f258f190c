------------------------------ MODULE MCReading ------------------------------
(* What is put together from its parts: a history for a resume or a request, *)
(* the answer of a provider, or a session from its files.                    *)
EXTENDS MCHistoryBounds, MCSessionInspection

VARIABLE source   \* histories and streams, or sessions: neither sees the other

ReadingInit == source \in {"histories", "sessions"} /\ Empty /\ InspectionInit

ReadingNext ==
  \/ source = "histories" /\ GrowOrReceive /\ UNCHANGED <<source, inspection>>
  \/ source = "sessions" /\ InspectionNext /\ UNCHANGED <<source, messages, stream>>

ReadingSpec == ReadingInit /\ [][ReadingNext]_<<source, messages, stream, inspection>>
=============================================================================
