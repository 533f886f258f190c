---------------------------- MODULE HistoryBounds ----------------------------
(***************************************************************************)
(* A history that grows by one message at a time, and what the functions   *)
(* of ContextBudget make of it: the request that is sent, the files a      *)
(* checkpoint writes, the window a resume loads.                           *)
(*                                                                         *)
(* The history is the conversation of a run, or of an old or foreign file: *)
(* nothing forces it to be well formed.                                    *)
(***************************************************************************)
EXTENDS ContextBudget, FiniteSets

CONSTANTS
  Message,      \* messages that may follow
  MaxLength,    \* bound: length of the history
  MaxChars,     \* DEFAULT_MAX_CONTEXT_CHARS = DEFAULT_MAX_REPLAY_CHARS
  MaxSegment    \* DEFAULT_MAX_SEGMENT_CHARS

ASSUME LimitAssumption == MaxLength \in Nat /\ MaxChars \in Nat \ {0} /\ MaxSegment \in Nat \ {0}

ASSUME MessageAssumption == \A m \in Message : m.size \in Nat

VARIABLE messages

Init == messages = <<>>

\* The agent or the user adds a message.
Grow ==
  /\ Len(messages) < MaxLength
  /\ \E m \in Message : messages' = Append(messages, m)

Next == Grow

Spec == Init /\ [][Next]_messages

-----------------------------------------------------------------------------
(* What a resume makes of a checkpoint of a history: commit_checkpoint then  *)
(* load_replay_messages.                                                     *)

Committed(history) == PackSegments(StripSystemMessages(history), MaxSegment)

Loaded_LastFile(files) ==
  SelectReplayMessages(ReplaySafePrefix(IF files = <<>> THEN <<>> ELSE Last(files)), MaxChars)

Loaded(files) ==
  SelectReplayMessages(ReplaySafePrefix(FlattenSeq(files)), MaxChars)

-----------------------------------------------------------------------------
(* Reference definitions, by quantifiers over positions                    *)

\* The message position i answers: the last one before it that is not a result.
IsAnswerTo(history, i, j) ==
  /\ j < i
  /\ history[j].role # "tool"
  /\ \A k \in j + 1..i : history[k].role = "tool"

\* Every result answers a call of the message it follows, and every call of a
\* message has exactly one result among those that follow it.
Paired(history) ==
  LET Results(j) == {i \in DOMAIN history : IsAnswerTo(history, i, j)}
  IN  /\ \A i \in DOMAIN history : history[i].role = "tool" =>
           \E j \in DOMAIN history :
             IsAnswerTo(history, i, j) /\ history[i].id \in Asks(history[j])
      /\ \A j \in DOMAIN history : history[j].role # "tool" =>
           \A call \in Asks(history[j]) :
             Cardinality({i \in Results(j) : history[i].id = call}) = 1

\* The number of leading system messages.
Leading(history) ==
  CHOOSE n \in 0..Len(history) :
    /\ \A i \in 1..n : history[i].role = "system"
    /\ n < Len(history) => history[n + 1].role # "system"

\* A window: the leading system messages, then the end of the history from
\* position start on.
WindowFrom(history, start) ==
  SubSeq(history, 1, Leading(history)) \o SubSeq(history, start, Len(history))

-----------------------------------------------------------------------------
(* Properties                                                              *)

\* is_replay_safe, a scan with two counters, accepts exactly the histories in
\* which calls and results correspond.
ReplaySafetyIsPairing == IsReplaySafe(messages) <=> Paired(messages)

\* The request built from a well-formed conversation is well formed and within
\* the budget, and no larger one of the same kind would have been: no earlier
\* start leaves a window that is paired and fits.  It is refused only if not even
\* the newest group could be sent.
RequestIsLargestWindow ==
  IsReplaySafe(messages) =>
    LET request == ApplyContextBudget(messages, MaxChars)
        Fits(start) == /\ Paired(SubSeq(messages, start, Len(messages)))
                       /\ Size(WindowFrom(messages, start)) <= MaxChars
        starts == Leading(messages) + 1..Len(messages) + 1
    IN  IF request.refused
        THEN \A start \in starts \ {Len(messages) + 1} : ~Fits(start)
        ELSE \E start \in starts :
          /\ request.messages = WindowFrom(messages, start)
          /\ Fits(start)
          /\ \A earlier \in starts : earlier < start => ~Fits(earlier)

\* The files of a checkpoint hold the whole history in its order; each of them is well formed by
\* itself, and larger than the bound only for a single group.  A resume loads from them what
\* it would have kept of the history itself: the two bounds and the file boundaries do
\* not interfere.  And whatever is on disk, what a resume loads is well formed.
FilesCarryTheHistory ==
  LET files == Committed(messages) IN
    /\ IsReplaySafe(messages) =>
         /\ FlattenSeq(files) = StripSystemMessages(messages)
         /\ \A i \in DOMAIN files :
              /\ Paired(files[i])
              /\ Size(files[i]) > MaxSegment => Len(PartitionHistory(files[i])) = 1
         /\ Loaded(files) = SelectReplayMessages(messages, MaxChars)
    /\ IsReplaySafe(Loaded(<<messages>>).messages)
=============================================================================
