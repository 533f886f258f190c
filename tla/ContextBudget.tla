---------------------------- MODULE ContextBudget ----------------------------
(***************************************************************************)
(* The pure functions over message histories that the agent loop and the   *)
(* session store share: which messages belong together, what fits a        *)
(* budget, what is packed into one segment file, what may be replayed.     *)
(*                                                                         *)
(* A message is a record: its role, the ids of the tool calls it makes     *)
(* (calls), the id of the call it answers (id) and its serialized size.    *)
(* A call always has an id here: the lenient treatment of calls without    *)
(* one, which no provider sends, is left out.                              *)
(***************************************************************************)
EXTENDS Integers, Sequences, SequencesExt

CONSTANT NoId     \* the id of a message that answers no call

\* An assistant message that asks for tools; the calls of any other are ignored.
Asks(message) == IF message.role = "assistant" THEN message.calls ELSE {}

\* The elements of a sequence that are in S, in their order.
Only(seq, S) ==
  LET only[n \in 0..Len(seq)] ==
        IF n = 0 THEN <<>>
        ELSE IF seq[n] \in S THEN Append(only[n - 1], seq[n]) ELSE only[n - 1]
  IN only[Len(seq)]

Size(messages) == FoldLeft(LAMBDA total, m : total + m.size, 0, messages)

-----------------------------------------------------------------------------
(* _segmentize                                                             *)

\* Leading system messages are the prefix.  After that a message that asks for
\* tools and the results that follow it are one group, everything else is
\* a group of its own.  open: the calls results may still join.
Place_AnyResult(split, m) ==
  IF m.role = "tool" /\ split.body # <<>>
  THEN [split EXCEPT !.body[Len(split.body)] = Append(@, m)]
  ELSE IF m.role = "system" /\ split.body = <<>>
  THEN [split EXCEPT !.prefix = Append(@, <<m>>)]
  ELSE [split EXCEPT !.body = Append(@, <<m>>), !.open = Asks(m)]

Place(split, m) ==
  CASE m.role = "system" /\ split.body = <<>> ->
         [split EXCEPT !.prefix = Append(@, <<m>>)]
    [] m.role = "tool" /\ split.open # {} /\ m.id \in split.open \cup {NoId} ->
         [split EXCEPT !.body[Len(split.body)] = Append(@, m)]
    [] OTHER ->
         [split EXCEPT !.body = Append(@, <<m>>), !.open = Asks(m)]

Segmentize(messages) ==
  FoldLeft(Place, [prefix |-> <<>>, body |-> <<>>, open |-> {}], messages)

\* partition_history
PartitionHistory(messages) ==
  LET split == Segmentize(messages) IN split.prefix \o split.body

-----------------------------------------------------------------------------
(* apply_context_budget, select_replay_messages                            *)

Refused == [refused |-> TRUE, messages |-> <<>>]
Kept(messages) == [refused |-> FALSE, messages |-> messages]

\* From the newest group backwards; the first that does not fit ends the walk.
Keep_Skip(group, acc) ==
  IF acc.used + Size(group) <= acc.room
  THEN [acc EXCEPT !.groups = <<group>> \o @, !.used = @ + Size(group)]
  ELSE acc

Keep(group, acc) ==
  IF ~acc.stopped /\ acc.used + Size(group) <= acc.room
  THEN [acc EXCEPT !.groups = <<group>> \o @, !.used = @ + Size(group)]
  ELSE [acc EXCEPT !.stopped = TRUE]

\* Refused when the prefix or the newest group alone is too large.
ApplyContextBudget_AllSystem(messages, maxChars) ==
  LET split == Segmentize(messages)
      room == maxChars - Size(SelectSeq(messages, LAMBDA m : m.role = "system"))
      kept == FoldRight(Keep, split.body,
                        [groups |-> <<>>, used |-> 0, stopped |-> FALSE, room |-> room])
  IN  IF room < 0 \/ (split.body # <<>> /\ kept.groups = <<>>)
      THEN Refused
      ELSE Kept(FlattenSeq(split.prefix \o kept.groups))

ApplyContextBudget(messages, maxChars) ==
  LET split == Segmentize(messages)
      room == maxChars - Size(FlattenSeq(split.prefix))
      kept == FoldRight(Keep, split.body,
                        [groups |-> <<>>, used |-> 0, stopped |-> FALSE, room |-> room])
  IN  IF room < 0 \/ (split.body # <<>> /\ kept.groups = <<>>)
      THEN Refused
      ELSE Kept(FlattenSeq(split.prefix \o kept.groups))

StripSystemMessages(messages) == Only(messages, {m \in Range(messages) : m.role # "system"})

SelectReplayMessages(messages, maxChars) ==
  ApplyContextBudget(StripSystemMessages(messages), maxChars)

-----------------------------------------------------------------------------
(* pack_segments                                                           *)

\* A group that exceeds the bound gets a file of its own; another one joins the
\* file being filled if it fits.
Pack_Overtakes(acc, group) ==
  IF Size(group) > acc.bound
  THEN [acc EXCEPT !.files = Append(@, group)]
  ELSE IF acc.current # <<>> /\ Size(acc.current) + Size(group) > acc.bound
  THEN [acc EXCEPT !.files = Append(@, acc.current), !.current = group]
  ELSE [acc EXCEPT !.current = @ \o group]

Flushed(acc) == IF acc.current = <<>> THEN acc.files ELSE Append(acc.files, acc.current)

Pack(acc, group) ==
  CASE Size(group) > acc.bound ->
         [acc EXCEPT !.files = Append(Flushed(acc), group), !.current = <<>>]
    [] Size(group) <= acc.bound /\ Size(acc.current) + Size(group) > acc.bound ->
         [acc EXCEPT !.files = Flushed(acc), !.current = group]
    [] OTHER ->
         [acc EXCEPT !.current = @ \o group]

PackSegments(messages, maxSegment) ==
  Flushed(FoldLeft(Pack, [files |-> <<>>, current |-> <<>>, bound |-> maxSegment],
                   PartitionHistory(messages)))

-----------------------------------------------------------------------------
(* is_replay_safe, replay_safe_prefix                                      *)

\* One message further: a result must answer an open call that has no result
\* yet, anything else must find all calls answered.
Follow_Repeats(acc, m) ==
  IF m.role = "tool"
  THEN [safe |-> acc.safe /\ m.id \in acc.calls, calls |-> acc.calls, seen |-> acc.seen \cup {m.id}]
  ELSE [safe |-> acc.safe /\ acc.seen = acc.calls, calls |-> Asks(m), seen |-> {}]

Follow(acc, m) ==
  IF m.role = "tool"
  THEN [safe |-> acc.safe /\ m.id \in acc.calls \ acc.seen, calls |-> acc.calls,
        seen |-> acc.seen \cup {m.id}]
  ELSE [safe |-> acc.safe /\ acc.seen = acc.calls, calls |-> Asks(m), seen |-> {}]

IsReplaySafe(messages) ==
  LET end == FoldLeft(Follow, [safe |-> TRUE, calls |-> {}, seen |-> {}], messages)
  IN  end.safe /\ end.seen = end.calls

\* Messages are dropped from the end until the rest is safe.
ReplaySafePrefix(messages) ==
  LET safe == {n \in 0..Len(messages) : IsReplaySafe(SubSeq(messages, 1, n))}
  IN  SubSeq(messages, 1, CHOOSE n \in safe : \A k \in safe : k <= n)
=============================================================================
