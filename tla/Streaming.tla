------------------------------ MODULE Streaming ------------------------------
(***************************************************************************)
(* assemble_chat_completion (streaming.py): one pass over the chunks of a  *)
(* streamed response puts text, tool calls, provider fields and usage      *)
(* together.  A string is the sequence of the pieces it was sent in, an    *)
(* empty or absent one is <<>>; the type of a call goes the way of its id. *)
(***************************************************************************)
EXTENDS Integers, Sequences, SequencesExt

CONSTANTS
  NoIndex,     \* a fragment without an index
  NoCallId,    \* a fragment, or a call, without an id
  Absent,      \* no value, no usage
  StreamChunk, \* chunks that occur
  MaxChunks    \* bound: chunks of a stream

VARIABLES
  sent,        \* the chunks so far
  sofar        \* content_parts, tool_buckets, extension_fields and usage

stream == <<sent, sofar>>

-----------------------------------------------------------------------------
(* Provider fields                                                         *)

\* A value is a text or a list (of parts), a map (of entries) or some other thing.
ValueAt(map, key) == IF key \in DOMAIN map THEN map[key] ELSE Absent

Appended_Replaced(current, incoming) == incoming

Appended(current, incoming) == [current EXCEPT !.parts = @ \o incoming.parts]

\* _merge_delta_value
RECURSIVE Merged(_, _, _)
Merged(field, current, incoming) ==
  IF current = Absent \/ field = "role" \/ current.kind # incoming.kind THEN incoming
  ELSE IF current.kind \in {"text", "list"} THEN Appended(current, incoming)
  ELSE IF current.kind = "map" THEN
    [current EXCEPT !.entries =
       [k \in DOMAIN current.entries \cup DOMAIN incoming.entries |->
          IF k \in DOMAIN incoming.entries
          THEN Merged(k, ValueAt(current.entries, k), incoming.entries[k])
          ELSE current.entries[k]]]
  ELSE incoming

\* _merge_extension_delta
WithFields(fields, delta) ==
  [k \in DOMAIN fields \cup DOMAIN delta |->
     IF k \in DOMAIN delta THEN Merged(k, ValueAt(fields, k), delta[k]) ELSE fields[k]]

-----------------------------------------------------------------------------
(* Tool calls                                                              *)

IndexOf(fragment) == IF fragment.index = NoIndex THEN 0 ELSE fragment.index

NewBucket == [id |-> NoCallId, name |-> <<>>, arguments |-> <<>>]

\* _merge_tool_call_delta
WithFragment(buckets, fragment) ==
  LET i == IndexOf(fragment)
      bucket == IF i \in DOMAIN buckets THEN buckets[i] ELSE NewBucket
  IN [k \in DOMAIN buckets \cup {i} |->
        IF k # i THEN buckets[k]
        ELSE [id |-> IF fragment.id = NoCallId THEN bucket.id ELSE fragment.id,
              name |-> bucket.name \o fragment.name,
              arguments |-> bucket.arguments \o fragment.arguments]]

-----------------------------------------------------------------------------
(* The pass                                                                *)

EmptyMap == [k \in {} |-> Absent]

NothingYet == [content |-> <<>>, buckets |-> EmptyMap, fields |-> EmptyMap, usage |-> Absent]

\* A chunk without choices, or without a delta, counts for its usage only.
WithChunk(parts, chunk) ==
  LET metered == [parts EXCEPT !.usage = IF chunk.usage = Absent THEN @ ELSE chunk.usage]
  IN IF ~chunk.delta THEN metered
     ELSE [metered EXCEPT !.fields = WithFields(@, chunk.fields),
                          !.content = @ \o chunk.text,
                          !.buckets = FoldLeft(WithFragment, @, chunk.calls)]

\* The calls in the order of their indices, however their fragments arrived.
AssembledCalls(buckets) ==
  LET order == SetToSortSeq(DOMAIN buckets, LAMBDA a, b : a < b)
  IN [k \in DOMAIN order |-> buckets[order[k]]]

Assembled ==
  [content |-> sofar.content, calls |-> AssembledCalls(sofar.buckets),
   fields |-> sofar.fields, usage |-> sofar.usage]

StreamInit == sent = <<>> /\ sofar = NothingYet

\* The provider sends a chunk; the stream may end after any.
ReceiveChunk ==
  /\ Len(sent) < MaxChunks
  /\ \E chunk \in StreamChunk :
       sent' = Append(sent, chunk) /\ sofar' = WithChunk(sofar, chunk)

-----------------------------------------------------------------------------
(* What was sent, read off the whole stream at once                        *)

LastPresent(seq, absent) ==
  LET present == SelectSeq(seq, LAMBDA v : v # absent)
  IN IF present = <<>> THEN absent ELSE present[Len(present)]

Column(seq, column(_)) == [k \in DOMAIN seq |-> column(seq[k])]

\* The values of a field from the last change of kind on; a role is only its last value.
RECURSIVE Sent(_, _)
Sent(field, values) ==
  LET n == Len(values)
      first == CHOOSE k \in 1..n :
                 /\ \A j \in k..n : values[j].kind = values[n].kind
                 /\ k > 1 => values[k - 1].kind # values[n].kind
      same == SubSeq(values, first, n)
      Having(k) == SelectSeq(same, LAMBDA v : k \in DOMAIN v.entries)
  IN IF field = "role" THEN values[n]
     ELSE IF values[n].kind \in {"text", "list"}
     THEN [values[n] EXCEPT !.parts = FlattenSeq(Column(same, LAMBDA v : v.parts))]
     ELSE IF values[n].kind = "map"
     THEN [values[n] EXCEPT !.entries =
             [k \in UNION {DOMAIN same[j].entries : j \in DOMAIN same} |->
                Sent(k, Column(Having(k), LAMBDA v : v.entries[k]))]]
     ELSE values[n]

SentCall(fragments) ==
  [id |-> LastPresent(Column(fragments, LAMBDA f : f.id), NoCallId),
   name |-> FlattenSeq(Column(fragments, LAMBDA f : f.name)),
   arguments |-> FlattenSeq(Column(fragments, LAMBDA f : f.arguments))]

SentMessage ==
  LET deltas == SelectSeq(sent, LAMBDA c : c.delta)
      fragments == FlattenSeq(Column(deltas, LAMBDA c : c.calls))
      indices == {IndexOf(fragments[k]) : k \in DOMAIN fragments}
      Rank(i) == Cardinality({j \in indices : j <= i})
      fields == UNION {DOMAIN deltas[k].fields : k \in DOMAIN deltas}
      With(f) == SelectSeq(deltas, LAMBDA c : f \in DOMAIN c.fields)
  IN [content |-> FlattenSeq(Column(deltas, LAMBDA c : c.text)),
      calls |-> [k \in 1..Cardinality(indices) |->
                   SentCall(SelectSeq(fragments, LAMBDA f : Rank(IndexOf(f)) = k))],
      fields |-> [f \in fields |-> Sent(f, Column(With(f), LAMBDA c : c.fields[f]))],
      usage |-> LastPresent(Column(sent, LAMBDA c : c.usage), Absent)]

-----------------------------------------------------------------------------
(* Property                                                                *)

\* However a provider cuts a message up and interleaves its calls, fields and texts, what is
\* assembled in one pass is what was sent.
AssembledIsWhatWasSent == Assembled = SentMessage
=============================================================================
