--------------------------- MODULE MCHistoryBounds ---------------------------
(* Two call ids, results and answers of several sizes, a message of every    *)
(* role.  Six messages are two prompts with one round of tools each, or a    *)
(* round of two calls with everything around it.  Chunks of a stream: usage  *)
(* alone, text, two calls in one chunk in the wrong order, fragments with    *)
(* and without an index, a field of every kind.                              *)
EXTENDS HistoryBounds, Streaming, TLC

MCMessageOf(role, calls, id, size) ==
  [role |-> role, calls |-> calls, id |-> id, size |-> size]

MCMessage ==
  {MCMessageOf("system", {}, NoId, 1),
   MCMessageOf("user", {}, NoId, 1),
   MCMessageOf("assistant", {}, NoId, 2),
   MCMessageOf("assistant", {"a"}, NoId, 1),
   MCMessageOf("assistant", {"a", "b"}, NoId, 1),
   MCMessageOf("tool", {}, "a", 1),
   MCMessageOf("tool", {}, "a", 5),
   MCMessageOf("tool", {}, "b", 1)}

MCFragment(index, id, name, arguments) ==
  [index |-> index, id |-> id, name |-> name, arguments |-> arguments]

MCText(p) == [kind |-> "text", parts |-> <<p>>]
MCList(p) == [kind |-> "list", parts |-> <<p>>]
MCMap(e) == [kind |-> "map", entries |-> e]
MCOther == [kind |-> "other"]

MCChunkOf(text, calls, fields, usage) ==
  [delta |-> TRUE, text |-> text, calls |-> calls, fields |-> fields, usage |-> usage]

MCStreamChunk ==
  {[delta |-> FALSE, text |-> <<>>, calls |-> <<>>, fields |-> EmptyMap, usage |-> "u"],
   MCChunkOf(<<"t">>, <<>>, [role |-> MCText("r")], Absent),
   MCChunkOf(<<"s">>, <<>>, [note |-> MCText("n")], "v"),
   MCChunkOf(<<>>, <<>>, [note |-> MCText("m"), role |-> MCText("q")], Absent),
   MCChunkOf(<<>>, <<>>, [note |-> MCList("l")], Absent),
   MCChunkOf(<<>>, <<>>, [note |-> MCMap([a |-> MCText("x")])], Absent),
   MCChunkOf(<<>>, <<>>, [note |-> MCMap([a |-> MCText("y"), b |-> MCOther])], Absent),
   MCChunkOf(<<>>, <<MCFragment(1, "i", <<"f">>, <<>>), MCFragment(0, "j", <<"g">>, <<"1">>)>>, EmptyMap, Absent),
   MCChunkOf(<<>>, <<MCFragment(NoIndex, NoCallId, <<>>, <<"2">>)>>, EmptyMap, Absent),
   MCChunkOf(<<>>, <<MCFragment(1, NoCallId, <<>>, <<"3">>)>>, EmptyMap, Absent)}

\* A history grows or a stream is received: neither sees the other.
GrowOrReceive ==
  \/ sent = <<>> /\ Next /\ UNCHANGED stream
  \/ messages = <<>> /\ ReceiveChunk /\ UNCHANGED messages

Empty == Init /\ StreamInit

HistoriesAndStreams == Empty /\ [][GrowOrReceive]_<<messages, stream>>
=============================================================================
