---------------------------- MODULE HistoryProofs ----------------------------
(***************************************************************************)
(* The history in memory, for any messages and histories of any length:    *)
(* is_replay_safe accepts exactly those in which calls and results         *)
(* correspond, the request is the largest window that may be sent, the     *)
(* files of a checkpoint carry it to a resume.  The history on disk, as    *)
(* the commands that inspect sessions find it: what `session show` counts  *)
(* and `session delete-all` leaves, whatever runs and other deletions do   *)
(* meanwhile.                                                              *)
(***************************************************************************)
EXTENDS HistoryBounds, SessionInspection, ContextBudgetProofs

-----------------------------------------------------------------------------
(* What the scan knows                                                     *)

\* p is the last position that is not a result, 0 if there is none.
LastOther(history, p) ==
  /\ p \in 0..Len(history)
  /\ p > 0 => history[p].role # "tool"
  /\ \A k \in p + 1..Len(history) : history[k].role = "tool"

\* A result answers a call that no result before it answers.
Fits(history, i) ==
  \E j \in 1..Len(history) :
    /\ IsAnswerTo(history, i, j) /\ history[i].id \in Asks(history[j])
    /\ \A k \in j + 1..i - 1 : history[k].id # history[i].id

Complete(history, j) ==
  \A call \in Asks(history[j]) :
    \E i \in 1..Len(history) : IsAnswerTo(history, i, j) /\ history[i].id = call

\* All results fit, and the messages before p have all their results.
Sound(history, p) ==
  /\ \A i \in 1..Len(history) : history[i].role = "tool" => Fits(history, i)
  /\ \A j \in 1..p - 1 : history[j].role # "tool" => Complete(history, j)

Linked(history, p, scan) ==
  /\ LastOther(history, p)
  /\ scan.calls = IF p = 0 THEN {} ELSE Asks(history[p])
  /\ scan.seen = {history[i].id : i \in p + 1..Len(history)}
  /\ scan.safe <=> Sound(history, p)

-----------------------------------------------------------------------------
(* Positions                                                               *)

\* The results after the last other message answer it and nothing else.
LEMMA AnswersTheLast ==
  ASSUME NEW h, Len(h) \in Nat, NEW p, LastOther(h, p),
         NEW i \in p + 1..Len(h), NEW j \in 1..Len(h)
  PROVE  IsAnswerTo(h, i, j) <=> j = p
<1>1. p \in Nat /\ (p > 0 => h[p].role # "tool") /\ \A k \in p + 1..Len(h) : h[k].role = "tool"
  BY DEF LastOther
<1>2. CASE j = p
  BY <1>1, <1>2 DEF IsAnswerTo
<1>3. CASE j < p
  <2>1. p \in j + 1..i /\ h[p].role # "tool"
    BY <1>1, <1>3
  <2> QED BY <1>3, <2>1 DEF IsAnswerTo
<1>4. CASE j > p
  <2>1. h[j].role = "tool"
    BY <1>1, <1>4
  <2> QED BY <1>4, <2>1 DEF IsAnswerTo
<1> QED BY <1>1, <1>2, <1>3, <1>4

\* A message that is added changes nothing for those before it.
LEMMA AnswersBefore ==
  ASSUME NEW T, NEW h \in Seq(T), NEW m \in T, NEW i \in 1..Len(h), NEW j \in 1..Len(h)
  PROVE  /\ IsAnswerTo(Append(h, m), i, j) <=> IsAnswerTo(h, i, j)
         /\ ~IsAnswerTo(Append(h, m), i, Len(h) + 1)
<1>1. PICK more : more = Append(h, m)
  OBVIOUS
<1>2. Len(h) \in Nat /\ \A k \in 1..Len(h) : more[k] = h[k]
  BY <1>1
<1>3. IsAnswerTo(more, i, j) <=> IsAnswerTo(h, i, j)
  BY <1>2 DEF IsAnswerTo
<1>4. ~IsAnswerTo(more, i, Len(h) + 1)
  BY <1>2 DEF IsAnswerTo
<1> QED BY <1>1, <1>3, <1>4

LEMMA FitsBefore ==
  ASSUME NEW T, NEW h \in Seq(T), NEW m \in T, NEW i \in 1..Len(h)
  PROVE  Fits(Append(h, m), i) <=> Fits(h, i)
<1>1. PICK more : more = Append(h, m)
  OBVIOUS
<1>2. /\ Len(h) \in Nat /\ Len(more) = Len(h) + 1 /\ \A k \in 1..Len(h) : more[k] = h[k]
  BY <1>1
<1>3. /\ \A j \in 1..Len(h) : IsAnswerTo(more, i, j) <=> IsAnswerTo(h, i, j)
      /\ ~IsAnswerTo(more, i, Len(h) + 1)
  BY <1>1, <1>2, AnswersBefore
<1>4. ASSUME NEW j \in 1..Len(h)
      PROVE  (\A k \in j + 1..i - 1 : more[k].id # more[i].id)
               <=> (\A k \in j + 1..i - 1 : h[k].id # h[i].id)
  BY <1>2
<1>5. 1..Len(more) = 1..Len(h) \cup {Len(h) + 1} /\ more[i] = h[i]
  BY <1>2
<1>6. Fits(more, i) <=> Fits(h, i)
  BY <1>2, <1>3, <1>4, <1>5 DEF Fits
<1> QED BY <1>1, <1>6

\* Nor does it for what came before the last other message, unless it answers that one.
LEMMA CompleteBefore ==
  ASSUME NEW T, NEW h \in Seq(T), NEW m \in T, NEW j \in 1..Len(h),
         ~IsAnswerTo(Append(h, m), Len(h) + 1, j)
  PROVE  Complete(Append(h, m), j) <=> Complete(h, j)
<1>1. PICK more : more = Append(h, m)
  OBVIOUS
<1>2. /\ Len(h) \in Nat /\ Len(more) = Len(h) + 1 /\ \A k \in 1..Len(h) : more[k] = h[k]
  BY <1>1
<1>3. /\ \A i \in 1..Len(h) : IsAnswerTo(more, i, j) <=> IsAnswerTo(h, i, j)
      /\ ~IsAnswerTo(more, Len(h) + 1, j)
  BY <1>1, <1>2, AnswersBefore
<1>4. 1..Len(more) = 1..Len(h) \cup {Len(h) + 1} /\ more[j] = h[j]
  BY <1>2
<1>5. Complete(more, j) <=> Complete(h, j)
  BY <1>2, <1>3, <1>4 DEF Complete
<1> QED BY <1>1, <1>5
-----------------------------------------------------------------------------
(* One message further                                                     *)

\* What is known of the longer history, by its positions.
LEMMA Longer ==
  ASSUME NEW T, NEW h \in Seq(T), NEW m \in T
  PROVE  /\ Len(h) \in Nat /\ Len(Append(h, m)) = Len(h) + 1
         /\ Append(h, m)[Len(h) + 1] = m
         /\ \A k \in 1..Len(h) : Append(h, m)[k] = h[k]
         /\ 1..Len(h) + 1 = 1..Len(h) \cup {Len(h) + 1}
  OBVIOUS

\* A result: it must answer an open call that no result has answered.
LEMMA ResultLinked ==
  ASSUME NEW T, NEW h \in Seq(T), NEW m \in T, m.role = "tool",
         NEW p, NEW scan, Linked(h, p, scan)
  PROVE  Linked(Append(h, m), p, Follow(scan, m))
<1>1. PICK more, next : more = Append(h, m) /\ next = Follow(scan, m)
  OBVIOUS
<1>2. /\ Len(h) \in Nat /\ Len(more) = Len(h) + 1 /\ more[Len(h) + 1] = m
      /\ \A k \in 1..Len(h) : more[k] = h[k]
      /\ 1..Len(more) = 1..Len(h) \cup {Len(h) + 1}
  BY <1>1, Longer
<1>3. /\ p \in 0..Len(h) /\ LastOther(h, p)
      /\ scan.calls = IF p = 0 THEN {} ELSE Asks(h[p])
      /\ scan.seen = {h[i].id : i \in p + 1..Len(h)}
      /\ scan.safe <=> Sound(h, p)
  BY DEF Linked, LastOther
<1>4. /\ next.safe <=> scan.safe /\ m.id \in scan.calls \ scan.seen
      /\ next.calls = scan.calls /\ next.seen = scan.seen \cup {m.id}
  BY <1>1, FollowResult
<1>5. LastOther(more, p)
  <2>1. p + 1..Len(more) = (p + 1..Len(h)) \cup {Len(h) + 1}
    BY <1>2, <1>3
  <2> QED BY <1>2, <1>3, <2>1 DEF LastOther
<1>6. next.calls = IF p = 0 THEN {} ELSE Asks(more[p])
  BY <1>2, <1>3, <1>4
<1>7. next.seen = {more[i].id : i \in p + 1..Len(more)}
  <2>1. p + 1..Len(more) = (p + 1..Len(h)) \cup {Len(h) + 1}
    BY <1>2, <1>3
  <2>2. \A i \in p + 1..Len(h) : more[i].id = h[i].id
    BY <1>2, <1>3
  <2> QED BY <1>2, <1>3, <1>4, <2>1, <2>2
<1>8. Fits(more, Len(h) + 1) <=> m.id \in scan.calls \ scan.seen
  <2>1. \A j \in 1..Len(more) : IsAnswerTo(more, Len(h) + 1, j) <=> j = p
    BY <1>2, <1>3, <1>5, AnswersTheLast
  <2>2. CASE p = 0
    BY <1>2, <1>3, <2>1, <2>2 DEF Fits
  <2>3. CASE p # 0
    <3>1. p \in 1..Len(more) /\ more[p] = h[p] /\ scan.calls = Asks(h[p])
      BY <1>2, <1>3, <2>3
    <3>2. (\A k \in p + 1..Len(h) + 1 - 1 : more[k].id # m.id) <=> m.id \notin scan.seen
      BY <1>2, <1>3
    <3>3. Fits(more, Len(h) + 1)
            <=> m.id \in Asks(h[p]) /\ \A k \in p + 1..Len(h) + 1 - 1 : more[k].id # m.id
      BY <1>2, <2>1, <3>1 DEF Fits
    <3> QED BY <3>1, <3>2, <3>3
  <2> QED BY <2>2, <2>3
<1>9. \A i \in 1..Len(h) : Fits(more, i) <=> Fits(h, i)
  BY <1>1, FitsBefore
<1>10. ASSUME NEW j \in 1..p - 1 PROVE Complete(more, j) <=> Complete(h, j)
  <2>1. j \in 1..Len(h) /\ j # p /\ j \in 1..Len(more)
    BY <1>2, <1>3
  <2>2. Len(h) + 1 \in p + 1..Len(more)
    BY <1>2, <1>3
  <2>3. ~IsAnswerTo(more, Len(h) + 1, j)
    BY <1>2, <1>5, <2>1, <2>2, AnswersTheLast
  <2> QED BY <1>1, <2>1, <2>3, CompleteBefore
<1>11. Sound(more, p) <=> Sound(h, p) /\ Fits(more, Len(h) + 1)
  <2>1. \A j \in 1..p - 1 : more[j].role = h[j].role
    BY <1>2, <1>3
  <2>2. (\A i \in 1..Len(more) : more[i].role = "tool" => Fits(more, i))
          <=> (\A i \in 1..Len(h) : h[i].role = "tool" => Fits(h, i)) /\ Fits(more, Len(h) + 1)
    BY <1>2, <1>9
  <2> QED BY <1>10, <2>1, <2>2 DEF Sound
<1>12. Linked(more, p, next)
  BY <1>3, <1>4, <1>5, <1>6, <1>7, <1>8, <1>11 DEF Linked
<1> QED BY <1>1, <1>12

\* The calls of the last other message are all answered if and only if the scan saw them all.
LEMMA LastComplete ==
  ASSUME NEW h, Len(h) \in Nat, NEW p, NEW scan, Linked(h, p, scan), Sound(h, p)
  PROVE  IF p = 0 THEN scan.seen = scan.calls
         ELSE (scan.seen = scan.calls) <=> Complete(h, p)
<1>1. /\ p \in 0..Len(h) /\ LastOther(h, p)
      /\ scan.calls = IF p = 0 THEN {} ELSE Asks(h[p])
      /\ scan.seen = {h[i].id : i \in p + 1..Len(h)}
  BY DEF Linked, LastOther
<1>2. \A i \in p + 1..Len(h), j \in 1..Len(h) : IsAnswerTo(h, i, j) <=> j = p
  BY <1>1, AnswersTheLast
<1>3. ASSUME NEW i \in p + 1..Len(h) PROVE p # 0 /\ h[i].id \in Asks(h[p])
  <2>1. i \in 1..Len(h) /\ h[i].role = "tool"
    BY <1>1, <1>3 DEF LastOther
  <2>2. PICK j \in 1..Len(h) : IsAnswerTo(h, i, j) /\ h[i].id \in Asks(h[j])
    BY <2>1 DEF Sound, Fits
  <2> QED BY <1>2, <2>2
<1>4. CASE p = 0
  BY <1>1, <1>3, <1>4
<1>5. CASE p # 0
  <2>1. p \in 1..Len(h) /\ scan.calls = Asks(h[p]) /\ scan.seen \subseteq scan.calls
    BY <1>1, <1>3, <1>5
  <2>2. \A i \in 1..Len(h) : IsAnswerTo(h, i, p) <=> i \in p + 1..Len(h)
    BY <1>1, <1>2, <2>1 DEF IsAnswerTo
  <2>3. Complete(h, p) <=> \A call \in scan.calls : call \in scan.seen
    BY <1>1, <2>1, <2>2 DEF Complete
  <2>4. (\A call \in scan.calls : call \in scan.seen) <=> scan.seen = scan.calls
    BY <2>1
  <2>5. Complete(h, p) <=> scan.seen = scan.calls
    BY <2>3, <2>4
  <2> QED BY <1>5, <2>5
<1> QED BY <1>4, <1>5

\* Any other message: it must find all calls before it answered.
LEMMA OtherLinked ==
  ASSUME NEW T, NEW h \in Seq(T), NEW m \in T, m.role # "tool",
         NEW p, NEW scan, Linked(h, p, scan)
  PROVE  Linked(Append(h, m), Len(h) + 1, Follow(scan, m))
<1>1. PICK more, next, last : more = Append(h, m) /\ next = Follow(scan, m) /\ last = Len(h) + 1
  OBVIOUS
<1>2. /\ Len(h) \in Nat /\ Len(more) = last /\ more[last] = m
      /\ \A k \in 1..Len(h) : more[k] = h[k]
      /\ 1..Len(more) = 1..Len(h) \cup {last} /\ last = Len(h) + 1
  BY <1>1, Longer
<1>3. p \in 0..Len(h) /\ LastOther(h, p) /\ (scan.safe <=> Sound(h, p))
  BY DEF Linked, LastOther
<1>4. /\ next.safe <=> scan.safe /\ scan.seen = scan.calls
      /\ next.calls = Asks(m) /\ next.seen = {}
  BY <1>1, FollowOther
<1>5. LastOther(more, last)
  BY <1>2 DEF LastOther
<1>6. next.calls = Asks(more[last]) /\ last # 0 /\ next.seen = {more[i].id : i \in last + 1..Len(more)}
  BY <1>2, <1>4
<1>7. \A i \in 1..Len(h) : Fits(more, i) <=> Fits(h, i)
  BY <1>1, FitsBefore
<1>8. ASSUME NEW j \in 1..Len(h) PROVE Complete(more, j) <=> Complete(h, j)
  <2>1. ~IsAnswerTo(more, last, j)
    BY <1>2 DEF IsAnswerTo
  <2> QED BY <1>1, <2>1, CompleteBefore
<1>9. Sound(more, last) <=> Sound(h, p) /\ (p # 0 => Complete(h, p))
  <2>1. (\A i \in 1..Len(more) : more[i].role = "tool" => Fits(more, i))
          <=> \A i \in 1..Len(h) : h[i].role = "tool" => Fits(h, i)
    BY <1>2, <1>7
  <2>2. (\A j \in 1..last - 1 : more[j].role # "tool" => Complete(more, j))
          <=> \A j \in 1..Len(h) : h[j].role # "tool" => Complete(h, j)
    BY <1>2, <1>8
  <2>3. (\A j \in 1..Len(h) : h[j].role # "tool" => Complete(h, j))
          <=> /\ \A j \in 1..p - 1 : h[j].role # "tool" => Complete(h, j)
              /\ p # 0 => Complete(h, p)
    <3>1. Len(h) \in Nat /\ p \in Nat /\ p <= Len(h)
      BY <1>2, <1>3
    <3>2. \A j \in 1..Len(h) : j \in 1..p - 1 \/ (j = p /\ p # 0) \/ h[j].role = "tool"
      BY <1>3, <3>1 DEF LastOther
    <3>3. \A j \in 1..p - 1 : j \in 1..Len(h)
      BY <3>1
    <3>4. p # 0 => p \in 1..Len(h) /\ h[p].role # "tool"
      BY <1>3, <3>1 DEF LastOther
    <3> QED BY <3>2, <3>3, <3>4
  <2> QED BY <2>1, <2>2, <2>3 DEF Sound
<1>10. Sound(h, p) => ((scan.seen = scan.calls) <=> (p # 0 => Complete(h, p)))
  BY <1>2, <1>3, LastComplete
<1>11. next.safe <=> Sound(more, last)
  <2>1. next.safe <=> Sound(h, p) /\ scan.seen = scan.calls
    BY <1>3, <1>4
  <2> QED BY <2>1, <1>9, <1>10
<1>12. Linked(more, last, next)
  BY <1>5, <1>6, <1>11 DEF Linked
<1> QED BY <1>1, <1>12
-----------------------------------------------------------------------------
(* The reference definition                                                *)

\* One result and one only, for a call of a message.
LEMMA ExactlyOne ==
  ASSUME NEW h, Len(h) \in Nat, NEW j, NEW call
  PROVE  LET found == {i \in {k \in 1..Len(h) : IsAnswerTo(h, k, j)} : h[i].id = call}
         IN  Cardinality(found) = 1 <=>
               \E i \in 1..Len(h) :
                 /\ IsAnswerTo(h, i, j) /\ h[i].id = call
                 /\ \A k \in 1..Len(h) : IsAnswerTo(h, k, j) /\ h[k].id = call => k = i
<1> DEFINE found == {i \in {k \in 1..Len(h) : IsAnswerTo(h, k, j)} : h[i].id = call}
<1>1. IsFiniteSet(found)
  <2>1. IsFiniteSet(1..Len(h))
    BY FS_Interval
  <2>2. found \in SUBSET (1..Len(h))
    OBVIOUS
  <2> QED BY <2>1, <2>2, FS_Subset
<1>2. Cardinality(found) = 1 <=> \E i : found = {i}
  <2> HIDE DEF found
  <2> QED BY <1>1, FS_Singleton
<1>3. (\E i : found = {i}) <=>
        \E i \in 1..Len(h) :
          /\ IsAnswerTo(h, i, j) /\ h[i].id = call
          /\ \A k \in 1..Len(h) : IsAnswerTo(h, k, j) /\ h[k].id = call => k = i
  <2>1. ASSUME NEW i, found = {i}
        PROVE  /\ i \in 1..Len(h) /\ IsAnswerTo(h, i, j) /\ h[i].id = call
               /\ \A k \in 1..Len(h) : IsAnswerTo(h, k, j) /\ h[k].id = call => k = i
    BY <2>1
  <2>2. ASSUME NEW i \in 1..Len(h), IsAnswerTo(h, i, j), h[i].id = call,
               \A k \in 1..Len(h) : IsAnswerTo(h, k, j) /\ h[k].id = call => k = i
        PROVE  found = {i}
    BY <2>2
  <2> QED BY <2>1, <2>2
<1> QED BY <1>2, <1>3

\* A result answers one message.
LEMMA AnswersOne ==
  ASSUME NEW h, Len(h) \in Nat, NEW i \in 1..Len(h), NEW j \in 1..Len(h), NEW k \in 1..Len(h),
         IsAnswerTo(h, i, j), IsAnswerTo(h, i, k)
  PROVE  j = k
<1>1. \A a \in 1..Len(h), b \in 1..Len(h) : IsAnswerTo(h, i, a) /\ IsAnswerTo(h, i, b) => ~(a < b)
  BY DEF IsAnswerTo
<1> QED BY <1>1

\* With the first results in place each answers a call of its message alone.
LEMMA FittingIsUnique ==
  ASSUME NEW h, Len(h) \in Nat, NEW p, Sound(h, p),
         NEW j \in 1..Len(h), NEW i \in 1..Len(h), NEW k \in 1..Len(h),
         IsAnswerTo(h, i, j), IsAnswerTo(h, k, j), h[i].id = h[k].id
  PROVE  k = i
<1>1. ASSUME NEW a \in 1..Len(h), NEW b \in 1..Len(h), a < b,
             IsAnswerTo(h, a, j), IsAnswerTo(h, b, j)
      PROVE  h[a].id # h[b].id
  <2>1. h[b].role = "tool" /\ a \in j + 1..b - 1
    BY <1>1 DEF IsAnswerTo
  <2>2. PICK f \in 1..Len(h) : IsAnswerTo(h, b, f) /\ \A c \in f + 1..b - 1 : h[c].id # h[b].id
    BY <2>1 DEF Sound, Fits
  <2>3. f = j
    BY <1>1, <2>2, AnswersOne
  <2> QED BY <2>1, <2>2, <2>3
<1> QED BY <1>1

\* Paired says what the scan checks: that all is sound and the last calls are answered too.
LEMMA PairedIsSound ==
  ASSUME NEW T, NEW h \in Seq(T), NEW p, LastOther(h, p)
  PROVE  Paired(h) <=> Sound(h, p) /\ (p # 0 => Complete(h, p))
<1>1. Len(h) \in Nat /\ DOMAIN h = 1..Len(h) /\ p \in Nat /\ p <= Len(h)
      /\ (p > 0 => h[p].role # "tool") /\ \A k \in p + 1..Len(h) : h[k].role = "tool"
  BY DEF LastOther
<1> DEFINE Found(j, call) == {i \in {k \in 1..Len(h) : IsAnswerTo(h, k, j)} : h[i].id = call}
           Answers == \A i \in 1..Len(h) : h[i].role = "tool" =>
                        \E j \in 1..Len(h) : IsAnswerTo(h, i, j) /\ h[i].id \in Asks(h[j])
           Once == \A j \in 1..Len(h) : h[j].role # "tool" =>
                     \A call \in Asks(h[j]) : Cardinality(Found(j, call)) = 1
<1>2. Paired(h) <=> Answers /\ Once
  BY <1>1 DEF Paired
<1>3. \A call : \A j \in 1..Len(h) :
        Cardinality(Found(j, call)) = 1 <=>
          \E i \in 1..Len(h) :
            /\ IsAnswerTo(h, i, j) /\ h[i].id = call
            /\ \A k \in 1..Len(h) : IsAnswerTo(h, k, j) /\ h[k].id = call => k = i
  BY <1>1, ExactlyOne
<1> HIDE DEF Found
<1>4. ASSUME Answers, Once PROVE Sound(h, p) /\ (p # 0 => Complete(h, p))
  <2>1. ASSUME NEW i \in 1..Len(h), h[i].role = "tool" PROVE Fits(h, i)
    <3>1. PICK j \in 1..Len(h) : IsAnswerTo(h, i, j) /\ h[i].id \in Asks(h[j])
      BY <1>4, <2>1
    <3>2. h[j].role # "tool"
      BY <3>1 DEF IsAnswerTo
    <3>3. Cardinality(Found(j, h[i].id)) = 1
      BY <1>4, <3>1, <3>2
    <3>4. \A k \in 1..Len(h) : IsAnswerTo(h, k, j) /\ h[k].id = h[i].id => k = i
      BY <1>3, <3>1, <3>3
    <3>5. ASSUME NEW k \in j + 1..i - 1 PROVE h[k].id # h[i].id
      <4>1. k \in 1..Len(h) /\ k # i /\ IsAnswerTo(h, k, j)
        BY <1>1, <3>1, <3>5 DEF IsAnswerTo
      <4> QED BY <3>4, <4>1
    <3> QED BY <3>1, <3>5 DEF Fits
  <2>2. ASSUME NEW j \in 1..Len(h), h[j].role # "tool" PROVE Complete(h, j)
    <3>1. \A call \in Asks(h[j]) : Cardinality(Found(j, call)) = 1
      BY <1>4, <2>2
    <3> QED BY <1>3, <3>1 DEF Complete
  <2>3. \A j \in 1..p - 1 : j \in 1..Len(h)
    BY <1>1
  <2>4. p # 0 => p \in 1..Len(h) /\ h[p].role # "tool"
    BY <1>1
  <2> QED BY <2>1, <2>2, <2>3, <2>4 DEF Sound
<1>5. ASSUME Sound(h, p), p # 0 => Complete(h, p) PROVE Answers /\ Once
  <2>1. Answers
    BY <1>5 DEF Sound, Fits
  <2>2. ASSUME NEW j \in 1..Len(h), h[j].role # "tool", NEW call \in Asks(h[j])
        PROVE  Cardinality(Found(j, call)) = 1
    <3>1. Complete(h, j)
      <4>1. j \in 1..p - 1 \/ (j = p /\ p # 0)
        BY <1>1, <2>2
      <4> QED BY <1>5, <2>2, <4>1 DEF Sound
    <3>2. PICK i \in 1..Len(h) : IsAnswerTo(h, i, j) /\ h[i].id = call
      BY <2>2, <3>1 DEF Complete
    <3>3. \A k \in 1..Len(h) : IsAnswerTo(h, k, j) /\ h[k].id = call => k = i
      BY <1>1, <1>5, <3>2, FittingIsUnique
    <3> QED BY <1>3, <3>2, <3>3
  <2> QED BY <2>1, <2>2
<1> QED BY <1>2, <1>4, <1>5
-----------------------------------------------------------------------------
(* What may be replayed                                                    *)

\* What the scan knows of the first messages it knows of all of them.
LEMMA ScanIsLinked ==
  ASSUME NEW T, NEW h \in Seq(T)
  PROVE  \E p : Linked(h, p, Scanned(h))
<1> DEFINE Known(n) == n <= Len(h) => \E p : Linked(Part(h, 0, n), p, After(h, n))
           S == {n \in Nat : Known(n)}
<1>1. Len(h) \in Nat
  OBVIOUS
<1>2. Known(0)
  <2>1. Part(h, 0, 0) = <<>> /\ After(h, 0) = Fresh
    BY PartEmpty, AfterNext
  <2>2. Linked(<<>>, 0, Fresh)
    BY DEF Linked, LastOther, Sound, Fresh
  <2> QED BY <2>1, <2>2
<1>3. ASSUME NEW n \in Nat, Known(n) PROVE Known(n + 1)
  <2> SUFFICES ASSUME n + 1 <= Len(h) PROVE \E p : Linked(Part(h, 0, n + 1), p, After(h, n + 1))
    OBVIOUS
  <2>1. Inside(h, 0, n) /\ n <= Len(h)
    BY <1>1 DEF Inside
  <2>2. Part(h, 0, n + 1) = Append(Part(h, 0, n), h[n + 1]) /\ h[n + 1] \in T
    BY <2>1, PartNext
  <2>3. Part(h, 0, n) \in Seq(T)
    BY <2>1, PartIs DEF IsPart
  <2>4. After(h, n + 1) = Follow(After(h, n), h[n + 1])
    BY AfterNext
  <2>5. PICK p : Linked(Part(h, 0, n), p, After(h, n))
    BY <1>3, <2>1
  <2>6. PICK first, m, scan : first = Part(h, 0, n) /\ m = h[n + 1] /\ scan = After(h, n)
    OBVIOUS
  <2>7. \E q : Linked(Append(first, m), q, Follow(scan, m))
    BY <2>2, <2>3, <2>5, <2>6, ResultLinked, OtherLinked
  <2> QED BY <2>2, <2>4, <2>6, <2>7
<1> HIDE DEF Known
<1>4. S = Nat
  <2>1. 0 \in S /\ \A n \in S : n + 1 \in S
    BY <1>2, <1>3
  <2> HIDE DEF S
  <2>2. S \in SUBSET Nat
    BY DEF S
  <2> QED BY <2>1, <2>2, SetInduction
<1>5. Known(Len(h))
  BY <1>1, <1>4
<1>6. Part(h, 0, Len(h)) = h /\ After(h, Len(h)) = Scanned(h)
  BY PartAll, AfterNext
<1> QED BY <1>1, <1>5, <1>6 DEF Known

\* It is exactly what is paired.
LEMMA PairedIsSafe ==
  ASSUME NEW T, NEW h \in Seq(T)
  PROVE  IsReplaySafe(h) <=> Paired(h)
<1>1. PICK p : Linked(h, p, Scanned(h))
  BY ScanIsLinked
<1>2. Len(h) \in Nat /\ LastOther(h, p) /\ (Scanned(h).safe <=> Sound(h, p))
  BY <1>1 DEF Linked
<1>3. Sound(h, p) => ((Scanned(h).seen = Scanned(h).calls) <=> (p # 0 => Complete(h, p)))
  BY <1>1, <1>2, LastComplete
<1>4. Paired(h) <=> Sound(h, p) /\ (p # 0 => Complete(h, p))
  BY <1>2, PairedIsSound
<1> QED BY <1>2, <1>3, <1>4, SafeIsScanned

\* The leading system messages are counted.
LEMMA LeadingIsParted ==
  ASSUME NEW T, NEW h \in Seq(T), NEW l, NEW N, NEW c, Parted(h, l, N, c, Len(h))
  PROVE  Leading(h) = l
<1>1. Cuts(c, N, l, Len(h)) /\ (\A i \in 1..l : h[i].role = "system") /\ (N # 0 => h[l + 1].role # "system")
  BY DEF Parted
<1>2. l \in Nat /\ Len(h) \in Nat /\ l <= Len(h) /\ (N = 0 => l = Len(h))
  <2>1. l <= Len(h) /\ (N = 0 => l = Len(h))
    BY <1>1, CutsOrder
  <2> QED BY <1>1, <2>1 DEF Cuts
<1> DEFINE Is(n) == /\ \A i \in 1..n : h[i].role = "system"
                    /\ n < Len(h) => h[n + 1].role # "system"
<1>3. l \in 0..Len(h) /\ Is(l)
  BY <1>1, <1>2
<1>4. ASSUME NEW n \in 0..Len(h), Is(n) PROVE n = l
  <2>1. ~(n < l)
    <3>1. n < l => n + 1 \in 1..l /\ n < Len(h)
      BY <1>2
    <3> QED BY <1>1, <1>4, <3>1
  <2>2. ~(l < n)
    <3>1. l < n => l + 1 \in 1..n /\ l < Len(h)
      BY <1>2
    <3> QED BY <1>3, <1>4, <3>1
  <2> QED BY <1>2, <2>1, <2>2
<1> HIDE DEF Is
<1>5. l = CHOOSE n \in 0..Len(h) : Is(n)
  BY <1>3, <1>4
<1> QED BY <1>5 DEF Leading, Is

-----------------------------------------------------------------------------
(* The request                                                             *)

\* A window that begins after the position a, and that may be sent.
Sent(h, l, a) == Part(h, 0, l) \o Part(h, a, Len(h))

MayBeSent(h, maxChars, start) ==
  /\ Paired(SubSeq(h, start, Len(h)))
  /\ Size(WindowFrom(h, start)) <= maxChars

\* It may be if it begins between two groups and is not too large.
LEMMA MayBeSentIs ==
  ASSUME NEW T, NEW h \in Seq(T), IsReplaySafe(h), NEW maxChars, NEW start \in 1..Len(h) + 1
  PROVE  /\ WindowFrom(h, start) = Sent(h, Leading(h), start - 1)
         /\ MayBeSent(h, maxChars, start) <=>
              Between(h, start - 1) /\ Size(Sent(h, Leading(h), start - 1)) <= maxChars
<1>1. Len(h) \in Nat
  OBVIOUS
<1>2. PICK a \in Nat : a = start - 1
  BY <1>1
<1>3. a + 1 = start /\ a <= Len(h) /\ Inside(h, a, Len(h)) /\ 0 + 1 = 1
  BY <1>1, <1>2 DEF Inside
<1>4. SubSeq(h, start, Len(h)) = Part(h, a, Len(h)) /\ SubSeq(h, 1, Leading(h)) = Part(h, 0, Leading(h))
  BY <1>3 DEF Part
<1>5. WindowFrom(h, start) = Sent(h, Leading(h), a)
  BY <1>4 DEF WindowFrom, Sent
<1>6. Part(h, a, Len(h)) \in Seq(T)
  BY <1>3, PartIs DEF IsPart
<1>7. Paired(Part(h, a, Len(h))) <=> IsReplaySafe(Part(h, a, Len(h)))
  BY <1>6, PairedIsSafe
<1>8. IsReplaySafe(Part(h, a, Len(h))) => Between(h, a)
  BY <1>3, PartBegins
<1>9. Between(h, Len(h))
  BY <1>1 DEF Between
<1>10. Between(h, a) => IsReplaySafe(Part(h, a, Len(h)))
  BY <1>3, <1>9, BetweenIsSafe
<1> QED BY <1>2, <1>4, <1>5, <1>7, <1>8, <1>10 DEF MayBeSent

\* The request is the largest window that may be sent.
LargestSent(h, maxChars) ==
  LET request == ApplyContextBudget(h, maxChars)
      starts == Leading(h) + 1..Len(h) + 1
  IN  IF request.refused
      THEN \A start \in starts \ {Len(h) + 1} : ~MayBeSent(h, maxChars, start)
      ELSE \E start \in starts :
        /\ request.messages = WindowFrom(h, start)
        /\ MayBeSent(h, maxChars, start)
        /\ \A earlier \in starts : earlier < start => ~MayBeSent(h, maxChars, earlier)

LEMMA LargestIsSent ==
  ASSUME NEW T, Sized(T), NEW h \in Seq(T), IsReplaySafe(h), NEW maxChars \in Int
  PROVE  LargestSent(h, maxChars)
<1>1. PICK l, N, c, i : Window(h, maxChars, l, N, c, i)
  BY ApplyIsWindow
<1> DEFINE room == maxChars - Size(Part(h, 0, l))
           rest(j) == Part(h, c[j], Len(h))
           request == ApplyContextBudget(h, maxChars)
           starts == l + 1..Len(h) + 1
<1>2. /\ Parted(h, l, N, c, Len(h)) /\ i \in 0..N
      /\ request = IF room < 0 \/ (N # 0 /\ i = N) THEN Refused ELSE Kept(Part(h, 0, l) \o rest(i))
      /\ i < N => Size(rest(i)) <= room
  BY <1>1 DEF Window
<1>3. Leading(h) = l
  BY <1>2, LeadingIsParted
<1>4. /\ Between(h, c[i]) /\ l <= c[i] /\ c[i] \in Nat /\ Inside(h, c[i], Len(h))
      /\ N \in Nat /\ c[N] = Len(h) /\ l \in Nat /\ Len(h) \in Nat /\ l <= Len(h)
  <2>1. Cuts(c, N, l, Len(h))
    BY <1>2 DEF Parted
  <2> QED BY <1>2, <2>1, CutsBetween, CutsOrder DEF Cuts
<1>5. ASSUME NEW start \in starts
      PROVE  /\ start - 1 \in Nat /\ l <= start - 1 /\ start - 1 <= Len(h) /\ start \in 1..Len(h) + 1
             /\ WindowFrom(h, start) = Sent(h, l, start - 1)
             /\ MayBeSent(h, maxChars, start) <=>
                  Between(h, start - 1) /\ Size(Sent(h, l, start - 1)) <= maxChars
  <2>1. start - 1 \in Nat /\ l <= start - 1 /\ start - 1 <= Len(h) /\ start \in 1..Len(h) + 1
    BY <1>4
  <2> QED BY <1>3, <2>1, MayBeSentIs
<1>6. ASSUME NEW a \in Nat, l <= a, a <= Len(h)
      PROVE  /\ Size(Part(h, 0, l)) \in Nat /\ Size(Part(h, a, Len(h))) \in Nat
             /\ Size(Sent(h, l, a)) = Size(Part(h, 0, l)) + Size(Part(h, a, Len(h)))
  <2>1. Inside(h, 0, l) /\ Inside(h, a, Len(h))
    BY <1>4, <1>6 DEF Inside
  <2>2. Part(h, 0, l) \in Seq(T) /\ Part(h, a, Len(h)) \in Seq(T)
    BY <2>1, PartIs DEF IsPart
  <2> QED BY <2>2, SizeConcat DEF Sent
<1>7. ASSUME NEW a \in Nat, l <= a, a < c[i], Between(h, a) PROVE Size(Sent(h, l, a)) > maxChars
  BY <1>1, <1>7, EarlierIsTooLarge DEF Sent
<1>8. /\ request.refused <=> (room < 0 \/ (N # 0 /\ i = N))
      /\ ~request.refused => request.messages = Sent(h, l, c[i])
  BY <1>2 DEF Refused, Kept, Sent
<1>9. CASE request.refused
  <2>1. ASSUME NEW start \in starts \ {Len(h) + 1}, MayBeSent(h, maxChars, start) PROVE FALSE
    <3>1. PICK a \in Nat : a = start - 1
      BY <1>5
    <3>2. l <= a /\ a < Len(h) /\ Between(h, a) /\ Size(Sent(h, l, a)) <= maxChars
      BY <1>4, <1>5, <2>1, <3>1
    <3>3. ~(room < 0)
      BY <1>6, <3>2
    <3>4. i = N
      BY <1>8, <1>9, <3>3
    <3> QED BY <1>4, <1>6, <1>7, <3>2, <3>4
  <2> QED BY <1>3, <1>9, <2>1 DEF LargestSent
<1>10. CASE ~request.refused
  <2>1. PICK start \in starts : start = c[i] + 1
    BY <1>4 DEF Inside
  <2>2. start - 1 = c[i]
    BY <1>4, <2>1
  <2>3. request.messages = WindowFrom(h, start)
    BY <1>5, <1>8, <1>10, <2>2
  <2>4. Size(Sent(h, l, c[i])) <= maxChars
    <3>1. c[i] <= Len(h)
      BY <1>4 DEF Inside
    <3>2. PICK s, r \in Nat : s = Size(Part(h, 0, l)) /\ r = Size(rest(i))
      BY <1>4, <1>6, <3>1
    <3>3. Size(Sent(h, l, c[i])) = s + r /\ room = maxChars - s /\ ~(room < 0)
      BY <1>4, <1>6, <1>8, <1>10, <3>1, <3>2
    <3>4. r <= room
      <4>1. CASE i < N
        BY <1>2, <3>2, <4>1
      <4>2. CASE i = N
        <5>1. rest(i) = <<>>
          BY <1>4, <4>2, PartEmpty
        <5> QED BY <3>2, <3>3, <5>1, SizeEmpty
      <4> QED BY <1>2, <1>4, <4>1, <4>2
    <3> QED BY <3>2, <3>3, <3>4
  <2>5. MayBeSent(h, maxChars, start)
    BY <1>4, <1>5, <2>2, <2>4
  <2>6. ASSUME NEW earlier \in starts, earlier < start PROVE ~MayBeSent(h, maxChars, earlier)
    <3>1. PICK a \in Nat : a = earlier - 1
      BY <1>5
    <3>2. l <= a /\ a < c[i]
      BY <1>4, <1>5, <2>1, <2>6, <3>1
    <3>3. ~(Between(h, a) /\ Size(Sent(h, l, a)) <= maxChars)
      <4>1. a <= Len(h)
        BY <1>4, <1>5, <3>1
      <4> QED BY <1>6, <1>7, <3>2, <4>1
    <3> QED BY <1>5, <3>1, <3>3
  <2> QED BY <1>3, <1>10, <2>1, <2>3, <2>5, <2>6 DEF LargestSent
<1> QED BY <1>9, <1>10

-----------------------------------------------------------------------------
(* What a checkpoint writes and a resume loads                             *)

\* They hold the history, each is well formed, and larger than the bound only for a single group.
LEMMA FilesHold ==
  ASSUME NEW T, Sized(T), NEW s \in Seq(Unsystem(T)), IsReplaySafe(s), NEW bound \in Nat
  PROVE  /\ FlattenSeq(PackSegments(s, bound)) = s
         /\ \A k \in DOMAIN PackSegments(s, bound) :
              /\ Paired(PackSegments(s, bound)[k])
              /\ Size(PackSegments(s, bound)[k]) > bound => Len(PartitionHistory(PackSegments(s, bound)[k])) = 1
<1>1. PICK N, c, f, L : /\ Parted(s, 0, N, c, Len(s)) /\ FilledUpto(s, c, N, bound, f, L, Len(s))
                        /\ PackSegments(s, bound) = Slices(s, f, L)
  BY FilesAreSlices
<1>2. Cuts(f, L, 0, Len(s)) /\ Cuts(c, N, 0, Len(s)) /\ Groups(s, c, N) /\ Len(s) \in Nat /\ N \in Nat
  BY <1>1 DEF FilledUpto, Parted, Cuts
<1>3. FlattenSeq(Slices(s, f, L)) = s
  <2>1. FlattenSeq(Slices(s, f, L)) = Part(s, 0, Len(s))
    BY <1>2, FlattenSlices
  <2> QED BY <2>1, PartAll
<1>4. DOMAIN Slices(s, f, L) = 1..L
  BY DEF Slices
<1>5. ASSUME NEW k \in 1..L
      PROVE  /\ Paired(Slices(s, f, L)[k])
             /\ Size(Slices(s, f, L)[k]) > bound => Len(PartitionHistory(Slices(s, f, L)[k])) = 1
  <2>1. PICK x, y : x = f[k - 1] /\ y = f[k]
    OBVIOUS
  <2>2. /\ Slices(s, f, L)[k] = Part(s, x, y)
        /\ Inside(s, x, y) /\ x < y
    BY <1>2, <2>1, SlicesAre
  <2>3. Between(s, x) /\ Between(s, y)
    <3>1. k - 1 \in 0..L /\ k \in 0..L
      BY <1>2 DEF Cuts
    <3>2. (\E g \in 0..N : x = c[g]) /\ (\E g \in 0..N : y = c[g])
      BY <1>1, <2>1, <3>1 DEF FilledUpto
    <3> QED BY <1>1, <3>2, CutsBetween
  <2>4. PICK p : p = Part(s, x, y)
    OBVIOUS
  <2>5. x \in Nat /\ y \in Nat /\ x <= y
    BY <2>2 DEF Inside
  <2>6. IsReplaySafe(p)
    BY <2>3, <2>4, <2>5, BetweenIsSafe
  <2>7. /\ p \in Seq(Unsystem(T)) /\ Len(p) = y - x
        /\ \A i \in 1..y - x : p[i] = s[x + i]
    BY <2>2, <2>4, PartIs DEF IsPart
  <2>8. Paired(p)
    BY <2>6, <2>7, PairedIsSafe
  <2>9. ASSUME Size(p) > bound PROVE Len(PartitionHistory(p)) = 1
    <3>1. IsFile(s, c, N, bound, x, y)
      BY <1>1, <2>1 DEF FilledUpto
    <3>2. Size(p) \in Nat
      <4>1. Sized(Unsystem(T))
        BY DEF Sized, Unsystem
      <4> QED BY <2>7, <4>1, SizeConcat
    <3>3. PICK g \in 1..N : x = c[g - 1] /\ y = c[g]
      BY <2>4, <2>9, <3>1, <3>2 DEF IsFile
    <3>4. \A i \in x + 2..y : s[i].role = "tool"
      BY <1>2, <3>3 DEF Groups
    <3>5. ASSUME NEW i \in 2..Len(p) PROVE p[i].role = "tool"
      <4>1. i \in 1..y - x /\ x + i \in x + 2..y
        BY <2>5, <2>7
      <4> QED BY <2>7, <3>4, <4>1
    <3>6. Len(p) # 0
      BY <2>2, <2>5, <2>7
    <3> QED BY <2>6, <2>7, <3>5, <3>6, OneGroup
  <2> QED BY <2>2, <2>4, <2>8, <2>9
<1> QED BY <1>1, <1>3, <1>4, <1>5

\* A resume loads of the files what it would have kept of the history.
LEMMA LoadedIsKept ==
  ASSUME NEW T, NEW h \in Seq(T), IsReplaySafe(h), NEW f, FlattenSeq(f) = StripSystemMessages(h)
  PROVE  Loaded(f) = SelectReplayMessages(h, MaxChars)
<1>1. PICK s : s = StripSystemMessages(h)
  OBVIOUS
<1>2. s \in Seq(Unsystem(T)) /\ IsReplaySafe(s)
  BY <1>1, StrippedIs, StripIsSafe
<1>3. s \in Seq(T)
  <2>1. PICK V : V = Unsystem(T) /\ V \subseteq T
    BY DEF Unsystem
  <2> QED BY <1>2, <2>1
<1>4. ReplaySafePrefix(s) = s
  BY <1>2, <1>3, PrefixIsSafe
<1>5. StripSystemMessages(s) = s
  BY <1>2, <1>3, StrippedIs
<1> QED BY <1>1, <1>4, <1>5 DEF Loaded, SelectReplayMessages

\* And what it loads of anything may be replayed.
LEMMA LoadedIsSafe ==
  ASSUME NEW T, Sized(T), NEW h \in Seq(T), MaxChars \in Int
  PROVE  IsReplaySafe(Loaded(<<h>>).messages)
<1>1. PICK q : q = ReplaySafePrefix(h)
  OBVIOUS
<1>2. q \in Seq(T) /\ IsReplaySafe(q)
  BY <1>1, PrefixIsSafe
<1>3. PICK s : s = StripSystemMessages(q)
  OBVIOUS
<1>4. s \in Seq(Unsystem(T)) /\ IsReplaySafe(s)
  BY <1>2, <1>3, StrippedIs, StripIsSafe
<1>5. IsReplaySafe(ApplyContextBudget(s, MaxChars).messages)
  BY <1>4, KeptIsSafe
<1>6. FlattenSeq(<<h>>) = h
  BY FlattenOne
<1>7. Loaded(<<h>>) = ApplyContextBudget(s, MaxChars)
  BY <1>1, <1>3, <1>6 DEF Loaded, SelectReplayMessages
<1> QED BY <1>5, <1>7

-----------------------------------------------------------------------------
(* The histories                                                           *)

HistoryInv == messages \in Seq(Message)

LEMMA HistoryAlways == Spec => []HistoryInv
<1>1. Init => HistoryInv
  BY DEF Init, HistoryInv
<1>2. HistoryInv /\ [Next]_messages => HistoryInv'
  BY DEF HistoryInv, Next, Grow
<1> QED BY <1>1, <1>2, PTL DEF Spec

\* is_replay_safe accepts a history if and only if every result answers a call of the message
\* it follows and every call has exactly one result, for any messages and any length.
THEOREM SafetyIsPairing == Spec => []ReplaySafetyIsPairing
<1>1. HistoryInv => ReplaySafetyIsPairing
  BY PairedIsSafe DEF HistoryInv, ReplaySafetyIsPairing
<1> QED BY <1>1, HistoryAlways, PTL

\* The request built from a well-formed history is the largest window of it that is well formed and
\* within the budget, and it is refused only if there is none but the system messages: for messages
\* of any sizes, any budget and any length.  (apply_context_budget)
THEOREM RequestIsLargest == Spec => []RequestIsLargestWindow
<1>1. HistoryInv => RequestIsLargestWindow
  <2> SUFFICES ASSUME messages \in Seq(Message), IsReplaySafe(messages)
      PROVE  LargestSent(messages, MaxChars)
    BY DEF HistoryInv, RequestIsLargestWindow, LargestSent, MayBeSent
  <2>1. Sized(Message) /\ MaxChars \in Int
    BY MessageAssumption, LimitAssumption DEF MessageAssumption, LimitAssumption, Sized
  <2> QED BY <2>1, LargestIsSent
<1> QED BY <1>1, HistoryAlways, PTL

\* The files of a checkpoint hold a well-formed history whole and in order, each well formed by itself
\* and within the bound unless it is a single group; a resume keeps of them what it would have kept
\* of the history; and what it keeps of any history is well formed: for messages of any
\* sizes, any two bounds and any length.  (pack_segments, load_replay_messages)
THEOREM FilesCarry == Spec => []FilesCarryTheHistory
<1>1. HistoryInv => FilesCarryTheHistory
  <2> SUFFICES ASSUME messages \in Seq(Message) PROVE FilesCarryTheHistory
    BY DEF HistoryInv
  <2>1. Sized(Message) /\ MaxChars \in Int /\ MaxSegment \in Nat
    BY MessageAssumption, LimitAssumption DEF MessageAssumption, LimitAssumption, Sized
  <2>2. IsReplaySafe(Loaded(<<messages>>).messages)
    BY <2>1, LoadedIsSafe
  <2>3. ASSUME IsReplaySafe(messages)
        PROVE  /\ FlattenSeq(Committed(messages)) = StripSystemMessages(messages)
               /\ \A k \in DOMAIN Committed(messages) :
                    /\ Paired(Committed(messages)[k])
                    /\ Size(Committed(messages)[k]) > MaxSegment
                         => Len(PartitionHistory(Committed(messages)[k])) = 1
               /\ Loaded(Committed(messages)) = SelectReplayMessages(messages, MaxChars)
    <3>1. PICK s : s = StripSystemMessages(messages)
      OBVIOUS
    <3>2. s \in Seq(Unsystem(Message)) /\ IsReplaySafe(s)
      BY <2>3, <3>1, StrippedIs, StripIsSafe
    <3>3. /\ FlattenSeq(PackSegments(s, MaxSegment)) = s
          /\ \A k \in DOMAIN PackSegments(s, MaxSegment) :
               /\ Paired(PackSegments(s, MaxSegment)[k])
               /\ Size(PackSegments(s, MaxSegment)[k]) > MaxSegment
                    => Len(PartitionHistory(PackSegments(s, MaxSegment)[k])) = 1
      BY <2>1, <3>2, FilesHold
    <3>4. Committed(messages) = PackSegments(s, MaxSegment)
      BY <3>1 DEF Committed
    <3>5. Loaded(Committed(messages)) = SelectReplayMessages(messages, MaxChars)
      BY <2>3, <3>1, <3>3, <3>4, LoadedIsKept
    <3> QED BY <3>1, <3>3, <3>4, <3>5
  <2> QED BY <2>2, <2>3 DEF FilesCarryTheHistory
<1> QED BY <1>1, HistoryAlways, PTL

-----------------------------------------------------------------------------
(* delete-all                                                              *)

\* The fields the records have, whatever their values.
FileShape(f) ==
  f \in [directory : BOOLEAN, metadata : BOOLEAN, lock : BOOLEAN, messages : {f.messages}]

OwnerShape(o) == o = [pc |-> o.pc, history |-> o.history]

CommandShape(c) ==
  c = [does |-> c.does, pc |-> c.pc, session |-> c.session, loading |-> c.loading,
       pass |-> c.pass, todo |-> c.todo, listed |-> c.listed]

Shapes ==
  /\ files = [s \in Sessions |-> files[s]] /\ \A s \in Sessions : FileShape(files[s])
  /\ owner = [s \in Sessions |-> owner[s]] /\ \A s \in Sessions : OwnerShape(owner[s])
  /\ CommandShape(command)
  /\ deletion = [d \in Deleters |-> deletion[d]]
  /\ \A d \in Deleters : deletion[d].pc # "none" => deletion[d].session \in Sessions
  /\ outcome = [s \in Sessions |-> outcome[s]]
  /\ noticed = [s \in Sessions |-> noticed[s]]

Summarizing == {"metadata", "look", "names", "files"}
Labels == Summarizing \cup {"none", "next", "load", "delete", "ended"}

\* Where the command is and what goes with it: only delete-all deletes, only a label inside
\* the reading of a session has one, only show counts rows.
CommandType ==
  /\ command.pc \in Labels /\ command.does \in {"none", "show", "delete-all"}
  /\ command.does = "none" <=> command.pc = "none"
  /\ command.pc \in {"next", "delete"} => command.does = "delete-all"
  /\ command.pc \in Summarizing \cup {"load"} => command.session \in Sessions
  /\ command.listed \subseteq Sessions /\ command.todo \subseteq Sessions
  /\ command.loading \in BOOLEAN /\ (command.loading \/ command.pc = "load" => command.does = "show")
  /\ deletion["command"].pc # "none" => command.pc = "delete"

\* A session that was there when the command began and was not made since.
Remains(s) == files[s].directory /\ "created" \notin noticed[s]

\* Each of them is still to be summarized, is being read or is listed; when the deletions begin
\* they are all listed, and none of them is reported as deleted.
Accounted(s) ==
  CASE command.pc \in {"next"} \cup Summarizing ->
         /\ outcome[s] = "none"
         /\ s \in command.todo \cup command.listed \/ (command.pc # "next" /\ s = command.session)
    [] command.pc = "delete" -> s \in command.listed /\ outcome[s] \in {"none", "failed", "raised"}
    [] command.pc = "ended" ->
         outcome[s] \in {"failed", "raised"} \/ \E t \in Sessions : outcome[t] = "raised"
    [] OTHER -> TRUE

Sweeping ==
  /\ command.pc = "none" => outcome = [s \in Sessions |-> "none"]
  /\ command.does = "delete-all" => \A s \in Sessions : Remains(s) => Accounted(s)

SweepInv == Shapes /\ CommandType /\ Sweeping

\* A step the command has no part in.
Aside ==
  /\ UNCHANGED <<command, outcome>> /\ deletion'["command"] = deletion["command"]
  /\ \A s \in Sessions :
       /\ files'[s].directory => files[s].directory \/ "created" \in noticed'[s]
       /\ noticed[s] \subseteq noticed'[s]

LEMMA AsideKeeps ==
  ASSUME CommandType, Sweeping, Aside PROVE CommandType' /\ Sweeping'
<1>1. CommandType'
  BY DEF CommandType, Aside
<1>2. \A s \in Sessions : Remains(s)' => Remains(s)
  BY DEF Remains, Aside
<1>3. \A s \in Sessions : Accounted(s) => Accounted(s)'
  BY DEF Accounted, Aside
<1>4. Sweeping'
  BY <1>2, <1>3 DEF Sweeping, Aside
<1> QED BY <1>1, <1>4

\* A directory made while the command runs is noticed.
LEMMA CreateAside == ASSUME Shapes, NEW s \in Sessions, Create(s) PROVE Shapes' /\ Aside
<1> USE DEF Shapes, FileShape, OwnerShape
<1>1. UNCHANGED <<command, deletion, outcome>>
  BY DEF Create
<1>2. /\ files' = [t \in Sessions |-> files'[t]] /\ \A t \in Sessions : FileShape(files'[t])
      /\ \A t \in Sessions : files'[t].directory => files[t].directory \/ t = s
  BY DEF Create
<1>3. owner' = [t \in Sessions |-> owner'[t]] /\ \A t \in Sessions : OwnerShape(owner'[t])
  BY DEF Create
<1>4. /\ noticed' = [t \in Sessions |-> noticed'[t]]
      /\ \A t \in Sessions : noticed[t] \subseteq noticed'[t]
      /\ "created" \in noticed'[s]
  BY DEF Create, Notice
<1> QED BY <1>1, <1>2, <1>3, <1>4 DEF Aside

\* What the steps of a run and of a deletion do to one session: none of them makes a directory.
FilesInPlace(s) ==
  /\ files' = [files EXCEPT ![s] = files'[s]]
  /\ FileShape(files'[s]) /\ (files'[s].directory => files[s].directory)

InPlace(s) ==
  /\ FilesInPlace(s)
  /\ owner' = [owner EXCEPT ![s] = owner'[s]] /\ OwnerShape(owner'[s])
  /\ noticed' = [noticed EXCEPT ![s] = noticed'[s]] /\ noticed[s] \subseteq noticed'[s]

LEMMA FieldsInPlace ==
  ASSUME Shapes, NEW s \in Sessions,
         \/ files' = files
         \/ files' = [files EXCEPT ![s].lock = TRUE]
         \/ files' = [files EXCEPT ![s].lock = FALSE]
         \/ files' = [files EXCEPT ![s].metadata = FALSE]
         \/ \E m : files' = [files EXCEPT ![s].messages = m]
         \/ files' = [files EXCEPT ![s] = NoFiles]
  PROVE  FilesInPlace(s)
<1> USE DEF Shapes, FileShape, FilesInPlace
<1>1. CASE files' = files
  BY <1>1
<1>2. CASE files' = [files EXCEPT ![s].lock = TRUE]
  BY <1>2
<1>3. CASE files' = [files EXCEPT ![s].lock = FALSE]
  BY <1>3
<1>4. CASE files' = [files EXCEPT ![s].metadata = FALSE]
  BY <1>4
<1>5. ASSUME NEW m, files' = [files EXCEPT ![s].messages = m] PROVE FilesInPlace(s)
  BY <1>5
<1>6. CASE files' = [files EXCEPT ![s] = NoFiles]
  BY <1>6 DEF NoFiles
<1> QED BY <1>1, <1>2, <1>3, <1>4, <1>5, <1>6

LEMMA InPlaceKeeps ==
  ASSUME Shapes, NEW s \in Sessions, InPlace(s)
  PROVE  /\ files' = [t \in Sessions |-> files'[t]] /\ \A t \in Sessions : FileShape(files'[t])
         /\ \A t \in Sessions : files'[t].directory => files[t].directory
         /\ owner' = [t \in Sessions |-> owner'[t]] /\ \A t \in Sessions : OwnerShape(owner'[t])
         /\ noticed' = [t \in Sessions |-> noticed'[t]]
         /\ \A t \in Sessions : noticed[t] \subseteq noticed'[t]
BY DEF Shapes, InPlace, FilesInPlace

LEMMA RunsInPlace ==
  ASSUME Shapes, NEW s \in Sessions,
         CreateFiles(s) \/ Resume(s) \/ MoveAside(s) \/ Install(s) \/ Stop(s) \/ LateLock(s)
  PROVE  InPlace(s) /\ UNCHANGED <<command, outcome, deletion>>
<1> USE DEF Shapes, FileShape, OwnerShape
<1>1. UNCHANGED <<command, outcome, deletion>>
  BY DEF CreateFiles, Resume, MoveAside, Install, Stop, LateLock
<1>2. FilesInPlace(s)
  <2>1. CASE CreateFiles(s)
    BY <2>1 DEF CreateFiles, FilesInPlace
  <2>2. CASE ~CreateFiles(s)
    <3>1. CASE Resume(s) \/ LateLock(s)
      BY <3>1, FieldsInPlace DEF Resume, LateLock
    <3>2. CASE MoveAside(s) \/ Install(s)
      BY <3>2, FieldsInPlace DEF MoveAside, Install
    <3>3. CASE Stop(s)
      BY <3>3, FieldsInPlace DEF Stop
    <3> QED BY <2>2, <3>1, <3>2, <3>3
  <2> QED BY <2>1, <2>2
<1>3. owner' = [owner EXCEPT ![s] = owner'[s]] /\ OwnerShape(owner'[s])
  BY DEF CreateFiles, Resume, MoveAside, Install, Stop, LateLock, NoOwner
<1>4. noticed' = [noticed EXCEPT ![s] = noticed'[s]] /\ noticed[s] \subseteq noticed'[s]
  BY DEF CreateFiles, Resume, MoveAside, Install, Stop, LateLock, Notice
<1> QED BY <1>1, <1>2, <1>3, <1>4 DEF InPlace

LEMMA RunsAside ==
  ASSUME Shapes, Runs PROVE Shapes' /\ Aside
<1>1. PICK s \in Sessions :
        Create(s) \/ CreateFiles(s) \/ Resume(s) \/ MoveAside(s) \/ Install(s) \/ Stop(s) \/ LateLock(s)
  BY DEF Runs
<1>2. CASE Create(s)
  BY <1>2, CreateAside
<1>3. CASE ~Create(s)
  <2>1. InPlace(s) /\ UNCHANGED <<command, outcome, deletion>>
    BY <1>1, <1>3, RunsInPlace
  <2> QED BY <2>1, InPlaceKeeps DEF Shapes, Aside
<1> QED BY <1>2, <1>3

\* A step of a deletion: it goes on, or says what became of the session, and deleted only when
\* the directory is gone.
Deleting(d, s) ==
  /\ InPlace(s)
  /\ \/ /\ UNCHANGED <<command, outcome>>
        /\ deletion' = [deletion EXCEPT ![d] = deletion'[d]] /\ deletion'[d].session = s
        /\ (d = "command" => deletion[d].pc # "none" \/ command.pc = "delete")
     \/ \E what \in {"failed", "raised", "deleted"} :
          Told(d, s, what) /\ (what = "deleted" => ~files'[s].directory)

LEMMA DeleteStep ==
  ASSUME Shapes, NEW d \in Deleters, NEW s \in Sessions, Delete(d, s), d = "command" => command.pc = "delete"
  PROVE  Deleting(d, s)
<1>1. InPlace(s)
  <2>1. FilesInPlace(s)
    BY FieldsInPlace DEF Delete
  <2> QED BY <2>1 DEF Delete, InPlace, Shapes, OwnerShape
<1> QED BY <1>1 DEF Delete, Deleting, Shapes

LEMMA ClearStep ==
  ASSUME Shapes, NEW d \in Deleters, Clear(d) PROVE Deleting(d, deletion[d].session)
<1> DEFINE s == deletion[d].session
<1>1. s \in Sessions /\ deletion[d].pc # "none"
  BY DEF Clear, Shapes
<1>2. FilesInPlace(s)
  BY <1>1, FieldsInPlace DEF Clear
<1>3. noticed' = [noticed EXCEPT ![s] = noticed'[s]] /\ noticed[s] \subseteq noticed'[s]
  BY <1>1 DEF Clear, Notice, Shapes
<1>4. owner' = [owner EXCEPT ![s] = owner'[s]] /\ OwnerShape(owner'[s])
  BY <1>1 DEF Clear, Shapes
<1>5. InPlace(s)
  BY <1>2, <1>3, <1>4 DEF InPlace
<1>6. CASE files[s].directory
  <2>1. /\ deletion' = [deletion EXCEPT ![d] = deletion'[d]] /\ deletion'[d].session = s
        /\ UNCHANGED <<command, outcome>>
    BY <1>1, <1>6 DEF Clear, Shapes
  <2> HIDE DEF s
  <2> QED BY <1>1, <1>5, <2>1 DEF Deleting, s
<1>7. CASE ~files[s].directory
  <2>1. \E what \in {"failed", "raised"} : Told(d, s, what)
    BY <1>7 DEF Clear
  <2> QED BY <1>5, <2>1 DEF Deleting
<1> QED BY <1>6, <1>7

LEMMA ListRestStep ==
  ASSUME Shapes, NEW d \in Deleters, ListRest(d) PROVE Deleting(d, deletion[d].session)
<1> DEFINE s == deletion[d].session
<1>1. s \in Sessions /\ deletion[d].pc # "none"
  BY DEF ListRest, Shapes
<1>2. FilesInPlace(s)
  BY <1>1, FieldsInPlace DEF ListRest
<1>3. InPlace(s)
  BY <1>1, <1>2 DEF InPlace, ListRest, Shapes
<1>4. CASE files[s].directory
  <2>1. /\ deletion' = [deletion EXCEPT ![d] = deletion'[d]] /\ deletion'[d].session = s
        /\ UNCHANGED <<command, outcome>>
    BY <1>1, <1>4 DEF ListRest, Shapes
  <2> HIDE DEF s
  <2> QED BY <1>1, <1>3, <2>1 DEF Deleting, s
<1>5. CASE ~files[s].directory
  <2>1. Told(d, s, "deleted") /\ ~files'[s].directory
    BY <1>5 DEF ListRest
  <2> QED BY <1>3, <2>1 DEF Deleting
<1> QED BY <1>4, <1>5

LEMMA EraseStep ==
  ASSUME Shapes, NEW d \in Deleters, Erase(d) PROVE Deleting(d, deletion[d].session)
<1> DEFINE s == deletion[d].session
<1>1. s \in Sessions /\ deletion[d].pc # "none"
  BY DEF Erase, Shapes
<1>2. FilesInPlace(s)
  BY <1>1, FieldsInPlace DEF Erase
<1>3. noticed' = [noticed EXCEPT ![s] = @ \cup {"deleted"}]
  BY DEF Erase, Notice
<1>4. noticed' = [noticed EXCEPT ![s] = noticed'[s]] /\ noticed[s] \subseteq noticed'[s]
  <2> HIDE DEF s
  <2> QED BY <1>1, <1>3 DEF Shapes
<1>5. owner' = [owner EXCEPT ![s] = owner'[s]] /\ OwnerShape(owner'[s])
  BY <1>1 DEF Erase, Shapes
<1>6. InPlace(s)
  BY <1>2, <1>4, <1>5 DEF InPlace
<1>7. UNCHANGED <<command, outcome>>
      /\ \E rest : deletion' = [deletion EXCEPT ![d] = [pc |-> "erase", session |-> s, rest |-> rest]]
  BY DEF Erase
<1>8. deletion' = [deletion EXCEPT ![d] = deletion'[d]] /\ deletion'[d].session = s
  BY <1>7 DEF Shapes
<1> HIDE DEF s
<1> QED BY <1>1, <1>6, <1>7, <1>8 DEF Deleting, s

LEMMA RemoveStep ==
  ASSUME Shapes, NEW d \in Deleters, RemoveDirectory(d) PROVE Deleting(d, deletion[d].session)
<1> DEFINE s == deletion[d].session
<1>1. s \in Sessions /\ deletion[d].pc # "none"
  BY DEF RemoveDirectory, Shapes
<1>2. FilesInPlace(s)
  BY <1>1, FieldsInPlace DEF RemoveDirectory
<1>3. InPlace(s)
  BY <1>1, <1>2 DEF InPlace, RemoveDirectory, Shapes
<1>4. \E what \in {"raised", "deleted"} :
        Told(d, s, what) /\ (what = "deleted" => files' = [files EXCEPT ![s] = NoFiles])
  BY DEF RemoveDirectory
<1>5. files' = [files EXCEPT ![s] = NoFiles] => ~files'[s].directory
  BY <1>1 DEF Shapes, NoFiles
<1> QED BY <1>3, <1>4, <1>5 DEF Deleting

\* What another process deletes does not concern the command.
LEMMA DeletingAside ==
  ASSUME Shapes, NEW s \in Sessions, Deleting("another", s)
  PROVE  Shapes' /\ Aside
<1>1. /\ UNCHANGED <<command, outcome>>
      /\ deletion' = [deletion EXCEPT !["another"] = deletion'["another"]]
      /\ deletion'["another"].pc # "none" => deletion'["another"].session \in Sessions
  BY DEF Deleting, Told, NoDeletion, Deleters, Shapes
<1>2. /\ deletion' = [d \in Deleters |-> deletion'[d]] /\ deletion'["command"] = deletion["command"]
      /\ \A d \in Deleters : deletion'[d].pc # "none" => deletion'[d].session \in Sessions
  BY <1>1 DEF Shapes, Deleters
<1>3. InPlace(s)
  BY DEF Deleting
<1> QED BY <1>1, <1>2, <1>3, InPlaceKeeps DEF Shapes, Aside

\* What the command deletes is reported, as deleted only when it is gone; an error of the system
\* ends the command.
LEMMA DeletingSweeps ==
  ASSUME SweepInv, NEW s \in Sessions, Deleting("command", s), command.pc = "delete",
         deletion'["command"].pc # "none" => UNCHANGED command
  PROVE  SweepInv'
<1> USE DEF SweepInv
<1>1. command.does = "delete-all"
  BY DEF CommandType
<1>2. /\ files' = [t \in Sessions |-> files'[t]] /\ \A t \in Sessions : FileShape(files'[t])
      /\ \A t \in Sessions : files'[t].directory => files[t].directory
      /\ owner' = [t \in Sessions |-> owner'[t]] /\ \A t \in Sessions : OwnerShape(owner'[t])
      /\ noticed' = [t \in Sessions |-> noticed'[t]]
      /\ \A t \in Sessions : noticed[t] \subseteq noticed'[t]
  BY InPlaceKeeps DEF Deleting
<1>3. \A t \in Sessions : Remains(t)' => Remains(t)
  BY <1>2 DEF Remains
<1>4. /\ deletion' = [d \in Deleters |-> deletion'[d]]
      /\ \A d \in Deleters : deletion'[d].pc # "none" => deletion'[d].session \in Sessions
  BY DEF Deleting, Told, NoDeletion, Deleters, Shapes
<1>5. CASE UNCHANGED <<command, outcome>>
  <2>1. Shapes' /\ CommandType'
    BY <1>2, <1>4, <1>5 DEF Shapes, CommandType
  <2>2. \A t \in Sessions : Accounted(t) => Accounted(t)'
    BY <1>5 DEF Accounted
  <2>3. Sweeping'
    BY <1>3, <1>5, <2>2 DEF Sweeping
  <2> QED BY <2>1, <2>3
<1>6. ASSUME NEW what \in {"failed", "raised", "deleted"},
             Told("command", s, what), what = "deleted" => ~files'[s].directory
      PROVE  SweepInv'
  <2>1. /\ outcome' = [outcome EXCEPT ![s] = what]
        /\ command' = IF what = "raised" THEN To("ended") ELSE command
        /\ deletion'["command"].pc = "none"
    BY <1>6 DEF Told, Deleters, NoDeletion, Shapes
  <2>2. /\ CommandShape(command') /\ command'.does = "delete-all"
        /\ command'.pc = IF what = "raised" THEN "ended" ELSE "delete"
        /\ command'.listed = command.listed /\ command'.todo = command.todo
        /\ command'.loading = command.loading
    BY <1>1, <2>1 DEF To, CommandShape, Shapes
  <2>3. Shapes'
    BY <1>2, <1>4, <2>1, <2>2 DEF Shapes
  <2>4. CommandType'
    BY <1>1, <2>1, <2>2 DEF CommandType, Labels, Summarizing
  <2>5. ASSUME NEW t \in Sessions, Remains(t)' PROVE Accounted(t)'
    <3>1. Remains(t) /\ (t = s => what # "deleted")
      BY <1>3, <1>6, <2>5 DEF Remains
    <3>2. t \in command.listed /\ outcome[t] \in {"none", "failed", "raised"}
      BY <1>1, <3>1 DEF Sweeping, Accounted, Summarizing
    <3>3. CASE what = "raised"
      <4>1. outcome'[s] = "raised" /\ command'.pc = "ended"
        BY <1>6, <2>1, <2>2, <3>3 DEF Shapes
      <4> QED BY <4>1 DEF Accounted, Summarizing
    <3>4. CASE what # "raised"
      <4>1. command'.pc = "delete" /\ t \in command'.listed /\ outcome'[t] \in {"none", "failed", "raised"}
        BY <1>6, <2>1, <2>2, <3>1, <3>2, <3>4 DEF Shapes
      <4> QED BY <4>1 DEF Accounted, Summarizing
    <3> QED BY <3>3, <3>4
  <2>6. Sweeping'
    BY <2>2, <2>5 DEF Sweeping
  <2> QED BY <2>3, <2>4, <2>6
<1> QED BY <1>5, <1>6 DEF Deleting

LEMMA DeletionsSweep ==
  ASSUME SweepInv, Deletions PROVE SweepInv'
<1> USE DEF SweepInv
<1>1. ASSUME NEW s \in Sessions, Delete("another", s) PROVE SweepInv'
  BY <1>1, DeleteStep, DeletingAside, AsideKeeps DEF Deleters
<1>2. ASSUME NEW d \in Deleters, Clear(d) \/ ListRest(d) \/ Erase(d) \/ RemoveDirectory(d) PROVE SweepInv'
  <2>1. Deleting(d, deletion[d].session)
    BY <1>2, ClearStep, ListRestStep, EraseStep, RemoveStep
  <2>2. deletion[d].pc # "none" /\ deletion[d].session \in Sessions
    BY <1>2 DEF Clear, ListRest, Erase, RemoveDirectory, Shapes
  <2>3. CASE d = "another"
    BY <2>1, <2>2, <2>3, DeletingAside, AsideKeeps
  <2>4. CASE d = "command"
    <3>1. command.pc = "delete"
      BY <2>2, <2>4 DEF CommandType
    <3>2. deletion'["command"].pc # "none" => UNCHANGED command
      BY <2>1, <2>4 DEF Deleting, Told, NoDeletion, Deleters, Shapes
    <3> QED BY <2>1, <2>2, <2>4, <3>1, <3>2, DeletingSweeps
  <2> QED BY <2>3, <2>4 DEF Deleters
<1> QED BY <1>1, <1>2 DEF Deletions

-----------------------------------------------------------------------------
(* The command's own steps                                                 *)

\* They read: only the command moves, and what it says.
LEMMA BeginSweeps ==
  ASSUME SweepInv, StartDeleteAll \/ \E s \in Sessions : Show(s) PROVE SweepInv'
<1> USE DEF SweepInv
<1>1. UNCHANGED <<files, owner, made, deletion, outcome>> /\ command.pc = "none"
  BY DEF StartDeleteAll, Show, Begin
<1>2. noticed' = [s \in Sessions |-> noticed'[s]]
  BY DEF StartDeleteAll, Show, Begin
<1>3. CASE StartDeleteAll
  <2>1. /\ CommandShape(command') /\ command'.does = "delete-all" /\ command'.pc = "next"
        /\ command'.listed = {} /\ command'.todo = {s \in Sessions : files[s].directory}
        /\ command'.loading = FALSE
    BY <1>3 DEF StartDeleteAll, Begin, NewCommand, CommandShape
  <2>2. Shapes' /\ CommandType'
    BY <1>1, <1>2, <2>1 DEF Shapes, CommandType, Labels, Summarizing
  <2>3. \A s \in Sessions : Remains(s)' => Accounted(s)'
    BY <1>1, <2>1 DEF Remains, Accounted, Sweeping, Summarizing
  <2>4. Sweeping'
    BY <2>1, <2>3 DEF Sweeping
  <2> QED BY <2>2, <2>4
<1>4. ASSUME NEW s \in Sessions, Show(s) PROVE SweepInv'
  <2>1. /\ CommandShape(command') /\ command'.does = "show" /\ command'.pc = "metadata"
        /\ command'.listed = {} /\ command'.todo = {} /\ command'.session = s
        /\ command'.loading = FALSE
    BY <1>4 DEF Show, Begin, NewCommand, CommandShape
  <2>2. Shapes' /\ CommandType'
    BY <1>1, <1>2, <2>1 DEF Shapes, CommandType, Labels, Summarizing
  <2>3. Sweeping'
    BY <2>1 DEF Sweeping
  <2> QED BY <2>2, <2>3
<1> QED BY <1>3, <1>4

\* How a step that summarizes a session may move the command.
Moves(s) ==
  /\ UNCHANGED <<files, owner, deletion, noticed>>
  /\ CommandShape(command') /\ command'.does = command.does
  /\ command'.todo = command.todo /\ command'.session = command.session
  /\ \/ /\ UNCHANGED outcome /\ command'.pc \in Summarizing /\ UNCHANGED command.listed
        /\ command'.loading \in BOOLEAN /\ (command'.loading => command.does = "show")
     \/ /\ UNCHANGED outcome /\ command'.pc = "next" /\ command'.listed = command.listed \cup {s}
        /\ command.does = "delete-all" /\ UNCHANGED command.loading
     \/ /\ UNCHANGED outcome /\ command'.pc = "load" /\ UNCHANGED <<command.listed, command.loading>>
        /\ command.does = "show"
     \/ /\ \E what \in {"corrupt", "error", "raised", "shown", "inaccessible"} :
             /\ outcome' = [outcome EXCEPT ![s] = what]
             /\ what # "raised" => command.does = "show"
        /\ command'.pc = "ended" /\ UNCHANGED <<command.listed, command.loading>>

LEMMA SummarizedMoves ==
  ASSUME Shapes, CommandType, UNCHANGED <<files, owner, deletion, noticed>>,
         command.pc \in Summarizing, NEW health \in {"ok", "corrupt", "inaccessible"},
         Summarized(command.session, health)
  PROVE  Moves(command.session)
<1> USE DEF Shapes, CommandShape
<1>1. CASE command.does = "show" /\ health = "ok"
  BY <1>1 DEF Summarized, Moves, To
<1>2. CASE command.does = "show" /\ health # "ok"
  BY <1>2 DEF Summarized, Moves, To, End
<1>3. CASE command.does # "show"
  <2>1. command.does = "delete-all"
    BY <1>3 DEF CommandType, Summarizing
  <2> QED BY <1>3, <2>1 DEF Summarized, Moves, To
<1> QED BY <1>1, <1>2, <1>3

LEMMA RowsMove ==
  ASSUME Shapes, CommandType, UNCHANGED <<files, owner, deletion, noticed>>,
         command.pc \in Summarizing, NEW rows, HaveRows(command.session, rows)
  PROVE  Moves(command.session)
<1> USE DEF Shapes, CommandShape
<1>1. CASE command.loading
  BY <1>1 DEF HaveRows, Moves, To, CommandType
<1>2. CASE ~command.loading
  BY <1>2, SummarizedMoves DEF HaveRows
<1> QED BY <1>1, <1>2

LEMMA ReadMoves ==
  ASSUME Shapes, CommandType, ReadSession
  PROVE  Moves(command.session)
<1> USE DEF Shapes, CommandShape
<1>1. UNCHANGED <<files, owner, deletion, noticed>> /\ command.pc \in Summarizing \cup {"load"}
  BY DEF ReadSession, ReadMetadata, Load, Look, ListNames, TestName, ReadFile, Reading, Summarizing
<1>2. CASE ReadMetadata
  <2>1. command.pc = "metadata"
    BY <1>2 DEF ReadMetadata, Reading
  <2>2. CASE files[command.session].metadata
    BY <1>1, <1>2, <2>1, <2>2 DEF ReadMetadata, Moves, To, Summarizing, CommandType
  <2>3. CASE ~files[command.session].metadata
    <3>1. Summarized(command.session, "corrupt")
      BY <1>2, <2>3 DEF ReadMetadata
    <3> QED BY <1>1, <2>1, <3>1, SummarizedMoves DEF Summarizing
  <2> QED BY <2>2, <2>3
<1>3. CASE Load
  BY <1>1, <1>3 DEF Load, Reading, Moves, To, Summarizing, CommandType, End
<1>4. CASE Look
  <2>1. command.pc = "look"
    BY <1>4 DEF Look, Reading
  <2>2. CASE files[command.session].messages # NoMessages
    BY <1>1, <1>4, <2>1, <2>2 DEF Look, Moves, To, Summarizing, CommandType
  <2>3. CASE files[command.session].messages = NoMessages
    <3>1. HaveRows(command.session, <<>>)
      BY <1>4, <2>3 DEF Look
    <3> QED BY <1>1, <2>1, <3>1, RowsMove DEF Summarizing
  <2> QED BY <2>2, <2>3
<1>5. CASE ListNames
  BY <1>1, <1>5 DEF ListNames, Reading, Moves, To, Summarizing, CommandType, End
<1>6. CASE TestName
  BY <1>1, <1>6 DEF TestName, Reading, Moves, Summarizing, CommandType
<1>7. CASE ReadFile
  <2>1. command.pc = "files"
    BY <1>7 DEF ReadFile, Reading
  <2>2. \/ HaveRows(command.session, command.pass.rows)
        \/ UNCHANGED outcome /\ \E pass : command' = [command EXCEPT !.pass = pass]
        \/ command.loading /\ End(command.session, "error")
        \/ Summarized(command.session, "inaccessible")
    BY <1>7 DEF ReadFile
  <2>3. CASE HaveRows(command.session, command.pass.rows)
    BY <1>1, <2>1, <2>3, RowsMove DEF Summarizing
  <2>4. CASE UNCHANGED outcome /\ \E pass : command' = [command EXCEPT !.pass = pass]
    BY <1>1, <2>1, <2>4 DEF Moves, Summarizing, CommandType
  <2>5. CASE command.loading /\ End(command.session, "error")
    BY <1>1, <2>1, <2>5 DEF Moves, End, To, CommandType
  <2>6. CASE Summarized(command.session, "inaccessible")
    BY <1>1, <2>1, <2>6, SummarizedMoves DEF Summarizing
  <2> QED BY <2>2, <2>3, <2>4, <2>5, <2>6
<1> QED BY <1>2, <1>3, <1>4, <1>5, <1>6, <1>7 DEF ReadSession

LEMMA ReadSweeps ==
  ASSUME SweepInv, ReadSession PROVE SweepInv'
<1> USE DEF SweepInv
<1> DEFINE s == command.session
<1>1. Moves(s)
  BY ReadMoves
<1>2. command.pc \in Summarizing \cup {"load"} /\ s \in Sessions
  BY DEF ReadSession, ReadMetadata, Load, Look, ListNames, TestName, ReadFile, Reading, Summarizing, CommandType
<1> HIDE DEF s
<1>3. Shapes'
  BY <1>1, <1>2 DEF Moves, Shapes
<1>4. CommandType'
  BY <1>1, <1>2 DEF Moves, CommandType, Labels, Summarizing
<1>5. ASSUME command.does = "delete-all", NEW t \in Sessions, Remains(t)' PROVE Accounted(t)'
  <2>1. Remains(t) /\ command.pc \in Summarizing
    BY <1>1, <1>2, <1>5 DEF Remains, Moves, CommandType
  <2>2. outcome[t] = "none" /\ (t \in command.todo \cup command.listed \/ t = s)
    BY <1>5, <2>1 DEF Sweeping, Accounted, Summarizing, s
  <2>3. CASE command'.pc \in Summarizing
    BY <1>1, <1>5, <2>2, <2>3 DEF Moves, Accounted, Summarizing, s
  <2>4. CASE command'.pc = "next"
    BY <1>1, <1>5, <2>2, <2>4 DEF Moves, Accounted, Summarizing, s
  <2>5. CASE command'.pc \notin Summarizing \cup {"next"}
    <3>1. command'.pc = "ended" /\ outcome'[s] = "raised"
      BY <1>1, <1>2, <1>5, <2>5 DEF Moves, Shapes
    <3> QED BY <1>2, <3>1 DEF Accounted, Summarizing
  <2> QED BY <2>3, <2>4, <2>5
<1>6. Sweeping'
  <2>1. command'.pc # "none" /\ command'.does = command.does
    BY <1>1 DEF Moves, Summarizing
  <2> QED BY <1>5, <2>1 DEF Sweeping
<1> QED BY <1>3, <1>4, <1>6

LEMMA SummarizeSweeps ==
  ASSUME SweepInv, NEW s \in Sessions, Summarize(s) PROVE SweepInv'
<1> USE DEF SweepInv
<1>1. /\ command.pc = "next" /\ command.does = "delete-all" /\ s \in command.todo
      /\ UNCHANGED <<files, owner, made, deletion, noticed, outcome>>
  BY DEF Summarize, Reading, CommandType
<1>2. /\ CommandShape(command') /\ command'.does = "delete-all"
      /\ command'.pc = IF IsListed(s) THEN "metadata" ELSE "next"
      /\ command'.listed = command.listed /\ command'.todo = command.todo \ {s} /\ command'.session = s
      /\ command'.loading = command.loading
  <2>1. PICK label : label = IF IsListed(s) THEN "metadata" ELSE "next"
    OBVIOUS
  <2>2. command' = [[To(label) EXCEPT !.session = s] EXCEPT !.todo = @ \ {s}]
    BY <2>1 DEF Summarize
  <2> QED BY <1>1, <2>1, <2>2 DEF To, Shapes, CommandShape
<1>3. Shapes' /\ CommandType'
  BY <1>1, <1>2 DEF Shapes, CommandType, Labels, Summarizing
<1>4. ASSUME NEW t \in Sessions, Remains(t)' PROVE Accounted(t)'
  <2>1. Remains(t) /\ outcome[t] = "none" /\ t \in command.todo \cup command.listed
    BY <1>1, <1>4 DEF Remains, Sweeping, Accounted, Summarizing
  <2>2. t = s => IsListed(s)
    BY <2>1 DEF Remains, IsListed
  <2> QED BY <1>1, <1>2, <2>1, <2>2 DEF Accounted, Summarizing
<1>5. Sweeping'
  BY <1>2, <1>4 DEF Sweeping
<1> QED BY <1>3, <1>5

LEMMA StartDeletingSweeps ==
  ASSUME SweepInv, StartDeleting PROVE SweepInv'
<1> USE DEF SweepInv
<1>1. /\ command.pc = "next" /\ command.does = "delete-all" /\ command.todo = {}
      /\ UNCHANGED <<files, owner, made, deletion, noticed, outcome>>
  BY DEF StartDeleting, Reading, CommandType
<1>2. /\ CommandShape(command') /\ command'.does = "delete-all" /\ command'.pc = "delete"
      /\ command'.listed = command.listed /\ command'.todo = command.todo
      /\ command'.loading = command.loading
  BY <1>1 DEF StartDeleting, To, Shapes, CommandShape
<1>3. Shapes' /\ CommandType'
  BY <1>1, <1>2 DEF Shapes, CommandType, Labels, Summarizing
<1>4. ASSUME NEW t \in Sessions, Remains(t)' PROVE Accounted(t)'
  BY <1>1, <1>2, <1>4 DEF Remains, Sweeping, Accounted, Summarizing
<1>5. Sweeping'
  BY <1>2, <1>4 DEF Sweeping
<1> QED BY <1>3, <1>5

LEMMA EndSweeps ==
  ASSUME SweepInv, EndDeleteAll PROVE SweepInv'
<1> USE DEF SweepInv
<1>1. /\ command.pc = "delete" /\ command.does = "delete-all" /\ deletion["command"].pc = "none"
      /\ \A s \in command.listed : outcome[s] # "none"
      /\ UNCHANGED <<files, owner, made, deletion, noticed, outcome>>
  BY DEF EndDeleteAll, Reading, CommandType
<1>2. /\ CommandShape(command') /\ command'.does = "delete-all" /\ command'.pc = "ended"
      /\ command'.listed = command.listed /\ command'.todo = command.todo
      /\ command'.loading = command.loading
  BY <1>1 DEF EndDeleteAll, To, Shapes, CommandShape
<1>3. Shapes' /\ CommandType'
  BY <1>1, <1>2 DEF Shapes, CommandType, Labels, Summarizing
<1>4. ASSUME NEW t \in Sessions, Remains(t)' PROVE Accounted(t)'
  BY <1>1, <1>2, <1>4 DEF Remains, Sweeping, Accounted, Summarizing
<1>5. Sweeping'
  BY <1>2, <1>4 DEF Sweeping
<1> QED BY <1>3, <1>5

LEMMA CommandSweeps ==
  ASSUME SweepInv, Command PROVE SweepInv'
<1> USE DEF SweepInv
<1>1. ASSUME NEW s \in Sessions, DeleteListed(s) PROVE SweepInv'
  <2>1. command.pc = "delete" /\ Delete("command", s)
    BY <1>1 DEF DeleteListed
  <2>2. Deleting("command", s)
    BY <2>1, DeleteStep DEF Deleters
  <2>3. deletion'["command"].pc # "none" => UNCHANGED command
    BY <2>1 DEF Delete, Told, NoDeletion, Deleters, Shapes
  <2> QED BY <2>1, <2>2, <2>3, DeletingSweeps
<1>2. ASSUME NEW s \in Sessions, Summarize(s) PROVE SweepInv'
  BY <1>2, SummarizeSweeps
<1> QED BY <1>1, <1>2, BeginSweeps, ReadSweeps, StartDeletingSweeps, EndSweeps DEF Command

LEMMA InitSweeps == ASSUME InspectionInit PROVE SweepInv
BY DEF InspectionInit, SweepInv, Shapes, CommandType, Sweeping, FileShape, OwnerShape, CommandShape,
  NoFiles, NoOwner, NoDeletion, NewCommand, Deleters, Labels, Summarizing

LEMMA NextSweeps ==
  ASSUME SweepInv, [InspectionNext]_inspection PROVE SweepInv'
<1> USE DEF SweepInv
<1>1. CASE Runs
  BY <1>1, RunsAside, AsideKeeps
<1>2. CASE Deletions
  BY <1>2, DeletionsSweep
<1>3. CASE Command
  BY <1>3, CommandSweeps
<1>4. CASE UNCHANGED inspection
  <2>1. UNCHANGED <<files, owner, command, deletion, outcome, noticed>>
    BY <1>4 DEF inspection
  <2> QED BY <2>1 DEF Shapes, CommandType, Sweeping, Remains, Accounted
<1> QED BY <1>1, <1>2, <1>3, <1>4 DEF InspectionNext

\* A delete-all that raises no error and reports no failure (delete_all after list_sessions) has
\* left no session that was there when it began, unless it was made anew since, whatever runs and
\* other deletions do beside it.
THEOREM SweepCompletes == InspectionSpec => []SweepIsComplete
<1>1. SweepInv => SweepIsComplete
  BY DEF SweepInv, Sweeping, Remains, Accounted, SweepIsComplete, Was, Summarizing
<1> QED BY <1>1, InitSweeps, NextSweeps, PTL DEF InspectionSpec

-----------------------------------------------------------------------------
(* show                                                                    *)

Increasing(h) == \A i, j \in DOMAIN h : i < j => h[i] < h[j]

\* A history as runs make it when g groups were made: each is there once, and later ones are larger.
Made(h, g) == h \in Seq(Nat) /\ Increasing(h) /\ \A i \in DOMAIN h : h[i] <= g

\* What a checkpoint leaves: no messages/, or the files of a history.
Packed(content, g) ==
  content = NoMessages \/ (Made(RowsOf(content), g) /\ content = Segments(RowsOf(content)))

\* Where the other deleting process is with a session.
At(s) ==
  IF deletion["another"].pc # "none" /\ deletion["another"].session = s
  THEN deletion["another"].pc ELSE "none"

\* Without a second deleting process: a session with metadata is in order, its owner has what it
\* will write, and a deletion has the session for itself.
InOrder(f, o, at, g) ==
  /\ f.metadata => f.directory /\ Packed(f.messages, g)
  /\ ~f.directory => f = NoFiles
  /\ o.pc \in {"none", "create", "running", "install"}
  /\ o.pc = "none" => o.history = <<>>
  /\ o.pc = "create" => f.directory /\ ~f.metadata /\ f.messages = NoMessages /\ o.history = <<>>
  /\ o.pc \in {"running", "install"} => f.metadata /\ Made(o.history, g)
  /\ o.pc = "install" => f.messages = NoMessages
  /\ at # "none" => f.directory /\ o.pc = "none" /\ (at # "clear" => ~f.metadata)

Ordered ==
  /\ groups \in Nat /\ deletion["another"].pc \in {"none", "clear", "rest", "erase"}
  /\ \A s \in Sessions : InOrder(files[s], owner[s], At(s), groups)

\* How many files a history fills.
Filled(h) == (Len(h) + SegmentSize - 1) \div SegmentSize

\* The pass is at a file of the history: the files before it are read, and the rows are what is
\* in them.
ExactAt(h, pass, next) ==
  /\ next + Len(pass.paths) + Len(pass.names) = Filled(h)
  /\ \A k \in DOMAIN pass.paths : pass.paths[k] = next + k
  /\ \A k \in DOMAIN pass.names : pass.names[k] = next + Len(pass.paths) + k
  /\ pass.names # <<>> => next = 0
  /\ pass.rows = SubSeq(h, 1, Smaller(next * SegmentSize, Len(h)))

Exact(h, pass) == \E next \in 0..Filled(h) : ExactAt(h, pass, next)

\* The rows are rows of the history, in its order, and the files to come have later ones.
Within(h, pass) ==
  /\ Increasing(pass.rows) /\ Increasing(pass.paths) /\ Increasing(pass.names)
  /\ \A k \in DOMAIN pass.paths, l \in DOMAIN pass.names : pass.paths[k] < pass.names[l]
  /\ pass.names # <<>> => pass.rows = <<>>
  /\ \A k \in DOMAIN pass.rows : \E j \in DOMAIN h :
       pass.rows[k] = h[j] /\ \A l \in DOMAIN pass.paths : j <= (pass.paths[l] - 1) * SegmentSize

PassType(pass) ==
  /\ pass = [names |-> pass.names, paths |-> pass.paths, rows |-> pass.rows]
  /\ pass.names \in Seq(Nat \ {0}) /\ pass.paths \in Seq(Nat \ {0}) /\ pass.rows \in Seq(Nat)

\* What show knows of the session it reads.
Knows(s) ==
  /\ owner[s].pc = "install" => Was("swapped", s)
  /\ Was("shortened", s) => Was("swapped", s)
  /\ command.pc # "metadata" /\ ~Was("deleted", s) => files[s].metadata
  /\ command.pc = "names" /\ ~Was("swapped", s) /\ ~Was("deleted", s) => files[s].messages # NoMessages
  /\ command.pc = "files" /\ ~Was("shortened", s) /\ ~Was("deleted", s) =>
       PassType(command.pass) /\ Within(Latest(s), command.pass)
  /\ command.pc = "files" /\ ~Was("swapped", s) /\ ~Was("deleted", s) =>
       files[s].messages # NoMessages /\ Exact(Latest(s), command.pass)

Showing ==
  /\ command.does # "delete-all" => Ordered
  /\ command.does = "show" /\ command.pc # "ended" => Knows(command.session)

ShowInv == SweepInv /\ Showing

\* Arithmetic of the positions of a file.
LEMMA Multiples ==
  /\ \A i \in Nat : i * SegmentSize \in Nat /\ (i + 1) * SegmentSize = i * SegmentSize + SegmentSize
  /\ \A i, j \in Nat : i <= j => i * SegmentSize <= j * SegmentSize
<1>1. PICK z : z = SegmentSize /\ z \in Nat \ {0}
  BY SizesAssumption
<1>2. \A i \in Nat : i * z \in Nat /\ (i + 1) * z = i * z + z
  BY <1>1
<1>3. \A i, d \in Nat : (i + d) * z = i * z + d * z
  BY <1>1
<1>4. ASSUME NEW i \in Nat, NEW j \in Nat, i <= j PROVE i * z <= j * z
  <2>1. PICK d \in Nat : j = i + d
    <3>1. j - i \in Nat /\ j = i + (j - i)
      BY <1>4
    <3> QED BY <3>1
  <2>2. d * z \in Nat /\ i * z \in Nat
    BY <1>2
  <2>3. j * z = i * z + d * z
    BY <1>3, <2>1
  <2> QED BY <2>2, <2>3
<1> QED BY <1>1, <1>2, <1>4

LEMMA FilledUp ==
  ASSUME NEW h, Len(h) \in Nat
  PROVE  /\ Filled(h) \in Nat /\ Len(h) <= Filled(h) * SegmentSize
         /\ \A i \in 1..Filled(h) : (i - 1) * SegmentSize < Len(h)
<1>1. PICK z : z = SegmentSize /\ z \in Nat \ {0}
  BY SizesAssumption
<1>2. PICK n \in Nat : n = Len(h)
  OBVIOUS
<1>3. PICK q : q = (n + z - 1) \div z
  OBVIOUS
<1>4. q \in Nat /\ q * z <= n + z - 1 /\ n + z - 1 < q * z + z
  BY <1>1, <1>3
<1>5. q * z \in Nat
  BY <1>1, <1>4
<1>6. n <= q * z
  BY <1>1, <1>4, <1>5
<1>7. ASSUME NEW i \in 1..q PROVE (i - 1) * z < n
  <2>1. i - 1 \in Nat /\ i - 1 <= q /\ i <= q /\ i \in Nat
    BY <1>4
  <2>2. i * z <= q * z /\ (i - 1) * z \in Nat /\ ((i - 1) + 1) * z = (i - 1) * z + z
    BY <1>1, <1>4, <2>1, Multiples
  <2>3. (i - 1) + 1 = i
    BY <2>1
  <2>4. PICK a, b : a = (i - 1) * z /\ b = q * z
    OBVIOUS
  <2> QED BY <1>1, <1>4, <1>5, <2>2, <2>3, <2>4
<1> QED BY <1>1, <1>2, <1>3, <1>4, <1>6, <1>7 DEF Filled

\* A file holds the groups of its positions.
LEMMA SegmentIs ==
  ASSUME NEW h \in Seq(Nat)
  PROVE  /\ DOMAIN Segments(h) = 1..Filled(h) /\ Segments(h) \in Seq(Seq(Nat)) /\ Segments(h) # NoMessages
         /\ Filled(h) \in Nat /\ Len(Segments(h)) = Filled(h)
         /\ \A i \in 1..Filled(h) :
              Segments(h)[i] = SubSeq(h, (i - 1) * SegmentSize + 1, Smaller(i * SegmentSize, Len(h)))
<1>1. Filled(h) \in Nat
  BY FilledUp
<1>2. Segments(h) = [i \in 1..Filled(h) |->
         SubSeq(h, (i - 1) * SegmentSize + 1, Smaller(i * SegmentSize, Len(h)))]
  BY DEF Segments, Filled
<1>3. ASSUME NEW i \in 1..Filled(h)
      PROVE  SubSeq(h, (i - 1) * SegmentSize + 1, Smaller(i * SegmentSize, Len(h))) \in Seq(Nat)
  <2>1. i \in Nat /\ i - 1 \in Nat
    BY <1>1
  <2>2. i * SegmentSize \in Nat /\ (i - 1) * SegmentSize \in Nat
    BY <2>1, Multiples
  <2>3. PICK a, b : a = (i - 1) * SegmentSize + 1 /\ b = Smaller(i * SegmentSize, Len(h))
    OBVIOUS
  <2>4. a \in Nat \ {0} /\ b \in Nat /\ b <= Len(h)
    BY <2>2, <2>3 DEF Smaller
  <2> QED BY <2>3, <2>4
<1>4. Segments(h) \in Seq(Seq(Nat))
  <2> DEFINE F(i) == SubSeq(h, (i - 1) * SegmentSize + 1, Smaller(i * SegmentSize, Len(h)))
  <2>1. Segments(h) = [i \in 1..Filled(h) |-> F(i)] /\ \A i \in 1..Filled(h) : F(i) \in Seq(Nat)
    BY <1>2, <1>3
  <2> HIDE DEF F
  <2> QED BY <1>1, <2>1
<1>5. Segments(h) # NoMessages
  BY <1>4, NoMessagesAssumption
<1>6. DOMAIN Segments(h) = 1..Filled(h)
  BY <1>2
<1>7. Len(Segments(h)) = Filled(h)
  BY <1>1, <1>4, <1>6
<1> QED BY <1>1, <1>2, <1>4, <1>5, <1>6, <1>7

\* An increasing enumeration of 1..n is the identity.
LEMMA EnumerationIsIdentity ==
  ASSUME NEW n \in Nat, NEW q \in [1..n -> 1..n], \A i, j \in 1..n : i < j => q[i] < q[j]
  PROVE  \A i \in 1..n : q[i] = i
<1> DEFINE Low == {m \in Nat : m \in 1..n => q[m] >= m}
           High == {m \in Nat : m < n => q[n - m] <= n - m}
<1>1. Low = Nat
  <2>1. 0 \in Low
    OBVIOUS
  <2>2. ASSUME NEW m \in Low PROVE m + 1 \in Low
    <3>1. CASE m = 0
      BY <3>1
    <3>2. CASE m # 0 /\ m + 1 <= n
      <4>1. m \in 1..n /\ m + 1 \in 1..n
        BY <3>2
      <4>2. q[m] >= m /\ q[m] < q[m + 1] /\ q[m] \in 1..n /\ q[m + 1] \in 1..n
        BY <4>1
      <4> QED BY <4>1, <4>2
    <3> QED BY <3>1, <3>2
  <2>3. Low \in SUBSET Nat
    OBVIOUS
  <2> HIDE DEF Low
  <2> QED BY <2>1, <2>2, <2>3, SetInduction
<1>2. High = Nat
  <2>1. 0 \in High
    OBVIOUS
  <2>2. ASSUME NEW m \in High PROVE m + 1 \in High
    <3>1. CASE m + 1 < n
      <4>1. n - m \in 1..n /\ n - (m + 1) \in 1..n /\ n - (m + 1) < n - m
        BY <3>1
      <4>2. q[n - m] <= n - m /\ q[n - (m + 1)] < q[n - m] /\ q[n - m] \in 1..n /\ q[n - (m + 1)] \in 1..n
        BY <3>1, <4>1
      <4>3. PICK a, b : a = q[n - m] /\ b = q[n - (m + 1)]
        OBVIOUS
      <4> QED BY <4>1, <4>2, <4>3
    <3>2. CASE ~(m + 1 < n)
      BY <3>2
    <3> QED BY <3>1, <3>2
  <2>3. High \in SUBSET Nat
    OBVIOUS
  <2> HIDE DEF High
  <2> QED BY <2>1, <2>2, <2>3, SetInduction
<1>3. ASSUME NEW i \in 1..n PROVE q[i] = i
  <2>1. i \in Low /\ n - i \in High
    <3>1. i \in Nat /\ n - i \in Nat
      OBVIOUS
    <3> HIDE DEF Low, High
    <3> QED BY <1>1, <1>2, <3>1
  <2>2. n - i < n /\ n - (n - i) = i
    OBVIOUS
  <2>3. q[i] >= i /\ q[i] <= i /\ q[i] \in Nat
    BY <2>1, <2>2
  <2> QED BY <2>3
<1> QED BY <1>3

LEMMA ListingIs ==
  ASSUME NEW m, NEW n \in Nat, DOMAIN m = 1..n
  PROVE  /\ Cardinality(DOMAIN m) = n
         /\ Listing(m) \in [1..n -> 1..n] /\ \A k \in 1..n : Listing(m)[k] = k
<1>1. Cardinality(1..n) = n
  <2>1. Cardinality(1..n) = IF 1 > n THEN 0 ELSE n - 1 + 1
    BY FS_Interval
  <2> QED BY <2>1
<1> DEFINE P(q) == \A i, j \in DOMAIN q : i < j => q[i] < q[j]
           id == [i \in 1..n |-> i]
<1>2. Listing(m) = CHOOSE q \in [1..n -> 1..n] : P(q)
  BY <1>1 DEF Listing
<1>3. id \in [1..n -> 1..n] /\ P(id)
  OBVIOUS
<1>4. Listing(m) \in [1..n -> 1..n] /\ P(Listing(m))
  <2> HIDE DEF P, id
  <2> QED BY <1>2, <1>3
<1>5. PICK q \in [1..n -> 1..n] : q = Listing(m)
  BY <1>4
<1>6. \A i, j \in 1..n : i < j => q[i] < q[j]
  BY <1>4, <1>5
<1>7. \A i \in 1..n : q[i] = i
  BY <1>6, EnumerationIsIdentity
<1> QED BY <1>1, <1>5, <1>7

LEMMA SubSeqJoin ==
  ASSUME NEW T, NEW h \in Seq(T), NEW a \in Nat, NEW b \in Nat, a <= b, b <= Len(h)
  PROVE  SubSeq(h, 1, a) \o SubSeq(h, a + 1, b) = SubSeq(h, 1, b)
<1>1. 1 \in 1..Len(h) + 1 /\ a \in 1 - 1..Len(h) /\ b \in a..Len(h)
  OBVIOUS
<1> QED BY <1>1, ConcatAdjacentSubSeq

\* Reading the files of a history in the order of their names gives the history.
LEMMA RowsOfSegments ==
  ASSUME NEW h \in Seq(Nat)
  PROVE  RowsOf(Segments(h)) = h
<1>1. PICK m : m = Segments(h)
  OBVIOUS
<1>2. PICK N : N = Filled(h)
  OBVIOUS
<1>3. /\ DOMAIN m = 1..N /\ m \in Seq(Seq(Nat)) /\ m # NoMessages /\ N \in Nat /\ Len(m) = N
      /\ \A i \in 1..N :
           m[i] = SubSeq(h, (i - 1) * SegmentSize + 1, Smaller(i * SegmentSize, Len(h)))
  BY <1>1, <1>2, SegmentIs
<1>4. Cardinality(DOMAIN m) = N /\ \A k \in 1..N : Listing(m)[k] = k
  BY <1>3, ListingIs
<1>5. RowsOf(m) = FlattenSeq(m)
  <2>1. [k \in 1..Cardinality(DOMAIN m) |-> m[Listing(m)[k]]] = [k \in 1..N |-> m[k]]
    BY <1>4
  <2>2. m = [k \in 1..N |-> m[k]]
    BY <1>3
  <2> QED BY <1>3, <2>1, <2>2 DEF RowsOf
<1>6. Len(h) <= N * SegmentSize /\ \A i \in 1..N : (i - 1) * SegmentSize < Len(h)
  BY <1>2, FilledUp
<1>7. CASE N = 0
  <2>1. Len(h) = 0
    <3>1. 0 * SegmentSize = 0
      BY SizesAssumption
    <3> QED BY <1>6, <1>7, <3>1
  <2>2. h = <<>> /\ m = <<>>
    BY <1>3, <1>7, <2>1
  <2>3. FlattenSeq(m) = m
    BY <1>3, <1>7 DEF FlattenSeq
  <2> QED BY <1>1, <1>5, <2>2, <2>3
<1>8. CASE N # 0
  <2>1. PICK f : Flattens(f, m, N) /\ FlattenSeq(m) = f[N]
    <3>1. Len(m) \in Nat \ {0}
      BY <1>3, <1>8
    <3> QED BY <1>3, <3>1, FlattenIsLast
  <2>2. \A i \in 1..N : f[i] = IF i = 1 THEN m[i] ELSE f[i - 1] \o m[i]
    BY <2>1 DEF Flattens
  <2> DEFINE M == {i \in Nat : i + 1 \in 1..N =>
                      f[i + 1] = SubSeq(h, 1, Smaller((i + 1) * SegmentSize, Len(h)))}
  <2>3. 0 \in M
    <3>1. 1 \in 1..N
      BY <1>3, <1>8
    <3>2. (1 - 1) * SegmentSize + 1 = 1
      BY SizesAssumption
    <3>3. f[1] = m[1]
      BY <2>2, <3>1
    <3>4. m[1] = SubSeq(h, (1 - 1) * SegmentSize + 1, Smaller(1 * SegmentSize, Len(h)))
      BY <1>3, <3>1
    <3>5. f[1] = SubSeq(h, 1, Smaller(1 * SegmentSize, Len(h)))
      BY <3>2, <3>3, <3>4
    <3>6. 0 + 1 = 1
      OBVIOUS
    <3> QED BY <3>5, <3>6
  <2>4. ASSUME NEW i \in M PROVE i + 1 \in M
    <3>1. PICK n : n = (i + 1) + 1
      OBVIOUS
    <3>2. SUFFICES ASSUME n \in 1..N PROVE f[n] = SubSeq(h, 1, Smaller(n * SegmentSize, Len(h)))
      BY <3>1
    <3>3. i \in Nat /\ i + 1 \in 1..N /\ n # 1 /\ n - 1 = i + 1 /\ i + 1 \in Nat /\ n \in Nat
      BY <3>1, <3>2, <1>3
    <3>4. f[n] = f[n - 1] \o m[n]
      BY <2>2, <3>2, <3>3
    <3>5. f[n - 1] = SubSeq(h, 1, Smaller((n - 1) * SegmentSize, Len(h)))
      BY <3>3
    <3>6. m[n] = SubSeq(h, (n - 1) * SegmentSize + 1, Smaller(n * SegmentSize, Len(h)))
      BY <1>3, <3>2
    <3>7. PICK a, b : a = (n - 1) * SegmentSize /\ b = Smaller(n * SegmentSize, Len(h))
      OBVIOUS
    <3>8. a \in Nat /\ n * SegmentSize \in Nat /\ a <= n * SegmentSize
      BY <3>3, <3>7, Multiples
    <3>9. a < Len(h)
      BY <1>6, <3>2, <3>7
    <3>10. Smaller(a, Len(h)) = a /\ a <= b /\ b <= Len(h) /\ b \in Nat
      BY <3>7, <3>8, <3>9 DEF Smaller
    <3>11. SubSeq(h, 1, a) \o SubSeq(h, a + 1, b) = SubSeq(h, 1, b)
      BY <3>8, <3>10, SubSeqJoin
    <3> QED BY <3>4, <3>5, <3>6, <3>7, <3>10, <3>11
  <2>5. M = Nat
    <3>1. M \in SUBSET Nat
      OBVIOUS
    <3> HIDE DEF M
    <3> QED BY <2>3, <2>4, <3>1, SetInduction
  <2>6. f[N] = SubSeq(h, 1, Smaller(N * SegmentSize, Len(h)))
    <3>1. N - 1 \in Nat /\ (N - 1) + 1 = N
      BY <1>3, <1>8
    <3>2. N - 1 \in M
      BY <2>5, <3>1
    <3> QED BY <1>3, <1>8, <3>1, <3>2
  <2>7. Smaller(N * SegmentSize, Len(h)) = Len(h)
    <3>1. N * SegmentSize \in Nat
      BY <1>3, Multiples
    <3> QED BY <1>6, <3>1 DEF Smaller
  <2>8. SubSeq(h, 1, Len(h)) = h
    OBVIOUS
  <2> QED BY <1>1, <1>5, <2>1, <2>6, <2>7, <2>8
<1> QED BY <1>3, <1>7, <1>8
LEMMA MadeEmpty == ASSUME NEW g PROVE Made(<<>>, g)
BY DEF Made, Increasing

LEMMA MadeGrows == ASSUME NEW g \in Nat, NEW k \in Nat, g <= k, NEW h, Made(h, g) PROVE Made(h, k)
<1>1. \A i \in DOMAIN h : h[i] \in Nat
  BY DEF Made
<1> QED BY <1>1 DEF Made

LEMMA PackedGrows ==
  ASSUME NEW g \in Nat, NEW k \in Nat, g <= k, NEW m, Packed(m, g) PROVE Packed(m, k)
BY MadeGrows DEF Packed

LEMMA MadeAppend ==
  ASSUME NEW g \in Nat, NEW h, Made(h, g) PROVE Made(Append(h, g + 1), g + 1)
<1>1. h \in Seq(Nat) /\ Increasing(h) /\ \A i \in 1..Len(h) : h[i] <= g
  BY DEF Made
<1>2. PICK z : z = Append(h, g + 1)
  OBVIOUS
<1>3. z \in Seq(Nat) /\ Len(z) = Len(h) + 1 /\ (\A i \in 1..Len(h) : z[i] = h[i]) /\ z[Len(h) + 1] = g + 1
  BY <1>1, <1>2, AppendProperties
<1>4. \A i \in DOMAIN z : i \in 1..Len(h) \/ i = Len(h) + 1
  BY <1>1, <1>3
<1>5. \A i \in DOMAIN z : z[i] <= g + 1 /\ (i \in 1..Len(h) => z[i] <= g)
  BY <1>1, <1>3, <1>4
<1>6. ASSUME NEW i \in DOMAIN z, NEW j \in DOMAIN z, i < j PROVE z[i] < z[j]
  <2>1. i \in 1..Len(h) /\ DOMAIN h = 1..Len(h)
    BY <1>1, <1>3, <1>4, <1>6
  <2>2. z[i] \in Nat /\ z[j] \in Nat
    BY <1>3
  <2>3. CASE j \in 1..Len(h)
    BY <1>1, <1>3, <1>6, <2>1, <2>3 DEF Increasing
  <2>4. CASE j = Len(h) + 1
    BY <1>1, <1>3, <1>5, <2>1, <2>2, <2>4
  <2> QED BY <1>4, <2>3, <2>4
<1> QED BY <1>2, <1>3, <1>5, <1>6 DEF Made, Increasing

\* A window of a history is one.
LEMMA MadeNewest ==
  ASSUME NEW g \in Nat, NEW h, Made(h, g) PROVE Made(Newest(h), g)
<1>1. h \in Seq(Nat) /\ Increasing(h) /\ \A i \in 1..Len(h) : h[i] <= g
  BY DEF Made
<1>2. PICK n \in Nat : n = Smaller(Len(h), ReplaySize) /\ n <= Len(h)
  BY <1>1, SizesAssumption DEF Smaller
<1>3. PICK d \in Nat : d = Len(h) - n
  BY <1>1, <1>2
<1>4. PICK z : z = SubSeq(h, d + 1, Len(h))
  OBVIOUS
<1>5. Newest(h) = z
  BY <1>2, <1>3, <1>4 DEF Newest
<1>6. z \in Seq(Nat) /\ Len(z) = n /\ \A i \in 1..n : z[i] = h[d + i] /\ d + i \in 1..Len(h)
  <2>1. PICK l \in Nat : l = Len(h) /\ l = d + n /\ d + 1 \in Int
    BY <1>1, <1>2, <1>3
  <2>2. \A i \in d + 1..l : h[i] \in Nat
    <3>1. \A i \in 1..l : h[i] \in Nat
      <4>1. h \in Seq(Nat) /\ l = Len(h)
        BY <1>1, <2>1
      <4> QED BY <4>1, ElementOfSeq
    <3>2. \A i \in d + 1..l : i \in 1..l
      BY <2>1
    <3> QED BY <3>1, <3>2
  <2>3. /\ z \in Seq(Nat) /\ Len(z) = IF d + 1 <= l THEN l - (d + 1) + 1 ELSE 0
        /\ \A i \in 1..l - (d + 1) + 1 : z[i] = h[d + 1 + i - 1]
    BY <1>4, <2>1, <2>2, SubSeqProperties
  <2>4. Len(z) = n /\ l - (d + 1) + 1 = n
    BY <2>1, <2>3
  <2>5. \A i \in 1..n : d + 1 + i - 1 = d + i /\ d + i \in 1..l
    BY <2>1
  <2> QED BY <2>1, <2>3, <2>4, <2>5
<1>7. ASSUME NEW i \in DOMAIN z, NEW j \in DOMAIN z, i < j PROVE z[i] < z[j]
  <2>1. i \in 1..n /\ j \in 1..n /\ DOMAIN h = 1..Len(h)
    BY <1>1, <1>6
  <2>2. d + i < d + j /\ d + i \in DOMAIN h /\ d + j \in DOMAIN h
    BY <1>6, <1>7, <2>1
  <2> QED BY <1>1, <1>6, <2>1, <2>2 DEF Increasing
<1>8. \A i \in DOMAIN z : z[i] <= g
  <2>1. DOMAIN z = 1..n
    BY <1>6
  <2>2. \A k \in 1..Len(h) : h[k] <= g
    BY <1>1
  <2> QED BY <1>6, <2>1, <2>2
<1> QED BY <1>5, <1>6, <1>7, <1>8 DEF Made, Increasing

LEMMA SegmentsPacked ==
  ASSUME NEW g, NEW h, Made(h, g)
  PROVE  Packed(Segments(h), g) /\ RowsOf(Segments(h)) = h /\ Segments(h) # NoMessages
<1>1. h \in Seq(Nat)
  BY DEF Made
<1>2. RowsOf(Segments(h)) = h /\ Segments(h) # NoMessages
  BY <1>1, RowsOfSegments, SegmentIs
<1> QED BY <1>2 DEF Packed

LEMMA RowsMade == ASSUME NEW g, NEW m, Packed(m, g) PROVE Made(RowsOf(m), g)
<1>1. CASE m = NoMessages
  <2>1. RowsOf(m) = <<>>
    BY <1>1 DEF RowsOf
  <2> QED BY <2>1, MadeEmpty
<1>2. CASE m # NoMessages
  BY <1>2 DEF Packed
<1> QED BY <1>1, <1>2

LEMMA InOrderGrows ==
  ASSUME NEW g \in Nat, NEW k \in Nat, g <= k, NEW f, NEW o, NEW at, InOrder(f, o, at, g)
  PROVE  InOrder(f, o, at, k)
BY MadeGrows, PackedGrows DEF InOrder

\* A step on one session leaves the order of the others.
LEMMA OrderedKeeps ==
  ASSUME Ordered, Shapes, NEW s \in Sessions,
         \A t \in Sessions \ {s} : files'[t] = files[t] /\ owner'[t] = owner[t] /\ At(t)' = At(t),
         groups' \in Nat, groups <= groups', deletion'["another"].pc \in {"none", "clear", "rest", "erase"},
         InOrder(files'[s], owner'[s], At(s)', groups')
  PROVE  Ordered'
<1>1. ASSUME NEW t \in Sessions \ {s} PROVE InOrder(files'[t], owner'[t], At(t)', groups')
  BY <1>1, InOrderGrows DEF Ordered
<1> QED BY <1>1 DEF Ordered

LEMMA AtKeeps == ASSUME UNCHANGED deletion PROVE \A t : At(t)' = At(t)
BY DEF At

\* One step per action of a run.
LEMMA CreateOrdered == ASSUME Ordered, Shapes, NEW s \in Sessions, Create(s) PROVE Ordered'
<1>1. PICK f, o, at : f = files[s] /\ o = owner[s] /\ at = At(s)
  OBVIOUS
<1>2. InOrder(f, o, at, groups) /\ FileShape(f) /\ OwnerShape(o)
  BY <1>1 DEF Ordered, Shapes
<1>3. f = NoFiles /\ o.pc = "none" /\ at = "none" /\ o.history = <<>>
  <2>1. ~f.directory /\ f = NoFiles
    BY <1>1, <1>2 DEF Create, InOrder
  <2>2. ~f.directory /\ ~f.metadata
    BY <2>1 DEF NoFiles
  <2> QED BY <1>2, <2>1, <2>2 DEF InOrder
<1>4. files'[s] = [f EXCEPT !.directory = TRUE] /\ owner'[s] = [o EXCEPT !.pc = "create"]
  BY <1>1 DEF Create, Shapes
<1>5. \A t \in Sessions \ {s} : files'[t] = files[t] /\ owner'[t] = owner[t]
  BY DEF Create, Shapes
<1>6. /\ files'[s].directory /\ ~files'[s].metadata /\ files'[s].messages = NoMessages
      /\ owner'[s].pc = "create" /\ owner'[s].history = <<>>
  BY <1>2, <1>3, <1>4 DEF NoFiles, OwnerShape
<1>7. InOrder(files'[s], owner'[s], at, groups)
  BY <1>3, <1>6 DEF InOrder
<1>8. UNCHANGED <<groups, deletion>>
  BY DEF Create
<1> QED BY <1>1, <1>5, <1>7, <1>8, AtKeeps, OrderedKeeps DEF Ordered

LEMMA CreateFilesOrdered == ASSUME Ordered, Shapes, NEW s \in Sessions, CreateFiles(s) PROVE Ordered'
<1>1. PICK f, o, at : f = files[s] /\ o = owner[s] /\ at = At(s)
  OBVIOUS
<1>2. InOrder(f, o, at, groups) /\ FileShape(f) /\ OwnerShape(o)
  BY <1>1 DEF Ordered, Shapes
<1>3. o.pc = "create" /\ at = "none" /\ o.history = <<>>
  BY <1>1, <1>2 DEF CreateFiles, InOrder
<1>4. /\ files'[s] = [directory |-> TRUE, metadata |-> TRUE, lock |-> TRUE, messages |-> Segments(<<>>)]
      /\ owner'[s] = [o EXCEPT !.pc = "running"]
  BY <1>1 DEF CreateFiles, Shapes
<1>5. \A t \in Sessions \ {s} : files'[t] = files[t] /\ owner'[t] = owner[t]
  BY DEF CreateFiles, Shapes
<1>6. /\ files'[s].directory /\ files'[s].metadata /\ files'[s].messages = Segments(<<>>)
      /\ owner'[s].pc = "running" /\ owner'[s].history = <<>>
  BY <1>2, <1>3, <1>4 DEF OwnerShape
<1>7. Made(<<>>, groups) /\ Packed(Segments(<<>>), groups)
  BY MadeEmpty, SegmentsPacked
<1>8. InOrder(files'[s], owner'[s], at, groups)
  BY <1>3, <1>6, <1>7 DEF InOrder
<1>9. UNCHANGED <<groups, deletion>>
  BY DEF CreateFiles, made
<1> QED BY <1>1, <1>5, <1>8, <1>9, AtKeeps, OrderedKeeps DEF Ordered

LEMMA ResumeOrdered == ASSUME Ordered, Shapes, NEW s \in Sessions, Resume(s) PROVE Ordered'
<1>1. PICK f, o, at : f = files[s] /\ o = owner[s] /\ at = At(s)
  OBVIOUS
<1>2. InOrder(f, o, at, groups) /\ FileShape(f) /\ OwnerShape(o)
  BY <1>1 DEF Ordered, Shapes
<1>3. f.metadata /\ f.directory /\ Packed(f.messages, groups) /\ at = "none"
  <2>1. f.metadata /\ at # "clear"
    BY <1>1 DEF Resume, Busy, HeldByDeletion, At, Deleters
  <2> QED BY <1>2, <2>1 DEF InOrder
<1>4. /\ files'[s] = [f EXCEPT !.lock = TRUE]
      /\ owner'[s] = [pc |-> "running", history |-> Newest(RowsOf(f.messages))]
  BY <1>1 DEF Resume, Shapes
<1>5. \A t \in Sessions \ {s} : files'[t] = files[t] /\ owner'[t] = owner[t]
  BY DEF Resume, Shapes
<1>6. /\ files'[s].directory /\ files'[s].metadata /\ files'[s].messages = f.messages
      /\ owner'[s].pc = "running" /\ owner'[s].history = Newest(RowsOf(f.messages))
  BY <1>2, <1>3, <1>4 DEF FileShape
<1>7. Made(Newest(RowsOf(f.messages)), groups)
  BY <1>3, RowsMade, MadeNewest DEF Ordered
<1>8. InOrder(files'[s], owner'[s], at, groups)
  BY <1>3, <1>6, <1>7 DEF InOrder
<1>9. UNCHANGED <<groups, deletion>>
  BY DEF Resume, made
<1> QED BY <1>1, <1>5, <1>8, <1>9, AtKeeps, OrderedKeeps DEF Ordered

LEMMA MoveAsideOrdered == ASSUME Ordered, Shapes, NEW s \in Sessions, MoveAside(s) PROVE Ordered'
<1>1. PICK f, o, at : f = files[s] /\ o = owner[s] /\ at = At(s)
  OBVIOUS
<1>2. InOrder(f, o, at, groups) /\ FileShape(f) /\ OwnerShape(o)
  BY <1>1 DEF Ordered, Shapes
<1>3. o.pc = "running" /\ f.directory /\ f.metadata /\ at = "none" /\ Made(o.history, groups)
  BY <1>1, <1>2 DEF MoveAside, InOrder
<1>4. /\ files'[s] = [f EXCEPT !.messages = NoMessages]
      /\ owner'[s] = [pc |-> "install", history |-> Append(o.history, groups + 1)]
      /\ groups' = groups + 1
  BY <1>1 DEF MoveAside, Shapes
<1>5. \A t \in Sessions \ {s} : files'[t] = files[t] /\ owner'[t] = owner[t]
  BY DEF MoveAside, Shapes
<1>6. /\ files'[s].directory /\ files'[s].metadata /\ files'[s].messages = NoMessages
      /\ owner'[s].pc = "install" /\ owner'[s].history = Append(o.history, groups + 1)
  BY <1>2, <1>3, <1>4 DEF FileShape
<1>7. groups \in Nat /\ groups' \in Nat /\ groups <= groups'
  BY <1>4 DEF Ordered
<1>8. Made(owner'[s].history, groups') /\ Packed(NoMessages, groups')
  BY <1>3, <1>4, <1>6, <1>7, MadeAppend DEF Packed
<1>9. InOrder(files'[s], owner'[s], at, groups')
  BY <1>3, <1>6, <1>8 DEF InOrder
<1>10. UNCHANGED deletion
  BY DEF MoveAside
<1> QED BY <1>1, <1>5, <1>7, <1>9, <1>10, AtKeeps, OrderedKeeps DEF Ordered

LEMMA InstallOrdered == ASSUME Ordered, Shapes, NEW s \in Sessions, Install(s) PROVE Ordered'
<1>1. PICK f, o, at : f = files[s] /\ o = owner[s] /\ at = At(s)
  OBVIOUS
<1>2. InOrder(f, o, at, groups) /\ FileShape(f) /\ OwnerShape(o)
  BY <1>1 DEF Ordered, Shapes
<1>3. o.pc = "install" /\ f.directory /\ f.metadata /\ at = "none" /\ Made(o.history, groups)
  BY <1>1, <1>2 DEF Install, InOrder
<1>4. /\ files'[s] = [f EXCEPT !.messages = Segments(o.history)]
      /\ owner'[s] = [o EXCEPT !.pc = "running"]
  BY <1>1 DEF Install, Shapes
<1>5. \A t \in Sessions \ {s} : files'[t] = files[t] /\ owner'[t] = owner[t]
  BY DEF Install, Shapes
<1>6. /\ files'[s].directory /\ files'[s].metadata /\ files'[s].messages = Segments(o.history)
      /\ owner'[s].pc = "running" /\ owner'[s].history = o.history
  BY <1>2, <1>3, <1>4 DEF FileShape, OwnerShape
<1>7. Packed(Segments(o.history), groups)
  BY <1>3, SegmentsPacked
<1>8. InOrder(files'[s], owner'[s], at, groups)
  BY <1>3, <1>6, <1>7 DEF InOrder
<1>9. UNCHANGED <<groups, deletion>>
  BY DEF Install, made
<1> QED BY <1>1, <1>5, <1>8, <1>9, AtKeeps, OrderedKeeps DEF Ordered

LEMMA StopOrdered == ASSUME Ordered, Shapes, NEW s \in Sessions, Stop(s) \/ LateLock(s) PROVE Ordered'
<1>1. PICK f, o, at : f = files[s] /\ o = owner[s] /\ at = At(s)
  OBVIOUS
<1>2. InOrder(f, o, at, groups) /\ FileShape(f) /\ OwnerShape(o)
  BY <1>1 DEF Ordered, Shapes
<1>3. f.metadata => f.directory
  BY <1>2 DEF InOrder
<1>4. \A t \in Sessions \ {s} : files'[t] = files[t] /\ owner'[t] = owner[t]
  BY DEF Stop, LateLock, Shapes
<1>5. CASE Stop(s)
  <2>1. files'[s] = f /\ owner'[s] = NoOwner
    BY <1>1, <1>5 DEF Stop, Shapes
  <2>2. owner'[s].pc = "none" /\ owner'[s].history = <<>>
    BY <2>1 DEF NoOwner
  <2>3. InOrder(files'[s], owner'[s], at, groups)
    BY <1>2, <2>1, <2>2 DEF InOrder
  <2>4. UNCHANGED <<groups, deletion>>
    BY <1>5 DEF Stop, made
  <2> QED BY <1>1, <1>4, <2>3, <2>4, AtKeeps, OrderedKeeps DEF Ordered
<1>6. CASE LateLock(s)
  <2>1. files'[s] = [f EXCEPT !.lock = TRUE] /\ owner'[s] = o /\ f.directory /\ ~f.metadata
    BY <1>1, <1>6 DEF LateLock, Shapes
  <2>2. files'[s].directory /\ ~files'[s].metadata /\ files'[s].messages = f.messages
    BY <1>2, <2>1 DEF FileShape
  <2>3. InOrder(files'[s], owner'[s], at, groups)
    BY <1>2, <2>1, <2>2 DEF InOrder
  <2>4. UNCHANGED <<groups, deletion>>
    BY <1>6 DEF LateLock, made
  <2> QED BY <1>1, <1>4, <2>3, <2>4, AtKeeps, OrderedKeeps DEF Ordered
<1> QED BY <1>5, <1>6

\* The deletion of another process, on the session it has.
LEMMA DeleteOrdered ==
  ASSUME Ordered, Shapes, NEW s \in Sessions, Delete("another", s) PROVE Ordered'
<1>1. PICK f, o, at : f = files[s] /\ o = owner[s] /\ at = At(s)
  OBVIOUS
<1>2. InOrder(f, o, at, groups) /\ FileShape(f) /\ OwnerShape(o)
  BY <1>1 DEF Ordered, Shapes
<1>3. deletion["another"].pc = "none" /\ UNCHANGED <<groups, owner>> /\ "another" \in Deleters
  BY DEF Delete, made, Deleters
<1>4. \A t \in Sessions : At(t) = "none"
  BY <1>3 DEF At
<1>5. CASE files[s].directory /\ ~Busy(s)
  <2>1. /\ deletion' = [deletion EXCEPT !["another"] = [pc |-> "clear", session |-> s]]
        /\ files' = [files EXCEPT ![s].lock = TRUE] /\ o.pc = "none"
    BY <1>1, <1>2, <1>5 DEF Delete, Busy, InOrder
  <2>2. deletion'["another"] = [pc |-> "clear", session |-> s]
    BY <1>3, <2>1 DEF Shapes
  <2>3. At(s)' = "clear" /\ \A t \in Sessions \ {s} : At(t)' = At(t)
    BY <1>4, <2>2 DEF At
  <2>4. files'[s] = [f EXCEPT !.lock = TRUE] /\ \A t \in Sessions \ {s} : files'[t] = files[t]
    BY <1>1, <2>1 DEF Shapes
  <2>5. files'[s].directory /\ (files'[s].metadata <=> f.metadata) /\ files'[s].messages = f.messages
    BY <1>1, <1>2, <1>5, <2>4 DEF FileShape
  <2>6. InOrder(files'[s], owner'[s], "clear", groups')
    BY <1>1, <1>2, <1>3, <2>1, <2>5 DEF InOrder
  <2> QED BY <1>3, <2>2, <2>3, <2>4, <2>6, OrderedKeeps DEF Ordered
<1>6. CASE ~(files[s].directory /\ ~Busy(s))
  <2>1. deletion' = [deletion EXCEPT !["another"] = NoDeletion] /\ UNCHANGED files
    BY <1>6 DEF Delete, Told
  <2>2. deletion'["another"].pc = "none"
    BY <1>3, <2>1 DEF Shapes, NoDeletion
  <2>3. \A t \in Sessions : At(t)' = At(t)
    BY <1>4, <2>2 DEF At
  <2> QED BY <1>3, <2>1, <2>2, <2>3 DEF Ordered
<1> QED BY <1>5, <1>6

\* It has the session for itself: there is a directory and no owner.
LEMMA Deleted ==
  ASSUME Ordered, NEW s \in Sessions, deletion["another"].pc # "none", deletion["another"].session = s
  PROVE  /\ At(s) = deletion["another"].pc /\ files[s].directory /\ owner[s].pc = "none"
         /\ owner[s].history = <<>> /\ (deletion["another"].pc # "clear" => ~files[s].metadata)
BY DEF Ordered, InOrder, At

\* It goes on with the session, or leaves it.
LEMMA DeletionKeeps ==
  ASSUME Ordered, Shapes, NEW s \in Sessions, deletion["another"].pc # "none", deletion["another"].session = s,
         \A t \in Sessions \ {s} : files'[t] = files[t], UNCHANGED <<groups, owner>>,
         NEW at \in {"none", "rest", "erase"}, deletion'["another"].pc = at,
         at # "none" => deletion'["another"].session = s,
         \/ files'[s] = NoFiles /\ at = "none"
         \/ files'[s] = files[s] /\ ~files[s].metadata
         \/ files'[s].directory /\ ~files'[s].metadata
  PROVE  Ordered'
<1>1. /\ files[s].directory /\ owner[s].pc = "none" /\ owner[s].history = <<>>
      /\ InOrder(files[s], owner[s], At(s), groups)
  BY Deleted DEF Ordered
<1>2. At(s)' = at /\ \A t \in Sessions \ {s} : At(t)' = At(t)
  BY DEF At
<1>3. InOrder(files'[s], owner'[s], at, groups')
  BY <1>1 DEF InOrder, NoFiles
<1> QED BY <1>2, <1>3, OrderedKeeps DEF Ordered

LEMMA DeletionOrdered ==
  ASSUME Ordered, Shapes,
         Clear("another") \/ ListRest("another") \/ Erase("another") \/ RemoveDirectory("another")
  PROVE  Ordered'
<1>1. PICK s, f : s = deletion["another"].session /\ f = files[s]
  OBVIOUS
<1>2. /\ "another" \in Deleters /\ UNCHANGED <<groups, owner>> /\ deletion["another"].pc # "none"
      /\ s \in Sessions /\ deletion = [d \in Deleters |-> deletion[d]] /\ FileShape(f)
  BY <1>1 DEF Clear, ListRest, Erase, RemoveDirectory, made, Deleters, Shapes
<1>3. /\ f.directory /\ owner[s].pc = "none"
      /\ (deletion["another"].pc # "clear" => ~f.metadata)
  BY <1>1, <1>2, Deleted
<1>4. CASE Clear("another")
  <2>1. /\ files' = [files EXCEPT ![s].metadata = FALSE]
        /\ deletion' = [deletion EXCEPT !["another"] = [pc |-> "rest", session |-> s]]
    BY <1>1, <1>3, <1>4 DEF Clear
  <2>2. files'[s] = [f EXCEPT !.metadata = FALSE] /\ \A t \in Sessions \ {s} : files'[t] = files[t]
    BY <1>1, <1>2, <2>1 DEF Shapes
  <2>3. files'[s].directory /\ ~files'[s].metadata
    BY <1>2, <1>3, <2>2 DEF FileShape
  <2>4. deletion'["another"].pc = "rest" /\ deletion'["another"].session = s
    BY <1>2, <2>1
  <2> QED BY <1>1, <1>2, <2>2, <2>3, <2>4, DeletionKeeps
<1>5. CASE ListRest("another")
  <2>1. UNCHANGED files /\ ~f.metadata
    BY <1>3, <1>5 DEF ListRest
  <2>2. deletion'["another"].pc = "erase" /\ deletion'["another"].session = s
    BY <1>1, <1>2, <1>3, <1>5 DEF ListRest
  <2> QED BY <1>1, <1>2, <2>1, <2>2, DeletionKeeps
<1>6. CASE Erase("another")
  <2>1. ~f.metadata
    BY <1>3, <1>6 DEF Erase
  <2>2. \/ \E m : files' = [files EXCEPT ![s].messages = m]
        \/ files' = [files EXCEPT ![s].metadata = FALSE]
        \/ files' = [files EXCEPT ![s].lock = FALSE]
    BY <1>1, <1>6 DEF Erase
  <2>3. \A t \in Sessions \ {s} : files'[t] = files[t]
    BY <1>2, <2>2 DEF Shapes
  <2>4. files'[s].directory /\ ~files'[s].metadata
    <3>1. ASSUME NEW m, files' = [files EXCEPT ![s].messages = m]
          PROVE  files'[s].directory /\ ~files'[s].metadata
      <4>1. files'[s] = [f EXCEPT !.messages = m]
        BY <1>1, <1>2, <3>1 DEF Shapes
      <4> QED BY <1>2, <1>3, <2>1, <4>1 DEF FileShape
    <3>2. CASE files' = [files EXCEPT ![s].metadata = FALSE]
      <4>1. files'[s] = [f EXCEPT !.metadata = FALSE]
        BY <1>1, <1>2, <3>2 DEF Shapes
      <4> QED BY <1>2, <1>3, <4>1 DEF FileShape
    <3>3. CASE files' = [files EXCEPT ![s].lock = FALSE]
      <4>1. files'[s] = [f EXCEPT !.lock = FALSE]
        BY <1>1, <1>2, <3>3 DEF Shapes
      <4> QED BY <1>2, <1>3, <2>1, <4>1 DEF FileShape
    <3> QED BY <2>2, <3>1, <3>2, <3>3
  <2>5. \E rest : deletion' = [deletion EXCEPT !["another"] = [pc |-> "erase", session |-> s, rest |-> rest]]
    BY <1>1, <1>6 DEF Erase
  <2>6. deletion'["another"].pc = "erase" /\ deletion'["another"].session = s
    BY <1>2, <2>5
  <2> QED BY <1>1, <1>2, <2>3, <2>4, <2>6, DeletionKeeps
<1>7. CASE RemoveDirectory("another")
  <2>1. ~f.metadata /\ (files' = [files EXCEPT ![s] = NoFiles] \/ UNCHANGED files)
    BY <1>1, <1>3, <1>7 DEF RemoveDirectory
  <2>2. files'[s] = NoFiles \/ files'[s] = f
    BY <1>1, <1>2, <2>1 DEF Shapes
  <2>3. \A t \in Sessions \ {s} : files'[t] = files[t]
    BY <1>2, <2>1 DEF Shapes
  <2>4. deletion'["another"].pc = "none"
    BY <1>2, <1>7 DEF RemoveDirectory, Told, NoDeletion
  <2> QED BY <1>1, <1>2, <2>1, <2>2, <2>3, <2>4, DeletionKeeps
<1> QED BY <1>4, <1>5, <1>6, <1>7

\* What happens outside a delete-all keeps the order.
LEMMA OrderedNext ==
  ASSUME SweepInv, Ordered, command.does # "delete-all", [InspectionNext]_inspection PROVE Ordered'
<1> USE DEF SweepInv
<1>1. deletion["command"].pc = "none" /\ command.pc \notin {"next", "delete"}
  BY DEF CommandType
<1>2. ASSUME UNCHANGED <<files, owner, groups, deletion>> PROVE Ordered'
  <2>1. \A s \in Sessions : At(s)' = At(s)
    BY <1>2 DEF At
  <2> QED BY <1>2, <2>1 DEF Ordered
<1>3. CASE Runs
  BY <1>3, CreateOrdered, CreateFilesOrdered, ResumeOrdered, MoveAsideOrdered, InstallOrdered, StopOrdered DEF Runs
<1>4. CASE Deletions
  <2>1. ASSUME NEW d \in Deleters, Clear(d) \/ ListRest(d) \/ Erase(d) \/ RemoveDirectory(d) PROVE d = "another"
    BY <1>1, <2>1 DEF Deleters, Clear, ListRest, Erase, RemoveDirectory
  <2> QED BY <1>4, <2>1, DeleteOrdered, DeletionOrdered DEF Deletions
<1>5. CASE Command
  <2>1. UNCHANGED <<files, owner, groups, deletion>>
    BY <1>1, <1>5 DEF Command, StartDeleteAll, StartDeleting, EndDeleteAll, Show, Begin, Summarize, DeleteListed,
      ReadSession, ReadMetadata, Load, Look, ListNames, TestName, ReadFile, Reading, made
  <2> QED BY <1>2, <2>1
<1>6. CASE UNCHANGED inspection
  BY <1>2, <1>6 DEF inspection, made
<1> QED BY <1>3, <1>4, <1>5, <1>6 DEF InspectionNext

-----------------------------------------------------------------------------
(* What happens to the session that show reads                             *)

\* The history h is continued by k.
Extends(h, k) == DOMAIN h \subseteq DOMAIN k /\ \A j \in DOMAIN h : k[j] = h[j]

\* A step on the session: its history is continued or something is noticed.
Followed(s) ==
  /\ noticed[s] \subseteq noticed'[s]
  /\ owner'[s].pc = "install" => owner[s].pc = "install" \/ "swapped" \in noticed'[s]
  /\ "shortened" \in noticed'[s] =>
       "shortened" \in noticed[s] \/ "swapped" \in noticed'[s] \/ owner[s].pc = "install"
  /\ files[s].metadata /\ "deleted" \notin noticed'[s] =>
       /\ files'[s].metadata
       /\ "shortened" \notin noticed'[s] => Extends(Latest(s), Latest(s)')
       /\ "swapped" \notin noticed'[s] => files'[s].messages = files[s].messages

LEMMA LatestMade ==
  ASSUME Ordered, NEW s \in Sessions, files[s].metadata PROVE Made(Latest(s), groups)
<1>1. InOrder(files[s], owner[s], At(s), groups)
  BY DEF Ordered
<1>2. Packed(files[s].messages, groups) /\ (owner[s].pc = "install" => Made(owner[s].history, groups))
  BY <1>1 DEF InOrder
<1> QED BY <1>2, RowsMade DEF Latest

LEMMA SameFollowed ==
  ASSUME NEW s \in Sessions, files'[s].messages = files[s].messages,
         owner'[s] = owner[s], noticed[s] \subseteq noticed'[s],
         files[s].metadata => files'[s].metadata \/ "deleted" \in noticed'[s],
         noticed'[s] \subseteq noticed[s] \cup {"created", "deleted"}
  PROVE  Followed(s)
<1>1. Latest(s)' = Latest(s)
  BY DEF Latest
<1> QED BY <1>1 DEF Followed, Extends

\* The steps of the run that owns it.
LEMMA RunFollowed ==
  ASSUME Ordered, Shapes, NEW s \in Sessions,
         Create(s) \/ CreateFiles(s) \/ Resume(s) \/ MoveAside(s) \/ Install(s) \/ Stop(s) \/ LateLock(s)
  PROVE  Followed(s)
<1>1. PICK f, o : f = files[s] /\ o = owner[s]
  OBVIOUS
<1>2. InOrder(f, o, At(s), groups) /\ FileShape(f) /\ OwnerShape(o)
  BY <1>1 DEF Ordered, Shapes
<1>3. ASSUME ~f.metadata, owner'[s].pc # "install", noticed'[s] \subseteq noticed[s] \cup {"created"},
             noticed[s] \subseteq noticed'[s]
      PROVE  Followed(s)
  BY <1>1, <1>3 DEF Followed
<1>4. CASE Create(s)
  <2>1. ~f.metadata
    <3>1. f = NoFiles
      BY <1>1, <1>2, <1>4 DEF Create, InOrder
    <3> QED BY <3>1 DEF NoFiles
  <2>2. owner'[s].pc = "create"
    BY <1>1, <1>2, <1>4 DEF Create, Shapes, OwnerShape
  <2>3. noticed'[s] = noticed[s] \cup {"created"}
    BY <1>4 DEF Create, Notice, Shapes
  <2> QED BY <1>3, <2>1, <2>2, <2>3
<1>5. CASE CreateFiles(s)
  <2>1. ~f.metadata
    BY <1>1, <1>2, <1>5 DEF CreateFiles, InOrder
  <2>2. owner'[s].pc = "running" /\ UNCHANGED noticed
    BY <1>1, <1>2, <1>5 DEF CreateFiles, Shapes, OwnerShape
  <2> QED BY <1>3, <2>1, <2>2
<1>6. CASE Resume(s)
  <2>1. /\ files'[s] = [f EXCEPT !.lock = TRUE] /\ UNCHANGED noticed
        /\ owner'[s].pc = "running" /\ o.pc = "none" /\ f.metadata
    BY <1>1, <1>2, <1>6 DEF Resume, Shapes, Busy, InOrder
  <2>2. files'[s].metadata /\ files'[s].messages = f.messages
    BY <1>2, <2>1 DEF FileShape
  <2>3. Latest(s)' = Latest(s)
    BY <1>1, <2>1, <2>2 DEF Latest
  <2> QED BY <1>1, <2>1, <2>2, <2>3 DEF Followed, Extends
<1>7. CASE MoveAside(s)
  <2>1. /\ files'[s] = [f EXCEPT !.messages = NoMessages] /\ owner'[s].pc = "install" /\ o.pc = "running"
        /\ owner'[s].history = Append(o.history, groups + 1)
    BY <1>1, <1>7 DEF MoveAside, Shapes
  <2>2. f.metadata /\ files'[s].metadata /\ Made(o.history, groups) /\ Packed(f.messages, groups)
    BY <1>2, <2>1 DEF FileShape, InOrder
  <2>3. \/ noticed'[s] = noticed[s] \cup {"swapped"} /\ IsPrefix(RowsOf(f.messages), o.history)
        \/ noticed'[s] = noticed[s] \cup {"swapped", "shortened"}
    BY <1>1, <1>7 DEF MoveAside, Notice, Shapes
  <2>4. Latest(s) = RowsOf(f.messages) /\ Latest(s)' = Append(o.history, groups + 1)
    BY <1>1, <2>1 DEF Latest
  <2>5. ASSUME IsPrefix(RowsOf(f.messages), o.history) PROVE Extends(Latest(s), Latest(s)')
    <3>1. PICK r, h, z : r = RowsOf(f.messages) /\ h = o.history /\ z = Append(h, groups + 1)
      OBVIOUS
    <3>2. r \in Seq(Nat) /\ h \in Seq(Nat) /\ groups + 1 \in Nat
      BY <2>2, <3>1, RowsMade DEF Made, Ordered
    <3>3. Len(r) <= Len(h) /\ SubSeq(r, 1, Len(r)) = SubSeq(h, 1, Len(r))
      BY <2>5, <3>1 DEF IsPrefix
    <3>4. SubSeq(r, 1, Len(r)) = r
      BY <3>2, SubSeqFull
    <3>5. \A j \in 1..Len(r) : SubSeq(h, 1, Len(r))[j] = h[j]
      BY <3>2, <3>3
    <3>6. /\ Len(z) = Len(h) + 1 /\ z \in Seq(Nat) /\ \A j \in 1..Len(h) : z[j] = h[j]
      BY <3>1, <3>2, AppendProperties
    <3>7. DOMAIN r = 1..Len(r) /\ DOMAIN z = 1..Len(h) + 1 /\ Len(r) \in Nat /\ Len(h) \in Nat
      BY <3>2, <3>6
    <3>8. \A j \in 1..Len(r) : j \in 1..Len(h) /\ j \in 1..Len(h) + 1
      BY <3>3, <3>7
    <3>9. \A j \in 1..Len(r) : z[j] = r[j]
      BY <3>3, <3>4, <3>5, <3>6, <3>8
    <3> QED BY <2>4, <3>1, <3>7, <3>8, <3>9 DEF Extends
  <2> QED BY <1>1, <2>1, <2>2, <2>3, <2>5 DEF Followed
<1>8. CASE Install(s)
  <2>1. /\ files'[s] = [f EXCEPT !.messages = Segments(o.history)] /\ owner'[s] = [o EXCEPT !.pc = "running"]
        /\ o.pc = "install"
    BY <1>1, <1>8 DEF Install, Shapes
  <2>2. /\ files'[s].metadata /\ files'[s].messages = Segments(o.history) /\ Made(o.history, groups)
        /\ owner'[s].pc = "running"
    BY <1>2, <2>1 DEF FileShape, InOrder, OwnerShape
  <2>3. noticed'[s] = noticed[s] \cup {"swapped"}
    BY <1>8 DEF Install, Notice, Shapes
  <2>4. Latest(s)' = Latest(s)
    <3>1. RowsOf(Segments(o.history)) = o.history
      BY <2>2, SegmentsPacked
    <3> QED BY <1>1, <2>1, <2>2, <3>1 DEF Latest
  <2> QED BY <1>1, <2>1, <2>2, <2>3, <2>4 DEF Followed, Extends
<1>9. CASE Stop(s)
  <2>1. /\ files'[s] = f /\ owner'[s].pc = "none"
        /\ noticed'[s] = noticed[s] \cup (IF o.pc = "install" THEN {"shortened"} ELSE {})
    BY <1>1, <1>9 DEF Stop, Notice, NoOwner, Shapes
  <2>2. o.pc # "install" => Latest(s)' = Latest(s)
    BY <1>1, <2>1 DEF Latest
  <2> QED BY <1>1, <2>1, <2>2 DEF Followed, Extends
<1>10. CASE LateLock(s)
  <2>1. files'[s] = [f EXCEPT !.lock = TRUE] /\ owner'[s] = o /\ UNCHANGED noticed /\ ~f.metadata
    BY <1>1, <1>10 DEF LateLock, Shapes
  <2>2. files'[s].messages = f.messages
    BY <1>2, <2>1 DEF FileShape
  <2> QED BY <1>1, <2>1, <2>2, SameFollowed
<1> QED BY <1>4, <1>5, <1>6, <1>7, <1>8, <1>9, <1>10

LEMMA DeletionFollowed ==
  ASSUME Ordered, Shapes, NEW s \in Sessions,
         \/ Delete("another", s)
         \/ /\ s = deletion["another"].session
            /\ Clear("another") \/ ListRest("another") \/ Erase("another") \/ RemoveDirectory("another")
  PROVE  Followed(s)
<1>1. PICK f : f = files[s]
  OBVIOUS
<1>2. FileShape(f) /\ UNCHANGED owner /\ "another" \in Deleters
  BY <1>1 DEF Shapes, Delete, Clear, ListRest, Erase, RemoveDirectory, Deleters
<1>3. CASE Delete("another", s)
  <2>1. UNCHANGED noticed /\ (files'[s] = f \/ files'[s] = [f EXCEPT !.lock = TRUE])
    BY <1>1, <1>3 DEF Delete, Shapes
  <2>2. files'[s].messages = f.messages /\ (files'[s].metadata <=> f.metadata)
    BY <1>2, <2>1 DEF FileShape
  <2> QED BY <1>1, <1>2, <2>1, <2>2, SameFollowed
<1>4. ASSUME noticed'[s] = noticed[s] \cup {"deleted"} PROVE Followed(s)
  BY <1>2, <1>4 DEF Followed
<1>5. CASE Clear("another") /\ s = deletion["another"].session
  <2>1. files[s].directory
    <3>1. deletion["another"].pc # "none"
      BY <1>5 DEF Clear
    <3> QED BY <1>5, <3>1, Deleted
  <2>2. noticed'[s] = noticed[s] \cup {"deleted"}
    BY <1>5, <2>1 DEF Clear, Notice, Shapes
  <2> QED BY <1>4, <2>2
<1>6. CASE ListRest("another") /\ s = deletion["another"].session
  <2>1. UNCHANGED <<files, noticed>>
    BY <1>6 DEF ListRest
  <2> QED BY <1>2, <2>1, SameFollowed
<1>7. CASE Erase("another") /\ s = deletion["another"].session
  <2>1. noticed'[s] = noticed[s] \cup {"deleted"}
    <3>1. noticed' = [noticed EXCEPT ![s] = @ \cup {"deleted"}]
      BY <1>7 DEF Erase, Notice
    <3> QED BY <3>1 DEF Shapes
  <2> QED BY <1>4, <2>1
<1>8. CASE RemoveDirectory("another") /\ s = deletion["another"].session
  <2>1. deletion["another"].pc = "erase" /\ UNCHANGED noticed
    BY <1>8 DEF RemoveDirectory
  <2>2. ~files[s].metadata
    BY <1>8, <2>1, Deleted
  <2> QED BY <1>2, <2>1, <2>2 DEF Followed
<1> QED BY <1>3, <1>5, <1>6, <1>7, <1>8

-----------------------------------------------------------------------------
(* A pass over messages/                                                   *)

\* It begins with the names of all the files.
LEMMA PassBegins ==
  ASSUME NEW h \in Seq(Nat), NEW q, Filled(h) \in Nat,
         q \in [1..Filled(h) -> 1..Filled(h)], \A k \in 1..Filled(h) : q[k] = k
  PROVE  LET pass == [NoPass EXCEPT !.names = q] IN
           PassType(pass) /\ Within(h, pass) /\ Exact(h, pass)
<1>1. PICK N \in Nat : N = Filled(h)
  OBVIOUS
<1>2. PICK pass : pass = [NoPass EXCEPT !.names = q]
  OBVIOUS
<1>3. pass = [names |-> q, paths |-> <<>>, rows |-> <<>>]
  BY <1>2 DEF NoPass
<1>4. pass.names = q /\ pass.paths = <<>> /\ pass.rows = <<>>
  BY <1>3
<1>5. q \in Seq(Nat \ {0}) /\ Len(q) = N /\ DOMAIN q = 1..N /\ \A k \in 1..N : q[k] = k
  BY <1>1
<1>6. PassType(pass)
  BY <1>3, <1>4, <1>5 DEF PassType
<1>7. Within(h, pass)
  BY <1>4, <1>5 DEF Within, Increasing
<1>8. ExactAt(h, pass, 0)
  <2>1. SubSeq(h, 1, Smaller(0 * SegmentSize, Len(h))) = <<>>
    <3>1. 0 * SegmentSize = 0
      BY SizesAssumption
    <3>2. Smaller(0 * SegmentSize, Len(h)) = 0
      BY <3>1 DEF Smaller
    <3> QED BY <3>2
  <2>2. \A k \in DOMAIN q : q[k] = 0 + Len(pass.paths) + k
    BY <1>4, <1>5
  <2>3. 0 + Len(pass.paths) + Len(pass.names) = Filled(h)
    BY <1>1, <1>4, <1>5
  <2>4. \A k \in DOMAIN pass.paths : pass.paths[k] = 0 + k
    BY <1>4
  <2>5. pass.rows = SubSeq(h, 1, Smaller(0 * SegmentSize, Len(h)))
    BY <1>4, <2>1
  <2> QED BY <1>4, <2>2, <2>3, <2>4, <2>5 DEF ExactAt
<1>9. Exact(h, pass)
  BY <1>1, <1>8 DEF Exact
<1> QED BY <1>2, <1>6, <1>7, <1>9

\* A name is tested: it is a file still to be read, or it is passed over.
LEMMA PassTests ==
  ASSUME NEW h, Filled(h) \in Nat, NEW pass, PassType(pass), pass.names # <<>>, NEW isFile \in BOOLEAN, NEW next,
         next = [names |-> Tail(pass.names), rows |-> pass.rows,
                 paths |-> IF isFile THEN Append(pass.paths, Head(pass.names)) ELSE pass.paths]
  PROVE  /\ PassType(next)
         /\ Within(h, pass) => Within(h, next)
         /\ Exact(h, pass) /\ isFile => Exact(h, next)
<1>1. PICK names, paths, rows : names = pass.names /\ paths = pass.paths /\ rows = pass.rows
  OBVIOUS
<1>2. PICK tail, name, more :
        tail = Tail(names) /\ name = names[1] /\ more = IF isFile THEN Append(paths, name) ELSE paths
  OBVIOUS
<1>3. /\ names \in Seq(Nat \ {0}) /\ paths \in Seq(Nat \ {0}) /\ rows \in Seq(Nat) /\ names # <<>>
      /\ Len(names) \in Nat \ {0} /\ Len(paths) \in Nat /\ name \in Nat \ {0}
      /\ DOMAIN names = 1..Len(names) /\ DOMAIN paths = 1..Len(paths)
  BY <1>1, <1>2 DEF PassType
<1>4. /\ tail \in Seq(Nat \ {0}) /\ Len(tail) = Len(names) - 1 /\ DOMAIN tail = 1..Len(names) - 1
      /\ \A k \in 1..Len(names) - 1 : tail[k] = names[k + 1]
  BY <1>2, <1>3, HeadTailProperties
<1>5. /\ next = [names |-> tail, rows |-> rows, paths |-> more]
      /\ next.names = tail /\ next.rows = rows /\ next.paths = more
  BY <1>1, <1>2
<1>6. isFile => /\ more \in Seq(Nat \ {0}) /\ Len(more) = Len(paths) + 1 /\ DOMAIN more = 1..Len(paths) + 1
                /\ (\A k \in 1..Len(paths) : more[k] = paths[k]) /\ more[Len(paths) + 1] = name
  BY <1>2, <1>3, AppendProperties
<1>7. ~isFile => more = paths
  BY <1>2
<1>8. PassType(next)
  BY <1>3, <1>4, <1>5, <1>6, <1>7 DEF PassType
<1>9. ASSUME Within(h, pass) PROVE Within(h, next)
  <2>1. /\ Increasing(rows) /\ Increasing(paths) /\ Increasing(names) /\ rows = <<>>
        /\ \A k \in 1..Len(paths), l \in 1..Len(names) : paths[k] < names[l]
    BY <1>1, <1>3, <1>9 DEF Within
  <2>2. \A k, l \in 1..Len(names) : k < l => names[k] < names[l]
    BY <1>3, <2>1 DEF Increasing
  <2>3. \A k \in 1..Len(names) - 1 : k + 1 \in 1..Len(names) /\ k + 1 > 1 /\ 1 \in 1..Len(names)
    BY <1>3
  <2>4. Increasing(tail) /\ \A k \in 1..Len(names) - 1 : name < tail[k]
    <3>1. \A k \in 1..Len(names) - 1 : name < tail[k]
      BY <1>2, <1>4, <2>2, <2>3
    <3>2. ASSUME NEW k \in 1..Len(names) - 1, NEW l \in 1..Len(names) - 1, k < l PROVE tail[k] < tail[l]
      <4>1. k + 1 < l + 1 /\ k + 1 \in 1..Len(names) /\ l + 1 \in 1..Len(names)
        BY <2>3, <3>2
      <4> QED BY <1>4, <2>2, <4>1
    <3> QED BY <1>4, <3>1, <3>2 DEF Increasing
  <2>5. \A k \in 1..Len(paths) : paths[k] < name
    <3>1. 1 \in 1..Len(names) /\ name = names[1]
      BY <1>2, <1>3
    <3> QED BY <2>1, <3>1
  <2>6. Increasing(more) /\ \A k \in DOMAIN more, l \in 1..Len(names) - 1 : more[k] < tail[l]
    <3>1. \A k \in 1..Len(paths), l \in 1..Len(names) - 1 : paths[k] < tail[l]
      BY <1>4, <2>1, <2>3
    <3>2. CASE ~isFile
      BY <1>3, <1>7, <2>1, <3>1, <3>2
    <3>3. CASE isFile
      <4>1. \A k \in DOMAIN more : k \in 1..Len(paths) \/ k = Len(paths) + 1
        BY <1>3, <1>6, <3>3
      <4>2. \A k \in DOMAIN more, l \in 1..Len(names) - 1 : more[k] < tail[l]
        BY <1>6, <2>4, <3>1, <3>3, <4>1
      <4>3. ASSUME NEW k \in DOMAIN more, NEW l \in DOMAIN more, k < l PROVE more[k] < more[l]
        <5>1. k \in 1..Len(paths)
          BY <1>3, <1>6, <3>3, <4>1, <4>3
        <5>2. CASE l \in 1..Len(paths)
          BY <1>3, <1>6, <2>1, <3>3, <4>3, <5>1, <5>2 DEF Increasing
        <5>3. CASE l = Len(paths) + 1
          BY <1>6, <2>5, <3>3, <5>1, <5>3
        <5> QED BY <4>1, <5>2, <5>3
      <4> QED BY <4>2, <4>3 DEF Increasing
    <3> QED BY <3>2, <3>3
  <2>7. DOMAIN next.rows = {}
    BY <1>5, <2>1
  <2>8. \A k \in DOMAIN next.paths, l \in DOMAIN next.names : next.paths[k] < next.names[l]
    BY <1>4, <1>5, <2>6
  <2> QED BY <1>5, <2>1, <2>4, <2>6, <2>7, <2>8 DEF Within
<1>10. ASSUME Exact(h, pass), isFile PROVE Exact(h, next)
  <2>1. PICK n \in 0..Filled(h) : ExactAt(h, pass, n)
    BY <1>10 DEF Exact
  <2>2. PICK F \in Nat : F = Filled(h) /\ n \in Nat
    OBVIOUS
  <2>3. /\ n + Len(paths) + Len(names) = F
        /\ \A k \in 1..Len(paths) : paths[k] = n + k
        /\ \A k \in 1..Len(names) : names[k] = n + Len(paths) + k
        /\ n = 0
        /\ rows = SubSeq(h, 1, Smaller(n * SegmentSize, Len(h)))
    BY <1>1, <1>3, <2>1, <2>2 DEF ExactAt
  <2>4. PICK a \in Nat, b \in Nat \ {0} : a = Len(paths) /\ b = Len(names)
    BY <1>3
  <2>5. n + Len(more) + Len(tail) = F
    <3>1. Len(more) = a + 1 /\ Len(tail) = b - 1 /\ n + a + b = F
      BY <1>4, <1>6, <1>10, <2>4, <2>3
    <3>2. n + (a + 1) + (b - 1) = n + a + b
      BY <2>2
    <3> QED BY <3>1, <3>2
  <2>6. ASSUME NEW k \in DOMAIN more PROVE more[k] = n + k
    <3>1. name = n + Len(paths) + 1
      BY <1>2, <1>3, <2>3
    <3>2. k \in 1..Len(paths) \/ k = Len(paths) + 1
      BY <1>3, <1>6, <1>10
    <3>3. CASE k \in 1..Len(paths)
      BY <1>6, <1>10, <2>3, <3>3
    <3>4. CASE k = Len(paths) + 1
      <4>1. more[k] = name
        BY <1>6, <1>10, <3>4
      <4> QED BY <1>3, <2>2, <3>1, <3>4, <4>1
    <3> QED BY <3>2, <3>3, <3>4
  <2>7. \A k \in DOMAIN tail : tail[k] = n + Len(more) + k
    <3>1. \A k \in 1..Len(names) - 1 : k + 1 \in 1..Len(names)
      BY <1>3
    <3>2. \A k \in 1..Len(names) - 1 : n + Len(paths) + (k + 1) = n + Len(more) + k
      <4>1. Len(more) = a + 1
        BY <1>6, <1>10, <2>4
      <4>2. \A k \in 1..b - 1 : n + a + (k + 1) = n + (a + 1) + k
        BY <2>2
      <4> QED BY <2>4, <4>1, <4>2
    <3> QED BY <1>4, <2>3, <3>1, <3>2
  <2>8. ExactAt(h, next, n)
    BY <1>5, <2>2, <2>3, <2>5, <2>6, <2>7 DEF ExactAt
  <2> QED BY <2>8 DEF Exact
<1> QED BY <1>8, <1>9, <1>10


\* The content c of file p of the history, its positions after a up to b.
FileAt(h, p, a, b, c) ==
  /\ a = (p - 1) * SegmentSize /\ b = Smaller(p * SegmentSize, Len(h)) /\ p \in Nat \ {0}
  /\ a <= b /\ b <= Len(h) /\ b <= p * SegmentSize /\ Smaller(a, Len(h)) = a
  /\ c = SubSeq(h, a + 1, b) /\ c \in Seq(Nat) /\ Len(c) = b - a
  /\ \A k \in 1..b - a : c[k] = h[a + k] /\ a + k \in DOMAIN h

LEMMA FileIs ==
  ASSUME NEW h \in Seq(Nat), NEW p \in 1..Filled(h)
  PROVE  \E a, b \in Nat : FileAt(h, p, a, b, Segments(h)[p])
<1>1. Filled(h) \in Nat /\ (p - 1) * SegmentSize < Len(h)
  BY FilledUp
<1>2. p \in Nat /\ p - 1 \in Nat /\ p - 1 <= p /\ p # 0
  BY <1>1
<1>3. PICK a, c : a = (p - 1) * SegmentSize /\ c = p * SegmentSize
  OBVIOUS
<1>4. a \in Nat /\ c \in Nat /\ a <= c
  BY <1>2, <1>3, Multiples
<1>5. PICK n \in Nat : n = Len(h)
  OBVIOUS
<1>6. PICK b : b = Smaller(c, n)
  OBVIOUS
<1>7. b \in Nat /\ a <= b /\ b <= n /\ b <= c /\ Smaller(a, n) = a
  BY <1>1, <1>3, <1>4, <1>5, <1>6 DEF Smaller
<1>8. Segments(h)[p] = SubSeq(h, a + 1, b)
  BY <1>3, <1>5, <1>6, SegmentIs
<1>9. PICK z : z = SubSeq(h, a + 1, b)
  OBVIOUS
<1>10. \A i \in a + 1..b : i \in 1..n /\ h[i] \in Nat
  <2>1. \A i \in a + 1..b : i \in 1..Len(h)
    BY <1>4, <1>5, <1>7
  <2> QED BY <1>5, <2>1, ElementOfSeq
<1>11. /\ z \in Seq(Nat) /\ Len(z) = IF a + 1 <= b THEN b - (a + 1) + 1 ELSE 0
       /\ \A i \in 1..b - (a + 1) + 1 : z[i] = h[a + 1 + i - 1]
  BY <1>4, <1>7, <1>9, <1>10, SubSeqProperties
<1>12. Len(z) = b - a /\ b - (a + 1) + 1 = b - a
  BY <1>4, <1>7, <1>11
<1>13. \A k \in 1..b - a : a + 1 + k - 1 = a + k /\ a + k \in 1..n
  BY <1>4, <1>7
<1>14. \A k \in 1..b - a : z[k] = h[a + k] /\ a + k \in DOMAIN h
  BY <1>5, <1>11, <1>12, <1>13
<1>15. z = Segments(h)[p]
  BY <1>8, <1>9
<1>16. FileAt(h, p, a, b, z)
  BY <1>2, <1>3, <1>5, <1>6, <1>7, <1>9, <1>11, <1>12, <1>14 DEF FileAt
<1> QED BY <1>4, <1>7, <1>15, <1>16

\* A file is read.
ReadsFile(h, pass, next) ==
  LET p == Head(pass.paths) IN
    /\ pass.names = <<>> /\ pass.paths # <<>> /\ p \in 1..Filled(h)
    /\ next = [names |-> <<>>, paths |-> Tail(pass.paths), rows |-> pass.rows \o Segments(h)[p]]

LEMMA PassReads ==
  ASSUME NEW h, NEW g, Made(h, g), NEW pass, PassType(pass), NEW next, ReadsFile(h, pass, next)
  PROVE  /\ PassType(next)
         /\ Within(h, pass) => Within(h, next)
         /\ Exact(h, pass) => Exact(h, next)
<1>p. PICK p : p = Head(pass.paths)
  OBVIOUS
<1>r. /\ pass.names = <<>> /\ pass.paths # <<>> /\ p \in 1..Filled(h)
      /\ next = [names |-> <<>>, paths |-> Tail(pass.paths), rows |-> pass.rows \o Segments(h)[p]]
  BY <1>p DEF ReadsFile
<1>1. PICK paths, rows, c : paths = pass.paths /\ rows = pass.rows /\ c = Segments(h)[p]
  OBVIOUS
<1>2. h \in Seq(Nat) /\ Increasing(h)
  BY DEF Made
<1>3. PICK a, b \in Nat : FileAt(h, p, a, b, c)
  BY <1>1, <1>2, <1>r, FileIs
<1>4. /\ a = (p - 1) * SegmentSize /\ b = Smaller(p * SegmentSize, Len(h)) /\ p \in Nat \ {0}
      /\ a <= b /\ b <= Len(h) /\ b <= p * SegmentSize /\ Smaller(a, Len(h)) = a
      /\ c = SubSeq(h, a + 1, b) /\ c \in Seq(Nat) /\ Len(c) = b - a
      /\ \A k \in 1..b - a : c[k] = h[a + k] /\ a + k \in DOMAIN h
  BY <1>3 DEF FileAt
<1>5. /\ paths \in Seq(Nat \ {0}) /\ rows \in Seq(Nat) /\ paths # <<>> /\ p = paths[1]
      /\ Len(paths) \in Nat \ {0} /\ DOMAIN paths = 1..Len(paths)
      /\ Len(rows) \in Nat /\ DOMAIN rows = 1..Len(rows)
  BY <1>1, <1>p, <1>r DEF PassType
<1>6. PICK tail, z : tail = Tail(paths) /\ z = rows \o c
  OBVIOUS
<1>7. /\ tail \in Seq(Nat \ {0}) /\ Len(tail) = Len(paths) - 1 /\ DOMAIN tail = 1..Len(paths) - 1
      /\ \A k \in 1..Len(paths) - 1 : tail[k] = paths[k + 1]
  BY <1>5, <1>6, HeadTailProperties
<1>8. PICK r \in Nat, l \in Nat : r = Len(rows) /\ l = Len(c) /\ l = b - a
  <2>1. c \in Seq(Nat) /\ Len(c) = b - a
    BY <1>4
  <2>2. Len(c) \in Nat
    BY <2>1
  <2> QED BY <1>5, <2>1, <2>2
<1>9. /\ z \in Seq(Nat) /\ Len(z) = r + l
      /\ \A k \in 1..r + l : z[k] = IF k <= r THEN rows[k] ELSE c[k - r]
  <2>1. c \in Seq(Nat) /\ rows \in Seq(Nat)
    BY <1>4, <1>5
  <2>2. /\ rows \o c \in Seq(Nat) /\ Len(rows \o c) = Len(rows) + Len(c)
        /\ \A k \in 1..Len(rows) + Len(c) :
             (rows \o c)[k] = IF k <= Len(rows) THEN rows[k] ELSE c[k - Len(rows)]
    BY <2>1, ConcatProperties
  <2> QED BY <1>6, <1>8, <2>2
<1>10. DOMAIN z = 1..r + l
  BY <1>9
<1>11. next.names = <<>> /\ next.paths = tail /\ next.rows = z /\ next = [names |-> <<>>, paths |-> tail, rows |-> z]
  BY <1>1, <1>6, <1>r
<1>12. PassType(next)
  BY <1>7, <1>9, <1>11 DEF PassType
<1>13. \A k \in 1..Len(paths) - 1 : k + 1 \in 1..Len(paths) /\ k + 1 > 1
  BY <1>5
<1>14. ASSUME NEW k \in DOMAIN z
       PROVE  \/ k \in 1..r /\ z[k] = rows[k]
              \/ k - r \in 1..l /\ k > r /\ z[k] = h[a + (k - r)] /\ a + (k - r) \in DOMAIN h
  <2>1. CASE k <= r
    BY <1>9, <1>10, <2>1
  <2>2. CASE ~(k <= r)
    <3>1. k - r \in 1..l /\ k > r
      BY <1>10, <2>2
    <3> QED BY <1>4, <1>8, <1>9, <1>10, <2>2, <3>1
  <2> QED BY <2>1, <2>2
<1>15. ASSUME Within(h, pass) PROVE Within(h, next)
  <2>1. /\ Increasing(rows) /\ Increasing(paths)
        /\ \A k \in 1..r : \E j \in DOMAIN h :
             rows[k] = h[j] /\ \A i \in 1..Len(paths) : j <= (paths[i] - 1) * SegmentSize
    BY <1>1, <1>5, <1>8, <1>15 DEF Within
  <2>2. \A k, i \in 1..Len(paths) : k < i => paths[k] < paths[i]
    BY <1>5, <2>1 DEF Increasing
  <2>3. Increasing(tail)
    <3>1. ASSUME NEW k \in 1..Len(paths) - 1, NEW i \in 1..Len(paths) - 1, k < i PROVE tail[k] < tail[i]
      <4>1. k + 1 < i + 1
        BY <3>1
      <4> QED BY <1>7, <1>13, <2>2, <4>1
    <3> QED BY <1>7, <3>1 DEF Increasing
  <2>4. \A k \in 1..Len(paths) - 1 : p < tail[k] /\ tail[k] \in Nat
    <3>1. \A k \in 1..Len(paths) - 1 : tail[k] \in Nat \ {0}
      BY <1>7
    <3>2. 1 \in 1..Len(paths)
      BY <1>5
    <3> QED BY <1>5, <1>7, <1>13, <2>2, <3>1, <3>2
  <2>5. \A i \in 1..Len(paths) - 1 : b <= (tail[i] - 1) * SegmentSize
    <3>1. ASSUME NEW i \in 1..Len(paths) - 1 PROVE b <= (tail[i] - 1) * SegmentSize
      <4>1. PICK t : t = tail[i] - 1
        OBVIOUS
      <4>2. t \in Nat /\ p <= t /\ p \in Nat
        <5>1. PICK y \in Nat : y = tail[i] /\ p < y
          BY <2>4
        <5>2. p \in Nat /\ t = y - 1
          BY <1>4, <4>1, <5>1
        <5> QED BY <5>1, <5>2
      <4>3. p * SegmentSize <= t * SegmentSize /\ p * SegmentSize \in Nat /\ t * SegmentSize \in Nat
        BY <4>2, Multiples
      <4>4. PICK x, y \in Nat : x = p * SegmentSize /\ y = t * SegmentSize
        BY <4>3
      <4>5. b <= x /\ x <= y
        BY <1>4, <4>3, <4>4
      <4> QED BY <4>1, <4>4, <4>5
    <3> QED BY <3>1
  <2>6. ASSUME NEW k \in DOMAIN z
        PROVE  \E j \in DOMAIN h :
                 z[k] = h[j] /\ \A i \in DOMAIN tail : j <= (tail[i] - 1) * SegmentSize
    <3>1. CASE k \in 1..r /\ z[k] = rows[k]
      <4>1. PICK j \in DOMAIN h :
              rows[k] = h[j] /\ \A i \in 1..Len(paths) : j <= (paths[i] - 1) * SegmentSize
        BY <2>1, <3>1
      <4>2. \A i \in DOMAIN tail : j <= (tail[i] - 1) * SegmentSize
        BY <1>7, <1>13, <4>1
      <4> QED BY <3>1, <4>1, <4>2
    <3>2. CASE k - r \in 1..l /\ z[k] = h[a + (k - r)] /\ a + (k - r) \in DOMAIN h
      <4>1. PICK j : j = a + (k - r)
        OBVIOUS
      <4>2. j <= b /\ j \in Nat
        BY <1>8, <3>2, <4>1
      <4>3. \A i \in DOMAIN tail : j <= (tail[i] - 1) * SegmentSize
        <5>1. ASSUME NEW i \in 1..Len(paths) - 1 PROVE j <= (tail[i] - 1) * SegmentSize
          <6>1. PICK t : t = tail[i] - 1
            OBVIOUS
          <6>2. t \in Nat
            <7>1. PICK y \in Nat : y = tail[i] /\ p < y
              BY <2>4
            <7>2. p \in Nat /\ t = y - 1
              BY <1>4, <6>1, <7>1
            <7> QED BY <7>1, <7>2
          <6>3. PICK y \in Nat : y = t * SegmentSize
            BY <6>2, Multiples
          <6>4. b <= y
            BY <2>5, <6>1, <6>3
          <6> QED BY <4>2, <6>1, <6>3, <6>4
        <5> QED BY <1>7, <5>1
      <4> QED BY <3>2, <4>1, <4>3
    <3> QED BY <1>14, <3>1, <3>2
  <2>7. ASSUME NEW k \in 1..r PROVE \E j \in DOMAIN h : rows[k] = h[j] /\ j <= a
    <3>1. 1 \in 1..Len(paths)
      BY <1>5
    <3> QED BY <1>4, <1>5, <2>1, <3>1
  <2>8. ASSUME NEW k \in DOMAIN z, NEW i \in DOMAIN z, k < i PROVE z[k] < z[i]
    <3>1. CASE i \in 1..r /\ z[i] = rows[i]
      <4>1. k \in 1..r /\ z[k] = rows[k]
        BY <1>10, <1>14, <2>8, <3>1
      <4> QED BY <1>5, <1>8, <2>1, <2>8, <3>1, <4>1 DEF Increasing
    <3>2. CASE i - r \in 1..l /\ i > r /\ z[i] = h[a + (i - r)] /\ a + (i - r) \in DOMAIN h
      <4>1. PICK y : y = a + (i - r)
        OBVIOUS
      <4>2. y \in DOMAIN h /\ y > a /\ z[i] = h[y]
        BY <3>2, <4>1
      <4>3. \E j \in DOMAIN h : z[k] = h[j] /\ j < y
        <5>1. CASE k \in 1..r /\ z[k] = rows[k]
          <6>1. PICK j \in DOMAIN h : rows[k] = h[j] /\ j <= a
            BY <2>7, <5>1
          <6>2. j \in Nat /\ y \in Nat
            BY <1>2, <4>2
          <6> QED BY <4>2, <5>1, <6>1, <6>2
        <5>2. CASE k - r \in 1..l /\ z[k] = h[a + (k - r)] /\ a + (k - r) \in DOMAIN h
          <6>1. a + (k - r) < a + (i - r)
            BY <1>10, <2>8
          <6> QED BY <4>1, <5>2, <6>1
        <5> QED BY <1>14, <5>1, <5>2
      <4> QED BY <1>2, <4>2, <4>3 DEF Increasing
    <3> QED BY <1>14, <3>1, <3>2
  <2>9. Increasing(<<>>)
    BY DEF Increasing
  <2>10. Increasing(z)
    BY <2>8 DEF Increasing
  <2>11. DOMAIN next.names = {} /\ next.names = <<>>
    BY <1>11
  <2>12. Increasing(next.rows) /\ Increasing(next.paths) /\ Increasing(next.names)
    BY <1>11, <2>3, <2>9, <2>10
  <2>13. \A k \in DOMAIN next.paths, i \in DOMAIN next.names : next.paths[k] < next.names[i]
    BY <2>11
  <2> DEFINE Placed(some, others) ==
               \A k \in DOMAIN some : \E j \in DOMAIN h :
                 some[k] = h[j] /\ \A i \in DOMAIN others : j <= (others[i] - 1) * SegmentSize
  <2>14. Placed(z, tail)
    BY <2>6
  <2>15. Placed(next.rows, next.paths)
    <3> HIDE DEF Placed
    <3> QED BY <1>11, <2>14
  <2> QED BY <2>11, <2>12, <2>13, <2>15 DEF Within
<1>16. ASSUME Exact(h, pass) PROVE Exact(h, next)
  <2>1. PICK n \in 0..Filled(h) : ExactAt(h, pass, n)
    BY <1>16 DEF Exact
  <2>2. PICK F \in Nat : F = Filled(h) /\ n \in Nat
    BY <1>2, FilledUp
  <2>3. PICK m \in Nat \ {0} : m = Len(paths)
    BY <1>5
  <2>4. /\ n + m = F /\ \A k \in 1..m : paths[k] = n + k
        /\ rows = SubSeq(h, 1, Smaller(n * SegmentSize, Len(h)))
    <3>1. /\ n + Len(pass.paths) + Len(pass.names) = F
          /\ \A k \in DOMAIN pass.paths : pass.paths[k] = n + k
          /\ pass.rows = SubSeq(h, 1, Smaller(n * SegmentSize, Len(h)))
      BY <2>1, <2>2 DEF ExactAt
    <3>2. Len(pass.names) = 0 /\ Len(pass.paths) = m /\ DOMAIN paths = 1..m
      BY <1>1, <1>5, <1>r, <2>3
    <3>3. n + m + 0 = n + m
      BY <2>2
    <3> QED BY <1>1, <3>1, <3>2, <3>3
  <2>5. p = n + 1 /\ p - 1 = n /\ n + 1 \in 0..Filled(h)
    <3>1. 1 \in 1..m
      OBVIOUS
    <3>2. p = n + 1
      BY <1>5, <2>4, <3>1
    <3>3. n + 1 <= F /\ n + 1 \in Nat /\ (n + 1) - 1 = n
      BY <2>2, <2>4
    <3>4. n + 1 \in 0..F
      BY <3>3
    <3>5. p - 1 = n
      BY <3>2, <3>3
    <3> QED BY <2>2, <3>2, <3>4, <3>5
  <2>6. z = SubSeq(h, 1, b)
    <3>1. rows = SubSeq(h, 1, a)
      BY <1>4, <2>4, <2>5
    <3> QED BY <1>2, <1>4, <1>6, <3>1, SubSeqJoin
  <2>7. (n + 1) + Len(tail) = F
    BY <1>7, <2>2, <2>3, <2>4
  <2>8. \A k \in DOMAIN tail : tail[k] = (n + 1) + k
    <3>1. \A k \in 1..m - 1 : k + 1 \in 1..m /\ n + (k + 1) = (n + 1) + k
      BY <2>2
    <3> QED BY <1>7, <2>3, <2>4, <3>1
  <2>9. z = SubSeq(h, 1, Smaller((n + 1) * SegmentSize, Len(h)))
    BY <1>4, <2>5, <2>6
  <2>10. (n + 1) + Len(tail) + Len(<<>>) = F
    <3>1. PICK u \in Nat : u = Len(tail)
      BY <1>7, <2>3
    <3> QED BY <2>2, <2>7, <3>1
  <2>11. ExactAt(h, next, n + 1)
    <3>1. (n + 1) + Len(next.paths) + Len(next.names) = Filled(h)
      BY <1>11, <2>2, <2>10
    <3>2. \A k \in DOMAIN next.paths : next.paths[k] = (n + 1) + k
      BY <1>11, <2>8
    <3>3. DOMAIN next.names = {} /\ next.names = <<>>
      BY <1>11
    <3>4. next.rows = SubSeq(h, 1, Smaller((n + 1) * SegmentSize, Len(h)))
      BY <1>11, <2>9
    <3> QED BY <3>1, <3>2, <3>3, <3>4 DEF ExactAt
  <2> QED BY <2>5, <2>11 DEF Exact
<1> QED BY <1>12, <1>15, <1>16

\* What comes next is a file of the history; at the end all rows are there.
LEMMA ExactGoesOn ==
  ASSUME NEW h \in Seq(Nat), NEW pass, PassType(pass), Exact(h, pass)
  PROVE  /\ pass.names # <<>> => Head(pass.names) \in 1..Filled(h)
         /\ pass.names = <<>> /\ pass.paths # <<>> => Head(pass.paths) \in 1..Filled(h)
         /\ pass.names = <<>> /\ pass.paths = <<>> => pass.rows = h
<1>1. PICK n \in 0..Filled(h) : ExactAt(h, pass, n)
  BY DEF Exact
<1>2. PICK F \in Nat : F = Filled(h) /\ n \in Nat
  BY FilledUp
<1>3. /\ pass.names \in Seq(Nat \ {0}) /\ pass.paths \in Seq(Nat \ {0})
      /\ DOMAIN pass.names = 1..Len(pass.names) /\ DOMAIN pass.paths = 1..Len(pass.paths)
  BY DEF PassType
<1>4. PICK a, b \in Nat : a = Len(pass.paths) /\ b = Len(pass.names)
  BY <1>3
<1>5. n + a + b = F
  BY <1>1, <1>2, <1>4 DEF ExactAt
<1>6. ASSUME pass.names # <<>> PROVE Head(pass.names) \in 1..Filled(h)
  <2>1. b # 0 /\ Head(pass.names) = pass.names[1]
    BY <1>3, <1>4, <1>6
  <2>2. \A k \in DOMAIN pass.names : pass.names[k] = n + Len(pass.paths) + k
    BY <1>1 DEF ExactAt
  <2>3. 1 \in DOMAIN pass.names
    BY <1>3, <1>4, <2>1
  <2>4. pass.names[1] = n + a + 1
    BY <1>4, <2>2, <2>3
  <2> QED BY <1>2, <1>5, <2>1, <2>4
<1>7. ASSUME pass.names = <<>>, pass.paths # <<>> PROVE Head(pass.paths) \in 1..Filled(h)
  <2>1. a # 0 /\ b = 0 /\ Head(pass.paths) = pass.paths[1]
    BY <1>3, <1>4, <1>7
  <2>2. \A k \in DOMAIN pass.paths : pass.paths[k] = n + k
    BY <1>1 DEF ExactAt
  <2>3. 1 \in DOMAIN pass.paths
    BY <1>3, <1>4, <2>1
  <2>4. pass.paths[1] = n + 1
    BY <2>2, <2>3
  <2> QED BY <1>2, <1>5, <2>1, <2>4
<1>8. ASSUME pass.names = <<>>, pass.paths = <<>> PROVE pass.rows = h
  <2>1. n = F
    BY <1>2, <1>4, <1>5, <1>8
  <2>2. PICK y \in Nat : y = F * SegmentSize
    BY Multiples
  <2>3. Smaller(y, Len(h)) = Len(h)
    BY <1>2, <2>2, FilledUp DEF Smaller
  <2>4. pass.rows = SubSeq(h, 1, Len(h))
    BY <1>1, <2>1, <2>2, <2>3 DEF ExactAt
  <2> QED BY <2>4
<1> QED BY <1>6, <1>7, <1>8

-----------------------------------------------------------------------------
(* What show knows stays true                                              *)

LEMMA WithinExtends ==
  ASSUME NEW h, NEW k, Extends(h, k), NEW pass, Within(h, pass) PROVE Within(k, pass)
<1>1. ASSUME NEW i \in DOMAIN pass.rows
      PROVE  \E j \in DOMAIN k :
               pass.rows[i] = k[j] /\ \A l \in DOMAIN pass.paths : j <= (pass.paths[l] - 1) * SegmentSize
  <2>1. PICK j \in DOMAIN h :
          pass.rows[i] = h[j] /\ \A l \in DOMAIN pass.paths : j <= (pass.paths[l] - 1) * SegmentSize
    BY DEF Within
  <2>2. j \in DOMAIN k /\ k[j] = h[j]
    BY DEF Extends
  <2> QED BY <2>1, <2>2
<1> QED BY <1>1 DEF Within

\* Whatever others do to the session.
LEMMA KnowsKeeps ==
  ASSUME NEW s \in Sessions, Knows(s), Followed(s), UNCHANGED command PROVE Knows(s)'
<1>1. owner'[s].pc = "install" => "swapped" \in noticed'[s]
  BY DEF Knows, Followed, Was
<1>2. "shortened" \in noticed'[s] => "swapped" \in noticed'[s]
  BY DEF Knows, Followed, Was
<1>3. ASSUME command.pc # "metadata", "deleted" \notin noticed'[s]
      PROVE  /\ files[s].metadata /\ files'[s].metadata /\ "deleted" \notin noticed[s]
             /\ "shortened" \notin noticed'[s] =>
                  "shortened" \notin noticed[s] /\ Extends(Latest(s), Latest(s)')
             /\ "swapped" \notin noticed'[s] =>
                  "swapped" \notin noticed[s] /\ files'[s].messages = files[s].messages
  BY <1>3 DEF Knows, Followed, Was
<1>4. ASSUME command.pc = "names", "swapped" \notin noticed'[s], "deleted" \notin noticed'[s]
      PROVE  files'[s].messages # NoMessages
  BY <1>3, <1>4 DEF Knows, Was
<1>5. ASSUME command.pc = "files", "shortened" \notin noticed'[s], "deleted" \notin noticed'[s]
      PROVE  PassType(command.pass) /\ Within(Latest(s)', command.pass)
  <2>1. PassType(command.pass) /\ Within(Latest(s), command.pass) /\ Extends(Latest(s), Latest(s)')
    BY <1>3, <1>5 DEF Knows, Was
  <2>2. PICK h, k : h = Latest(s) /\ k = Latest(s)'
    OBVIOUS
  <2> QED BY <2>1, <2>2, WithinExtends
<1>6. ASSUME command.pc = "files", "swapped" \notin noticed'[s], "deleted" \notin noticed'[s]
      PROVE  files'[s].messages # NoMessages /\ Exact(Latest(s)', command.pass)
  <2>1. /\ files[s].messages # NoMessages /\ Exact(Latest(s), command.pass)
        /\ files'[s].messages = files[s].messages /\ "swapped" \notin noticed[s]
    BY <1>3, <1>6 DEF Knows, Was
  <2>2. owner[s].pc # "install" /\ owner'[s].pc # "install"
    BY <1>1, <1>6, <2>1 DEF Knows, Was
  <2>3. Latest(s)' = Latest(s)
    BY <2>1, <2>2 DEF Latest
  <2> QED BY <2>1, <2>3
<1>7. command' = command /\ PassType(command.pass)' = PassType(command.pass)
  BY DEF PassType
<1>8. /\ Within(Latest(s), command.pass)' = Within(Latest(s)', command.pass)
      /\ Exact(Latest(s), command.pass)' = Exact(Latest(s)', command.pass)
  BY DEF Within, Exact, ExactAt
<1> QED BY <1>1, <1>2, <1>3, <1>4, <1>5, <1>6, <1>7, <1>8 DEF Knows, Was

LEMMA RunsFollowed ==
  ASSUME Ordered, Shapes, Runs, NEW s \in Sessions PROVE Followed(s)
<1>1. PICK t \in Sessions :
        Create(t) \/ CreateFiles(t) \/ Resume(t) \/ MoveAside(t) \/ Install(t) \/ Stop(t) \/ LateLock(t)
  BY DEF Runs
<1>2. CASE t = s
  BY <1>1, <1>2, RunFollowed
<1>3. CASE t # s
  <2>1. files'[s] = files[s] /\ owner'[s] = owner[s] /\ noticed'[s] = noticed[s]
    <3>1. CASE Create(t)
      BY <1>3, <3>1 DEF Create, Notice, Shapes
    <3>2. CASE ~Create(t)
      <4>1. InPlace(t)
        BY <1>1, <3>2, RunsInPlace
      <4> QED BY <1>3, <4>1 DEF InPlace, FilesInPlace, Shapes
    <3> QED BY <3>1, <3>2
  <2> QED BY <2>1, SameFollowed
<1> QED BY <1>2, <1>3

LEMMA DeletionsFollowed ==
  ASSUME Ordered, Shapes, Deletions, deletion["command"].pc = "none", NEW s \in Sessions
  PROVE  Followed(s)
<1>1. PICK t \in Sessions :
        \/ Delete("another", t)
        \/ /\ t = deletion["another"].session
           /\ Clear("another") \/ ListRest("another") \/ Erase("another") \/ RemoveDirectory("another")
  <2>1. ASSUME NEW d \in Deleters, Clear(d) \/ ListRest(d) \/ Erase(d) \/ RemoveDirectory(d)
        PROVE  d = "another" /\ deletion[d].session \in Sessions
    BY <2>1 DEF Deleters, Clear, ListRest, Erase, RemoveDirectory, Shapes
  <2> QED BY <2>1 DEF Deletions
<1>2. CASE t = s
  BY <1>1, <1>2, DeletionFollowed
<1>3. CASE t # s
  <2>1. InPlace(t)
    BY <1>1, DeleteStep, ClearStep, ListRestStep, EraseStep, RemoveStep DEF Deleting, Deleters
  <2>2. files'[s] = files[s] /\ owner'[s] = owner[s] /\ noticed'[s] = noticed[s]
    BY <1>3, <2>1 DEF InPlace, FilesInPlace, Shapes
  <2> QED BY <2>2, SameFollowed
<1> QED BY <1>2, <1>3

\* What is in messages/ of the session that is read.
LEMMA LatestIs ==
  ASSUME Ordered, NEW s \in Sessions, Knows(s), files[s].metadata
  PROVE  /\ Made(Latest(s), groups) /\ Latest(s) \in Seq(Nat)
         /\ files[s].messages # NoMessages =>
              files[s].messages = Segments(Latest(s)) /\ DOMAIN files[s].messages = 1..Filled(Latest(s))
         /\ files[s].messages = NoMessages /\ owner[s].pc # "install" => Latest(s) = <<>>
<1>1. InOrder(files[s], owner[s], At(s), groups)
  BY DEF Ordered
<1>2. Made(Latest(s), groups) /\ Latest(s) \in Seq(Nat)
  BY LatestMade DEF Made
<1>3. ASSUME files[s].messages # NoMessages
      PROVE  files[s].messages = Segments(Latest(s)) /\ DOMAIN files[s].messages = 1..Filled(Latest(s))
  <2>1. owner[s].pc # "install" /\ Packed(files[s].messages, groups)
    BY <1>1, <1>3 DEF InOrder
  <2>2. files[s].messages = Segments(Latest(s))
    BY <1>3, <2>1 DEF Packed, Latest
  <2> QED BY <1>2, <2>2, SegmentIs
<1>4. files[s].messages = NoMessages /\ owner[s].pc # "install" => Latest(s) = <<>>
  BY DEF Latest, RowsOf
<1> QED BY <1>2, <1>3, <1>4

\* The command goes on without a pass.
LEMMA MovesKnow ==
  ASSUME NEW s \in Sessions, Knows(s), UNCHANGED <<files, owner, noticed>>,
         command'.pc \in {"look", "names", "load"},
         command.pc = "metadata" => files[s].metadata,
         command'.pc = "names" => files[s].messages # NoMessages
  PROVE  Knows(s)'
BY DEF Knows, Was

\* The command goes on in its pass.
LEMMA PassKnows ==
  ASSUME NEW s \in Sessions, Knows(s), UNCHANGED <<files, owner, noticed>>,
         command.pc \in {"names", "files"}, command'.pc = "files", NEW pass, command'.pass = pass,
         ~Was("shortened", s) /\ ~Was("deleted", s) => PassType(pass) /\ Within(Latest(s), pass),
         ~Was("swapped", s) /\ ~Was("deleted", s) => files[s].messages # NoMessages /\ Exact(Latest(s), pass)
  PROVE  Knows(s)'
<1>1. PICK h : h = Latest(s)
  OBVIOUS
<1>2. Latest(s)' = h
  BY <1>1 DEF Latest
<1>3. /\ PassType(command.pass)' = PassType(pass)
      /\ Within(Latest(s), command.pass)' = Within(h, pass)
      /\ Exact(Latest(s), command.pass)' = Exact(h, pass)
  BY <1>2 DEF PassType, Within, Exact, ExactAt
<1>4. \A what : Was(what, s)' = Was(what, s)
  BY DEF Was
<1> QED BY <1>1, <1>3, <1>4 DEF Knows

LEMMA ReadKnows ==
  ASSUME SweepInv, Ordered, command.does = "show", NEW s, s = command.session, s \in Sessions, Knows(s),
         ReadSession, command'.pc # "ended"
  PROVE  Knows(s)'
<1>1. UNCHANGED <<files, owner, noticed>> /\ CommandShape(command)
  BY DEF ReadSession, ReadMetadata, Load, Look, ListNames, TestName, ReadFile, Reading, SweepInv, Shapes
<1>2. ASSUME NEW health \in {"ok", "corrupt", "inaccessible"}, Summarized(s, health)
      PROVE  command'.pc = "load" /\ health = "ok"
  BY <1>1, <1>2 DEF Summarized, End, To, CommandShape
<1>3. CASE ReadMetadata
  <2>1. command.pc = "metadata"
    BY <1>3 DEF ReadMetadata, Reading
  <2>2. files[s].metadata /\ command'.pc = "look"
    BY <1>1, <1>2, <1>3 DEF ReadMetadata, To, CommandShape
  <2> QED BY <1>1, <2>2, MovesKnow
<1>4. CASE Load
  <2>1. files[s].metadata /\ command'.pc = "look" /\ command.pc = "load"
    BY <1>1, <1>4 DEF Load, Reading, To, End, CommandShape
  <2> QED BY <1>1, <2>1, MovesKnow
<1>5. CASE Look
  <2>1. command.pc = "look"
    BY <1>5 DEF Look, Reading
  <2>2. CASE files[s].messages # NoMessages
    <3>1. command'.pc = "names"
      BY <1>1, <1>5, <2>2 DEF Look, To, CommandShape
    <3> QED BY <1>1, <2>1, <2>2, <3>1, MovesKnow
  <2>3. CASE files[s].messages = NoMessages
    <3>1. HaveRows(s, <<>>)
      BY <1>5, <2>3 DEF Look
    <3>2. command'.pc = "load"
      BY <1>1, <1>2, <3>1 DEF HaveRows, To, CommandShape
    <3> QED BY <1>1, <2>1, <3>2, MovesKnow
  <2> QED BY <2>2, <2>3
<1>6. CASE ListNames
  <2>1. /\ files[s].messages # NoMessages /\ command.pc = "names"
        /\ command' = [To("files") EXCEPT !.pass = [NoPass EXCEPT !.names = Listing(files[s].messages)]]
    BY <1>1, <1>6 DEF ListNames, Reading, End, To, CommandShape
  <2>2. PICK pass : pass = [NoPass EXCEPT !.names = Listing(files[s].messages)]
    OBVIOUS
  <2>3. command'.pc = "files" /\ command'.pass = pass
    BY <1>1, <2>1, <2>2 DEF To, CommandShape
  <2>4. ASSUME ~Was("deleted", s) PROVE PassType(pass) /\ Within(Latest(s), pass) /\ Exact(Latest(s), pass)
    <3>1. files[s].metadata
      BY <2>1, <2>4 DEF Knows
    <3>2. PICK h, N, q : h = Latest(s) /\ N = Filled(h) /\ q = Listing(files[s].messages)
      OBVIOUS
    <3>3. h \in Seq(Nat) /\ DOMAIN files[s].messages = 1..N
      BY <2>1, <3>1, <3>2, LatestIs
    <3>4. N \in Nat
      BY <3>2, <3>3, FilledUp
    <3>5. q \in [1..N -> 1..N] /\ \A k \in 1..N : q[k] = k
      BY <3>2, <3>3, <3>4, ListingIs
    <3>6. pass = [NoPass EXCEPT !.names = q]
      BY <2>2, <3>2
    <3> QED BY <3>2, <3>3, <3>4, <3>5, <3>6, PassBegins
  <2> QED BY <1>1, <2>1, <2>3, <2>4, PassKnows
<1>7. CASE TestName
  <2>1. command.pc = "files" /\ command.pass.names # <<>>
    BY <1>7 DEF TestName, Reading
  <2>2. PICK pass, isFile :
          /\ pass = command.pass
          /\ isFile = (files[s].messages # NoMessages /\ Head(pass.names) \in DOMAIN files[s].messages)
    OBVIOUS
  <2>3. PICK next : next = [names |-> Tail(pass.names), rows |-> pass.rows,
                            paths |-> IF isFile THEN Append(pass.paths, Head(pass.names)) ELSE pass.paths]
    OBVIOUS
  <2>4. command' = [command EXCEPT !.pass = next] /\ isFile \in BOOLEAN
    BY <1>7, <2>2, <2>3 DEF TestName
  <2>5. command'.pc = "files" /\ command'.pass = next
    BY <1>1, <2>1, <2>4 DEF CommandShape
  <2>6. ASSUME ~Was("shortened", s), ~Was("deleted", s) PROVE PassType(next) /\ Within(Latest(s), next)
    <3>1. PassType(pass) /\ Within(Latest(s), pass) /\ files[s].metadata
      BY <2>1, <2>2, <2>6 DEF Knows
    <3>2. PICK h : h = Latest(s) /\ h \in Seq(Nat)
      BY <3>1, LatestIs
    <3>3. Filled(h) \in Nat
      BY <3>2, FilledUp
    <3> QED BY <2>1, <2>2, <2>3, <2>4, <3>1, <3>2, <3>3, PassTests
  <2>7. ASSUME ~Was("swapped", s), ~Was("deleted", s)
        PROVE  files[s].messages # NoMessages /\ Exact(Latest(s), next)
    <3>1. /\ PassType(pass) /\ Exact(Latest(s), pass) /\ files[s].metadata /\ files[s].messages # NoMessages
      BY <2>1, <2>2, <2>7 DEF Knows
    <3>2. PICK h : h = Latest(s) /\ h \in Seq(Nat)
      BY <3>1, LatestIs
    <3>3. Filled(h) \in Nat /\ DOMAIN files[s].messages = 1..Filled(h)
      BY <3>1, <3>2, FilledUp, LatestIs
    <3>4. isFile
      BY <2>1, <2>2, <3>1, <3>2, <3>3, ExactGoesOn
    <3>5. Exact(h, next)
      BY <2>1, <2>2, <2>3, <2>4, <3>1, <3>2, <3>3, <3>4, PassTests
    <3> QED BY <3>1, <3>2, <3>5
  <2> QED BY <1>1, <2>1, <2>5, <2>6, <2>7, PassKnows
<1>8. CASE ReadFile
  <2>1. command.pc = "files" /\ command.pass.names = <<>>
    BY <1>8 DEF ReadFile, Reading
  <2>2. PICK pass, p : pass = command.pass /\ p = Head(pass.paths)
    OBVIOUS
  <2>3. CASE pass.paths = <<>>
    <3>1. HaveRows(s, pass.rows)
      BY <1>8, <2>2, <2>3 DEF ReadFile
    <3>2. command'.pc = "load"
      BY <1>1, <1>2, <3>1 DEF HaveRows, To, CommandShape
    <3> QED BY <1>1, <2>1, <3>2, MovesKnow
  <2>4. CASE pass.paths # <<>>
    <3>1. files[s].messages # NoMessages /\ p \in DOMAIN files[s].messages
      BY <1>1, <1>2, <1>8, <2>2, <2>4 DEF ReadFile, End, To, CommandShape
    <3>2. PICK next : next = [names |-> <<>>, paths |-> Tail(pass.paths),
                              rows |-> pass.rows \o files[s].messages[p]]
      OBVIOUS
    <3>3. command' = [command EXCEPT !.pass = next]
      BY <1>8, <2>2, <2>4, <3>1, <3>2 DEF ReadFile
    <3>4. command'.pc = "files" /\ command'.pass = next
      BY <1>1, <2>1, <3>3 DEF CommandShape
    <3>5. ASSUME ~Was("shortened", s), ~Was("deleted", s)
          PROVE  /\ PassType(pass) /\ Within(Latest(s), pass) /\ PassType(next)
                 /\ Within(Latest(s), next) /\ (Exact(Latest(s), pass) => Exact(Latest(s), next))
      <4>1. PassType(pass) /\ Within(Latest(s), pass) /\ files[s].metadata
        BY <2>1, <2>2, <3>5 DEF Knows
      <4>2. PICK h : h = Latest(s) /\ Made(h, groups)
        BY <4>1, LatestIs
      <4>3. files[s].messages = Segments(h) /\ p \in 1..Filled(h)
        BY <3>1, <4>1, <4>2, LatestIs
      <4>4. next = [names |-> <<>>, paths |-> Tail(pass.paths), rows |-> pass.rows \o Segments(h)[p]]
        BY <3>2, <4>3
      <4>5. /\ PassType(next) /\ (Within(h, pass) => Within(h, next)) /\ (Exact(h, pass) => Exact(h, next))
        <5>1. PICK g : g = groups /\ Made(h, g)
          BY <4>2
        <5>2. PassType(pass) /\ ReadsFile(h, pass, next)
          BY <2>1, <2>2, <2>4, <4>1, <4>3, <4>4 DEF ReadsFile
        <5> QED BY <5>1, <5>2, PassReads
      <4> QED BY <4>1, <4>2, <4>5
    <3>6. ASSUME ~Was("swapped", s), ~Was("deleted", s)
          PROVE  files[s].messages # NoMessages /\ Exact(Latest(s), next)
      <4>1. ~Was("shortened", s) /\ Exact(Latest(s), pass)
        BY <2>1, <2>2, <3>6 DEF Knows
      <4> QED BY <3>1, <3>5, <3>6, <4>1
    <3> QED BY <1>1, <2>1, <3>4, <3>5, <3>6, PassKnows
  <2> QED BY <2>3, <2>4
<1> QED BY <1>3, <1>4, <1>5, <1>6, <1>7, <1>8 DEF ReadSession

LEMMA InitShows == ASSUME InspectionInit PROVE ShowInv
<1>1. SweepInv
  BY InitSweeps
<1>2. /\ groups = 0 /\ deletion["another"].pc = "none" /\ command.does = "none"
      /\ \A s \in Sessions : files[s] = NoFiles /\ owner[s] = NoOwner
  BY DEF InspectionInit, NoDeletion, Deleters, NewCommand
<1>3. ASSUME NEW s \in Sessions PROVE InOrder(files[s], owner[s], At(s), groups)
  <2>1. At(s) = "none"
    BY <1>2 DEF At
  <2>2. ~NoFiles.directory /\ ~NoFiles.metadata /\ NoOwner.pc = "none" /\ NoOwner.history = <<>>
    BY DEF NoFiles, NoOwner
  <2> QED BY <1>2, <2>1, <2>2 DEF InOrder
<1> QED BY <1>1, <1>2, <1>3 DEF ShowInv, Showing, Ordered

LEMMA NextShows == ASSUME ShowInv, [InspectionNext]_inspection PROVE ShowInv'
<1> USE DEF ShowInv
<1>1. SweepInv'
  BY NextSweeps
<1>2. command'.does = command.does \/ (command.does = "none" /\ Command)
  <2>1. CASE Runs \/ UNCHANGED inspection
    BY <2>1, RunsAside DEF SweepInv, Aside, inspection
  <2>2. CASE Deletions
    <3>1. \/ \E t \in Sessions : Delete("another", t)
          \/ \E d \in Deleters : Clear(d) \/ ListRest(d) \/ Erase(d) \/ RemoveDirectory(d)
      BY <2>2 DEF Deletions
    <3>2. UNCHANGED command \/ command' = To("ended")
      BY <3>1 DEF Delete, Clear, ListRest, Erase, RemoveDirectory, Told
    <3> QED BY <3>2 DEF To, SweepInv, Shapes, CommandShape
  <2>3. CASE Command
    <3>1. CASE StartDeleteAll \/ \E s \in Sessions : Show(s)
      <4>1. command.pc = "none"
        BY <3>1 DEF StartDeleteAll, Show, Begin
      <4> QED BY <2>3, <4>1 DEF SweepInv, CommandType
    <3>2. CASE ReadSession
      BY <3>2, ReadMoves DEF SweepInv, Moves
    <3>3. ASSUME NEW s \in Sessions, Summarize(s) \/ DeleteListed(s) PROVE command'.does = command.does
      BY <3>3 DEF Summarize, DeleteListed, Delete, Told, To, SweepInv, Shapes, CommandShape
    <3>4. CASE StartDeleting \/ EndDeleteAll
      BY <3>4 DEF StartDeleting, EndDeleteAll, To, SweepInv, Shapes, CommandShape
    <3> QED BY <2>3, <3>1, <3>2, <3>3, <3>4 DEF Command
  <2> QED BY <2>1, <2>2, <2>3 DEF InspectionNext
<1>3. command'.does # "delete-all" => Ordered'
  <2>1. ASSUME command'.does # "delete-all" PROVE command.does # "delete-all"
    BY <1>2, <2>1
  <2> QED BY <2>1, OrderedNext DEF Showing
<1>4. ASSUME command'.does = "show", command'.pc # "ended" PROVE Knows(command.session)'
  <2>1. CASE command.does = "none"
    <3>1. command.pc = "none"
      BY <2>1 DEF SweepInv, CommandType
    <3>2. Command
      BY <1>2, <1>4, <2>1
    <3>3. PICK s \in Sessions : Show(s)
      BY <1>4, <3>1, <3>2, <2>1 DEF Command, StartDeleteAll, Begin, NewCommand, Summarize, DeleteListed,
        StartDeleting, EndDeleteAll, ReadSession, ReadMetadata, Load, Look, ListNames, TestName, ReadFile, Reading
    <3>4. /\ command'.pc = "metadata" /\ command'.session = s /\ UNCHANGED owner
          /\ noticed'[s] = IF owner[s].pc = "install" THEN {"swapped"} ELSE {}
      BY <3>3 DEF Show, Begin, NewCommand
    <3> QED BY <3>4 DEF Knows, Was
  <2>2. CASE command.does = "show"
    <3>1. command.pc # "ended" => Knows(command.session) /\ command.session \in Sessions
      BY <2>2 DEF Showing, SweepInv, CommandType, Labels, Summarizing
    <3>2. deletion["command"].pc = "none" /\ Ordered
      BY <2>2 DEF Showing, SweepInv, CommandType
    <3>3. CASE Runs /\ command.pc # "ended"
      <4>1. UNCHANGED command /\ Followed(command.session)
        BY <3>1, <3>2, <3>3, RunsFollowed, RunsAside DEF SweepInv, Aside
      <4> QED BY <3>1, <3>3, <4>1, KnowsKeeps
    <3>4. CASE Deletions /\ command.pc # "ended"
      <4>1. ASSUME NEW d \in Deleters, Clear(d) \/ ListRest(d) \/ Erase(d) \/ RemoveDirectory(d) PROVE d = "another"
        BY <3>2, <4>1 DEF Deleters, Clear, ListRest, Erase, RemoveDirectory
      <4>2. UNCHANGED command
        BY <3>4, <4>1 DEF Deletions, Delete, Clear, ListRest, Erase, RemoveDirectory, Told
      <4>3. Followed(command.session)
        BY <3>1, <3>2, <3>4, DeletionsFollowed DEF SweepInv
      <4> QED BY <3>1, <3>4, <4>2, <4>3, KnowsKeeps
    <3>5. CASE Command /\ command.pc # "ended"
      <4>1. ReadSession
        BY <2>2, <3>5 DEF Command, StartDeleteAll, Show, Begin, Summarize, DeleteListed,
          StartDeleting, EndDeleteAll, Reading, SweepInv, CommandType
      <4>2. command'.session = command.session
        BY <4>1, ReadMoves DEF SweepInv, Moves
      <4>3. PICK s : s = command.session
        OBVIOUS
      <4>4. Knows(s)'
        BY <1>4, <2>2, <3>1, <3>2, <3>5, <4>1, <4>3, ReadKnows
      <4> QED BY <4>2, <4>3, <4>4 DEF Knows
    <3>6. CASE UNCHANGED inspection
      <4>1. UNCHANGED <<files, owner, command, noticed>>
        BY <3>6 DEF inspection
      <4> QED BY <1>4, <3>1, <4>1 DEF Knows, Was, Latest, PassType, Within, Exact, ExactAt
    <3> QED BY <3>3, <3>4, <3>5, <3>6 DEF InspectionNext
  <2> QED BY <1>2, <1>4, <2>1, <2>2
<1> QED BY <1>1, <1>3, <1>4 DEF Showing

LEMMA ShowAnswers ==
  ASSUME SweepInv, Ordered, command.does = "show", NEW s, s = command.session, s \in Sessions, Knows(s),
         ReadSession, command'.pc = "ended"
  PROVE  AnswerAgrees(s)
<1>1. CommandShape(command) /\ outcome = [t \in Sessions |-> outcome[t]]
  BY DEF SweepInv, Shapes
<1>2. ASSUME NEW what, what # "shown", End(s, what), ~files[s].metadata \/ Was("swapped", s) \/ Was("deleted", s)
      PROVE  AnswerAgrees(s)
  <2>1. outcome'[s] = what
    BY <1>1, <1>2 DEF End
  <2> QED BY <1>2, <2>1 DEF AnswerAgrees
<1>3. ASSUME NEW health \in {"ok", "corrupt", "inaccessible"}, Summarized(s, health)
      PROVE  health # "ok" /\ End(s, health)
  BY <1>1, <1>3 DEF Summarized, To, CommandShape
<1>4. ASSUME NEW rows, HaveRows(s, rows),
             ~Was("swapped", s) /\ ~Was("deleted", s) => rows = Latest(s),
             ~Was("shortened", s) /\ ~Was("deleted", s) =>
               /\ Increasing(rows)
               /\ \A i \in DOMAIN rows : \E j \in DOMAIN Latest(s) : rows[i] = Latest(s)[j]
      PROVE  AnswerAgrees(s)
  <2>1. command.loading
    BY <1>3, <1>4 DEF HaveRows
  <2>2. outcome' = [outcome EXCEPT ![s] = "shown"]
        /\ command' = [To("ended") EXCEPT !.pass = [NoPass EXCEPT !.rows = rows]]
    BY <1>4, <2>1 DEF HaveRows
  <2>3. outcome'[s] = "shown" /\ command'.pass.rows = rows
    BY <1>1, <2>2 DEF To, CommandShape, NoPass
  <2> QED BY <1>4, <2>3 DEF AnswerAgrees, Increasing
<1>5. CASE ReadMetadata
  <2>1. ~files[s].metadata /\ Summarized(s, "corrupt")
    BY <1>1, <1>5 DEF ReadMetadata, To, CommandShape
  <2> QED BY <1>2, <1>3, <2>1
<1>6. CASE Load
  <2>1. ~(files[s].directory /\ files[s].metadata) /\ End(s, "error")
    BY <1>1, <1>6 DEF Load, To, CommandShape
  <2>2. InOrder(files[s], owner[s], At(s), groups)
    BY DEF Ordered
  <2>3. ~files[s].metadata
    BY <2>1, <2>2 DEF InOrder
  <2> QED BY <1>2, <2>1, <2>3
<1>7. CASE Look
  <2>1. command.pc = "look" /\ files[s].messages = NoMessages /\ HaveRows(s, <<>>)
    BY <1>1, <1>7 DEF Look, Reading, To, CommandShape
  <2>2. ASSUME ~Was("swapped", s), ~Was("deleted", s) PROVE Latest(s) = <<>>
    <3>1. owner[s].pc # "install" /\ files[s].metadata
      BY <2>1, <2>2 DEF Knows
    <3> QED BY <2>1, <3>1, LatestIs
  <2>3. DOMAIN <<>> = {}
    OBVIOUS
  <2>4. Increasing(<<>>)
    BY <2>3 DEF Increasing
  <2> QED BY <1>4, <2>1, <2>2, <2>3, <2>4
<1>8. CASE ListNames
  <2>1. command.pc = "names" /\ files[s].messages = NoMessages /\ End(s, "raised")
    BY <1>1, <1>8 DEF ListNames, Reading, To, CommandShape
  <2>2. Was("swapped", s) \/ Was("deleted", s)
    BY <2>1 DEF Knows
  <2> QED BY <1>2, <2>1, <2>2
<1>9. CASE TestName
  <2>1. command.pc = "files" /\ command'.pc = command.pc
    BY <1>1, <1>9 DEF TestName, Reading, CommandShape
  <2> QED BY <2>1
<1>10. CASE ReadFile
  <2>1. command.pc = "files" /\ command.pass.names = <<>>
    BY <1>10 DEF ReadFile, Reading
  <2>2. PICK pass, p : pass = command.pass /\ p = Head(pass.paths)
    OBVIOUS
  <2>3. PICK h : h = Latest(s)
    OBVIOUS
  <2>4. ASSUME ~Was("swapped", s), ~Was("deleted", s)
        PROVE  /\ h \in Seq(Nat) /\ PassType(pass) /\ Exact(h, pass)
               /\ files[s].messages # NoMessages /\ DOMAIN files[s].messages = 1..Filled(h)
    <3>1. /\ files[s].metadata /\ ~Was("shortened", s) /\ PassType(pass) /\ Exact(h, pass)
          /\ files[s].messages # NoMessages
      BY <2>1, <2>2, <2>3, <2>4 DEF Knows
    <3> QED BY <2>3, <3>1, LatestIs
  <2>5. CASE pass.paths = <<>>
    <3>1. HaveRows(s, pass.rows)
      BY <1>10, <2>2, <2>5 DEF ReadFile
    <3>2. ASSUME ~Was("swapped", s), ~Was("deleted", s) PROVE pass.rows = h
      BY <2>1, <2>2, <2>4, <2>5, <3>2, ExactGoesOn
    <3>3. ASSUME ~Was("shortened", s), ~Was("deleted", s)
          PROVE  /\ Increasing(pass.rows)
                 /\ \A i \in DOMAIN pass.rows : \E j \in DOMAIN h : pass.rows[i] = h[j]
      <4>1. Within(h, pass)
        BY <2>1, <2>2, <2>3, <3>3 DEF Knows
      <4> QED BY <4>1 DEF Within
    <3> QED BY <1>4, <2>3, <3>1, <3>2, <3>3
  <2>6. CASE pass.paths # <<>>
    <3>1. CASE files[s].messages # NoMessages /\ p \in DOMAIN files[s].messages
      <4>1. command' = [command EXCEPT !.pass = [names |-> <<>>, paths |-> Tail(pass.paths),
                                                 rows |-> pass.rows \o files[s].messages[p]]]
        BY <1>10, <2>2, <2>6, <3>1 DEF ReadFile
      <4>2. command'.pc = command.pc
        BY <1>1, <4>1 DEF CommandShape
      <4> QED BY <2>1, <4>2
    <3>2. CASE ~(files[s].messages # NoMessages /\ p \in DOMAIN files[s].messages)
      <4>1. End(s, "error") \/ Summarized(s, "inaccessible")
        BY <1>10, <2>2, <2>6, <3>2 DEF ReadFile
      <4>2. End(s, "error") \/ End(s, "inaccessible")
        BY <1>3, <4>1
      <4>3. Was("swapped", s) \/ Was("deleted", s)
        BY <2>1, <2>2, <2>4, <2>6, <3>2, ExactGoesOn
      <4> QED BY <1>2, <4>2, <4>3
    <3> QED BY <3>1, <3>2
  <2> QED BY <2>5, <2>6
<1> QED BY <1>5, <1>6, <1>7, <1>8, <1>9, <1>10 DEF ReadSession

\* What `session show` tells agrees with the session (show, load_messages and the checkpoint that
\* replaces messages/ while it reads): it counts the groups of the latest history when nothing
\* happens meanwhile, groups of it in order when checkpoints do, and it blames a session only to
\* which something happened.
THEOREM ShowTellsTheHistory == InspectionSpec => ShowAgrees
<1>1. InspectionInit => ShowInv
  BY InitShows
<1>2. ShowInv /\ [InspectionNext]_inspection => ShowInv'
  BY NextShows
<1>3. ASSUME ShowInv, [InspectionNext]_inspection,
             command.pc # "ended", command'.pc = "ended", command'.does = "show"
      PROVE  AnswerAgrees(command.session)
  <2>1. Shapes /\ CommandType
    BY <1>3 DEF ShowInv, SweepInv
  <2>2. InspectionNext
    BY <1>3 DEF inspection
  <2>3. ~Runs
    <3>1. CASE Runs
      BY <1>3, <2>1, <3>1, RunsAside DEF Aside
    <3> QED BY <3>1
  <2>4. command.does = "show"
    <3>1. CASE Deletions
      <4>1. UNCHANGED command \/ command' = To("ended")
        BY <3>1 DEF Deletions, Delete, Clear, ListRest, Erase, RemoveDirectory, Told
      <4> QED BY <1>3, <2>1, <4>1 DEF To, Shapes, CommandShape
    <3>2. CASE Command
      <4>1. CASE ReadSession
        BY <1>3, <2>1, <4>1, ReadMoves DEF Moves
      <4>2. ASSUME NEW s \in Sessions, Show(s) \/ Summarize(s) \/ DeleteListed(s) PROVE command.does = "show"
        BY <1>3, <2>1, <4>2 DEF Show, Begin, NewCommand, Summarize, DeleteListed, Delete, Told, To,
          Shapes, CommandShape
      <4>3. CASE StartDeleteAll \/ StartDeleting \/ EndDeleteAll
        BY <1>3, <2>1, <4>3 DEF StartDeleteAll, Begin, NewCommand, StartDeleting, EndDeleteAll, To,
          Shapes, CommandShape
      <4> QED BY <3>2, <4>1, <4>2, <4>3 DEF Command
    <3> QED BY <2>2, <2>3, <3>1, <3>2 DEF InspectionNext
  <2>5. deletion["command"].pc = "none" /\ Ordered /\ Knows(command.session) /\ command.session \in Sessions
    BY <1>3, <2>1, <2>4 DEF ShowInv, Showing, CommandType, Labels, Summarizing
  <2>6. CASE Deletions
    <3>1. ASSUME NEW d \in Deleters, Clear(d) \/ ListRest(d) \/ Erase(d) \/ RemoveDirectory(d) PROVE d = "another"
      BY <2>5, <3>1 DEF Deleters, Clear, ListRest, Erase, RemoveDirectory
    <3>2. UNCHANGED command
      BY <2>6, <3>1 DEF Deletions, Delete, Clear, ListRest, Erase, RemoveDirectory, Told
    <3> QED BY <1>3, <3>2
  <2>7. CASE Command
    <3>1. ReadSession
      BY <1>3, <2>1, <2>4, <2>7 DEF Command, StartDeleteAll, Show, Begin, Summarize, DeleteListed,
        StartDeleting, EndDeleteAll, Reading, CommandType
    <3>2. PICK s : s = command.session
      OBVIOUS
    <3>3. AnswerAgrees(s)
      BY <1>3, <2>4, <2>5, <3>1, <3>2, ShowAnswers DEF ShowInv
    <3> QED BY <3>2, <3>3
  <2> QED BY <2>2, <2>3, <2>6, <2>7 DEF InspectionNext
<1>4. ShowInv /\ [InspectionNext]_inspection =>
        [command.pc # "ended" /\ command'.pc = "ended" /\ command'.does = "show" =>
           AnswerAgrees(command.session)]_inspection
  BY <1>3
<1> QED BY <1>1, <1>2, <1>4, PTL DEF InspectionSpec, ShowAgrees
=============================================================================
