------------------------ MODULE ContextBudgetProofs -------------------------
(***************************************************************************)
(* What the operators over histories return, for every history: what a     *)
(* selection keeps and in which order, what a scan makes of one message    *)
(* more, how a history that may be replayed is cut into groups, windows    *)
(* and files.  The proofs about the agent loop and about histories rest    *)
(* on it.                                                                  *)
(***************************************************************************)
EXTENDS ContextBudget, WellFoundedInduction, FiniteSetTheorems, SequenceTheorems, TLAPS

-----------------------------------------------------------------------------
(* Induction and selection                                                 *)

\* Induction over the naturals, for a set and not for a predicate: it follows from the
\* well-foundedness of <, without an operator as a parameter.
LEMMA SetInduction ==
  ASSUME NEW S \in SUBSET Nat, 0 \in S, \A n \in S : n + 1 \in S
  PROVE  S = Nat
<1> SUFFICES ASSUME S # Nat PROVE FALSE
  OBVIOUS
<1> DEFINE T == Nat \ S
<1>1. IsWellFoundedOn(OpToRel(<,Nat), Nat)
  BY NatLessThanWellFounded
<1> DEFINE R == OpToRel(<,Nat)
<1>2. \A x, y \in Nat : x < y => <<x, y>> \in R
  BY DEF OpToRel
<1> HIDE DEF R
<1>3. PICK x \in T : \A y \in T : ~(<<y, x>> \in R)
  <2>1. T \subseteq Nat /\ T # {}
    OBVIOUS
  <2>2. IsWellFoundedOn(R, Nat)
    BY <1>1 DEF R
  <2> HIDE DEF T
  <2> QED BY <2>1, <2>2, WFMin
<1>4. x # 0 /\ x - 1 \in Nat /\ x - 1 < x /\ (x - 1) + 1 = x
  BY <1>3
<1>5. x - 1 \in S
  BY <1>2, <1>3, <1>4
<1> QED BY <1>3, <1>4, <1>5

\* What the recursive function in Only satisfies.
Selects(f, seq, S, m) ==
  f = [n \in 0..m |-> IF n = 0 THEN <<>>
                      ELSE IF seq[n] \in S THEN Append(f[n - 1], seq[n]) ELSE f[n - 1]]

\* There is such a function, of any length.
LEMMA SelectsExists ==
  ASSUME NEW seq, NEW S
  PROVE  \A m \in Nat : \E f : Selects(f, seq, S, m)
<1> DEFINE M == {m \in Nat : \E f : Selects(f, seq, S, m)}
<1>1. 0 \in M
  <2> DEFINE f == [n \in 0..0 |-> <<>>]
  <2>1. Selects(f, seq, S, 0)
    BY DEF Selects
  <2> QED BY <2>1
<1>2. ASSUME NEW m \in M PROVE m + 1 \in M
  <2>1. PICK f : Selects(f, seq, S, m)
    OBVIOUS
  <2> DEFINE last == IF seq[m + 1] \in S THEN Append(f[m], seq[m + 1]) ELSE f[m]
             g == [n \in 0..m + 1 |-> IF n = m + 1 THEN last ELSE f[n]]
  <2>2. ASSUME NEW n \in 0..m + 1
        PROVE  g[n] = IF n = 0 THEN <<>>
                      ELSE IF seq[n] \in S THEN Append(g[n - 1], seq[n]) ELSE g[n - 1]
    <3>1. CASE n = m + 1
      BY <3>1
    <3>2. CASE n # m + 1
      <4> HIDE DEF last
      <4>1. n \in 0..m /\ g[n] = f[n] /\ (n # 0 => g[n - 1] = f[n - 1])
        BY <3>2
      <4> HIDE DEF g
      <4> QED BY <2>1, <4>1 DEF Selects
    <3> QED BY <3>1, <3>2
  <2>3. Selects(g, seq, S, m + 1)
    <3> HIDE DEF last
    <3>1. g = [n \in 0..m + 1 |-> g[n]]
      OBVIOUS
    <3> HIDE DEF g
    <3> QED BY <2>2, <3>1 DEF Selects
  <2> QED BY <2>3
<1> HIDE DEF M
<1>3. M = Nat
  <2>1. M \in SUBSET Nat
    BY DEF M
  <2> QED BY <1>1, <1>2, <2>1, SetInduction
<1> QED BY <1>3 DEF M

\* It is the same for two sequences as far as they agree.
LEMMA SelectsUnique ==
  ASSUME NEW seq, NEW more, NEW S, NEW m \in Nat, NEW k \in Nat, m <= k,
         \A n \in 1..m : seq[n] = more[n],
         NEW f, Selects(f, seq, S, m), NEW g, Selects(g, more, S, k)
  PROVE  \A n \in 0..m : f[n] = g[n]
<1> DEFINE M == {n \in Nat : n <= m => f[n] = g[n]}
<1>1. 0 \in M
  BY DEF Selects
<1>2. ASSUME NEW n \in M PROVE n + 1 \in M
  <2> SUFFICES ASSUME n + 1 <= m PROVE f[n + 1] = g[n + 1]
    OBVIOUS
  <2>1. f[n] = g[n] /\ n + 1 \in 0..m /\ n + 1 \in 0..k /\ n + 1 # 0 /\ (n + 1) - 1 = n
        /\ seq[n + 1] = more[n + 1]
    OBVIOUS
  <2>2. f[n + 1] = IF seq[n + 1] \in S THEN Append(f[n], seq[n + 1]) ELSE f[n]
    BY <2>1 DEF Selects
  <2>3. g[n + 1] = IF more[n + 1] \in S THEN Append(g[n], more[n + 1]) ELSE g[n]
    BY <2>1 DEF Selects
  <2> QED BY <2>1, <2>2, <2>3
<1> HIDE DEF M
<1>3. M = Nat
  <2>1. M \in SUBSET Nat
    BY DEF M
  <2> QED BY <1>1, <1>2, <2>1, SetInduction
<1> QED BY <1>3 DEF M

\* Only is its last value.
LEMMA OnlySelects ==
  ASSUME NEW seq, NEW S, Len(seq) \in Nat
  PROVE  \E f : Selects(f, seq, S, Len(seq)) /\ Only(seq, S) = f[Len(seq)]
<1> DEFINE f == CHOOSE f : Selects(f, seq, S, Len(seq))
<1>1. Selects(f, seq, S, Len(seq))
  BY SelectsExists
<1>2. Only(seq, S) = f[Len(seq)]
  BY DEF Only, Selects
<1> QED BY <1>1, <1>2

\* Nothing of the empty sequence,
LEMMA OnlyEmpty == ASSUME NEW S PROVE Only(<<>>, S) = <<>>
<1>1. Len(<<>>) = 0
  OBVIOUS
<1> QED BY <1>1, OnlySelects DEF Selects

\* and one element more if it is in the set.
LEMMA OnlyAppend ==
  ASSUME NEW T, NEW seq \in Seq(T), NEW x \in T, NEW S
  PROVE  Only(Append(seq, x), S) = IF x \in S THEN Append(Only(seq, S), x) ELSE Only(seq, S)
<1> DEFINE more == Append(seq, x)
<1>1. /\ Len(seq) \in Nat /\ Len(more) = Len(seq) + 1 /\ more[Len(seq) + 1] = x
      /\ \A n \in 1..Len(seq) : seq[n] = more[n]
  OBVIOUS
<1> HIDE DEF more
<1>2. PICK f : Selects(f, seq, S, Len(seq)) /\ Only(seq, S) = f[Len(seq)]
  BY <1>1, OnlySelects
<1>3. PICK g : Selects(g, more, S, Len(more)) /\ Only(more, S) = g[Len(more)]
  BY <1>1, OnlySelects
<1>4. f[Len(seq)] = g[Len(seq)]
  <2>1. \A n \in 0..Len(seq) : f[n] = g[n]
    <3> DEFINE m == Len(seq)
               k == Len(more)
    <3>1. m \in Nat /\ k \in Nat /\ m <= k
      BY <1>1
    <3>2. Selects(f, seq, S, m) /\ Selects(g, more, S, k) /\ \A n \in 1..m : seq[n] = more[n]
      BY <1>1, <1>2, <1>3
    <3> HIDE DEF m, k
    <3>3. \A n \in 0..m : f[n] = g[n]
      BY <3>1, <3>2, SelectsUnique
    <3> QED BY <3>3 DEF m
  <2> QED BY <1>1, <2>1
<1>5. g[Len(more)] = IF x \in S THEN Append(g[Len(seq)], x) ELSE g[Len(seq)]
  <2> DEFINE k == Len(more)
  <2>1. k \in 0..k /\ k # 0 /\ k - 1 = Len(seq) /\ more[k] = x
    BY <1>1
  <2>2. Selects(g, more, S, k)
    BY <1>3
  <2> HIDE DEF k
  <2>3. g[k] = IF more[k] \in S THEN Append(g[k - 1], more[k]) ELSE g[k - 1]
    BY <2>1, <2>2 DEF Selects
  <2> QED BY <2>1, <2>3 DEF k
<1> QED BY <1>2, <1>3, <1>4, <1>5 DEF more

\* Two sets that agree on a sequence select the same of it.
LEMMA OnlyAgree ==
  ASSUME NEW seq, NEW S, NEW R, Len(seq) \in Nat,
         \A n \in 1..Len(seq) : seq[n] \in S <=> seq[n] \in R
  PROVE  Only(seq, S) = Only(seq, R)
<1>1. PICK f : Selects(f, seq, S, Len(seq)) /\ Only(seq, S) = f[Len(seq)]
  BY OnlySelects
<1>2. PICK g : Selects(g, seq, R, Len(seq)) /\ Only(seq, R) = g[Len(seq)]
  BY OnlySelects
<1>3. Selects(f, seq, R, Len(seq))
  <2> DEFINE Body(n, X) == IF n = 0 THEN <<>>
                           ELSE IF seq[n] \in X THEN Append(f[n - 1], seq[n]) ELSE f[n - 1]
  <2>1. f = [n \in 0..Len(seq) |-> Body(n, S)]
    BY <1>1 DEF Selects
  <2>2. \A n \in 0..Len(seq) : Body(n, S) = Body(n, R)
    <3>1. \A n \in 0..Len(seq) : n # 0 => n \in 1..Len(seq)
      OBVIOUS
    <3> QED BY <3>1
  <2> HIDE DEF Body
  <2>3. f = [n \in 0..Len(seq) |-> Body(n, R)]
    BY <2>1, <2>2
  <2> QED BY <2>3 DEF Selects, Body
<1>4. PICK more, k : more = seq /\ k = Len(seq)
  OBVIOUS
<1>5. Len(seq) \in Nat /\ k \in Nat /\ Len(seq) <= k /\ Selects(g, more, R, k)
      /\ \A n \in 1..Len(seq) : seq[n] = more[n]
  BY <1>2, <1>4
<1>6. \A n \in 0..Len(seq) : f[n] = g[n]
  BY <1>3, <1>5, SelectsUnique
<1> QED BY <1>1, <1>2, <1>6

\* What is selected of the first n elements.
Upto(seq, S, n) == Only(SubSeq(seq, 1, n), S)

LEMMA UptoNext ==
  ASSUME NEW T, NEW seq \in Seq(T), NEW S
  PROVE  /\ Upto(seq, S, 0) = <<>>
         /\ Upto(seq, S, Len(seq)) = Only(seq, S)
         /\ \A n \in Nat : n + 1 <= Len(seq) =>
              Upto(seq, S, n + 1) = IF seq[n + 1] \in S THEN Append(Upto(seq, S, n), seq[n + 1])
                                    ELSE Upto(seq, S, n)
<1>1. SubSeq(seq, 1, 0) = <<>> /\ SubSeq(seq, 1, Len(seq)) = seq
  OBVIOUS
<1>2. ASSUME NEW n \in Nat, n + 1 <= Len(seq)
      PROVE  Upto(seq, S, n + 1) = IF seq[n + 1] \in S THEN Append(Upto(seq, S, n), seq[n + 1])
                                   ELSE Upto(seq, S, n)
  <2> DEFINE first == SubSeq(seq, 1, n)
             x == seq[n + 1]
  <2>1. first \in Seq(T) /\ x \in T
    BY <1>2
  <2>2. SubSeq(seq, 1, n + 1) = Append(first, x)
    BY <1>2
  <2> HIDE DEF first, x
  <2>3. Only(Append(first, x), S) = IF x \in S THEN Append(Only(first, S), x) ELSE Only(first, S)
    BY <2>1, OnlyAppend
  <2> QED BY <2>2, <2>3 DEF Upto, first, x
<1> QED BY <1>1, <1>2, OnlyEmpty DEF Upto

\* What is selected is of the set, in number no more than there was,
LEMMA UptoType ==
  ASSUME NEW T, NEW seq \in Seq(T), NEW S
  PROVE  \A n \in 0..Len(seq) : Upto(seq, S, n) \in Seq(T \cap S)
<1>1. /\ Upto(seq, S, 0) = <<>>
      /\ \A n \in Nat : n + 1 <= Len(seq) =>
           Upto(seq, S, n + 1) = IF seq[n + 1] \in S THEN Append(Upto(seq, S, n), seq[n + 1])
                                 ELSE Upto(seq, S, n)
  BY UptoNext
<1> DEFINE M == {n \in Nat : n <= Len(seq) => Upto(seq, S, n) \in Seq(T \cap S)}
<1>2. 0 \in M
  <2>1. Upto(seq, S, 0) \in Seq(T \cap S)
    <3>1. <<>> \in Seq(T \cap S)
      OBVIOUS
    <3> QED BY <1>1, <3>1
  <2> QED BY <2>1
<1>3. ASSUME NEW n \in M PROVE n + 1 \in M
  <2> SUFFICES ASSUME n + 1 <= Len(seq) PROVE Upto(seq, S, n + 1) \in Seq(T \cap S)
    OBVIOUS
  <2>1. Upto(seq, S, n) \in Seq(T \cap S) /\ seq[n + 1] \in T
    OBVIOUS
  <2>2. Upto(seq, S, n + 1) = IF seq[n + 1] \in S THEN Append(Upto(seq, S, n), seq[n + 1])
                              ELSE Upto(seq, S, n)
    BY <1>1
  <2> DEFINE last == Upto(seq, S, n)
             next == Upto(seq, S, n + 1)
             x == seq[n + 1]
  <2>3. next = (IF x \in S THEN Append(last, x) ELSE last) /\ last \in Seq(T \cap S) /\ x \in T
    BY <2>1, <2>2
  <2> HIDE DEF last, next, x
  <2>4. next \in Seq(T \cap S)
    BY <2>3
  <2> QED BY <2>4 DEF next
<1> HIDE DEF M
<1>4. M = Nat
  <2>1. M \in SUBSET Nat
    BY DEF M
  <2> QED BY <1>2, <1>3, <2>1, SetInduction
<1> QED BY <1>4 DEF M

LEMMA UptoKeeps ==
  ASSUME NEW T, NEW seq \in Seq(T), NEW S, NEW n \in Nat, n + 1 <= Len(seq)
  PROVE  /\ Len(Upto(seq, S, n)) <= Len(Upto(seq, S, n + 1))
         /\ \A k \in 1..Len(Upto(seq, S, n)) : Upto(seq, S, n + 1)[k] = Upto(seq, S, n)[k]
<1>1. \A m \in Nat : m + 1 <= Len(seq) =>
        Upto(seq, S, m + 1) = IF seq[m + 1] \in S THEN Append(Upto(seq, S, m), seq[m + 1])
                              ELSE Upto(seq, S, m)
  BY UptoNext
<1>2. PICK last, next, x : last = Upto(seq, S, n) /\ next = Upto(seq, S, n + 1) /\ x = seq[n + 1]
  OBVIOUS
<1>3. next = last \/ next = Append(last, x)
  <2>1. Upto(seq, S, n + 1) = IF seq[n + 1] \in S THEN Append(Upto(seq, S, n), seq[n + 1])
                              ELSE Upto(seq, S, n)
    BY <1>1
  <2> QED BY <1>2, <2>1
<1>4. last \in Seq(T) /\ x \in T
  <2>1. n \in 0..Len(seq) /\ last \in Seq(T \cap S)
    BY <1>2, UptoType
  <2> QED BY <1>2, <2>1
<1>5. Len(last) <= Len(next) /\ \A k \in 1..Len(last) : next[k] = last[k]
  <2>1. CASE next = last
    BY <1>4, <2>1
  <2>2. CASE next = Append(last, x)
    BY <1>4, <2>2
  <2> QED BY <1>3, <2>1, <2>2
<1> QED BY <1>2, <1>5

\* what is selected of a part is the beginning of what is selected of the whole,
LEMMA UptoGrows ==
  ASSUME NEW T, NEW seq \in Seq(T), NEW S
  PROVE  \A n \in 0..Len(seq), m \in 0..Len(seq) : m <= n =>
           /\ Len(Upto(seq, S, m)) <= Len(Upto(seq, S, n))
           /\ \A k \in 1..Len(Upto(seq, S, m)) : Upto(seq, S, n)[k] = Upto(seq, S, m)[k]
<1> DEFINE Grown(m, n) ==
             /\ Len(Upto(seq, S, m)) <= Len(Upto(seq, S, n))
             /\ \A k \in 1..Len(Upto(seq, S, m)) : Upto(seq, S, n)[k] = Upto(seq, S, m)[k]
           M == {n \in Nat : n <= Len(seq) => \A m \in 0..n : Grown(m, n)}
<1>1. 0 \in M
  BY UptoNext
<1>2. ASSUME NEW n \in M PROVE n + 1 \in M
  <2> SUFFICES ASSUME n + 1 <= Len(seq), NEW m \in 0..n + 1 PROVE Grown(m, n + 1)
    OBVIOUS
  <2>1. Upto(seq, S, n) \in Seq(T \cap S) /\ Upto(seq, S, n + 1) \in Seq(T \cap S)
        /\ Upto(seq, S, m) \in Seq(T \cap S)
    BY UptoType
  <2>2. CASE m = n + 1
    BY <2>1, <2>2
  <2>3. CASE m # n + 1
    <3>1. m \in 0..n /\ Grown(m, n)
      BY <2>3
    <3>2. Grown(n, n + 1)
      BY UptoKeeps
    <3> QED BY <2>1, <3>1, <3>2
  <2> QED BY <2>2, <2>3
<1> HIDE DEF M
<1>3. M = Nat
  <2>1. M \in SUBSET Nat
    BY DEF M
  <2> QED BY <1>1, <1>2, <2>1, SetInduction
<1> QED BY <1>3 DEF M

LEMMA UptoStep ==
  ASSUME NEW T, NEW seq \in Seq(T), NEW S, NEW i \in 1..Len(seq)
  PROVE  Upto(seq, S, i) = IF seq[i] \in S THEN Append(Upto(seq, S, i - 1), seq[i])
                           ELSE Upto(seq, S, i - 1)
<1> DEFINE first == SubSeq(seq, 1, i - 1)
           x == seq[i]
<1>1. first \in Seq(T) /\ x \in T
  OBVIOUS
<1>2. SubSeq(seq, 1, i) = Append(first, x)
  OBVIOUS
<1> HIDE DEF first, x
<1>3. Only(Append(first, x), S) = IF x \in S THEN Append(Only(first, S), x) ELSE Only(first, S)
  BY <1>1, OnlyAppend
<1> QED BY <1>2, <1>3 DEF Upto, first, x

\* the i-th element is found where as many as among the first i were selected,
LEMMA SelectedAt ==
  ASSUME NEW T, NEW seq \in Seq(T), NEW S, NEW i \in 1..Len(seq), seq[i] \in S
  PROVE  /\ Len(Upto(seq, S, i)) = Len(Upto(seq, S, i - 1)) + 1
         /\ Len(Upto(seq, S, i)) \in 1..Len(Only(seq, S))
         /\ Only(seq, S)[Len(Upto(seq, S, i))] = seq[i]
<1>1. i - 1 \in Nat /\ (i - 1) + 1 = i /\ i \in 0..Len(seq) /\ i - 1 \in 0..Len(seq)
  OBVIOUS
<1>2. Upto(seq, S, i) = Append(Upto(seq, S, i - 1), seq[i])
  <2> DEFINE n == i - 1
  <2>1. n \in Nat /\ n + 1 = i /\ n + 1 <= Len(seq)
    BY <1>1
  <2> HIDE DEF n
  <2>2. Upto(seq, S, n + 1) = Append(Upto(seq, S, n), seq[n + 1])
    BY <2>1, UptoNext
  <2> QED BY <2>1, <2>2 DEF n
<1>3. Upto(seq, S, i - 1) \in Seq(T \cap S)
  BY <1>1, UptoType
<1>4. Len(Upto(seq, S, i)) = Len(Upto(seq, S, i - 1)) + 1 /\ Len(Upto(seq, S, i - 1)) \in Nat
      /\ Upto(seq, S, i)[Len(Upto(seq, S, i))] = seq[i]
  BY <1>2, <1>3
<1>5. /\ Len(Upto(seq, S, i)) <= Len(Only(seq, S))
      /\ Only(seq, S)[Len(Upto(seq, S, i))] = Upto(seq, S, i)[Len(Upto(seq, S, i))]
  <2> DEFINE n == Len(seq)
             k == Len(Upto(seq, S, i))
  <2>1. n \in 0..n /\ i <= n /\ k \in 1..k
    BY <1>4
  <2>2. Upto(seq, S, n) = Only(seq, S)
    BY UptoNext
  <2> QED BY <1>1, <2>1, <2>2, UptoGrows
<1>6. Len(Only(seq, S)) \in Nat
  <2>1. Len(seq) \in 0..Len(seq)
    OBVIOUS
  <2> QED BY <2>1, UptoNext, UptoType
<1> QED BY <1>4, <1>5, <1>6

\* and there is nothing else in what is selected.
LEMMA SelectedFrom ==
  ASSUME NEW T, NEW seq \in Seq(T), NEW S, NEW k \in 1..Len(Only(seq, S))
  PROVE  \E i \in 1..Len(seq) : seq[i] \in S /\ Len(Upto(seq, S, i)) = k
<1> DEFINE From(n) == \A j \in 1..Len(Upto(seq, S, n)) :
                        \E i \in 1..n : seq[i] \in S /\ Len(Upto(seq, S, i)) = j
           M == {n \in Nat : n <= Len(seq) => From(n)}
<1>1. 0 \in M
  BY UptoNext
<1>2. ASSUME NEW n \in M PROVE n + 1 \in M
  <2> SUFFICES ASSUME n + 1 <= Len(seq), NEW j \in 1..Len(Upto(seq, S, n + 1))
               PROVE  \E i \in 1..n + 1 : seq[i] \in S /\ Len(Upto(seq, S, i)) = j
    OBVIOUS
  <2>1. Upto(seq, S, n) \in Seq(T \cap S) /\ From(n)
    BY UptoType
  <2>2. Upto(seq, S, n + 1) = IF seq[n + 1] \in S THEN Append(Upto(seq, S, n), seq[n + 1])
                              ELSE Upto(seq, S, n)
    BY UptoNext
  <2>3. CASE j \in 1..Len(Upto(seq, S, n))
    BY <2>1, <2>3
  <2>4. CASE j \notin 1..Len(Upto(seq, S, n))
    <3>1. CASE seq[n + 1] \in S
      <4>1. Len(Upto(seq, S, n + 1)) = Len(Upto(seq, S, n)) + 1
        BY <2>1, <2>2, <3>1
      <4> QED BY <2>1, <2>4, <3>1, <4>1
    <3>2. CASE seq[n + 1] \notin S
      BY <2>2, <2>4, <3>2
    <3> QED BY <3>1, <3>2
  <2> QED BY <2>3, <2>4
<1> HIDE DEF M
<1>3. M = Nat
  <2>1. M \in SUBSET Nat
    BY DEF M
  <2> QED BY <1>1, <1>2, <2>1, SetInduction
<1>4. From(Len(seq)) /\ Upto(seq, S, Len(seq)) = Only(seq, S)
  BY <1>3, UptoNext DEF M
<1> QED BY <1>4
LEMMA OnlyType ==
  ASSUME NEW T, NEW seq \in Seq(T), NEW S
  PROVE  Only(seq, S) \in Seq(T \cap S)
<1>1. Len(seq) \in 0..Len(seq) /\ Upto(seq, S, Len(seq)) = Only(seq, S)
  BY UptoNext
<1> QED BY <1>1, UptoType
-----------------------------------------------------------------------------
(* The scan of is_replay_safe                                              *)

Fresh == [safe |-> TRUE, calls |-> {}, seen |-> {}]

\* What the scan has come to at the end of a history.
Scanned(messages) == FoldLeft(Follow, Fresh, messages)

\* What the recursive function of the fold satisfies, over the positions up to m.
Scans(g, seq, m) ==
  g = [s \in SUBSET (1..m) |-> IF s = {} THEN Fresh
                               ELSE LET x == Max(s) IN Follow(g[s \ {x}], seq[x])]

LEMMA MaxOfPart ==
  ASSUME NEW m \in Nat, NEW s \in SUBSET (1..m + 1), m + 1 \in s
  PROVE  Max(s) = m + 1
<1>1. m + 1 \in s /\ \A y \in s : m + 1 >= y
  OBVIOUS
<1>2. \A x \in s : (\A y \in s : x >= y) => x = m + 1
  OBVIOUS
<1> QED BY <1>1, <1>2 DEF Max

LEMMA ScansExists ==
  ASSUME NEW seq
  PROVE  \A m \in Nat : \E g : Scans(g, seq, m)
<1> DEFINE M == {m \in Nat : \E g : Scans(g, seq, m)}
<1>1. 0 \in M
  <2> DEFINE g == [s \in SUBSET (1..0) |-> Fresh]
  <2>1. SUBSET (1..0) = {{}}
    OBVIOUS
  <2>2. Scans(g, seq, 0)
    BY <2>1 DEF Scans
  <2> QED BY <2>2
<1>2. ASSUME NEW m \in M PROVE m + 1 \in M
  <2>1. PICK g : Scans(g, seq, m)
    OBVIOUS
  <2> DEFINE h == [s \in SUBSET (1..m + 1) |->
                     IF m + 1 \in s THEN Follow(g[s \ {m + 1}], seq[m + 1]) ELSE g[s]]
             Body(f, s) == IF s = {} THEN Fresh
                           ELSE LET x == Max(s) IN Follow(f[s \ {x}], seq[x])
  <2>2. ASSUME NEW s \in SUBSET (1..m + 1) PROVE h[s] = Body(h, s)
    <3>1. CASE m + 1 \in s
      <4>1. Max(s) = m + 1 /\ s # {}
        BY <3>1, MaxOfPart
      <4>2. s \ {m + 1} \in SUBSET (1..m + 1) /\ m + 1 \notin s \ {m + 1}
        OBVIOUS
      <4>3. h[s \ {m + 1}] = g[s \ {m + 1}]
        BY <4>2
      <4>4. h[s] = Follow(g[s \ {m + 1}], seq[m + 1])
        BY <3>1
      <4> HIDE DEF h
      <4> QED BY <4>1, <4>3, <4>4
    <3>2. CASE m + 1 \notin s
      <4>1. s \in SUBSET (1..m) /\ h[s] = g[s]
        BY <3>2
      <4>2. g[s] = Body(g, s)
        BY <2>1, <4>1 DEF Scans
      <4>3. s # {} => h[s \ {Max(s)}] = g[s \ {Max(s)}]
        <5>1. s \ {Max(s)} \in SUBSET (1..m + 1) /\ m + 1 \notin s \ {Max(s)}
          BY <3>2
        <5> QED BY <5>1
      <4> HIDE DEF h
      <4> QED BY <4>1, <4>2, <4>3
    <3> QED BY <3>1, <3>2
  <2>3. h = [s \in SUBSET (1..m + 1) |-> h[s]]
    OBVIOUS
  <2> HIDE DEF h
  <2>4. Scans(h, seq, m + 1)
    BY <2>2, <2>3 DEF Scans
  <2> QED BY <2>4
<1> HIDE DEF M
<1>3. M = Nat
  <2>1. M \in SUBSET Nat
    BY DEF M
  <2> QED BY <1>1, <1>2, <2>1, SetInduction
<1> QED BY <1>3 DEF M

\* One position further.
LEMMA ScansNext ==
  ASSUME NEW seq, NEW m \in Nat, NEW g, Scans(g, seq, m), NEW n \in Nat, n + 1 <= m
  PROVE  g[1..n + 1] = Follow(g[1..n], seq[n + 1])
<1>1. 1..n + 1 \in SUBSET (1..m) /\ n + 1 \in 1..n + 1 /\ (1..n + 1) \ {n + 1} = 1..n
  OBVIOUS
<1>2. Max(1..n + 1) = n + 1
  BY <1>1, MaxOfPart
<1>3. 1..n + 1 # {}
  BY <1>1
<1> DEFINE s == 1..n + 1
<1>4. s \in SUBSET (1..m) /\ s # {} /\ Max(s) = n + 1 /\ s \ {n + 1} = 1..n
  BY <1>1, <1>2, <1>3
<1> HIDE DEF s
<1>5. g[s] = LET x == Max(s) IN Follow(g[s \ {x}], seq[x])
  BY <1>4 DEF Scans
<1> QED BY <1>4, <1>5 DEF s

SameUpto(seq, more, m) == \A n \in 1..m : seq[n] = more[n]

LEMMA ScansUnique ==
  ASSUME NEW seq, NEW more, NEW m \in Nat, NEW k \in Nat, m <= k,
         SameUpto(seq, more, m),
         NEW f, Scans(f, seq, m), NEW g, Scans(g, more, k)
  PROVE  f[1..m] = g[1..m]
<1> DEFINE M == {n \in Nat : n <= m => f[1..n] = g[1..n]}
<1>1. 0 \in M
  <2>1. 1..0 = {} /\ {} \in SUBSET (1..m) /\ {} \in SUBSET (1..k)
    OBVIOUS
  <2>2. f[{}] = Fresh /\ g[{}] = Fresh
    BY <2>1 DEF Scans
  <2> QED BY <2>1, <2>2
<1>2. ASSUME NEW n \in M PROVE n + 1 \in M
  <2> SUFFICES ASSUME n + 1 <= m PROVE f[1..n + 1] = g[1..n + 1]
    OBVIOUS
  <2>1. f[1..n] = g[1..n] /\ seq[n + 1] = more[n + 1] /\ n \in Nat /\ n + 1 <= k
    BY DEF SameUpto
  <2>2. f[1..n + 1] = Follow(f[1..n], seq[n + 1])
    BY <2>1, ScansNext
  <2>3. g[1..n + 1] = Follow(g[1..n], more[n + 1])
    BY <2>1, ScansNext
  <2> QED BY <2>1, <2>2, <2>3
<1> HIDE DEF M
<1>3. M = Nat
  <2>1. M \in SUBSET Nat
    BY DEF M
  <2> QED BY <1>1, <1>2, <2>1, SetInduction
<1> QED BY <1>3 DEF M

LEMMA ScannedIsScan ==
  ASSUME NEW seq, Len(seq) \in Nat, DOMAIN seq = 1..Len(seq)
  PROVE  \E g : Scans(g, seq, Len(seq)) /\ Scanned(seq) = g[1..Len(seq)]
<1> DEFINE g == CHOOSE g : Scans(g, seq, Len(seq))
<1>1. Scans(g, seq, Len(seq))
  BY ScansExists
<1>2. Scanned(seq) = g[1..Len(seq)]
  BY DEF Scanned, FoldLeft, MapThenFoldSet, Scans
<1> QED BY <1>1, <1>2

LEMMA ScannedEmpty == Scanned(<<>>) = Fresh
<1>1. Len(<<>>) = 0 /\ DOMAIN <<>> = 1..Len(<<>>) /\ 1..0 = {}
  OBVIOUS
<1>2. PICK g : Scans(g, <<>>, 0) /\ Scanned(<<>>) = g[1..0]
  BY <1>1, ScannedIsScan
<1> QED BY <1>1, <1>2 DEF Scans

LEMMA ScannedAppend ==
  ASSUME NEW T, NEW seq \in Seq(T), NEW x \in T
  PROVE  Scanned(Append(seq, x)) = Follow(Scanned(seq), x)
<1> DEFINE more == Append(seq, x)
<1>1. /\ Len(seq) \in Nat /\ DOMAIN seq = 1..Len(seq)
      /\ Len(more) = Len(seq) + 1 /\ DOMAIN more = 1..Len(more) /\ more[Len(seq) + 1] = x
      /\ \A n \in 1..Len(seq) : seq[n] = more[n]
  OBVIOUS
<1> HIDE DEF more
<1>2. PICK f : Scans(f, seq, Len(seq)) /\ Scanned(seq) = f[1..Len(seq)]
  BY <1>1, ScannedIsScan
<1>3. PICK g : Scans(g, more, Len(more)) /\ Scanned(more) = g[1..Len(more)]
  BY <1>1, ScannedIsScan
<1>4. PICK m, k : m = Len(seq) /\ k = Len(more) /\ m \in Nat /\ k \in Nat /\ k = m + 1 /\ m <= k /\ m + 1 <= k
  BY <1>1
<1>5. f[1..m] = g[1..m]
  <2>1. Scans(f, seq, m) /\ Scans(g, more, k)
    BY <1>2, <1>3, <1>4
  <2>2. SameUpto(seq, more, m)
    BY <1>1, <1>4 DEF SameUpto
  <2>3. m \in Nat /\ k \in Nat /\ m <= k
    BY <1>4
  <2> QED BY <2>1, <2>2, <2>3, ScansUnique
<1>6. g[1..m + 1] = Follow(g[1..m], more[m + 1])
  <2>1. Scans(g, more, k)
    BY <1>3, <1>4
  <2> QED BY <1>4, <2>1, ScansNext
<1> QED BY <1>1, <1>2, <1>3, <1>4, <1>5, <1>6 DEF more

LEMMA SafeIsScanned ==
  ASSUME NEW seq
  PROVE  IsReplaySafe(seq) <=> Scanned(seq).safe /\ Scanned(seq).seen = Scanned(seq).calls
BY DEF IsReplaySafe, Scanned, Fresh
\* A result is followed by what it answers, anything else by its own calls.
LEMMA FollowResult ==
  ASSUME NEW acc, NEW m, m.role = "tool"
  PROVE  /\ Follow(acc, m).safe <=> acc.safe /\ m.id \in acc.calls \ acc.seen
         /\ Follow(acc, m).calls = acc.calls
         /\ Follow(acc, m).seen = acc.seen \cup {m.id}
BY DEF Follow

LEMMA FollowOther ==
  ASSUME NEW acc, NEW m, m.role # "tool"
  PROVE  /\ Follow(acc, m).safe <=> acc.safe /\ acc.seen = acc.calls
         /\ Follow(acc, m).calls = Asks(m)
         /\ Follow(acc, m).seen = {}
BY DEF Follow

LEMMA SubSeqNext ==
  ASSUME NEW T, NEW seq \in Seq(T), NEW n \in Nat, n + 1 <= Len(seq)
  PROVE  /\ SubSeq(seq, 1, n) \in Seq(T) /\ seq[n + 1] \in T
         /\ SubSeq(seq, 1, n + 1) = Append(SubSeq(seq, 1, n), seq[n + 1])
OBVIOUS

\* The scan of a part of a history, one message further.
LEMMA ScannedNext ==
  ASSUME NEW T, NEW first \in Seq(T), NEW seq \in Seq(T), NEW n \in Nat, n + 1 <= Len(seq)
  PROVE  Scanned(first \o SubSeq(seq, 1, n + 1)) = Follow(Scanned(first \o SubSeq(seq, 1, n)), seq[n + 1])
<1>1. first \o SubSeq(seq, 1, n) \in Seq(T) /\ seq[n + 1] \in T
  OBVIOUS
<1>2. SubSeq(seq, 1, n + 1) = Append(SubSeq(seq, 1, n), seq[n + 1])
  OBVIOUS
<1>3. first \o SubSeq(seq, 1, n + 1) = Append(first \o SubSeq(seq, 1, n), seq[n + 1])
  <2>1. PICK part, x : part = SubSeq(seq, 1, n) /\ x = seq[n + 1]
    OBVIOUS
  <2>2. part \in Seq(T) /\ x \in T
    BY <2>1
  <2>3. first \o Append(part, x) = Append(first \o part, x)
    BY <2>2
  <2> QED BY <1>2, <2>1, <2>3
<1> QED BY <1>1, <1>3, ScannedAppend

\* Without its system messages, behind a new one and before a message that is no result, a
\* history that may be replayed still may.
LEMMA StrippedIsSafe ==
  ASSUME NEW T, NEW seq \in Seq(T), IsReplaySafe(seq),
         NEW head \in T, head.role = "system", NEW last \in T, last.role = "user"
  PROVE  IsReplaySafe(<<head>> \o StripSystemMessages(seq) \o <<last>>)
<1> DEFINE S == {m \in Range(seq) : m.role # "system"}
           Old(n) == Scanned(SubSeq(seq, 1, n))
           New(n) == Scanned(<<head>> \o Upto(seq, S, n))
           Alike(n) == Old(n).safe =>
             /\ New(n).safe
             /\ \/ New(n).calls = Old(n).calls /\ New(n).seen = Old(n).seen
                \/ Old(n).calls = {} /\ New(n).seen = New(n).calls
           M == {n \in Nat : n <= Len(seq) => Alike(n)}
<1>1. Len(seq) \in Nat /\ \A n \in 1..Len(seq) : seq[n] \in Range(seq) /\ seq[n] \in T
  BY DEF Range
<1>2. \A n \in 0..Len(seq) : <<head>> \o Upto(seq, S, n) \in Seq(T)
  <2>1. ASSUME NEW n \in 0..Len(seq) PROVE <<head>> \o Upto(seq, S, n) \in Seq(T)
    <3> HIDE DEF S
    <3>1. Upto(seq, S, n) \in Seq(T \cap S)
      BY UptoType
    <3>2. Upto(seq, S, n) \in Seq(T)
      BY <3>1
    <3> QED BY <3>2
  <2> QED BY <2>1
<1>3. 0 \in M
  <2>1. Upto(seq, S, 0) = <<>> /\ SubSeq(seq, 1, 0) = <<>>
    BY UptoNext
  <2>2. <<head>> \o <<>> = Append(<<>>, head) /\ <<>> \in Seq(T)
    OBVIOUS
  <2>3. New(0) = Follow(Scanned(<<>>), head)
    BY <2>1, <2>2, ScannedAppend
  <2>4. PICK acc : acc = Scanned(<<>>) /\ acc.safe /\ acc.calls = {} /\ acc.seen = {}
    BY ScannedEmpty DEF Fresh
  <2>5. Asks(head) = {} /\ head.role # "tool"
    BY DEF Asks
  <2>6. Old(0) = acc /\ New(0) = Follow(acc, head)
    BY <2>1, <2>3, <2>4
  <2> HIDE DEF Old, New
  <2>7. New(0).safe /\ New(0).calls = {} /\ New(0).seen = {}
    <3>1. Follow(acc, head).safe /\ Follow(acc, head).calls = {} /\ Follow(acc, head).seen = {}
      BY <2>4, <2>5, FollowOther
    <3> QED BY <2>6, <3>1
  <2> QED BY <2>4, <2>6, <2>7
<1>4. ASSUME NEW n \in M PROVE n + 1 \in M
  <2> SUFFICES ASSUME n + 1 <= Len(seq) PROVE Alike(n + 1)
    OBVIOUS
  <2>1. Alike(n) /\ n \in Nat
    OBVIOUS
  <2> DEFINE m == seq[n + 1]
  <2>2. Old(n + 1) = Follow(Old(n), m)
    <3>1. /\ SubSeq(seq, 1, n) \in Seq(T) /\ m \in T
          /\ SubSeq(seq, 1, n + 1) = Append(SubSeq(seq, 1, n), m)
      BY SubSeqNext
    <3> QED BY <3>1, ScannedAppend
  <2>3. m \in S => New(n + 1) = Follow(New(n), m)
    <3> HAVE m \in S
    <3>1. Upto(seq, S, n + 1) = Append(Upto(seq, S, n), m)
      BY UptoNext
    <3>2. n \in 0..Len(seq) /\ m \in T
      BY <1>1
    <3> HIDE DEF S, m
    <3>3. Upto(seq, S, n) \in Seq(T \cap S)
      BY <3>2, UptoType
    <3>4. <<head>> \o Append(Upto(seq, S, n), m) = Append(<<head>> \o Upto(seq, S, n), m)
      BY <3>2, <3>3
    <3>5. <<head>> \o Upto(seq, S, n) \in Seq(T)
      BY <1>2, <3>2
    <3> QED BY <3>1, <3>2, <3>4, <3>5, ScannedAppend
  <2>4. m \notin S => New(n + 1) = New(n)
    <3> HAVE m \notin S
    <3>1. PICK i : i = n + 1 /\ i \in 1..Len(seq) /\ i - 1 = n
      OBVIOUS
    <3>2. Upto(seq, S, i) = Upto(seq, S, i - 1)
      <4> HIDE DEF S
      <4> QED BY <3>1, UptoStep
    <3> QED BY <3>1, <3>2
  <2>5. m \in S <=> m.role # "system"
    BY <1>1
  <2> HIDE DEF S, Old, New, m
  <2>6. CASE m.role = "system"
    <3>1. /\ Old(n + 1).safe <=> Old(n).safe /\ Old(n).seen = Old(n).calls
          /\ Old(n + 1).calls = {}
      BY <2>2, <2>6, FollowOther DEF Asks
    <3> QED BY <2>1, <2>4, <2>5, <2>6, <3>1
  <2>7. CASE m.role = "tool"
    <3>1. /\ Old(n + 1).safe <=> Old(n).safe /\ m.id \in Old(n).calls \ Old(n).seen
          /\ Old(n + 1).calls = Old(n).calls /\ Old(n + 1).seen = Old(n).seen \cup {m.id}
      BY <2>2, <2>7, FollowResult
    <3>2. /\ New(n + 1).safe <=> New(n).safe /\ m.id \in New(n).calls \ New(n).seen
          /\ New(n + 1).calls = New(n).calls /\ New(n + 1).seen = New(n).seen \cup {m.id}
      BY <2>3, <2>5, <2>7, FollowResult
    <3> QED BY <2>1, <3>1, <3>2
  <2>8. CASE m.role \notin {"tool", "system"}
    <3>1. /\ Old(n + 1).safe <=> Old(n).safe /\ Old(n).seen = Old(n).calls
          /\ Old(n + 1).calls = Asks(m) /\ Old(n + 1).seen = {}
      BY <2>2, <2>8, FollowOther
    <3>2. /\ New(n + 1).safe <=> New(n).safe /\ New(n).seen = New(n).calls
          /\ New(n + 1).calls = Asks(m) /\ New(n + 1).seen = {}
      BY <2>3, <2>5, <2>8, FollowOther
    <3> QED BY <2>1, <3>1, <3>2
  <2> QED BY <2>6, <2>7, <2>8
<1>5. Alike(Len(seq))
  <2> HIDE DEF M
  <2>1. M \in SUBSET Nat
    BY DEF M
  <2>2. M = Nat
    BY <1>3, <1>4, <2>1, SetInduction
  <2> QED BY <1>1, <2>2 DEF M
<1>6. StripSystemMessages(seq) = Upto(seq, S, Len(seq)) /\ SubSeq(seq, 1, Len(seq)) = seq
  BY UptoNext DEF StripSystemMessages
<1>7. New(Len(seq)).safe /\ New(Len(seq)).seen = New(Len(seq)).calls
  <2>1. Old(Len(seq)).safe /\ Old(Len(seq)).seen = Old(Len(seq)).calls
    BY <1>6, SafeIsScanned
  <2> HIDE DEF Old, New
  <2> QED BY <1>5, <2>1
<1>8. Scanned(<<head>> \o StripSystemMessages(seq) \o <<last>>) = Follow(New(Len(seq)), last)
  <2> DEFINE window == <<head>> \o Upto(seq, S, Len(seq))
  <2>1. window \in Seq(T)
    BY <1>1, <1>2
  <2>2. <<head>> \o StripSystemMessages(seq) \o <<last>> = window \o <<last>>
    BY <1>6
  <2>3. Scanned(window) = New(Len(seq))
    OBVIOUS
  <2> HIDE DEF window, New
  <2>4. window \o <<last>> = Append(window, last)
    BY <2>1
  <2> QED BY <2>1, <2>2, <2>3, <2>4, ScannedAppend
<1>9. Asks(last) = {}
  BY DEF Asks
<1>10. PICK whole, acc : /\ whole = <<head>> \o StripSystemMessages(seq) \o <<last>>
                         /\ acc = New(Len(seq)) /\ acc.safe /\ acc.seen = acc.calls
                         /\ Scanned(whole) = Follow(acc, last)
  BY <1>7, <1>8
<1>11. Scanned(whole).safe /\ Scanned(whole).calls = {} /\ Scanned(whole).seen = {}
  BY <1>9, <1>10, FollowOther
<1>12. IsReplaySafe(whole)
  BY <1>11, SafeIsScanned
<1> QED BY <1>10, <1>12
-----------------------------------------------------------------------------
(* Selections of longer sequences                                          *)

\* What is selected of two sequences in a row is what is selected of each, in a row.
LEMMA OnlyConcat ==
  ASSUME NEW T, NEW a \in Seq(T), NEW b \in Seq(T), NEW S
  PROVE  Only(a \o b, S) = Only(a, S) \o Only(b, S)
<1> DEFINE Joined(n) == Only(a \o SubSeq(b, 1, n), S) = Only(a, S) \o Upto(b, S, n)
           M == {n \in Nat : n <= Len(b) => Joined(n)}
<1>1. Only(a, S) \in Seq(T)
  <2>1. Only(a, S) \in Seq(T \cap S)
    BY OnlyType
  <2> QED BY <2>1
<1>2. 0 \in M
  <2>1. SubSeq(b, 1, 0) = <<>> /\ Upto(b, S, 0) = <<>> /\ a \o <<>> = a
    BY UptoNext
  <2>2. Only(a, S) \o <<>> = Only(a, S)
    BY <1>1
  <2> QED BY <2>1, <2>2
<1>3. ASSUME NEW n \in M PROVE n + 1 \in M
  <2> SUFFICES ASSUME n + 1 <= Len(b) PROVE Joined(n + 1)
    OBVIOUS
  <2>1. Joined(n) /\ n \in Nat
    OBVIOUS
  <2> HIDE DEF M
  <2>2. /\ SubSeq(b, 1, n) \in Seq(T) /\ b[n + 1] \in T
        /\ SubSeq(b, 1, n + 1) = Append(SubSeq(b, 1, n), b[n + 1])
    BY <2>1, SubSeqNext
  <2>3. PICK part, x : part = SubSeq(b, 1, n) /\ x = b[n + 1]
    OBVIOUS
  <2>4. part \in Seq(T) /\ x \in T /\ SubSeq(b, 1, n + 1) = Append(part, x)
    BY <2>2, <2>3
  <2>5. a \o Append(part, x) = Append(a \o part, x) /\ a \o part \in Seq(T)
    BY <2>4
  <2>6. Only(Append(a \o part, x), S)
          = IF x \in S THEN Append(Only(a \o part, S), x) ELSE Only(a \o part, S)
    <3>1. PICK whole : whole = a \o part /\ whole \in Seq(T) /\ x \in T
      BY <2>4, <2>5
    <3>2. Only(Append(whole, x), S) = IF x \in S THEN Append(Only(whole, S), x) ELSE Only(whole, S)
      <4>1. whole \in Seq(T) /\ x \in T
        BY <3>1
      <4> QED BY <4>1, OnlyAppend
    <3> QED BY <3>1, <3>2
  <2>7. Only(Append(part, x), S) = IF x \in S THEN Append(Only(part, S), x) ELSE Only(part, S)
    BY <2>4, OnlyAppend
  <2>8. Only(a \o part, S) = Only(a, S) \o Only(part, S)
    BY <2>1, <2>3 DEF Joined, Upto
  <2>9. Only(part, S) \in Seq(T)
    <3>1. Only(part, S) \in Seq(T \cap S)
      BY <2>4, OnlyType
    <3> QED BY <3>1
  <2>10. Only(a \o Append(part, x), S) = Only(a, S) \o Only(Append(part, x), S)
    <3>1. PICK p, q : p = Only(a, S) /\ q = Only(part, S)
      OBVIOUS
    <3>2. p \in Seq(T) /\ q \in Seq(T) /\ x \in T
      BY <1>1, <2>4, <2>9, <3>1
    <3>3. p \o Append(q, x) = Append(p \o q, x)
      BY <3>2
    <3> QED BY <2>5, <2>6, <2>7, <2>8, <3>1, <3>3
  <2> QED BY <2>4, <2>10 DEF Upto
<1>4. Joined(Len(b))
  <2> HIDE DEF M
  <2>1. M \in SUBSET Nat
    BY DEF M
  <2>2. M = Nat
    BY <1>2, <1>3, <2>1, SetInduction
  <2>3. Len(b) \in Nat
    OBVIOUS
  <2> QED BY <2>2, <2>3 DEF M
<1>5. SubSeq(b, 1, Len(b)) = b /\ Upto(b, S, Len(b)) = Only(b, S)
  BY UptoNext
<1> QED BY <1>4, <1>5

\* Of elements that are none of them in the set nothing is selected,
LEMMA OnlyNone ==
  ASSUME NEW T, NEW seq \in Seq(T), NEW S, T \cap S = {}
  PROVE  Only(seq, S) = <<>>
<1>1. Only(seq, S) \in Seq({})
  BY OnlyType
<1> QED BY <1>1

\* of elements that are all of them in the set everything is.
LEMMA OnlyAll ==
  ASSUME NEW T, NEW seq \in Seq(T), NEW S, T \subseteq S
  PROVE  Only(seq, S) = seq
<1> DEFINE M == {n \in Nat : n <= Len(seq) => Upto(seq, S, n) = SubSeq(seq, 1, n)}
<1>1. 0 \in M
  <2>1. SubSeq(seq, 1, 0) = <<>> /\ Upto(seq, S, 0) = <<>>
    BY UptoNext
  <2> QED BY <2>1
<1>2. ASSUME NEW n \in M PROVE n + 1 \in M
  <2> SUFFICES ASSUME n + 1 <= Len(seq) PROVE Upto(seq, S, n + 1) = SubSeq(seq, 1, n + 1)
    OBVIOUS
  <2>1. n \in Nat /\ Upto(seq, S, n) = SubSeq(seq, 1, n)
    OBVIOUS
  <2>2. seq[n + 1] \in T /\ SubSeq(seq, 1, n + 1) = Append(SubSeq(seq, 1, n), seq[n + 1])
    BY <2>1, SubSeqNext
  <2>3. Upto(seq, S, n + 1) = Append(Upto(seq, S, n), seq[n + 1])
    BY <2>1, <2>2, UptoNext
  <2> QED BY <2>1, <2>2, <2>3
<1>3. Upto(seq, S, Len(seq)) = Only(seq, S) /\ SubSeq(seq, 1, Len(seq)) = seq /\ Len(seq) \in Nat
  BY UptoNext
<1> HIDE DEF M
<1>4. M = Nat
  <2>1. M \in SUBSET Nat
    BY DEF M
  <2> QED BY <1>1, <1>2, <2>1, SetInduction
<1> QED BY <1>3, <1>4 DEF M
-----------------------------------------------------------------------------
(* Counting                                                                *)

\* Of a concatenation both parts are counted,
LEMMA CountConcat ==
  ASSUME NEW T, NEW a \in Seq(T), NEW b \in Seq(T), NEW S
  PROVE  /\ Len(Only(a, S)) \in Nat /\ Len(Only(b, S)) \in Nat
         /\ Len(Only(a \o b, S)) = Len(Only(a, S)) + Len(Only(b, S))
<1>1. PICK first, second : first = Only(a, S) /\ second = Only(b, S)
  OBVIOUS
<1>2. first \in Seq(T \cap S) /\ second \in Seq(T \cap S)
  BY <1>1, OnlyType
<1>3. Only(a \o b, S) = first \o second
  <2>1. Only(a \o b, S) = Only(a, S) \o Only(b, S)
    BY OnlyConcat
  <2> QED BY <1>1, <2>1
<1>4. Len(first) \in Nat /\ Len(second) \in Nat /\ Len(first \o second) = Len(first) + Len(second)
  BY <1>2
<1> QED BY <1>1, <1>3, <1>4

\* of a single element that one.
LEMMA CountOne ==
  ASSUME NEW x, NEW S
  PROVE  Len(Only(<<x>>, S)) = IF x \in S THEN 1 ELSE 0
<1>1. PICK T : T = {x}
  OBVIOUS
<1>2. <<>> \in Seq(T) /\ x \in T /\ <<x>> = Append(<<>>, x)
  BY <1>1
<1>3. Only(Append(<<>>, x), S) = IF x \in S THEN Append(Only(<<>>, S), x) ELSE Only(<<>>, S)
  BY <1>2, OnlyAppend
<1>4. Only(<<x>>, S) = IF x \in S THEN <<x>> ELSE <<>>
  BY <1>2, <1>3, OnlyEmpty
<1> QED BY <1>4

\* What the recursive function in FlattenSeq satisfies, and that there is one.
Flattens(f, seqs, m) ==
  f = [i \in 1..m |-> IF i = 1 THEN seqs[i] ELSE f[i - 1] \o seqs[i]]

LEMMA FlattensExists ==
  ASSUME NEW seqs
  PROVE  \A m \in Nat : \E f : Flattens(f, seqs, m)
<1> DEFINE M == {m \in Nat : \E f : Flattens(f, seqs, m)}
<1>1. 0 \in M
  <2> DEFINE f == [i \in 1..0 |-> <<>>]
  <2>1. Flattens(f, seqs, 0)
    BY DEF Flattens
  <2> QED BY <2>1
<1>2. ASSUME NEW m \in M PROVE m + 1 \in M
  <2>1. PICK f : Flattens(f, seqs, m)
    OBVIOUS
  <2> DEFINE last == IF m + 1 = 1 THEN seqs[m + 1] ELSE f[m] \o seqs[m + 1]
             g == [i \in 1..m + 1 |-> IF i = m + 1 THEN last ELSE f[i]]
  <2>2. ASSUME NEW i \in 1..m + 1
        PROVE  g[i] = IF i = 1 THEN seqs[i] ELSE g[i - 1] \o seqs[i]
    <3>1. CASE i = m + 1
      BY <3>1
    <3>2. CASE i # m + 1
      <4> HIDE DEF last
      <4>1. i \in 1..m /\ g[i] = f[i] /\ (i # 1 => g[i - 1] = f[i - 1])
        BY <3>2
      <4> HIDE DEF g
      <4> QED BY <2>1, <4>1 DEF Flattens
    <3> QED BY <3>1, <3>2
  <2>3. Flattens(g, seqs, m + 1)
    <3> HIDE DEF last
    <3>1. g = [i \in 1..m + 1 |-> g[i]]
      OBVIOUS
    <3> HIDE DEF g
    <3> QED BY <2>2, <3>1 DEF Flattens
  <2> QED BY <2>3
<1> HIDE DEF M
<1>3. M = Nat
  <2>1. M \in SUBSET Nat
    BY DEF M
  <2> QED BY <1>1, <1>2, <2>1, SetInduction
<1> QED BY <1>3 DEF M

LEMMA FlattenIsLast ==
  ASSUME NEW seqs, Len(seqs) \in Nat \ {0}
  PROVE  \E f : Flattens(f, seqs, Len(seqs)) /\ FlattenSeq(seqs) = f[Len(seqs)]
<1> DEFINE f == CHOOSE f : Flattens(f, seqs, Len(seqs))
<1>1. Flattens(f, seqs, Len(seqs))
  BY FlattensExists
<1>2. FlattenSeq(seqs) = f[Len(seqs)]
  BY DEF FlattenSeq, Flattens
<1> QED BY <1>1, <1>2

\* A selection grows by one where it takes an element.
LEMMA UptoCounts ==
  ASSUME NEW U, NEW parts \in Seq(U), NEW R
  PROVE  /\ Len(Upto(parts, R, 0)) = 0
         /\ \A k \in 1..Len(parts) :
              /\ Len(Upto(parts, R, k - 1)) \in Nat
              /\ Len(Upto(parts, R, k)) =
                   Len(Upto(parts, R, k - 1)) + (IF parts[k] \in R THEN 1 ELSE 0)
<1>1. Len(Upto(parts, R, 0)) = 0
  BY UptoNext
<1>2. ASSUME NEW k \in 1..Len(parts)
      PROVE  /\ Len(Upto(parts, R, k - 1)) \in Nat
             /\ Len(Upto(parts, R, k)) =
                  Len(Upto(parts, R, k - 1)) + (IF parts[k] \in R THEN 1 ELSE 0)
  <2>1. Upto(parts, R, k) = IF parts[k] \in R THEN Append(Upto(parts, R, k - 1), parts[k])
                            ELSE Upto(parts, R, k - 1)
    BY UptoStep
  <2>2. k - 1 \in 0..Len(parts)
    OBVIOUS
  <2>3. PICK before, x : before = Upto(parts, R, k - 1) /\ x = parts[k]
    OBVIOUS
  <2>4. before \in Seq(U \cap R)
    BY <2>2, <2>3, UptoType
  <2>5. Len(Append(before, x)) = Len(before) + 1 /\ Len(before) \in Nat
    BY <2>4
  <2> QED BY <2>1, <2>3, <2>5
<1> QED BY <1>1, <1>2

\* Each of the sequences contributes one element of S exactly where the selection of parts
\* by R takes one.
Contributes(seqs, T, S, parts, R) ==
  /\ Len(seqs) = Len(parts) /\ DOMAIN seqs = 1..Len(parts) /\ (Len(parts) = 0 => seqs = <<>>)
  /\ \A i \in 1..Len(parts) : seqs[i] \in Seq(T)
  /\ \A i \in 1..Len(parts) : Len(Only(seqs[i], S)) = IF parts[i] \in R THEN 1 ELSE 0

\* Then their concatenation has as many.
LEMMA CountFlatten ==
  ASSUME NEW T, NEW U, NEW seqs, NEW parts \in Seq(U), NEW S, NEW R,
         Contributes(seqs, T, S, parts, R)
  PROVE  FlattenSeq(seqs) \in Seq(T) /\ Len(Only(FlattenSeq(seqs), S)) = Len(Only(parts, R))
<1>1. /\ Len(Upto(parts, R, 0)) = 0
      /\ \A k \in 1..Len(parts) :
           /\ Len(Upto(parts, R, k - 1)) \in Nat
           /\ Len(Upto(parts, R, k)) =
                Len(Upto(parts, R, k - 1)) + (IF parts[k] \in R THEN 1 ELSE 0)
  BY UptoCounts
<1>2. Upto(parts, R, Len(parts)) = Only(parts, R)
  BY UptoNext
<1>3. PICK n : n = Len(parts) /\ n \in Nat
  OBVIOUS
<1>4. /\ Len(seqs) = n /\ (n = 0 => seqs = <<>>)
      /\ \A i \in 1..n : seqs[i] \in Seq(T)
      /\ \A i \in 1..n : Len(Only(seqs[i], S)) = IF parts[i] \in R THEN 1 ELSE 0
  BY <1>3 DEF Contributes
<1>5. CASE n = 0
  <2>1. FlattenSeq(seqs) = <<>> /\ parts = <<>>
    BY <1>5, <1>4, <1>3 DEF FlattenSeq
  <2> QED BY <2>1, OnlyEmpty
<1>6. CASE n # 0
  <2>1. PICK f : Flattens(f, seqs, n) /\ FlattenSeq(seqs) = f[n]
    BY <1>6, <1>4, <1>3, FlattenIsLast
  <2>2. \A i \in 1..n : f[i] = IF i = 1 THEN seqs[i] ELSE f[i - 1] \o seqs[i]
    BY <2>1 DEF Flattens
  <2>3. \A a, b \in Seq(T) : Len(Only(a \o b, S)) = Len(Only(a, S)) + Len(Only(b, S))
    BY CountConcat
  <2> DEFINE Good(i) == f[i] \in Seq(T) /\ Len(Only(f[i], S)) = Len(Upto(parts, R, i))
             M == {i \in Nat : i # 0 /\ i <= n => Good(i)}
  <2>4. 0 \in M
    OBVIOUS
  <2>5. ASSUME NEW i \in M PROVE i + 1 \in M
    <3> SUFFICES ASSUME i + 1 <= n PROVE Good(i + 1)
      OBVIOUS
    <3>1. PICK k : k = i + 1 /\ k \in 1..n /\ k - 1 = i /\ i \in Nat
      OBVIOUS
    <3>2. Len(Upto(parts, R, k)) = Len(Upto(parts, R, i)) + (IF parts[k] \in R THEN 1 ELSE 0)
          /\ Len(Upto(parts, R, i)) \in Nat
      BY <1>1, <1>3, <3>1
    <3>3. seqs[k] \in Seq(T) /\ Len(Only(seqs[k], S)) = IF parts[k] \in R THEN 1 ELSE 0
      BY <1>4, <3>1
    <3>4. CASE k = 1
      <4>1. Len(Upto(parts, R, i)) = 0
        BY <1>1, <3>1, <3>4
      <4>2. Len(Upto(parts, R, k)) = IF parts[k] \in R THEN 1 ELSE 0
        BY <3>2, <4>1
      <4> QED BY <2>2, <3>1, <3>3, <3>4, <4>2
    <3>5. CASE k # 1
      <4>1. Good(i)
        BY <1>3, <3>1, <3>5
      <4>2. f[k] = f[i] \o seqs[k]
        BY <2>2, <3>1, <3>5
      <4>3. Len(Only(f[i] \o seqs[k], S)) = Len(Only(f[i], S)) + Len(Only(seqs[k], S))
        BY <2>3, <3>3, <4>1
      <4>4. f[i] \o seqs[k] \in Seq(T)
        BY <3>3, <4>1
      <4> QED BY <3>1, <3>2, <3>3, <4>1, <4>2, <4>3, <4>4
    <3> QED BY <3>4, <3>5
  <2>6. Good(n)
    <3> HIDE DEF M
    <3>1. M \in SUBSET Nat
      BY DEF M
    <3>2. M = Nat
      BY <2>4, <2>5, <3>1, SetInduction
    <3> QED BY <1>6, <1>3, <3>2 DEF M
  <2>7. Upto(parts, R, n) = Only(parts, R)
    BY <1>2, <1>3
  <2> QED BY <2>1, <2>6, <2>7
<1> QED BY <1>5, <1>6

-----------------------------------------------------------------------------
(* Folds                                                                   *)

\* What the recursive function of a fold satisfies: its value for a set of positions is made of the
\* position C chooses and the value for the others.
FoldsBy(g, Acc, F, C, base, D) ==
  /\ g \in [SUBSET D -> Acc]
  /\ \A s \in SUBSET D : g[s] = IF s = {} THEN base ELSE F[<<g[s \ {C[s]}], C[s]>>]

\* There is such a function, for any order in which positions are chosen.
LEMMA FoldExists ==
  ASSUME NEW D, IsFiniteSet(D), NEW Acc, NEW base \in Acc, NEW F \in [Acc \X D -> Acc],
         NEW C, \A s \in SUBSET D : s # {} => C[s] \in s
  PROVE  \E g : FoldsBy(g, Acc, F, C, base, D)
<1> DEFINE Value(g, s) == IF s = {} THEN base ELSE F[<<g[s \ {C[s]}], C[s]>>]
           Few(k) == {s \in SUBSET D : Cardinality(s) <= k}
           Good(g, k) == g \in [SUBSET D -> Acc] /\ \A s \in Few(k) : g[s] = Value(g, s)
           M == {k \in Nat : \E g : Good(g, k)}
<1>1. \A s \in SUBSET D : IsFiniteSet(s) /\ Cardinality(s) \in Nat
  BY FS_Subset, FS_CardinalityType
<1>2. \A s \in SUBSET D : s # {} =>
        /\ C[s] \in s /\ s \ {C[s]} \in SUBSET D /\ Cardinality(s) # 0
        /\ Cardinality(s \ {C[s]}) = Cardinality(s) - 1
  BY <1>1, FS_RemoveElement, FS_EmptySet
<1>3. 0 \in M
  <2> DEFINE g == [s \in SUBSET D |-> base]
  <2>1. \A s \in Few(0) : s = {}
    <3>1. ASSUME NEW s \in SUBSET D, Cardinality(s) <= 0 PROVE s = {}
      <4>1. Cardinality(s) = 0
        BY <1>1, <3>1
      <4> QED BY <1>1, <4>1, FS_EmptySet
    <3> QED BY <3>1
  <2>2. Good(g, 0)
    BY <2>1
  <2> QED BY <2>2
<1>4. ASSUME NEW k \in M PROVE k + 1 \in M
  <2>1. k \in Nat
    OBVIOUS
  <2>2. PICK g : Good(g, k)
    OBVIOUS
  <2> DEFINE h == [s \in SUBSET D |-> IF Cardinality(s) = k + 1 THEN F[<<g[s \ {C[s]}], C[s]>>] ELSE g[s]]
  <2>3. ASSUME NEW s \in SUBSET D, Cardinality(s) = k + 1
        PROVE  s # {} /\ h[s] = F[<<g[s \ {C[s]}], C[s]>>] /\ h[s] \in Acc /\ h[s \ {C[s]}] = g[s \ {C[s]}]
    <3>1. s # {}
      <4>1. Cardinality(s) # 0
        BY <2>1, <2>3
      <4> QED BY <4>1, FS_EmptySet
    <3>2. Cardinality(s \ {C[s]}) # k + 1 /\ s \ {C[s]} \in SUBSET D /\ C[s] \in D
      BY <1>2, <2>1, <2>3, <3>1
    <3>3. h[s] = F[<<g[s \ {C[s]}], C[s]>>] /\ h[s \ {C[s]}] = g[s \ {C[s]}]
      BY <2>3, <3>2
    <3>4. g[s \ {C[s]}] \in Acc
      BY <2>2, <3>2
    <3> HIDE DEF h
    <3> QED BY <3>1, <3>2, <3>3, <3>4
  <2>4. ASSUME NEW s \in SUBSET D, Cardinality(s) # k + 1 PROVE h[s] = g[s] /\ h[s] \in Acc
    BY <2>2, <2>4
  <2>5. h = [s \in SUBSET D |-> h[s]]
    OBVIOUS
  <2> HIDE DEF h
  <2>6. h \in [SUBSET D -> Acc]
    BY <2>3, <2>4, <2>5
  <2>7. ASSUME NEW s \in Few(k + 1) PROVE h[s] = Value(h, s)
    <3>1. CASE Cardinality(s) = k + 1
      BY <2>3, <3>1
    <3>2. CASE Cardinality(s) # k + 1
      <4>1. Cardinality(s) <= k
        BY <1>1, <2>1, <3>2
      <4>2. h[s] = g[s] /\ g[s] = Value(g, s)
        BY <2>2, <2>4, <3>2, <4>1
      <4>3. s # {} => h[s \ {C[s]}] = g[s \ {C[s]}]
        <5>1. s # {} => Cardinality(s \ {C[s]}) # k + 1 /\ s \ {C[s]} \in SUBSET D
          BY <1>1, <1>2, <2>1, <4>1
        <5> QED BY <2>4, <5>1
      <4> QED BY <4>2, <4>3
    <3> QED BY <3>1, <3>2
  <2>8. Good(h, k + 1)
    BY <2>6, <2>7
  <2> HIDE DEF Good
  <2> QED BY <2>1, <2>8
<1>5. PICK n \in Nat : n = Cardinality(D)
  BY <1>1
<1>6. n \in M
  <2> HIDE DEF M
  <2>1. M \in SUBSET Nat
    BY DEF M
  <2> QED BY <1>3, <1>4, <2>1, SetInduction
<1>7. PICK g : Good(g, n)
  BY <1>6
<1>8. \A s \in SUBSET D : s \in Few(n)
  <2>1. \A s \in SUBSET D : Cardinality(s) <= Cardinality(D)
    BY FS_Subset
  <2> QED BY <1>5, <2>1
<1> QED BY <1>7, <1>8 DEF FoldsBy

\* The positions a fold from the left and one from the right choose.
LEMMA ExtremesOfPart ==
  \A m \in Nat : \A s \in SUBSET (1..m) : s # {} => Max(s) \in s /\ Min(s) \in s
<1> DEFINE Ends(s) == (\E x \in s : \A y \in s : x >= y) /\ (\E x \in s : \A y \in s : x <= y)
           M == {m \in Nat : \A s \in SUBSET (1..m) : s # {} => Ends(s)}
<1>1. 0 \in M
  <2>1. SUBSET (1..0) = {{}}
    OBVIOUS
  <2> HIDE DEF Ends
  <2> QED BY <2>1
<1>2. ASSUME NEW m \in M PROVE m + 1 \in M
  <2>1. ASSUME NEW s \in SUBSET (1..m + 1), s # {} PROVE Ends(s)
    <3>1. PICK t : t = s \ {m + 1}
      OBVIOUS
    <3>2. t \in SUBSET (1..m) /\ m \in Nat
      BY <3>1
    <3>3. CASE t = {}
      <4>1. s = {m + 1}
        BY <2>1, <3>1, <3>3
      <4> QED BY <3>2, <4>1
    <3>4. CASE t # {}
      <4>1. Ends(t)
        BY <3>2, <3>4
      <4>2. PICK x \in t : \A y \in t : x >= y
        BY <4>1
      <4>3. PICK z \in t : \A y \in t : z <= y
        BY <4>1
      <4>4. CASE m + 1 \in s
        BY <3>1, <3>2, <4>3, <4>4
      <4>5. CASE m + 1 \notin s
        BY <3>1, <4>1, <4>5
      <4> QED BY <4>4, <4>5
    <3> QED BY <3>3, <3>4
  <2> HIDE DEF Ends
  <2> QED BY <2>1
<1>3. M = Nat
  <2> HIDE DEF M
  <2>1. M \in SUBSET Nat
    BY DEF M
  <2> QED BY <1>1, <1>2, <2>1, SetInduction
<1> QED BY <1>3 DEF Max, Min

LEMMA MinOfRest ==
  ASSUME NEW m \in Nat, NEW k \in 1..m
  PROVE  k..m \in SUBSET (1..m) /\ k..m # {} /\ Min(k..m) = k /\ (k..m) \ {k} = k + 1..m
<1>1. k \in k..m /\ \A y \in k..m : k <= y
  OBVIOUS
<1>2. \A x \in k..m : (\A y \in k..m : x <= y) => x = k
  BY <1>1
<1>3. Min(k..m) = k
  BY <1>1, <1>2 DEF Min
<1> QED BY <1>1, <1>3

LEMMA MaxOfFirst ==
  ASSUME NEW m \in Nat, NEW n \in Nat, n + 1 <= m
  PROVE  1..n + 1 \in SUBSET (1..m) /\ 1..n + 1 # {} /\ Max(1..n + 1) = n + 1 /\ (1..n + 1) \ {n + 1} = 1..n
<1>1. n + 1 \in 1..n + 1 /\ 1..n + 1 \in SUBSET (1..n + 1)
  OBVIOUS
<1>2. Max(1..n + 1) = n + 1
  BY <1>1, MaxOfPart
<1>3. (1..n + 1) \ {n + 1} = 1..n
  OBVIOUS
<1>4. 1..n + 1 \in SUBSET (1..m)
  OBVIOUS
<1> QED BY <1>1, <1>2, <1>3, <1>4

\* A fold from either end exists.
LEMMA EndFoldExists ==
  ASSUME NEW m \in Nat, NEW Acc, NEW base \in Acc, NEW F \in [Acc \X (1..m) -> Acc]
  PROVE  /\ \E g : FoldsBy(g, Acc, F, [s \in SUBSET (1..m) |-> Max(s)], base, 1..m)
         /\ \E g : FoldsBy(g, Acc, F, [s \in SUBSET (1..m) |-> Min(s)], base, 1..m)
<1>1. IsFiniteSet(1..m)
  BY FS_Interval
<1>2. PICK D : D = 1..m
  OBVIOUS
<1> DEFINE C == [s \in SUBSET D |-> Max(s)]
           E == [s \in SUBSET D |-> Min(s)]
<1>3. \A s \in SUBSET D : s # {} => C[s] \in s /\ E[s] \in s
  BY <1>2, ExtremesOfPart
<1>4. F \in [Acc \X D -> Acc] /\ IsFiniteSet(D)
  BY <1>1, <1>2
<1>5. (\E g : FoldsBy(g, Acc, F, C, base, D)) /\ (\E g : FoldsBy(g, Acc, F, E, base, D))
  <2> HIDE DEF C, E
  <2> QED BY <1>3, <1>4, FoldExists
<1> QED BY <1>2, <1>5

-----------------------------------------------------------------------------
(* Sizes                                                                   *)

Sized(T) == \A m \in T : m.size \in Nat

SizesUpto(g, seq, m) ==
  g = [s \in SUBSET (1..m) |-> IF s = {} THEN 0 ELSE LET x == Max(s) IN g[s \ {x}] + seq[x].size]

\* The sums of the sizes of the first messages.
Sums(z, seq) ==
  /\ z \in [0..Len(seq) -> Nat] /\ z[0] = 0
  /\ \A n \in Nat : n + 1 <= Len(seq) => z[n + 1] = z[n] + seq[n + 1].size

LEMMA SizeIsSum ==
  ASSUME NEW T, Sized(T), NEW seq \in Seq(T)
  PROVE  \E z : Sums(z, seq) /\ Size(seq) = z[Len(seq)]
<1>1. PICK m \in Nat : m = Len(seq) /\ DOMAIN seq = 1..m
  OBVIOUS
<1>2. \A x \in 1..m : seq[x].size \in Nat
  BY <1>1 DEF Sized
<1>3. \E g : SizesUpto(g, seq, m)
  <2> DEFINE F == [p \in Nat \X (1..m) |-> p[1] + seq[p[2]].size]
             C == [s \in SUBSET (1..m) |-> Max(s)]
  <2>1. F \in [Nat \X (1..m) -> Nat]
    BY <1>2
  <2>2. PICK g : FoldsBy(g, Nat, F, C, 0, 1..m)
    <3> HIDE DEF F
    <3> QED BY <2>1, EndFoldExists
  <2>3. ASSUME NEW s \in SUBSET (1..m), s # {}
        PROVE  g[s] = g[s \ {Max(s)}] + seq[Max(s)].size
    <3>1. Max(s) \in 1..m /\ s \ {Max(s)} \in SUBSET (1..m) /\ C[s] = Max(s)
      BY <2>3, ExtremesOfPart
    <3>2. g[s \ {Max(s)}] \in Nat /\ g[s] = F[<<g[s \ {Max(s)}], Max(s)>>]
      <4> HIDE DEF C, F
      <4> QED BY <2>2, <2>3, <3>1 DEF FoldsBy
    <3> QED BY <3>1, <3>2
  <2>4. g = [s \in SUBSET (1..m) |-> g[s]] /\ g[{}] = 0
    <3> HIDE DEF C, F
    <3> QED BY <2>2 DEF FoldsBy
  <2> QED BY <2>3, <2>4 DEF SizesUpto
<1> DEFINE g == CHOOSE g : SizesUpto(g, seq, m)
<1>4. SizesUpto(g, seq, m)
  BY <1>3
<1>5. Size(seq) = g[1..m]
  BY <1>1 DEF Size, FoldLeft, MapThenFoldSet, SizesUpto
<1> HIDE DEF g
<1>6. PICK z : z = [n \in 0..m |-> g[1..n]]
  OBVIOUS
<1>7. z[0] = 0
  <2>1. 1..0 = {} /\ {} \in SUBSET (1..m) /\ z[0] = g[1..0]
    BY <1>6
  <2> QED BY <1>4, <2>1 DEF SizesUpto
<1>8. ASSUME NEW n \in Nat, n + 1 <= m PROVE z[n + 1] = z[n] + seq[n + 1].size
  <2>1. PICK s : s = 1..n + 1
    OBVIOUS
  <2>2. s \in SUBSET (1..m) /\ s # {} /\ Max(s) = n + 1 /\ s \ {n + 1} = 1..n
    BY <1>8, <2>1, MaxOfFirst
  <2>3. g[s] = g[1..n] + seq[n + 1].size
    BY <1>4, <2>2 DEF SizesUpto
  <2>4. z[n + 1] = g[s] /\ z[n] = g[1..n]
    BY <1>6, <1>8, <2>1
  <2> QED BY <2>3, <2>4
<1>9. \A n \in 0..m : z[n] \in Nat
  <2> DEFINE M == {n \in Nat : n <= m => z[n] \in Nat}
  <2>1. 0 \in M
    BY <1>7
  <2>2. ASSUME NEW n \in M PROVE n + 1 \in M
    <3>1. ASSUME n + 1 <= m PROVE z[n + 1] \in Nat
      <4>1. n \in Nat /\ n <= m /\ n + 1 \in 1..m /\ z[n] \in Nat
        BY <3>1
      <4>2. z[n + 1] = z[n] + seq[n + 1].size /\ seq[n + 1].size \in Nat
        BY <1>2, <1>8, <3>1, <4>1
      <4> QED BY <4>1, <4>2
    <3> QED BY <3>1
  <2> HIDE DEF M
  <2>3. M \in SUBSET Nat
    BY DEF M
  <2>4. M = Nat
    BY <2>1, <2>2, <2>3, SetInduction
  <2> QED BY <2>4 DEF M
<1>10. z \in [0..m -> Nat]
  BY <1>6, <1>9
<1>11. Sums(z, seq)
  BY <1>1, <1>7, <1>8, <1>10 DEF Sums
<1>12. Size(seq) = z[m]
  BY <1>5, <1>6
<1> QED BY <1>1, <1>11, <1>12

LEMMA SumsAgree ==
  ASSUME NEW a, NEW b, Len(a) \in Nat, Len(b) \in Nat, NEW y, NEW z, Sums(y, a), Sums(z, b), NEW k \in Nat,
         k <= Len(a), k <= Len(b), \A n \in 1..k : a[n] = b[n]
  PROVE  y[k] = z[k]
<1> DEFINE M == {n \in Nat : n <= k => y[n] = z[n]}
<1>1. 0 \in M
  BY DEF Sums
<1>2. ASSUME NEW n \in M PROVE n + 1 \in M
  <2>1. ASSUME n + 1 <= k PROVE y[n + 1] = z[n + 1]
    <3>1. n \in Nat /\ n <= k /\ n + 1 \in 1..k /\ n + 1 <= Len(a) /\ n + 1 <= Len(b)
      BY <2>1
    <3>2. y[n] = z[n] /\ a[n + 1] = b[n + 1]
      BY <3>1
    <3>3. y[n + 1] = y[n] + a[n + 1].size /\ z[n + 1] = z[n] + b[n + 1].size
      BY <3>1 DEF Sums
    <3> QED BY <3>2, <3>3
  <2> QED BY <2>1
<1> HIDE DEF M
<1>3. M \in SUBSET Nat
  BY DEF M
<1>4. M = Nat
  BY <1>1, <1>2, <1>3, SetInduction
<1> QED BY <1>4 DEF M

\* The size of a history is that of its parts together.
LEMMA SizeConcat ==
  ASSUME NEW T, Sized(T), NEW a \in Seq(T), NEW b \in Seq(T)
  PROVE  Size(a) \in Nat /\ Size(b) \in Nat /\ Size(a \o b) = Size(a) + Size(b)
<1>1. PICK c : c = a \o b
  OBVIOUS
<1>2. PICK k \in Nat, l \in Nat : k = Len(a) /\ l = Len(b)
  OBVIOUS
<1>3. /\ c \in Seq(T) /\ Len(c) = k + l
      /\ \A n \in 1..k : c[n] = a[n]
      /\ \A n \in 1..l : c[k + n] = b[n]
  BY <1>1, <1>2
<1>4. PICK x : Sums(x, a) /\ Size(a) = x[k]
  BY <1>2, SizeIsSum
<1>5. PICK y : Sums(y, b) /\ Size(b) = y[l]
  BY <1>2, SizeIsSum
<1>6. PICK z : Sums(z, c) /\ Size(c) = z[k + l]
  BY <1>3, SizeIsSum
<1>7. x[k] = z[k]
  <2>1. Len(a) \in Nat /\ Len(c) \in Nat /\ k <= Len(a) /\ k <= Len(c) /\ \A n \in 1..k : a[n] = c[n]
    BY <1>2, <1>3
  <2> QED BY <1>4, <1>6, <2>1, SumsAgree
<1>8. /\ x[k] \in Nat /\ y \in [0..l -> Nat] /\ y[0] = 0
      /\ \A n \in Nat : n + 1 <= l => y[n + 1] = y[n] + b[n + 1].size
  BY <1>2, <1>4, <1>5 DEF Sums
<1>9. \A n \in Nat : n + 1 <= k + l => z[n + 1] = z[n] + c[n + 1].size
  BY <1>3, <1>6 DEF Sums
<1> DEFINE M == {n \in Nat : n <= l => z[k + n] = x[k] + y[n]}
<1>10. 0 \in M
  BY <1>7, <1>8
<1>11. ASSUME NEW n \in M PROVE n + 1 \in M
  <2>1. ASSUME n + 1 <= l PROVE z[k + (n + 1)] = x[k] + y[n + 1]
    <3>1. /\ n \in Nat /\ n <= l /\ n \in 0..l /\ n + 1 \in 1..l
          /\ k + n \in Nat /\ (k + n) + 1 <= k + l /\ (k + n) + 1 = k + (n + 1)
      BY <2>1
    <3>2. z[k + n] = x[k] + y[n] /\ y[n] \in Nat
      BY <1>8, <3>1
    <3>3. z[k + (n + 1)] = z[k + n] + c[k + (n + 1)].size
      BY <1>9, <3>1
    <3>4. c[k + (n + 1)] = b[n + 1] /\ b[n + 1].size \in Nat
      <4>1. b[n + 1] \in T
        BY <1>2, <3>1, ElementOfSeq
      <4> QED BY <1>3, <3>1, <4>1 DEF Sized
    <3>5. y[n + 1] = y[n] + b[n + 1].size
      BY <1>8, <3>1
    <3>6. PICK u \in Nat, v \in Nat, w \in Nat : u = x[k] /\ v = y[n] /\ w = b[n + 1].size
      BY <1>8, <3>2, <3>4
    <3>7. z[k + (n + 1)] = (u + v) + w /\ y[n + 1] = v + w
      BY <3>2, <3>3, <3>4, <3>5, <3>6
    <3>8. (u + v) + w = u + (v + w)
      OBVIOUS
    <3> QED BY <3>6, <3>7, <3>8
  <2> QED BY <2>1
<1> HIDE DEF M
<1>12. M \in SUBSET Nat
  BY DEF M
<1>13. M = Nat
  BY <1>10, <1>11, <1>12, SetInduction
<1>14. z[k + l] = x[k] + y[l] /\ y[l] \in Nat
  <2>1. l \in M /\ l <= l /\ l \in 0..l
    BY <1>13
  <2>2. z[k + l] = x[k] + y[l]
    BY <2>1 DEF M
  <2> QED BY <1>8, <2>1, <2>2
<1> QED BY <1>1, <1>4, <1>5, <1>6, <1>8, <1>14

LEMMA SizeEmpty == Size(<<>>) = 0
<1>1. <<>> \in Seq({}) /\ Sized({}) /\ Len(<<>>) = 0
  BY DEF Sized
<1>2. PICK z : Sums(z, <<>>) /\ Size(<<>>) = z[Len(<<>>)]
  BY <1>1, SizeIsSum
<1> QED BY <1>1, <1>2 DEF Sums

-----------------------------------------------------------------------------
(* Parts of a history                                                      *)

\* What follows the position x, up to y.
Part(h, x, y) == SubSeq(h, x + 1, y)

\* There is such a part.
Inside(h, x, y) == x \in Nat /\ y \in Nat /\ x <= y /\ y <= Len(h)

IsPart(p, T, h, x, y) ==
  /\ p \in Seq(T) /\ Len(p) = y - x /\ DOMAIN p = 1..y - x
  /\ \A i \in 1..y - x : p[i] = h[x + i] /\ x + i \in 1..Len(h) /\ h[x + i] \in T

LEMMA PartIs ==
  ASSUME NEW T, NEW h \in Seq(T), NEW x, NEW y, Inside(h, x, y)
  PROVE  IsPart(Part(h, x, y), T, h, x, y)
<1>1. x \in Nat /\ y \in Nat /\ x <= y /\ y <= Len(h)
  BY DEF Inside
<1>2. \A i \in x + 1..y : h[i] \in T
  <2>1. \A i \in x + 1..y : i \in 1..Len(h)
    BY <1>1
  <2> QED BY <2>1, ElementOfSeq
<1>3. PICK s : s = SubSeq(h, x + 1, y)
  OBVIOUS
<1>4. /\ s \in Seq(T) /\ Len(s) = IF x + 1 <= y THEN y - (x + 1) + 1 ELSE 0
      /\ \A i \in 1..y - (x + 1) + 1 : s[i] = h[x + 1 + i - 1]
  BY <1>1, <1>2, <1>3, SubSeqProperties
<1>5. y - (x + 1) + 1 = y - x /\ Len(s) = y - x
  BY <1>1, <1>4
<1>6. \A i \in 1..y - x : x + 1 + i - 1 = x + i /\ x + i \in x + 1..y /\ x + i \in 1..Len(h)
  BY <1>1
<1>7. DOMAIN s = 1..y - x
  BY <1>4, <1>5
<1>8. \A i \in 1..y - x : s[i] = h[x + i] /\ x + i \in 1..Len(h) /\ h[x + i] \in T
  BY <1>2, <1>4, <1>5, <1>6
<1> QED BY <1>3, <1>4, <1>5, <1>7, <1>8 DEF Part, IsPart

LEMMA PartEmpty ==
  ASSUME NEW h, NEW x \in Nat
  PROVE  Part(h, x, x) = <<>>
BY SubSeqEmpty DEF Part

LEMMA PartAll ==
  ASSUME NEW T, NEW h \in Seq(T)
  PROVE  Part(h, 0, Len(h)) = h
<1>1. 0 + 1 = 1
  OBVIOUS
<1> QED BY <1>1, SubSeqFull DEF Part

LEMMA PartJoin ==
  ASSUME NEW T, NEW h \in Seq(T), NEW x, NEW y, NEW z, Inside(h, x, y), Inside(h, y, z)
  PROVE  Part(h, x, y) \o Part(h, y, z) = Part(h, x, z) /\ Inside(h, x, z)
<1>1. x \in Nat /\ y \in Nat /\ z \in Nat /\ x <= y /\ y <= z /\ z <= Len(h)
  BY DEF Inside
<1>2. x + 1 \in 1..Len(h) + 1 /\ y \in (x + 1) - 1..Len(h) /\ z \in y..Len(h)
  BY <1>1
<1>3. Part(h, x, y) \o Part(h, y, z) = Part(h, x, z)
  BY <1>2, ConcatAdjacentSubSeq DEF Part
<1> QED BY <1>1, <1>3 DEF Inside

LEMMA PartOne ==
  ASSUME NEW T, NEW h \in Seq(T), NEW y \in Nat, y + 1 <= Len(h)
  PROVE  Part(h, y, y + 1) = <<h[y + 1]>> /\ h[y + 1] \in T /\ Inside(h, y, y + 1)
<1>1. PICK s, z : s = Part(h, y, z) /\ z = y + 1
  OBVIOUS
<1>2. Inside(h, y, z) /\ z - y = 1 /\ 1 \in 1..1
  BY <1>1 DEF Inside
<1>3. IsPart(s, T, h, y, z)
  BY <1>1, <1>2, PartIs
<1>4. s \in Seq(T) /\ Len(s) = 1 /\ s[1] = h[z] /\ h[z] \in T
  BY <1>1, <1>2, <1>3 DEF IsPart
<1>5. s = <<h[z]>>
  BY <1>4
<1> QED BY <1>1, <1>2, <1>4, <1>5

LEMMA PartNext ==
  ASSUME NEW T, NEW h \in Seq(T), NEW x, NEW y, Inside(h, x, y), y + 1 <= Len(h)
  PROVE  Append(Part(h, x, y), h[y + 1]) = Part(h, x, y + 1) /\ h[y + 1] \in T /\ Inside(h, x, y + 1)
<1>1. PICK p, z : p = Part(h, x, y) /\ z = y + 1
  OBVIOUS
<1>2. y \in Nat
  BY DEF Inside
<1>3. h[z] \in T /\ Part(h, y, z) = <<h[z]>> /\ Inside(h, y, z)
  BY <1>1, <1>2, PartOne
<1>4. p \in Seq(T)
  BY <1>1, PartIs DEF IsPart
<1>5. p \o <<h[z]>> = Part(h, x, z) /\ Inside(h, x, z)
  <2>1. Part(h, x, y) \o Part(h, y, z) = Part(h, x, z) /\ Inside(h, x, z)
    BY <1>3, PartJoin
  <2> QED BY <1>1, <1>3, <2>1
<1>6. Append(p, h[z]) = p \o <<h[z]>>
  BY <1>3, <1>4, AppendIsConcat
<1> QED BY <1>1, <1>3, <1>5, <1>6

LEMMA PartOfPart ==
  ASSUME NEW T, NEW h \in Seq(T), NEW x, NEW y, Inside(h, x, y),
         NEW u \in Nat, NEW v \in Nat, u <= v, v <= y - x
  PROVE  Part(Part(h, x, y), u, v) = Part(h, x + u, x + v)
<1>1. x \in Nat /\ y \in Nat /\ x <= y /\ y <= Len(h) /\ Len(h) \in Nat
  BY DEF Inside
<1>2. PICK s : s = Part(h, x, y)
  OBVIOUS
<1>3. IsPart(s, T, h, x, y)
  BY <1>2, PartIs
<1>4. s \in Seq(T) /\ Len(s) = y - x /\ \A i \in 1..y - x : s[i] = h[x + i]
  BY <1>3 DEF IsPart
<1>5. PICK a \in Nat, b \in Nat : a = x + u /\ b = x + v
  BY <1>1
<1>6. Inside(h, a, b) /\ b - a = v - u /\ Inside(s, u, v)
  BY <1>1, <1>4, <1>5 DEF Inside
<1>7. PICK p, q : p = Part(s, u, v) /\ q = Part(h, a, b)
  OBVIOUS
<1>8. IsPart(p, T, s, u, v) /\ IsPart(q, T, h, a, b)
  BY <1>4, <1>6, <1>7, PartIs
<1>9. p \in Seq(T) /\ Len(p) = v - u /\ \A i \in 1..v - u : p[i] = s[u + i]
  BY <1>8 DEF IsPart
<1>10. q \in Seq(T) /\ Len(q) = v - u /\ \A i \in 1..v - u : q[i] = h[a + i]
  BY <1>6, <1>8 DEF IsPart
<1>11. \A i \in 1..v - u : u + i \in 1..y - x /\ x + (u + i) = a + i
  BY <1>1, <1>5
<1>12. \A i \in 1..v - u : p[i] = q[i]
  BY <1>4, <1>9, <1>10, <1>11
<1>13. p = q
  BY <1>9, <1>10, <1>12, SeqEqual
<1> QED BY <1>2, <1>5, <1>7, <1>13

LEMMA PartSize ==
  ASSUME NEW T, Sized(T), NEW h \in Seq(T), NEW x, NEW y, NEW z, Inside(h, x, y), Inside(h, y, z)
  PROVE  /\ Size(Part(h, x, y)) \in Nat /\ Size(Part(h, y, z)) \in Nat
         /\ Size(Part(h, x, z)) = Size(Part(h, x, y)) + Size(Part(h, y, z))
<1>1. Part(h, x, y) \in Seq(T) /\ Part(h, y, z) \in Seq(T)
  BY PartIs DEF IsPart
<1>2. Part(h, x, z) = Part(h, x, y) \o Part(h, y, z)
  BY PartJoin
<1> QED BY <1>1, <1>2, SizeConcat

-----------------------------------------------------------------------------
(* Cuts                                                                    *)

\* N parts of a history between a and b, none of them empty: part k ends at c[k].
Cuts(c, N, a, b) ==
  /\ N \in Nat /\ a \in Nat /\ b \in Nat /\ c \in [0..N -> Nat] /\ c[0] = a /\ c[N] = b
  /\ \A k \in 1..N : c[k - 1] < c[k]

Slices(h, c, N) == [k \in 1..N |-> Part(h, c[k - 1], c[k])]

LEMMA CutsOrder ==
  ASSUME NEW c, NEW N, NEW a, NEW b, Cuts(c, N, a, b)
  PROVE  /\ \A i, j \in 0..N : i < j => c[i] < c[j]
         /\ \A i, j \in 0..N : i <= j => c[i] <= c[j]
         /\ \A i \in 0..N : a <= c[i] /\ c[i] <= b
         /\ a <= b /\ (a = b <=> N = 0)
<1>1. N \in Nat /\ a \in Nat /\ b \in Nat /\ c[0] = a /\ c[N] = b
      /\ (\A k \in 1..N : c[k - 1] < c[k]) /\ \A k \in 0..N : c[k] \in Nat
  BY DEF Cuts
<1>2. ASSUME NEW i \in 0..N
      PROVE  \A j \in 0..N : i < j => c[i] < c[j]
  <2> DEFINE M == {n \in Nat : i + (n + 1) <= N => c[i] < c[i + (n + 1)]}
  <2>1. 0 \in M
    <3>1. ASSUME i + 1 <= N PROVE c[i] < c[i + 1]
      <4>1. i + 1 \in 1..N /\ (i + 1) - 1 = i
        BY <3>1
      <4> QED BY <1>1, <4>1
    <3>2. 0 + 1 = 1
      OBVIOUS
    <3> QED BY <3>1, <3>2
  <2>2. ASSUME NEW n \in M PROVE n + 1 \in M
    <3>1. ASSUME i + ((n + 1) + 1) <= N PROVE c[i] < c[i + ((n + 1) + 1)]
      <4>1. PICK k : k = i + (n + 1)
        OBVIOUS
      <4>2. k \in 0..N /\ k + 1 \in 1..N /\ (k + 1) - 1 = k /\ k + 1 = i + ((n + 1) + 1)
        BY <1>1, <3>1, <4>1
      <4>3. c[i] < c[k]
        BY <4>1, <4>2
      <4>4. c[k] < c[k + 1]
        BY <1>1, <4>2
      <4>5. c[i] \in Nat /\ c[k] \in Nat /\ c[k + 1] \in Nat
        BY <1>1, <4>2
      <4> QED BY <4>2, <4>3, <4>4, <4>5
    <3> QED BY <3>1
  <2> HIDE DEF M
  <2>3. M \in SUBSET Nat
    BY DEF M
  <2>4. M = Nat
    BY <2>1, <2>2, <2>3, SetInduction
  <2>5. ASSUME NEW j \in 0..N, i < j PROVE c[i] < c[j]
    <3>1. j - i - 1 \in M /\ i + ((j - i - 1) + 1) = j
      BY <1>1, <2>4, <2>5
    <3>2. i + ((j - i - 1) + 1) <= N => c[i] < c[i + ((j - i - 1) + 1)]
      BY <3>1 DEF M
    <3> QED BY <1>1, <3>1, <3>2
  <2> QED BY <2>5
<1>3. \A i, j \in 0..N : i <= j => c[i] <= c[j]
  <2>1. ASSUME NEW i \in 0..N, NEW j \in 0..N, i <= j PROVE c[i] <= c[j]
    <3>1. i = j \/ i < j
      BY <1>1, <2>1
    <3>2. c[i] \in Nat /\ c[j] \in Nat
      BY <1>1
    <3> QED BY <1>2, <3>1, <3>2
  <2> QED BY <2>1
<1>4. \A i \in 0..N : a <= c[i] /\ c[i] <= b
  <2>1. 0 \in 0..N /\ N \in 0..N /\ \A i \in 0..N : 0 <= i /\ i <= N
    BY <1>1
  <2> QED BY <1>1, <1>3, <2>1
<1>5. a <= b
  <2>1. 0 \in 0..N
    BY <1>1
  <2> QED BY <1>1, <1>4, <2>1
<1>6. N # 0 => a < b
  <2>1. N # 0 => 0 \in 0..N /\ N \in 0..N /\ 0 < N
    BY <1>1
  <2> QED BY <1>1, <1>2, <2>1
<1> QED BY <1>1, <1>2, <1>3, <1>4, <1>5, <1>6

\* The parts, one after the other.
LEMMA FlattenSlices ==
  ASSUME NEW T, NEW h \in Seq(T), NEW c, NEW N, NEW a, NEW b, Cuts(c, N, a, b), b <= Len(h)
  PROVE  FlattenSeq(Slices(h, c, N)) = Part(h, a, b)
<1>1. PICK seqs : seqs = Slices(h, c, N)
  OBVIOUS
<1>2. /\ N \in Nat /\ a \in Nat /\ b \in Nat /\ c[0] = a /\ c[N] = b
      /\ \A k \in 0..N : c[k] \in Nat /\ a <= c[k] /\ c[k] <= b
      /\ \A k \in 1..N : c[k - 1] < c[k]
  BY CutsOrder DEF Cuts
<1>3. Len(seqs) = N /\ \A k \in 1..N : seqs[k] = Part(h, c[k - 1], c[k])
  BY <1>1, <1>2 DEF Slices
<1>4. CASE N = 0
  <2>1. seqs = <<>>
    BY <1>1, <1>4 DEF Slices
  <2>2. FlattenSeq(seqs) = <<>>
    BY <2>1 DEF FlattenSeq
  <2> QED BY <1>1, <1>2, <1>4, <2>2, PartEmpty
<1>5. CASE N # 0
  <2>1. PICK f : Flattens(f, seqs, N) /\ FlattenSeq(seqs) = f[N]
    <3>1. Len(seqs) \in Nat \ {0}
      BY <1>2, <1>3, <1>5
    <3> QED BY <1>3, <3>1, FlattenIsLast
  <2>2. \A i \in 1..N : f[i] = IF i = 1 THEN seqs[i] ELSE f[i - 1] \o seqs[i]
    BY <2>1 DEF Flattens
  <2> DEFINE M == {n \in Nat : n + 1 <= N => f[n + 1] = Part(h, a, c[n + 1])}
  <2>3. 0 \in M
    <3>1. 1 \in 1..N /\ 1 - 1 = 0 /\ 0 + 1 = 1
      BY <1>2, <1>5
    <3>2. f[1] = Part(h, a, c[1])
      BY <1>2, <1>3, <2>2, <3>1
    <3> QED BY <3>1, <3>2
  <2>4. ASSUME NEW n \in M PROVE n + 1 \in M
    <3>1. ASSUME (n + 1) + 1 <= N PROVE f[(n + 1) + 1] = Part(h, a, c[(n + 1) + 1])
      <4>1. PICK i : i = n + 1
        OBVIOUS
      <4>2. i \in 1..N /\ i + 1 \in 1..N /\ i + 1 # 1 /\ (i + 1) - 1 = i /\ i \in 0..N /\ i + 1 \in 0..N /\ i <= N
        BY <1>2, <3>1, <4>1
      <4>3. f[i] = Part(h, a, c[i])
        BY <4>1, <4>2
      <4>4. f[i + 1] = f[i] \o Part(h, c[i], c[i + 1])
        BY <1>3, <2>2, <4>2
      <4>5. Inside(h, a, c[i]) /\ Inside(h, c[i], c[i + 1])
        <5>1. c[i] < c[i + 1] /\ c[i + 1] <= b /\ a <= c[i] /\ c[i] \in Nat /\ c[i + 1] \in Nat
          BY <1>2, <4>2
        <5>2. PICK u \in Nat, v \in Nat, n1 \in Nat : u = c[i] /\ v = c[i + 1] /\ n1 = Len(h)
          BY <5>1
        <5>3. a <= u /\ u <= v /\ v <= n1 /\ u <= n1
          BY <1>2, <5>1, <5>2
        <5> QED BY <1>2, <5>2, <5>3 DEF Inside
      <4>6. Part(h, a, c[i]) \o Part(h, c[i], c[i + 1]) = Part(h, a, c[i + 1])
        BY <1>2, <4>5, PartJoin
      <4> QED BY <4>1, <4>3, <4>4, <4>6
    <3> QED BY <3>1
  <2> HIDE DEF M
  <2>5. M \in SUBSET Nat
    BY DEF M
  <2>6. M = Nat
    BY <2>3, <2>4, <2>5, SetInduction
  <2>7. f[N] = Part(h, a, c[N])
    <3>1. N - 1 \in M /\ (N - 1) + 1 = N /\ N <= N
      BY <1>2, <1>5, <2>6
    <3>2. (N - 1) + 1 <= N => f[(N - 1) + 1] = Part(h, a, c[(N - 1) + 1])
      BY <3>1 DEF M
    <3> QED BY <3>1, <3>2
  <2> QED BY <1>1, <1>2, <2>1, <2>7
<1> QED BY <1>4, <1>5

-----------------------------------------------------------------------------
(* The scan of the parts of a history                                      *)

\* What the scan has come to after n messages.
After(h, n) == Scanned(Part(h, 0, n))

LEMMA AfterNext ==
  ASSUME NEW T, NEW h \in Seq(T)
  PROVE  /\ After(h, 0) = Fresh /\ After(h, Len(h)) = Scanned(h)
         /\ \A n \in Nat : n + 1 <= Len(h) => After(h, n + 1) = Follow(After(h, n), h[n + 1])
<1>1. After(h, 0) = Fresh
  BY PartEmpty, ScannedEmpty DEF After
<1>2. After(h, Len(h)) = Scanned(h)
  BY PartAll DEF After
<1>3. ASSUME NEW n \in Nat, n + 1 <= Len(h) PROVE After(h, n + 1) = Follow(After(h, n), h[n + 1])
  <2>1. Inside(h, 0, n)
    BY <1>3 DEF Inside
  <2>2. PICK p, m : p = Part(h, 0, n) /\ m = h[n + 1]
    OBVIOUS
  <2>3. p \in Seq(T) /\ m \in T /\ Part(h, 0, n + 1) = Append(p, m)
    BY <1>3, <2>1, <2>2, PartIs, PartNext DEF IsPart
  <2> QED BY <2>2, <2>3, ScannedAppend DEF After
<1> QED BY <1>1, <1>2, <1>3

\* Once a scan has failed it has failed.
LEMMA AfterSafe ==
  ASSUME NEW T, NEW h \in Seq(T), Scanned(h).safe
  PROVE  \A n \in 0..Len(h) : After(h, n).safe
<1> DEFINE M == {k \in Nat : k <= Len(h) => After(h, Len(h) - k).safe}
<1>1. Len(h) \in Nat
  OBVIOUS
<1>2. 0 \in M
  <2>1. Len(h) - 0 = Len(h)
    BY <1>1
  <2> QED BY <2>1, AfterNext
<1>3. ASSUME NEW k \in M PROVE k + 1 \in M
  <2>1. ASSUME k + 1 <= Len(h) PROVE After(h, Len(h) - (k + 1)).safe
    <3>1. PICK n \in Nat : n = Len(h) - (k + 1)
      BY <1>1, <2>1
    <3>2. n + 1 <= Len(h) /\ n + 1 = Len(h) - k
      BY <1>1, <2>1, <3>1
    <3>3. After(h, n + 1).safe /\ After(h, n + 1) = Follow(After(h, n), h[n + 1])
      <4>1. k \in Nat /\ k <= Len(h)
        BY <1>1, <2>1
      <4>2. After(h, Len(h) - k).safe
        BY <4>1
      <4> QED BY <3>2, <4>2, AfterNext
    <3>4. PICK acc, m : acc = After(h, n) /\ m = h[n + 1] /\ Follow(acc, m).safe
      BY <3>3
    <3>5. acc.safe
      BY <3>4, FollowResult, FollowOther
    <3> QED BY <3>1, <3>4, <3>5
  <2> QED BY <2>1
<1> HIDE DEF M
<1>4. M \in SUBSET Nat
  BY DEF M
<1>5. M = Nat
  BY <1>2, <1>3, <1>4, SetInduction
<1>6. ASSUME NEW n \in 0..Len(h) PROVE After(h, n).safe
  <2>1. Len(h) - n \in Nat /\ Len(h) - n <= Len(h) /\ Len(h) - (Len(h) - n) = n
    BY <1>1
  <2> QED BY <1>5, <2>1 DEF M
<1> QED BY <1>6

\* No result follows the position x.
Between(h, x) == x \in 0..Len(h) /\ (x < Len(h) => h[x + 1].role # "tool")

\* There all calls are answered.
LEMMA BetweenAnswered ==
  ASSUME NEW T, NEW h \in Seq(T), IsReplaySafe(h), NEW x, Between(h, x)
  PROVE  After(h, x).safe /\ After(h, x).seen = After(h, x).calls
<1>1. Scanned(h).safe /\ Scanned(h).seen = Scanned(h).calls
  BY SafeIsScanned
<1>2. x \in Nat /\ x <= Len(h) /\ x \in 0..Len(h)
  BY DEF Between
<1>3. After(h, x).safe
  BY <1>1, <1>2, AfterSafe
<1>4. CASE x = Len(h)
  BY <1>1, <1>4, AfterNext
<1>5. CASE x # Len(h)
  <2>1. x + 1 <= Len(h) /\ x + 1 \in 0..Len(h) /\ h[x + 1].role # "tool"
    BY <1>2, <1>5 DEF Between
  <2>2. PICK acc, m : acc = After(h, x) /\ m = h[x + 1] /\ Follow(acc, m) = After(h, x + 1)
    BY <1>2, <2>1, AfterNext
  <2>3. Follow(acc, m).safe
    BY <1>1, <2>1, <2>2, AfterSafe
  <2> QED BY <1>3, <2>1, <2>2, <2>3, FollowOther
<1> QED BY <1>3, <1>4, <1>5

\* The scan of what is between two such positions comes to what the scan of the whole has come to.
LEMMA BetweenScanned ==
  ASSUME NEW T, NEW h \in Seq(T), IsReplaySafe(h), NEW x, Between(h, x)
  PROVE  \A y \in Nat : x < y /\ y <= Len(h) => Scanned(Part(h, x, y)) = After(h, y)
<1>1. x \in Nat /\ x <= Len(h) /\ Len(h) \in Nat
  BY DEF Between
<1> DEFINE M == {n \in Nat : x + (n + 1) <= Len(h) =>
                   Scanned(Part(h, x, x + (n + 1))) = After(h, x + (n + 1))}
<1>2. 0 \in M
  <2>1. ASSUME x + 1 <= Len(h) PROVE Scanned(Part(h, x, x + 1)) = After(h, x + 1)
    <3>1. PICK m : m = h[x + 1] /\ m \in T /\ Part(h, x, x + 1) = <<m>>
      BY <1>1, <2>1, PartOne
    <3>2. m.role # "tool"
      BY <1>1, <2>1, <3>1 DEF Between
    <3>3. <<m>> = Append(<<>>, m) /\ <<>> \in Seq(T)
      OBVIOUS
    <3>4. Scanned(<<m>>) = Follow(Fresh, m)
      BY <3>1, <3>3, ScannedAppend, ScannedEmpty
    <3>5. PICK acc : acc = After(h, x) /\ acc.safe /\ acc.seen = acc.calls
      BY BetweenAnswered
    <3>6. After(h, x + 1) = Follow(acc, m)
      BY <1>1, <2>1, <3>1, <3>5, AfterNext
    <3>7. Follow(acc, m) = [safe |-> TRUE, calls |-> Asks(m), seen |-> {}]
      BY <3>2, <3>5 DEF Follow
    <3>8. Follow(Fresh, m) = [safe |-> TRUE, calls |-> Asks(m), seen |-> {}]
      BY <3>2 DEF Follow, Fresh
    <3> QED BY <3>1, <3>4, <3>6, <3>7, <3>8
  <2>2. 0 + 1 = 1
    OBVIOUS
  <2> QED BY <2>1, <2>2
<1>3. ASSUME NEW n \in M PROVE n + 1 \in M
  <2>1. ASSUME x + ((n + 1) + 1) <= Len(h)
        PROVE  Scanned(Part(h, x, x + ((n + 1) + 1))) = After(h, x + ((n + 1) + 1))
    <3>1. PICK y \in Nat : y = x + (n + 1)
      BY <1>1
    <3>2. y + 1 = x + ((n + 1) + 1) /\ y + 1 <= Len(h) /\ y <= Len(h) /\ x <= y
      BY <1>1, <2>1, <3>1
    <3>3. PICK p, m : p = Part(h, x, y) /\ m = h[y + 1]
      OBVIOUS
    <3>4. Inside(h, x, y)
      BY <1>1, <3>2 DEF Inside
    <3>5. p \in Seq(T) /\ m \in T /\ Part(h, x, y + 1) = Append(p, m)
      BY <3>2, <3>3, <3>4, PartIs, PartNext DEF IsPart
    <3>6. Scanned(p) = After(h, y)
      BY <3>1, <3>2, <3>3
    <3>7. Scanned(Append(p, m)) = Follow(Scanned(p), m)
      BY <3>5, ScannedAppend
    <3>8. After(h, y + 1) = Follow(After(h, y), m)
      BY <3>2, <3>3, AfterNext
    <3> QED BY <3>2, <3>5, <3>6, <3>7, <3>8
  <2> QED BY <2>1
<1> HIDE DEF M
<1>4. M \in SUBSET Nat
  BY DEF M
<1>5. M = Nat
  BY <1>2, <1>3, <1>4, SetInduction
<1>6. ASSUME NEW y \in Nat, x < y, y <= Len(h) PROVE Scanned(Part(h, x, y)) = After(h, y)
  <2>1. y - x - 1 \in Nat /\ x + ((y - x - 1) + 1) = y
    BY <1>1, <1>6
  <2> QED BY <1>5, <1>6, <2>1 DEF M
<1> QED BY <1>6

LEMMA EmptyIsSafe == IsReplaySafe(<<>>)
<1>1. Fresh.safe /\ Fresh.seen = Fresh.calls
  BY DEF Fresh
<1>2. PICK e : e = <<>>
  OBVIOUS
<1>3. Scanned(e) = Fresh
  BY <1>2, ScannedEmpty
<1>4. IsReplaySafe(e)
  BY <1>1, <1>3, SafeIsScanned
<1> QED BY <1>2, <1>4

\* So that part may be replayed by itself.
LEMMA BetweenIsSafe ==
  ASSUME NEW T, NEW h \in Seq(T), IsReplaySafe(h), NEW x, NEW y, Between(h, x), Between(h, y), x <= y
  PROVE  IsReplaySafe(Part(h, x, y))
<1>1. x \in Nat /\ y \in Nat /\ x <= Len(h) /\ y <= Len(h)
  BY DEF Between
<1>2. CASE x = y
  BY <1>1, <1>2, PartEmpty, EmptyIsSafe
<1>3. CASE x # y
  <2>1. Scanned(Part(h, x, y)) = After(h, y)
    BY <1>1, <1>3, BetweenScanned
  <2> QED BY <2>1, BetweenAnswered, SafeIsScanned
<1> QED BY <1>2, <1>3

\* What may be replayed does not begin with a result.
LEMMA SafeBegins ==
  ASSUME NEW T, NEW h \in Seq(T), IsReplaySafe(h), Len(h) # 0
  PROVE  h[1].role # "tool"
<1>1. Len(h) \in Nat /\ 1 \in 0..Len(h) /\ 0 + 1 = 1 /\ 0 + 1 <= Len(h)
  OBVIOUS
<1>2. After(h, 1).safe
  BY <1>1, AfterSafe, SafeIsScanned
<1>3. After(h, 1) = Follow(Fresh, h[1])
  <2>1. After(h, 0 + 1) = Follow(After(h, 0), h[0 + 1]) /\ After(h, 0) = Fresh
    BY <1>1, AfterNext
  <2> QED BY <1>1, <2>1
<1>4. PICK m : m = h[1] /\ Follow(Fresh, m).safe
  BY <1>2, <1>3
<1>5. ASSUME m.role = "tool" PROVE FALSE
  <2>1. m.id \in Fresh.calls \ Fresh.seen
    BY <1>4, <1>5, FollowResult
  <2> QED BY <2>1 DEF Fresh
<1> QED BY <1>4, <1>5

-----------------------------------------------------------------------------
(* The three folds, message by message and group by group                  *)

Unsplit == [prefix |-> <<>>, body |-> <<>>, open |-> {}]

Splits(T) == [prefix : Seq(Seq(T)), body : Seq(Seq(T)), open : {Asks(m) : m \in T} \cup {{}}]

LEMMA PlaceType ==
  ASSUME NEW T, NEW split \in Splits(T), NEW m \in T
  PROVE  Place(split, m) \in Splits(T)
<1>1. PICK p, b, o : split = [prefix |-> p, body |-> b, open |-> o] /\ p \in Seq(Seq(T)) /\ b \in Seq(Seq(T))
                     /\ o \in {Asks(x) : x \in T} \cup {{}}
  BY DEF Splits
<1>2. <<m>> \in Seq(T)
  OBVIOUS
<1>3. Append(p, <<m>>) \in Seq(Seq(T)) /\ Append(b, <<m>>) \in Seq(Seq(T))
  BY <1>1, <1>2
<1>4. [b EXCEPT ![Len(b)] = Append(@, m)] \in Seq(Seq(T))
  <2>1. PICK n \in Nat : n = Len(b) /\ DOMAIN b = 1..n
    BY <1>1
  <2>2. PICK joined : joined = [b EXCEPT ![n] = Append(b[n], m)]
    OBVIOUS
  <2>3. joined = [i \in 1..n |-> joined[i]]
    BY <2>1, <2>2
  <2>4. \A i \in 1..n : joined[i] \in Seq(T)
    <3>1. ASSUME NEW i \in 1..n PROVE joined[i] \in Seq(T)
      <4>1. PICK x : x = b[i] /\ x \in Seq(T)
        BY <1>1, <2>1, ElementOfSeq
      <4>2. Append(x, m) \in Seq(T)
        BY <4>1
      <4> QED BY <2>1, <2>2, <4>1, <4>2
    <3> QED BY <3>1
  <2>5. joined \in Seq(Seq(T))
    <3>1. PICK S : S = Seq(T)
      OBVIOUS
    <3>2. joined \in [1..n -> S]
      BY <2>3, <2>4, <3>1
    <3>3. joined \in Seq(S)
      BY <3>2
    <3> QED BY <3>1, <3>3
  <2> QED BY <2>1, <2>2, <2>5
<1>5. PICK O : O = {Asks(x) : x \in T} \cup {{}}
  OBVIOUS
<1>6. Asks(m) \in O
  BY <1>5
<1>7. PICK q, j, r : q = Append(p, <<m>>) /\ j = [b EXCEPT ![Len(b)] = Append(@, m)] /\ r = Append(b, <<m>>)
  OBVIOUS
<1>8. \/ Place(split, m) = [prefix |-> q, body |-> b, open |-> o]
      \/ Place(split, m) = [prefix |-> p, body |-> j, open |-> o]
      \/ Place(split, m) = [prefix |-> p, body |-> r, open |-> Asks(m)]
  BY <1>1, <1>7 DEF Place
<1>9. PICK S : S = Seq(Seq(T)) /\ Splits(T) = [prefix : S, body : S, open : O]
  BY <1>5 DEF Splits
<1>10. p \in S /\ b \in S /\ q \in S /\ j \in S /\ r \in S /\ o \in O
  BY <1>1, <1>3, <1>4, <1>5, <1>7, <1>9
<1>11. Place(split, m) \in [prefix : S, body : S, open : O]
  BY <1>8, <1>10, <1>6
<1> QED BY <1>9, <1>11

\* What the recursive functions of the folds satisfy, over the positions up to m.
PlacesBy(g, seq, m) ==
  g = [s \in SUBSET (1..m) |-> IF s = {} THEN Unsplit ELSE LET x == Max(s) IN Place(g[s \ {x}], seq[x])]

Places(z, seq) ==
  /\ z[0] = Unsplit
  /\ \A n \in Nat : n + 1 <= Len(seq) => z[n + 1] = Place(z[n], seq[n + 1])

LEMMA PlacesExists ==
  ASSUME NEW T, NEW seq, NEW m \in Nat, \A i \in 1..m : seq[i] \in T
  PROVE  \E g : PlacesBy(g, seq, m)
<1> DEFINE F == [p \in Splits(T) \X (1..m) |-> Place(p[1], seq[p[2]])]
           C == [s \in SUBSET (1..m) |-> Max(s)]
<1>1. F \in [Splits(T) \X (1..m) -> Splits(T)]
  <2>1. \A p \in Splits(T) \X (1..m) : Place(p[1], seq[p[2]]) \in Splits(T)
    BY PlaceType
  <2> QED BY <2>1
<1>2. Unsplit \in Splits(T)
  BY DEF Unsplit, Splits
<1>3. PICK A : A = Splits(T)
  OBVIOUS
<1>4. PICK g : FoldsBy(g, A, F, C, Unsplit, 1..m)
  <2> HIDE DEF F
  <2> QED BY <1>1, <1>2, <1>3, EndFoldExists
<1>5. ASSUME NEW s \in SUBSET (1..m), s # {}
      PROVE  g[s] = Place(g[s \ {Max(s)}], seq[Max(s)])
  <2>1. Max(s) \in 1..m /\ s \ {Max(s)} \in SUBSET (1..m) /\ C[s] = Max(s)
    BY <1>5, ExtremesOfPart
  <2>2. g[s \ {Max(s)}] \in A /\ g[s] = F[<<g[s \ {Max(s)}], Max(s)>>]
    <3> HIDE DEF C, F
    <3> QED BY <1>4, <1>5, <2>1 DEF FoldsBy
  <2> QED BY <1>3, <2>1, <2>2
<1>6. g = [s \in SUBSET (1..m) |-> g[s]] /\ g[{}] = Unsplit
  <2> HIDE DEF C, F
  <2> QED BY <1>4 DEF FoldsBy
<1> QED BY <1>5, <1>6 DEF PlacesBy

LEMMA SegmentizePlaces ==
  ASSUME NEW T, NEW seq \in Seq(T)
  PROVE  \E z : Places(z, seq) /\ Segmentize(seq) = z[Len(seq)]
<1>1. PICK m \in Nat : m = Len(seq) /\ DOMAIN seq = 1..m
  OBVIOUS
<1> DEFINE g == CHOOSE g : PlacesBy(g, seq, m)
<1>2. PlacesBy(g, seq, m)
  <2>1. \A i \in 1..m : seq[i] \in T
    BY <1>1
  <2> QED BY <2>1, PlacesExists
<1>3. Segmentize(seq) = g[1..m]
  BY <1>1 DEF Segmentize, FoldLeft, MapThenFoldSet, PlacesBy, Unsplit
<1> HIDE DEF g
<1>4. PICK z : z = [n \in 0..m |-> g[1..n]]
  OBVIOUS
<1>5. z[0] = Unsplit
  <2>1. 1..0 = {} /\ {} \in SUBSET (1..m) /\ z[0] = g[1..0]
    BY <1>4
  <2> QED BY <1>2, <2>1 DEF PlacesBy
<1>6. ASSUME NEW n \in Nat, n + 1 <= m PROVE z[n + 1] = Place(z[n], seq[n + 1])
  <2>1. PICK s : s = 1..n + 1
    OBVIOUS
  <2>2. s \in SUBSET (1..m) /\ s # {} /\ Max(s) = n + 1 /\ s \ {n + 1} = 1..n
    BY <1>6, <2>1, MaxOfFirst
  <2>3. g[s] = Place(g[1..n], seq[n + 1])
    BY <1>2, <2>2 DEF PlacesBy
  <2>4. z[n + 1] = g[s] /\ z[n] = g[1..n]
    BY <1>4, <1>6, <2>1
  <2> QED BY <2>3, <2>4
<1>7. Segmentize(seq) = z[m]
  BY <1>3, <1>4
<1> QED BY <1>1, <1>5, <1>6, <1>7 DEF Places

\* The walk of apply_context_budget, which begins at the newest group.
AllRoom(room) == [groups |-> <<>>, used |-> 0, stopped |-> FALSE, room |-> room]

Walks(T) == [groups : Seq(Seq(T)), used : Nat, stopped : BOOLEAN, room : Int]

LEMMA KeepType ==
  ASSUME NEW T, Sized(T), NEW group \in Seq(T), NEW acc \in Walks(T)
  PROVE  Keep(group, acc) \in Walks(T)
<1>1. PICK S, B : S = Seq(T) /\ B = BOOLEAN
  OBVIOUS
<1>2. Walks(T) = [groups : Seq(S), used : Nat, stopped : B, room : Int]
  BY <1>1 DEF Walks
<1>3. PICK q, n : q = <<group>> \o acc.groups /\ n = acc.used + Size(group)
  OBVIOUS
<1>4. q \in Seq(S) /\ n \in Nat /\ TRUE \in B
  <2>1. acc.groups \in Seq(S) /\ acc.used \in Nat /\ group \in S
    BY <1>1, <1>2
  <2>2. Size(group) \in Nat
    BY SizeConcat
  <2> QED BY <1>1, <1>3, <2>1, <2>2
<1>5. [acc EXCEPT !.groups = q, !.used = n] \in Walks(T) /\ [acc EXCEPT !.stopped = TRUE] \in Walks(T)
  <2>1. PICK G, W : G = Seq(S) /\ W = [groups : G, used : Nat, stopped : B, room : Int]
    OBVIOUS
  <2>2. acc \in W /\ q \in G
    BY <1>2, <1>4, <2>1
  <2>3. [acc EXCEPT !.groups = q, !.used = n] \in W
    BY <1>4, <2>1, <2>2
  <2>4. [acc EXCEPT !.stopped = TRUE] \in W
    BY <1>4, <2>1, <2>2
  <2> QED BY <1>2, <2>1, <2>3, <2>4
<1>6. Keep(group, acc) \in {[acc EXCEPT !.groups = q, !.used = n], [acc EXCEPT !.stopped = TRUE]}
  BY <1>3 DEF Keep
<1> QED BY <1>5, <1>6

KeepsBy(g, seq, m, room) ==
  g = [s \in SUBSET (1..m) |-> IF s = {} THEN AllRoom(room)
                               ELSE LET x == Min(s) IN Keep(seq[x], g[s \ {x}])]

Keeps(z, seq, room) ==
  /\ z[Len(seq) + 1] = AllRoom(room)
  /\ \A k \in 1..Len(seq) : z[k] = Keep(seq[k], z[k + 1])

LEMMA KeepsExists ==
  ASSUME NEW T, Sized(T), NEW seq, NEW m \in Nat, \A i \in 1..m : seq[i] \in Seq(T), NEW room \in Int
  PROVE  \E g : KeepsBy(g, seq, m, room)
<1> DEFINE F == [p \in Walks(T) \X (1..m) |-> Keep(seq[p[2]], p[1])]
           C == [s \in SUBSET (1..m) |-> Min(s)]
<1>1. F \in [Walks(T) \X (1..m) -> Walks(T)]
  <2>1. \A p \in Walks(T) \X (1..m) : Keep(seq[p[2]], p[1]) \in Walks(T)
    BY KeepType
  <2> QED BY <2>1
<1>2. AllRoom(room) \in Walks(T)
  BY DEF AllRoom, Walks
<1>3. PICK A, base : A = Walks(T) /\ base = AllRoom(room)
  OBVIOUS
<1>4. PICK g : FoldsBy(g, A, F, C, base, 1..m)
  <2> HIDE DEF F
  <2> QED BY <1>1, <1>2, <1>3, EndFoldExists
<1>5. ASSUME NEW s \in SUBSET (1..m), s # {}
      PROVE  g[s] = Keep(seq[Min(s)], g[s \ {Min(s)}])
  <2>1. Min(s) \in 1..m /\ s \ {Min(s)} \in SUBSET (1..m) /\ C[s] = Min(s)
    BY <1>5, ExtremesOfPart
  <2>2. g[s \ {Min(s)}] \in A /\ g[s] = F[<<g[s \ {Min(s)}], Min(s)>>]
    <3> HIDE DEF C, F
    <3> QED BY <1>4, <1>5, <2>1 DEF FoldsBy
  <2> QED BY <1>3, <2>1, <2>2
<1>6. g = [s \in SUBSET (1..m) |-> g[s]] /\ g[{}] = base
  <2> HIDE DEF C, F
  <2> QED BY <1>4 DEF FoldsBy
<1> QED BY <1>3, <1>5, <1>6 DEF KeepsBy

LEMMA FoldRightKeeps ==
  ASSUME NEW T, Sized(T), NEW seq \in Seq(Seq(T)), NEW room \in Int
  PROVE  \E z : Keeps(z, seq, room) /\ FoldRight(Keep, seq, AllRoom(room)) = z[1]
<1>1. PICK m \in Nat : m = Len(seq) /\ DOMAIN seq = 1..m
  OBVIOUS
<1> DEFINE g == CHOOSE g : KeepsBy(g, seq, m, room)
<1>2. KeepsBy(g, seq, m, room)
  <2>1. \A i \in 1..m : seq[i] \in Seq(T)
    BY <1>1, ElementOfSeq
  <2> QED BY <2>1, KeepsExists
<1>3. FoldRight(Keep, seq, AllRoom(room)) = g[1..m]
  BY <1>1 DEF FoldRight, MapThenFoldSet, KeepsBy
<1> HIDE DEF g
<1>4. PICK z : z = [k \in 1..m + 1 |-> g[k..m]]
  OBVIOUS
<1>5. z[m + 1] = AllRoom(room)
  <2>1. m + 1..m = {} /\ {} \in SUBSET (1..m) /\ m + 1 \in 1..m + 1
    OBVIOUS
  <2>2. z[m + 1] = g[{}]
    BY <1>4, <2>1
  <2> QED BY <1>2, <2>1, <2>2 DEF KeepsBy
<1>6. ASSUME NEW k \in 1..m PROVE z[k] = Keep(seq[k], z[k + 1])
  <2>1. PICK s : s = k..m
    OBVIOUS
  <2>2. s \in SUBSET (1..m) /\ s # {} /\ Min(s) = k /\ s \ {k} = k + 1..m
    BY <2>1, MinOfRest
  <2>3. g[s] = Keep(seq[k], g[k + 1..m])
    BY <1>2, <2>2 DEF KeepsBy
  <2>4. z[k] = g[s] /\ z[k + 1] = g[k + 1..m]
    BY <1>4, <1>6, <2>1
  <2> QED BY <2>3, <2>4
<1>7. FoldRight(Keep, seq, AllRoom(room)) = z[1]
  <2>1. 1 \in 1..m + 1
    OBVIOUS
  <2> QED BY <1>3, <1>4, <2>1
<1> QED BY <1>1, <1>5, <1>6, <1>7 DEF Keeps

\* The packing of groups into files.
NothingPacked(bound) == [files |-> <<>>, current |-> <<>>, bound |-> bound]

Packings(T, bound) == [files : Seq(Seq(T)), current : Seq(T), bound : {bound}]

LEMMA PackType ==
  ASSUME NEW T, NEW bound, NEW acc \in Packings(T, bound), NEW group \in Seq(T)
  PROVE  Pack(acc, group) \in Packings(T, bound)
<1>1. PICK S, B : S = Seq(T) /\ B = {bound}
  OBVIOUS
<1>2. Packings(T, bound) = [files : Seq(S), current : S, bound : B]
  BY <1>1 DEF Packings
<1>3. PICK fl, more, joined : fl = Flushed(acc) /\ more = Append(Flushed(acc), group)
                              /\ joined = acc.current \o group
  OBVIOUS
<1>4. fl \in Seq(S) /\ more \in Seq(S) /\ joined \in S /\ group \in S /\ <<>> \in S
  <2>1. acc.files \in Seq(S) /\ acc.current \in S /\ group \in S
    BY <1>1, <1>2
  <2>2. fl \in Seq(S)
    BY <1>3, <2>1 DEF Flushed
  <2>3. more \in Seq(S)
    BY <1>3, <2>1, <2>2
  <2> QED BY <1>1, <1>3, <2>1, <2>2, <2>3
<1>5. /\ [acc EXCEPT !.files = more, !.current = <<>>] \in Packings(T, bound)
      /\ [acc EXCEPT !.files = fl, !.current = group] \in Packings(T, bound)
      /\ [acc EXCEPT !.current = joined] \in Packings(T, bound)
  <2>1. PICK G, W : G = Seq(S) /\ W = [files : G, current : S, bound : B]
    OBVIOUS
  <2>2. acc \in W /\ fl \in G /\ more \in G
    BY <1>2, <1>4, <2>1
  <2>3. [acc EXCEPT !.files = more, !.current = <<>>] \in W
    BY <1>4, <2>1, <2>2
  <2>4. [acc EXCEPT !.files = fl, !.current = group] \in W /\ [acc EXCEPT !.current = joined] \in W
    BY <1>4, <2>1, <2>2
  <2> QED BY <1>2, <2>1, <2>3, <2>4
<1>6. Pack(acc, group) \in {[acc EXCEPT !.files = more, !.current = <<>>],
                            [acc EXCEPT !.files = fl, !.current = group],
                            [acc EXCEPT !.current = joined]}
  BY <1>3 DEF Pack
<1> QED BY <1>5, <1>6

PacksBy(g, seq, m, bound) ==
  g = [s \in SUBSET (1..m) |-> IF s = {} THEN NothingPacked(bound)
                               ELSE LET x == Max(s) IN Pack(g[s \ {x}], seq[x])]

Packs(z, seq, bound) ==
  /\ z[0] = NothingPacked(bound)
  /\ \A n \in Nat : n + 1 <= Len(seq) => z[n + 1] = Pack(z[n], seq[n + 1])

LEMMA PacksExists ==
  ASSUME NEW T, NEW seq, NEW m \in Nat, \A i \in 1..m : seq[i] \in Seq(T), NEW bound
  PROVE  \E g : PacksBy(g, seq, m, bound)
<1> DEFINE F == [p \in Packings(T, bound) \X (1..m) |-> Pack(p[1], seq[p[2]])]
           C == [s \in SUBSET (1..m) |-> Max(s)]
<1>1. F \in [Packings(T, bound) \X (1..m) -> Packings(T, bound)]
  <2>1. \A p \in Packings(T, bound) \X (1..m) : Pack(p[1], seq[p[2]]) \in Packings(T, bound)
    BY PackType
  <2> QED BY <2>1
<1>2. NothingPacked(bound) \in Packings(T, bound)
  BY DEF NothingPacked, Packings
<1>3. PICK A, base : A = Packings(T, bound) /\ base = NothingPacked(bound)
  OBVIOUS
<1>4. PICK g : FoldsBy(g, A, F, C, base, 1..m)
  <2> HIDE DEF F
  <2> QED BY <1>1, <1>2, <1>3, EndFoldExists
<1>5. ASSUME NEW s \in SUBSET (1..m), s # {}
      PROVE  g[s] = Pack(g[s \ {Max(s)}], seq[Max(s)])
  <2>1. Max(s) \in 1..m /\ s \ {Max(s)} \in SUBSET (1..m) /\ C[s] = Max(s)
    BY <1>5, ExtremesOfPart
  <2>2. g[s \ {Max(s)}] \in A /\ g[s] = F[<<g[s \ {Max(s)}], Max(s)>>]
    <3> HIDE DEF C, F
    <3> QED BY <1>4, <1>5, <2>1 DEF FoldsBy
  <2> QED BY <1>3, <2>1, <2>2
<1>6. g = [s \in SUBSET (1..m) |-> g[s]] /\ g[{}] = base
  <2> HIDE DEF C, F
  <2> QED BY <1>4 DEF FoldsBy
<1> QED BY <1>3, <1>5, <1>6 DEF PacksBy

LEMMA PackSegmentsPacks ==
  ASSUME NEW T, NEW h, NEW bound, PartitionHistory(h) \in Seq(Seq(T))
  PROVE  \E z : Packs(z, PartitionHistory(h), bound)
                /\ PackSegments(h, bound) = Flushed(z[Len(PartitionHistory(h))])
<1>1. PICK seq : seq = PartitionHistory(h)
  OBVIOUS
<1>2. PICK m \in Nat : m = Len(seq) /\ DOMAIN seq = 1..m
  BY <1>1
<1> DEFINE g == CHOOSE g : PacksBy(g, seq, m, bound)
<1>3. PacksBy(g, seq, m, bound)
  <2>1. \A i \in 1..m : seq[i] \in Seq(T)
    BY <1>1, <1>2, ElementOfSeq
  <2> QED BY <2>1, PacksExists
<1>4. PackSegments(h, bound) = Flushed(g[1..m])
  BY <1>1, <1>2 DEF PackSegments, FoldLeft, MapThenFoldSet, PacksBy, NothingPacked
<1> HIDE DEF g
<1>5. PICK z : z = [n \in 0..m |-> g[1..n]]
  OBVIOUS
<1>6. z[0] = NothingPacked(bound)
  <2>1. 1..0 = {} /\ {} \in SUBSET (1..m) /\ z[0] = g[1..0]
    BY <1>5
  <2> QED BY <1>3, <2>1 DEF PacksBy
<1>7. ASSUME NEW n \in Nat, n + 1 <= m PROVE z[n + 1] = Pack(z[n], seq[n + 1])
  <2>1. PICK s : s = 1..n + 1
    OBVIOUS
  <2>2. s \in SUBSET (1..m) /\ s # {} /\ Max(s) = n + 1 /\ s \ {n + 1} = 1..n
    BY <1>7, <2>1, MaxOfFirst
  <2>3. g[s] = Pack(g[1..n], seq[n + 1])
    BY <1>3, <2>2 DEF PacksBy
  <2>4. z[n + 1] = g[s] /\ z[n] = g[1..n]
    BY <1>5, <1>7, <2>1
  <2> QED BY <2>3, <2>4
<1>8. PackSegments(h, bound) = Flushed(z[m])
  BY <1>4, <1>5
<1> QED BY <1>1, <1>2, <1>6, <1>7, <1>8 DEF Packs

-----------------------------------------------------------------------------
(* Longer slices                                                           *)

\* One part more, and the last part longer.
Extended(c, N, y) == [k \in 0..N + 1 |-> IF k = N + 1 THEN y ELSE c[k]]
Moved(c, N, y) == [k \in 0..N |-> IF k = N THEN y ELSE c[k]]

LEMMA SlicesAppend ==
  ASSUME NEW h, NEW c, NEW N, NEW a, NEW b, Cuts(c, N, a, b), NEW y \in Nat, b < y
  PROVE  /\ Cuts(Extended(c, N, y), N + 1, a, y)
         /\ \A k \in 0..N : Extended(c, N, y)[k] = c[k]
         /\ Extended(c, N, y)[N + 1] = y
         /\ Slices(h, Extended(c, N, y), N + 1) = Append(Slices(h, c, N), Part(h, b, y))
<1>1. /\ N \in Nat /\ a \in Nat /\ b \in Nat /\ c[0] = a /\ c[N] = b
      /\ (\A k \in 1..N : c[k - 1] < c[k]) /\ \A k \in 0..N : c[k] \in Nat
  BY DEF Cuts
<1>2. PICK d : d = Extended(c, N, y)
  OBVIOUS
<1>3. /\ d = [k \in 0..N + 1 |-> d[k]]
      /\ \A k \in 0..N : d[k] = c[k]
      /\ d[N + 1] = y
  BY <1>1, <1>2 DEF Extended
<1>4. Cuts(d, N + 1, a, y)
  <2>1. \A k \in 0..N + 1 : d[k] \in Nat
    <3>1. \A k \in 0..N + 1 : k \in 0..N \/ k = N + 1
      BY <1>1
    <3> QED BY <1>1, <1>3, <3>1
  <2>2. \A k \in 1..N + 1 : d[k - 1] < d[k]
    <3>1. \A k \in 1..N + 1 : (k \in 1..N /\ k - 1 \in 0..N /\ k \in 0..N) \/ (k = N + 1 /\ k - 1 = N /\ N \in 0..N)
      BY <1>1
    <3> QED BY <1>1, <1>3, <3>1
  <2>3. d \in [0..N + 1 -> Nat]
    BY <1>3, <2>1
  <2>4. d[0] = a
    <3>1. 0 \in 0..N
      BY <1>1
    <3> QED BY <1>1, <1>3, <3>1
  <2>5. PICK M : M = N + 1
    OBVIOUS
  <2>6. M \in Nat /\ d \in [0..M -> Nat] /\ d[M] = y /\ \A k \in 1..M : d[k - 1] < d[k]
    <3>1. M \in Nat
      BY <1>1, <2>5
    <3>2. d \in [0..M -> Nat] /\ d[M] = y
      BY <1>3, <2>3, <2>5
    <3>3. \A k \in 1..M : d[k - 1] < d[k]
      BY <2>2, <2>5
    <3> QED BY <3>1, <3>2, <3>3
  <2>7. Cuts(d, M, a, y)
    BY <1>1, <2>4, <2>6 DEF Cuts
  <2> QED BY <2>5, <2>7
<1>5. Slices(h, d, N + 1) = Append(Slices(h, c, N), Part(h, b, y))
  <2>1. PICK s, t, p : s = Slices(h, c, N) /\ t = Slices(h, d, N + 1) /\ p = Part(h, b, y)
    OBVIOUS
  <2>2. /\ s = [k \in 1..N |-> Part(h, c[k - 1], c[k])]
        /\ t = [k \in 1..N + 1 |-> Part(h, d[k - 1], d[k])]
    BY <2>1 DEF Slices
  <2>3. \A k \in 1..N : t[k] = s[k]
    <3>1. \A k \in 1..N : k - 1 \in 0..N /\ k \in 0..N /\ k \in 1..N + 1
      BY <1>1
    <3> QED BY <1>3, <2>2, <3>1
  <2>4. t[N + 1] = p
    <3>1. N + 1 \in 1..N + 1 /\ (N + 1) - 1 = N /\ N \in 0..N
      BY <1>1
    <3> QED BY <1>1, <1>3, <2>1, <2>2, <3>1
  <2>5. t = [k \in 1..N + 1 |-> t[k]] /\ s = [k \in 1..N |-> s[k]]
    BY <2>2
  <2>6. PICK X : X = {s[k] : k \in 1..N} \cup {p}
    OBVIOUS
  <2>7. s \in Seq(X) /\ Len(s) = N /\ p \in X
    BY <1>1, <2>5, <2>6
  <2>8. t \in Seq(X) /\ Len(t) = N + 1
    <3>1. \A k \in 1..N + 1 : k \in 1..N \/ k = N + 1
      BY <1>1
    <3>2. \A k \in 1..N + 1 : t[k] \in X
      BY <2>3, <2>4, <2>6, <3>1
    <3>3. PICK M \in Nat : M = N + 1
      BY <1>1
    <3>4. t \in [1..M -> X]
      BY <2>5, <3>2, <3>3
    <3> QED BY <3>3, <3>4
  <2>9. PICK q : q = Append(s, p)
    OBVIOUS
  <2>10. q \in Seq(X) /\ Len(q) = N + 1 /\ q[N + 1] = p /\ \A k \in 1..N : q[k] = s[k]
    BY <1>1, <2>7, <2>9
  <2>11. \A k \in 1..N + 1 : q[k] = t[k]
    <3>1. \A k \in 1..N + 1 : k \in 1..N \/ k = N + 1
      BY <1>1
    <3> QED BY <2>3, <2>4, <2>10, <3>1
  <2>12. q = t
    BY <2>8, <2>10, <2>11, SeqEqual
  <2> QED BY <2>1, <2>9, <2>12
<1> QED BY <1>2, <1>3, <1>4, <1>5

LEMMA SlicesJoin ==
  ASSUME NEW h, NEW c, NEW N, NEW a, NEW b, Cuts(c, N, a, b), N # 0, NEW y \in Nat, b < y
  PROVE  /\ Cuts(Moved(c, N, y), N, a, y)
         /\ \A k \in 0..N - 1 : Moved(c, N, y)[k] = c[k]
         /\ Moved(c, N, y)[N] = y
         /\ Slices(h, Moved(c, N, y), N) = [Slices(h, c, N) EXCEPT ![N] = Part(h, c[N - 1], y)]
<1>1. /\ N \in Nat /\ a \in Nat /\ b \in Nat /\ c[0] = a /\ c[N] = b
      /\ (\A k \in 1..N : c[k - 1] < c[k]) /\ \A k \in 0..N : c[k] \in Nat
  BY DEF Cuts
<1>2. PICK d : d = Moved(c, N, y)
  OBVIOUS
<1>3. /\ d = [k \in 0..N |-> d[k]]
      /\ \A k \in 0..N - 1 : d[k] = c[k]
      /\ d[N] = y
  BY <1>1, <1>2 DEF Moved
<1>4. Cuts(d, N, a, y)
  <2>1. \A k \in 0..N : d[k] \in Nat
    <3>1. \A k \in 0..N : k \in 0..N - 1 \/ k = N
      BY <1>1
    <3> QED BY <1>1, <1>3, <3>1
  <2>2. \A k \in 1..N : d[k - 1] < d[k]
    <3>1. ASSUME NEW k \in 1..N PROVE d[k - 1] < d[k]
      <4>1. k - 1 \in 0..N - 1 /\ k - 1 \in 0..N /\ k \in 0..N /\ (k \in 0..N - 1 \/ k = N)
        BY <1>1
      <4>2. c[k - 1] < c[k] /\ d[k - 1] = c[k - 1] /\ (d[k] = c[k] \/ (k = N /\ d[k] = y))
        BY <1>1, <1>3, <4>1
      <4>3. c[k - 1] \in Nat /\ c[k] \in Nat
        BY <1>1, <4>1
      <4>4. k = N => c[k - 1] < y
        BY <1>1, <4>2, <4>3
      <4> QED BY <4>2, <4>4
    <3> QED BY <3>1
  <2>3. d \in [0..N -> Nat]
    BY <1>3, <2>1
  <2>4. d[0] = a
    <3>1. 0 \in 0..N - 1
      BY <1>1
    <3> QED BY <1>1, <1>3, <3>1
  <2> QED BY <1>1, <1>3, <2>2, <2>3, <2>4 DEF Cuts
<1>5. Slices(h, d, N) = [Slices(h, c, N) EXCEPT ![N] = Part(h, c[N - 1], y)]
  <2>1. PICK s, t, p : s = Slices(h, c, N) /\ t = Slices(h, d, N) /\ p = Part(h, c[N - 1], y)
    OBVIOUS
  <2>2. /\ s = [k \in 1..N |-> Part(h, c[k - 1], c[k])]
        /\ t = [k \in 1..N |-> Part(h, d[k - 1], d[k])]
    BY <2>1 DEF Slices
  <2>3. \A k \in 1..N : k # N => t[k] = s[k]
    <3>1. \A k \in 1..N : k # N => k - 1 \in 0..N - 1 /\ k \in 0..N - 1
      BY <1>1
    <3> QED BY <1>3, <2>2, <3>1
  <2>4. t[N] = p
    <3>1. N \in 1..N /\ N - 1 \in 0..N - 1
      BY <1>1
    <3> QED BY <1>3, <2>1, <2>2, <3>1
  <2>5. t = [k \in 1..N |-> t[k]] /\ s = [k \in 1..N |-> s[k]]
    BY <2>2
  <2>6. t = [s EXCEPT ![N] = p]
    BY <2>3, <2>4, <2>5
  <2> QED BY <2>1, <2>6
<1> QED BY <1>2, <1>3, <1>4, <1>5

LEMMA SlicesAre ==
  ASSUME NEW T, NEW h \in Seq(T), NEW c, NEW N, NEW a, NEW b, Cuts(c, N, a, b), b <= Len(h)
  PROVE  /\ Slices(h, c, N) \in Seq(Seq(T)) /\ Len(Slices(h, c, N)) = N
         /\ \A k \in 1..N : /\ Slices(h, c, N)[k] = Part(h, c[k - 1], c[k])
                            /\ Inside(h, c[k - 1], c[k]) /\ Inside(h, a, c[k - 1]) /\ Inside(h, c[k], b)
                            /\ c[k - 1] < c[k]
<1>1. \A k \in 0..N : a <= c[k] /\ c[k] <= b
  BY CutsOrder
<1>2. /\ N \in Nat /\ a \in Nat /\ b \in Nat /\ Len(h) \in Nat
      /\ (\A k \in 1..N : c[k - 1] < c[k])
      /\ \A k \in 0..N : c[k] \in Nat /\ a <= c[k] /\ c[k] <= b
  BY <1>1 DEF Cuts
<1>3. ASSUME NEW k \in 1..N
      PROVE  Inside(h, c[k - 1], c[k]) /\ Inside(h, a, c[k - 1]) /\ Inside(h, c[k], b) /\ c[k - 1] < c[k]
  <2>1. k - 1 \in 0..N /\ k \in 0..N
    BY <1>2
  <2>2. PICK u \in Nat, v \in Nat : u = c[k - 1] /\ v = c[k] /\ u < v /\ a <= u /\ v <= b
    BY <1>2, <2>1
  <2>3. u <= v /\ v <= Len(h) /\ u <= Len(h)
    BY <1>2, <2>2
  <2> QED BY <1>2, <2>2, <2>3 DEF Inside
<1>4. PICK s : s = Slices(h, c, N)
  OBVIOUS
<1>5. s = [k \in 1..N |-> Part(h, c[k - 1], c[k])]
  BY <1>4 DEF Slices
<1>6. \A k \in 1..N : Part(h, c[k - 1], c[k]) \in Seq(T)
  BY <1>3, PartIs DEF IsPart
<1>7. PICK S : S = Seq(T)
  OBVIOUS
<1>8. s \in [1..N -> S]
  BY <1>5, <1>6, <1>7
<1>9. s \in Seq(S) /\ Len(s) = N
  BY <1>2, <1>8
<1> QED BY <1>3, <1>4, <1>5, <1>7, <1>9

-----------------------------------------------------------------------------
(* The partition of a history that may be replayed                         *)

Singles(l) == [i \in 0..l |-> i]

\* Each part is a message that is no result and the results that follow it.
Groups(h, c, N) ==
  \A k \in 1..N :
    /\ h[c[k - 1] + 1].role # "tool"
    /\ \A i \in c[k - 1] + 2..c[k] : h[i].role = "tool"

\* The first n messages: l system messages, then N groups.
Parted(h, l, N, c, n) ==
  /\ Cuts(c, N, l, n) /\ Groups(h, c, N)
  /\ \A i \in 1..l : h[i].role = "system"
  /\ N # 0 => h[l + 1].role # "system"

SplitAs(split, h, l, N, c, n) ==
  /\ Parted(h, l, N, c, n)
  /\ split \in [prefix : {Slices(h, Singles(l), l)}, body : {Slices(h, c, N)}, open : {After(h, n).calls}]
  /\ N = 0 => split.open = {}

LEMMA SinglesCut ==
  ASSUME NEW l \in Nat
  PROVE  Cuts(Singles(l), l, 0, l)
<1>1. PICK d : d = Singles(l)
  OBVIOUS
<1>2. d = [i \in 0..l |-> i]
  BY <1>1 DEF Singles
<1>3. d \in [0..l -> Nat] /\ d[0] = 0 /\ d[l] = l
  BY <1>2
<1>4. \A k \in 1..l : d[k - 1] < d[k]
  <2>1. \A k \in 1..l : k - 1 \in 0..l /\ k \in 0..l /\ k - 1 < k
    OBVIOUS
  <2> QED BY <1>2, <2>1
<1>5. Cuts(d, l, 0, l)
  BY <1>3, <1>4 DEF Cuts
<1> QED BY <1>1, <1>5

LEMMA SinglesNext ==
  ASSUME NEW l \in Nat
  PROVE  Extended(Singles(l), l, l + 1) = Singles(l + 1)
<1>1. \A k \in 0..l + 1 : k \in 0..l \/ k = l + 1
  OBVIOUS
<1>2. \A k \in 0..l + 1 : (IF k = l + 1 THEN l + 1 ELSE Singles(l)[k]) = k
  BY <1>1 DEF Singles
<1> QED BY <1>2 DEF Extended, Singles

\* A leading system message.
LEMMA PlacePrefix ==
  ASSUME NEW T, NEW h \in Seq(T), NEW n \in Nat, n + 1 <= Len(h),
         NEW split, NEW l, NEW c, SplitAs(split, h, l, 0, c, n), h[n + 1].role = "system"
  PROVE  SplitAs(Place(split, h[n + 1]), h, n + 1, 0, [i \in 0..0 |-> n + 1], n + 1)
<1>1. PICK m, d, y : m = h[n + 1] /\ d = [i \in 0..0 |-> n + 1] /\ y = n + 1
  OBVIOUS
<1>2. Cuts(c, 0, l, n) /\ \A i \in 1..l : h[i].role = "system"
  BY DEF SplitAs, Parted
<1>3. l = n
  BY <1>2 DEF Cuts
<1>4. PICK P, B, O : P = Slices(h, Singles(n), n) /\ B = Slices(h, c, 0) /\ O = After(h, n).calls
                     /\ split \in [prefix : {P}, body : {B}, open : {O}] /\ split.open = {}
  BY <1>3 DEF SplitAs
<1>5. B = <<>> /\ B = Slices(h, d, 0)
  BY <1>4 DEF Slices
<1>6. PICK Q, R : Q = Append(P, <<m>>) /\ R = Place(split, m)
  OBVIOUS
<1>7. R = [split EXCEPT !.prefix = Q]
  BY <1>1, <1>4, <1>5, <1>6 DEF Place
<1>8. R \in [prefix : {Q}, body : {B}, open : {O}] /\ R.open = {}
  BY <1>4, <1>7
<1>9. Q = Slices(h, Singles(y), y)
  <2>1. Cuts(Singles(n), n, 0, n) /\ y \in Nat /\ n < y
    BY <1>1, SinglesCut
  <2>2. Slices(h, Extended(Singles(n), n, y), n + 1) = Append(Slices(h, Singles(n), n), Part(h, n, y))
    BY <2>1, SlicesAppend
  <2>3. Part(h, n, y) = <<m>>
    BY <1>1, PartOne
  <2>4. Extended(Singles(n), n, y) = Singles(y)
    BY <1>1, SinglesNext
  <2> QED BY <1>1, <1>4, <1>6, <2>2, <2>3, <2>4
<1>10. After(h, y).calls = O
  <2>1. After(h, y) = Follow(After(h, n), m)
    BY <1>1, AfterNext
  <2>2. PICK acc : acc = After(h, n)
    OBVIOUS
  <2>3. m.role # "tool" /\ Asks(m) = {}
    BY <1>1 DEF Asks
  <2>4. Follow(acc, m).calls = {}
    BY <2>3, FollowOther
  <2> QED BY <1>4, <2>1, <2>2, <2>4
<1>11. Parted(h, y, 0, d, y)
  <2>1. d \in [0..0 -> Nat] /\ d[0] = y /\ y \in Nat
    BY <1>1
  <2>2. Cuts(d, 0, y, y)
    BY <2>1 DEF Cuts
  <2>3. \A i \in 1..y : h[i].role = "system"
    <3>1. \A i \in 1..y : i \in 1..n \/ i = n + 1
      BY <1>1
    <3> QED BY <1>2, <1>3, <3>1
  <2> QED BY <2>2, <2>3 DEF Parted, Groups
<1>12. SplitAs(R, h, y, 0, d, y)
  BY <1>5, <1>8, <1>9, <1>10, <1>11 DEF SplitAs
<1> QED BY <1>1, <1>6, <1>12

\* A result joins the last group.
LEMMA PlaceResult ==
  ASSUME NEW T, NEW h \in Seq(T), NEW n \in Nat, n + 1 <= Len(h), After(h, n + 1).safe,
         NEW split, NEW l, NEW N, NEW c, SplitAs(split, h, l, N, c, n), h[n + 1].role = "tool"
  PROVE  N # 0 /\ SplitAs(Place(split, h[n + 1]), h, l, N, Moved(c, N, n + 1), n + 1)
<1>1. PICK m, d, y : m = h[n + 1] /\ d = Moved(c, N, n + 1) /\ y = n + 1
  OBVIOUS
<1>2. Cuts(c, N, l, n) /\ Groups(h, c, N) /\ (\A i \in 1..l : h[i].role = "system")
      /\ (N # 0 => h[l + 1].role # "system")
  BY DEF SplitAs, Parted
<1>3. N \in Nat /\ l \in Nat /\ c[N] = n
  BY <1>2 DEF Cuts
<1>4. PICK P, B, O : P = Slices(h, Singles(l), l) /\ B = Slices(h, c, N) /\ O = After(h, n).calls
                     /\ split \in [prefix : {P}, body : {B}, open : {O}] /\ (N = 0 => split.open = {})
  BY DEF SplitAs
<1>5. m.id \in O /\ After(h, y).calls = O
  <2>1. PICK acc : acc = After(h, n) /\ After(h, y) = Follow(acc, m) /\ Follow(acc, m).safe
    BY <1>1, AfterNext
  <2>2. m.id \in acc.calls \ acc.seen /\ Follow(acc, m).calls = acc.calls
    BY <1>1, <2>1, FollowResult
  <2> QED BY <1>4, <2>1, <2>2
<1>6. N # 0
  BY <1>4, <1>5
<1>7. /\ Cuts(d, N, l, y)
      /\ \A k \in 0..N - 1 : d[k] = c[k]
      /\ d[N] = y
      /\ Slices(h, d, N) = [B EXCEPT ![N] = Part(h, c[N - 1], y)]
  <2>1. y \in Nat /\ n < y
    BY <1>1
  <2> QED BY <1>1, <1>2, <1>4, <1>6, <2>1, SlicesJoin
<1>8. Len(B) = N /\ B[N] = Part(h, c[N - 1], n) /\ Inside(h, c[N - 1], n) /\ c[N - 1] < n
  <2>1. n <= Len(h) /\ N \in 1..N
    BY <1>3, <1>6
  <2> QED BY <1>2, <1>3, <1>4, <2>1, SlicesAre
<1>9. PICK Q, R : Q = Slices(h, d, N) /\ R = Place(split, m)
  OBVIOUS
<1>10. Q = [B EXCEPT ![Len(B)] = Append(B[Len(B)], m)]
  <2>1. Append(Part(h, c[N - 1], n), m) = Part(h, c[N - 1], y)
    BY <1>1, <1>8, PartNext
  <2> QED BY <1>7, <1>8, <1>9, <2>1
<1>11. R = [split EXCEPT !.body = [split.body EXCEPT ![Len(split.body)] = Append(split.body[Len(split.body)], m)]]
  BY <1>1, <1>4, <1>5, <1>9 DEF Place
<1>12. R = [split EXCEPT !.body = Q]
  BY <1>4, <1>10, <1>11
<1>13. R \in [prefix : {P}, body : {Q}, open : {O}]
  BY <1>4, <1>12
<1>14. Parted(h, l, N, d, y)
  <2>1. ASSUME NEW k \in 1..N
        PROVE  /\ h[d[k - 1] + 1].role # "tool"
               /\ \A i \in d[k - 1] + 2..d[k] : h[i].role = "tool"
    <3>1. k - 1 \in 0..N - 1 /\ d[k - 1] = c[k - 1] /\ h[c[k - 1] + 1].role # "tool"
          /\ \A i \in c[k - 1] + 2..c[k] : h[i].role = "tool"
      BY <1>2, <1>3, <1>7 DEF Groups
    <3>2. CASE k # N
      <4>1. k \in 0..N - 1 /\ d[k] = c[k]
        BY <1>3, <1>7, <3>2
      <4> QED BY <3>1, <4>1
    <3>3. CASE k = N
      <4>1. PICK u : u = c[k - 1] /\ u \in Nat
        BY <1>8, <3>3 DEF Inside
      <4>2. \A i \in u + 2..y : i \in u + 2..n \/ i = y
        BY <1>1, <4>1
      <4> QED BY <1>1, <1>3, <1>7, <3>1, <3>3, <4>1, <4>2
    <3> QED BY <3>2, <3>3
  <2> QED BY <1>2, <1>7, <2>1 DEF Parted, Groups
<1>15. SplitAs(R, h, l, N, d, y)
  BY <1>4, <1>5, <1>6, <1>9, <1>13, <1>14 DEF SplitAs
<1> QED BY <1>1, <1>6, <1>9, <1>15

\* Anything else begins a group.
LEMMA PlaceGroup ==
  ASSUME NEW T, NEW h \in Seq(T), NEW n \in Nat, n + 1 <= Len(h),
         NEW split, NEW l, NEW N, NEW c, SplitAs(split, h, l, N, c, n),
         h[n + 1].role # "tool", h[n + 1].role = "system" => N # 0
  PROVE  SplitAs(Place(split, h[n + 1]), h, l, N + 1, Extended(c, N, n + 1), n + 1)
<1>1. PICK m, d, y, M : m = h[n + 1] /\ d = Extended(c, N, n + 1) /\ y = n + 1 /\ M = N + 1
  OBVIOUS
<1>2. Cuts(c, N, l, n) /\ Groups(h, c, N) /\ (\A i \in 1..l : h[i].role = "system")
      /\ (N # 0 => h[l + 1].role # "system")
  BY DEF SplitAs, Parted
<1>3. N \in Nat /\ l \in Nat /\ c[N] = n /\ c[0] = l
  BY <1>2 DEF Cuts
<1>4. PICK P, B, O : P = Slices(h, Singles(l), l) /\ B = Slices(h, c, N) /\ O = After(h, n).calls
                     /\ split \in [prefix : {P}, body : {B}, open : {O}]
  BY DEF SplitAs
<1>5. /\ Cuts(d, M, l, y)
      /\ \A k \in 0..N : d[k] = c[k]
      /\ d[M] = y
      /\ Slices(h, d, M) = Append(B, Part(h, n, y))
  <2>1. y \in Nat /\ n < y
    BY <1>1
  <2> QED BY <1>1, <1>2, <1>4, <2>1, SlicesAppend
<1>6. Len(B) = N
  <2>1. n <= Len(h)
    OBVIOUS
  <2> QED BY <1>2, <1>4, <2>1, SlicesAre
<1>7. PICK Q, R : Q = Slices(h, d, M) /\ R = Place(split, m)
  OBVIOUS
<1>8. Q = Append(B, <<m>>)
  BY <1>1, <1>5, <1>7, PartOne
<1>9. R = [split EXCEPT !.body = Append(@, <<m>>), !.open = Asks(m)]
  <2>1. ~(m.role = "system" /\ split.body = <<>>)
    <3>1. split.body = <<>> => N = 0
      BY <1>4, <1>6
    <3> QED BY <1>1, <3>1
  <2> QED BY <1>1, <1>7, <2>1 DEF Place
<1>10. R = [split EXCEPT !.body = Q, !.open = Asks(m)]
  BY <1>4, <1>8, <1>9
<1>11. R \in [prefix : {P}, body : {Q}, open : {Asks(m)}]
  BY <1>4, <1>10
<1>12. After(h, y).calls = Asks(m)
  <2>1. PICK acc : acc = After(h, n) /\ After(h, y) = Follow(acc, m)
    BY <1>1, AfterNext
  <2>2. Follow(acc, m).calls = Asks(m)
    BY <1>1, FollowOther
  <2> QED BY <2>1, <2>2
<1>13. Parted(h, l, M, d, y)
  <2>1. ASSUME NEW k \in 1..M
        PROVE  /\ h[d[k - 1] + 1].role # "tool"
               /\ \A i \in d[k - 1] + 2..d[k] : h[i].role = "tool"
    <3>1. CASE k \in 1..N
      <4>1. k - 1 \in 0..N /\ k \in 0..N
        BY <1>3, <3>1
      <4>2. d[k - 1] = c[k - 1] /\ d[k] = c[k]
        BY <1>5, <4>1
      <4> QED BY <1>2, <3>1, <4>2 DEF Groups
    <3>2. CASE k = M
      <4>1. k - 1 = N /\ N \in 0..N
        BY <1>1, <1>3, <3>2
      <4>2. d[k - 1] = n /\ d[k] = y
        BY <1>3, <1>5, <3>2, <4>1
      <4>3. n + 2..y = {}
        BY <1>1
      <4> QED BY <1>1, <4>2, <4>3
    <3> QED BY <1>1, <1>3, <3>1, <3>2
  <2>2. h[l + 1].role # "system"
    <3>1. CASE N = 0
      BY <1>1, <1>3, <3>1
    <3>2. CASE N # 0
      BY <1>2, <3>2
    <3> QED BY <3>1, <3>2
  <2> QED BY <1>2, <1>5, <2>1, <2>2 DEF Parted, Groups
<1>14. M # 0
  BY <1>1, <1>3
<1>15. SplitAs(R, h, l, M, d, y)
  BY <1>4, <1>7, <1>11, <1>12, <1>13, <1>14 DEF SplitAs
<1> QED BY <1>1, <1>7, <1>15

\* So is the whole: the split has the leading system messages and the groups.
LEMMA SplitIsParted ==
  ASSUME NEW T, NEW h \in Seq(T), IsReplaySafe(h)
  PROVE  \E l, N, c : SplitAs(Segmentize(h), h, l, N, c, Len(h))
<1>1. PICK z : Places(z, h) /\ Segmentize(h) = z[Len(h)]
  BY SegmentizePlaces
<1>2. z[0] = Unsplit /\ \A n \in Nat : n + 1 <= Len(h) => z[n + 1] = Place(z[n], h[n + 1])
  BY <1>1 DEF Places
<1> DEFINE Is(n) == \E l, N, c : SplitAs(z[n], h, l, N, c, n)
           M == {n \in Nat : n <= Len(h) => Is(n)}
<1>3. 0 \in M
  <2>1. PICK c : c = [i \in 0..0 |-> 0]
    OBVIOUS
  <2>2. Cuts(c, 0, 0, 0)
    BY <2>1 DEF Cuts
  <2>3. Parted(h, 0, 0, c, 0)
    BY <2>2 DEF Parted, Groups
  <2>4. Slices(h, Singles(0), 0) = <<>> /\ Slices(h, c, 0) = <<>>
    BY DEF Slices
  <2>5. After(h, 0).calls = {}
    BY AfterNext DEF Fresh
  <2>6. Unsplit \in [prefix : {<<>>}, body : {<<>>}, open : {{}}] /\ Unsplit.open = {}
    BY DEF Unsplit
  <2>7. SplitAs(Unsplit, h, 0, 0, c, 0)
    BY <2>3, <2>4, <2>5, <2>6 DEF SplitAs
  <2>8. Is(0)
    BY <1>2, <2>7
  <2> HIDE DEF Is
  <2> QED BY <2>8
<1>4. ASSUME NEW n \in M PROVE n + 1 \in M
  <2>1. ASSUME n + 1 <= Len(h) PROVE Is(n + 1)
    <3>1. n \in Nat /\ n <= Len(h) /\ n + 1 \in 0..Len(h)
      BY <2>1
    <3>2. PICK l, N, c : SplitAs(z[n], h, l, N, c, n)
      <4> HIDE DEF SplitAs
      <4> QED BY <3>1
    <3>3. PICK s, m : s = z[n] /\ m = h[n + 1] /\ z[n + 1] = Place(s, m) /\ SplitAs(s, h, l, N, c, n)
      BY <1>2, <2>1, <3>1, <3>2
    <3>4. After(h, n + 1).safe
      BY <3>1, AfterSafe, SafeIsScanned
    <3>5. \E l2, N2, c2 : SplitAs(Place(s, m), h, l2, N2, c2, n + 1)
      <4>1. CASE m.role = "tool"
        BY <2>1, <3>1, <3>3, <3>4, <4>1, PlaceResult
      <4>2. CASE m.role = "system" /\ N = 0
        BY <2>1, <3>1, <3>3, <4>2, PlacePrefix
      <4>3. CASE m.role # "tool" /\ ~(m.role = "system" /\ N = 0)
        BY <2>1, <3>1, <3>3, <4>3, PlaceGroup
      <4> QED BY <4>1, <4>2, <4>3
    <3> QED BY <3>3, <3>5
  <2> HIDE DEF Is
  <2> QED BY <2>1
<1> HIDE DEF Is, M
<1>5. M \in SUBSET Nat
  BY DEF M
<1>6. M = Nat
  BY <1>3, <1>4, <1>5, SetInduction
<1>7. Is(Len(h))
  <2>1. Len(h) \in Nat /\ Len(h) <= Len(h)
    OBVIOUS
  <2> QED BY <1>6, <2>1 DEF M
<1> QED BY <1>1, <1>7 DEF Is

-----------------------------------------------------------------------------
(* Concatenations                                                          *)

\* The sequences put together so far.
Strings(w, seqs) ==
  /\ w[0] = <<>>
  /\ \A k \in Nat : k + 1 <= Len(seqs) => w[k + 1] = w[k] \o seqs[k + 1]

LEMMA FlattenStrings ==
  ASSUME NEW T, NEW seqs \in Seq(Seq(T))
  PROVE  \E w : /\ Strings(w, seqs) /\ FlattenSeq(seqs) = w[Len(seqs)]
                /\ \A k \in 0..Len(seqs) : w[k] \in Seq(T)
<1>1. PICK m \in Nat : m = Len(seqs)
  OBVIOUS
<1>2. \A k \in 1..m : seqs[k] \in Seq(T)
  BY <1>1, ElementOfSeq
<1>3. CASE m = 0
  <2>1. PICK w : w = [k \in 0..0 |-> <<>>]
    OBVIOUS
  <2>2. seqs = <<>> /\ FlattenSeq(seqs) = <<>>
    <3>1. seqs = <<>>
      <4>1. PICK S : S = Seq(T)
        OBVIOUS
      <4>2. seqs \in Seq(S) /\ Len(seqs) = 0
        BY <1>1, <1>3, <4>1
      <4> QED BY <4>2, EmptySeq
    <3> QED BY <3>1 DEF FlattenSeq
  <2>3. w[0] = <<>> /\ <<>> \in Seq(T) /\ \A k \in 0..Len(seqs) : k = 0
    BY <1>1, <1>3, <2>1
  <2>4. Strings(w, seqs)
    <3>1. Len(seqs) = 0 /\ \A k \in Nat : ~(k + 1 <= 0)
      BY <1>1, <1>3
    <3> QED BY <2>3, <3>1 DEF Strings
  <2> QED BY <1>1, <1>3, <2>2, <2>3, <2>4
<1>4. CASE m # 0
  <2>1. PICK f : Flattens(f, seqs, m) /\ FlattenSeq(seqs) = f[m]
    BY <1>1, <1>4, FlattenIsLast
  <2>2. \A i \in 1..m : f[i] = IF i = 1 THEN seqs[i] ELSE f[i - 1] \o seqs[i]
    BY <2>1 DEF Flattens
  <2>3. PICK w : w = [k \in 0..m |-> IF k = 0 THEN <<>> ELSE f[k]]
    OBVIOUS
  <2>4. w[0] = <<>> /\ \A k \in 1..m : w[k] = f[k]
    BY <2>3
  <2>5. ASSUME NEW k \in Nat, k + 1 <= m PROVE w[k + 1] = w[k] \o seqs[k + 1]
    <3>1. k + 1 \in 1..m /\ (k + 1) - 1 = k
      BY <2>5
    <3>2. CASE k = 0
      <4>1. k + 1 = 1
        BY <3>2
      <4>2. w[1] = seqs[1] /\ 1 \in 1..m
        BY <2>2, <2>4, <3>1, <4>1
      <4>3. PICK s \in Seq(T) : s = seqs[1]
        BY <1>2, <4>2
      <4>4. <<>> \o s = s
        OBVIOUS
      <4> QED BY <2>4, <3>2, <4>1, <4>2, <4>3, <4>4
    <3>3. CASE k # 0
      <4>1. k \in 1..m /\ k + 1 # 1
        BY <2>5, <3>3
      <4> QED BY <2>2, <2>4, <3>1, <4>1
    <3> QED BY <3>2, <3>3
  <2>6. \A k \in 0..m : w[k] \in Seq(T)
    <3> DEFINE M == {k \in Nat : k <= m => w[k] \in Seq(T)}
    <3>1. 0 \in M
      <4>1. w[0] \in Seq(T)
        <5>1. <<>> \in Seq(T)
          OBVIOUS
        <5> QED BY <2>4, <5>1
      <4> QED BY <4>1
    <3>2. ASSUME NEW k \in M PROVE k + 1 \in M
      <4>1. ASSUME k + 1 <= m PROVE w[k + 1] \in Seq(T)
        <5>1. k \in Nat /\ k <= m /\ k + 1 \in 1..m
          BY <4>1
        <5>2. PICK a \in Seq(T), b \in Seq(T) : a = w[k] /\ b = seqs[k + 1]
          BY <1>2, <5>1
        <5>3. w[k + 1] = a \o b
          BY <2>5, <4>1, <5>1, <5>2
        <5> QED BY <5>3
      <4> QED BY <4>1
    <3> HIDE DEF M
    <3>3. M \in SUBSET Nat
      BY DEF M
    <3>4. M = Nat
      BY <3>1, <3>2, <3>3, SetInduction
    <3> QED BY <3>4 DEF M
  <2>7. Strings(w, seqs)
    BY <1>1, <2>4, <2>5 DEF Strings
  <2>8. m \in 1..m
    BY <1>4
  <2> QED BY <1>1, <2>1, <2>4, <2>6, <2>7, <2>8
<1> QED BY <1>3, <1>4

LEMMA FlattenConcat ==
  ASSUME NEW T, NEW a \in Seq(Seq(T)), NEW b \in Seq(Seq(T))
  PROVE  FlattenSeq(a \o b) = FlattenSeq(a) \o FlattenSeq(b)
<1>1. PICK ab : ab = a \o b
  OBVIOUS
<1>2. PICK k \in Nat, l \in Nat : k = Len(a) /\ l = Len(b)
  OBVIOUS
<1>3. /\ ab \in Seq(Seq(T)) /\ Len(ab) = k + l
      /\ \A n \in 1..k : ab[n] = a[n]
      /\ \A n \in 1..l : ab[k + n] = b[n]
  BY <1>1, <1>2
<1>4. PICK u : Strings(u, a) /\ FlattenSeq(a) = u[k] /\ \A n \in 0..k : u[n] \in Seq(T)
  BY <1>2, FlattenStrings
<1>5. PICK v : Strings(v, b) /\ FlattenSeq(b) = v[l] /\ \A n \in 0..l : v[n] \in Seq(T)
  BY <1>2, FlattenStrings
<1>6. PICK w : Strings(w, ab) /\ FlattenSeq(ab) = w[k + l]
  <2>1. ab \in Seq(Seq(T))
    BY <1>3
  <2>2. PICK w : Strings(w, ab) /\ FlattenSeq(ab) = w[Len(ab)]
    BY <2>1, FlattenStrings
  <2> QED BY <1>3, <2>2
<1>7. \A n \in 0..k : w[n] = u[n]
  <2> DEFINE M == {n \in Nat : n <= k => w[n] = u[n]}
  <2>1. 0 \in M
    BY <1>4, <1>6 DEF Strings
  <2>2. ASSUME NEW n \in M PROVE n + 1 \in M
    <3>1. ASSUME n + 1 <= k PROVE w[n + 1] = u[n + 1]
      <4>1. n \in Nat /\ w[n] = u[n] /\ n + 1 \in 1..k /\ n + 1 <= k + l
        BY <3>1
      <4>2. w[n + 1] = w[n] \o ab[n + 1] /\ u[n + 1] = u[n] \o a[n + 1]
        BY <1>2, <1>3, <1>4, <1>6, <3>1, <4>1 DEF Strings
      <4>3. ab[n + 1] = a[n + 1]
        BY <1>3, <4>1
      <4> QED BY <4>1, <4>2, <4>3
    <3> QED BY <3>1
  <2> HIDE DEF M
  <2>3. M \in SUBSET Nat
    BY DEF M
  <2>4. M = Nat
    BY <2>1, <2>2, <2>3, SetInduction
  <2>5. ASSUME NEW n \in 0..k PROVE w[n] = u[n]
    <3>1. n \in Nat /\ n <= k
      BY <1>2
    <3>2. n \in M
      BY <2>4, <3>1
    <3> QED BY <3>1, <3>2 DEF M
  <2> QED BY <2>5
<1>8. \A n \in 0..l : w[k + n] = u[k] \o v[n]
  <2> DEFINE Is(n) == w[k + n] = u[k] \o v[n]
             M == {n \in Nat : n <= l => Is(n)}
  <2>1. 0 \in M
    <3>1. k \in 0..k /\ k + 0 = k /\ v[0] = <<>>
      BY <1>5 DEF Strings
    <3>2. PICK s \in Seq(T) : s = u[k]
      BY <1>4, <3>1
    <3>3. s \o <<>> = s
      OBVIOUS
    <3>4. w[k + 0] = u[k] \o v[0]
      BY <1>7, <3>1, <3>2, <3>3
    <3> QED BY <3>4
  <2>2. ASSUME NEW n \in M PROVE n + 1 \in M
    <3>1. ASSUME n + 1 <= l PROVE Is(n + 1)
      <4>1. n \in Nat /\ n <= l /\ n \in 0..l /\ n + 1 \in 1..l /\ k + n \in Nat /\ (k + n) + 1 <= k + l
            /\ (k + n) + 1 = k + (n + 1)
        BY <3>1
      <4>2. w[k + n] = u[k] \o v[n]
        BY <4>1
      <4>3. w[(k + n) + 1] = w[k + n] \o ab[(k + n) + 1]
        BY <1>3, <1>6, <4>1 DEF Strings
      <4>4. v[n + 1] = v[n] \o b[n + 1]
        BY <1>2, <1>5, <3>1, <4>1 DEF Strings
      <4>5. PICK x \in Seq(T), y \in Seq(T), p \in Seq(T) : x = u[k] /\ y = v[n] /\ p = b[n + 1]
        <5>1. k \in 0..k /\ b[n + 1] \in Seq(T)
          BY <1>2, <4>1, ElementOfSeq
        <5> QED BY <1>4, <1>5, <4>1, <5>1
      <4>6. (x \o y) \o p = x \o (y \o p)
        OBVIOUS
      <4>7. w[k + (n + 1)] = (x \o y) \o p
        <5>1. ab[k + (n + 1)] = p
          BY <1>3, <4>1, <4>5
        <5> QED BY <4>1, <4>2, <4>3, <4>5, <5>1
      <4>8. v[n + 1] = y \o p
        BY <4>4, <4>5
      <4>9. w[k + (n + 1)] = x \o v[n + 1]
        BY <4>6, <4>7, <4>8
      <4> QED BY <4>5, <4>9
    <3> HIDE DEF Is
    <3> QED BY <3>1
  <2> HIDE DEF M
  <2>3. M \in SUBSET Nat
    BY DEF M
  <2>4. M = Nat
    BY <2>1, <2>2, <2>3, SetInduction
  <2>5. ASSUME NEW n \in 0..l PROVE w[k + n] = u[k] \o v[n]
    <3>1. n \in M /\ n <= l
      BY <2>4
    <3> QED BY <3>1 DEF M
  <2> QED BY <2>5
<1>9. l \in 0..l
  OBVIOUS
<1> QED BY <1>1, <1>4, <1>5, <1>6, <1>8, <1>9

LEMMA FlattenOne ==
  ASSUME NEW x
  PROVE  FlattenSeq(<<x>>) = x
<1>1. PICK seqs : seqs = <<x>>
  OBVIOUS
<1>2. Len(seqs) = 1 /\ seqs[1] = x
  BY <1>1
<1>3. PICK f : Flattens(f, seqs, Len(seqs)) /\ FlattenSeq(seqs) = f[Len(seqs)]
  <2>1. Len(seqs) \in Nat \ {0}
    BY <1>2
  <2> QED BY <2>1, FlattenIsLast
<1>4. f[1] = seqs[1]
  BY <1>2, <1>3 DEF Flattens
<1> QED BY <1>1, <1>2, <1>3, <1>4

-----------------------------------------------------------------------------
(* The window of a history that may be replayed                            *)

\* The cuts from the i-th on.
Later(c, i, N) == [x \in 0..N - i |-> c[i + x]]

LEMMA LaterCuts ==
  ASSUME NEW c, NEW N, NEW a, NEW b, Cuts(c, N, a, b), NEW i \in 0..N
  PROVE  Cuts(Later(c, i, N), N - i, c[i], b)
<1>1. /\ N \in Nat /\ b \in Nat /\ c[N] = b /\ i \in Nat
      /\ (\A k \in 1..N : c[k - 1] < c[k]) /\ \A k \in 0..N : c[k] \in Nat
  BY DEF Cuts
<1>2. PICK d, M : d = Later(c, i, N) /\ M = N - i
  OBVIOUS
<1>3. M \in Nat /\ d = [x \in 0..M |-> c[i + x]] /\ \A x \in 0..M : i + x \in 0..N
  BY <1>1, <1>2 DEF Later
<1>4. d \in [0..M -> Nat]
  BY <1>1, <1>3
<1>5. d[0] = c[i] /\ d[M] = b
  <2>1. 0 \in 0..M /\ M \in 0..M /\ i + 0 = i /\ i + M = N
    BY <1>1, <1>2, <1>3
  <2> QED BY <1>1, <1>3, <2>1
<1>6. ASSUME NEW x \in 1..M PROVE d[x - 1] < d[x]
  <2>1. x - 1 \in 0..M /\ x \in 0..M /\ i + x \in 1..N /\ i + (x - 1) = (i + x) - 1
    BY <1>1, <1>2, <1>3
  <2>2. d[x - 1] = c[(i + x) - 1] /\ d[x] = c[i + x]
    BY <1>3, <2>1
  <2> QED BY <1>1, <2>1, <2>2
<1>7. Cuts(d, M, c[i], b)
  BY <1>1, <1>3, <1>4, <1>5, <1>6 DEF Cuts
<1> QED BY <1>2, <1>7

LEMMA LaterSlices ==
  ASSUME NEW T, NEW h \in Seq(T), NEW c, NEW N, NEW a, NEW b, Cuts(c, N, a, b), b <= Len(h), NEW i \in 1..N
  PROVE  Slices(h, Later(c, i - 1, N), N - (i - 1)) = <<Part(h, c[i - 1], c[i])>> \o Slices(h, Later(c, i, N), N - i)
<1>1. N \in Nat /\ i \in Nat /\ i - 1 \in 0..N /\ i \in 0..N
  BY DEF Cuts
<1>2. PICK s, t, p, S, M :
        /\ s = Slices(h, Later(c, i, N), N - i) /\ t = Slices(h, Later(c, i - 1, N), N - (i - 1))
        /\ p = Part(h, c[i - 1], c[i]) /\ S = Seq(T) /\ M = N - i
  OBVIOUS
<1>3. M \in Nat
  BY <1>1, <1>2
<1>4. /\ s \in Seq(S) /\ Len(s) = M
      /\ \A k \in 1..M : s[k] = Part(h, c[i + (k - 1)], c[i + k])
  <2>1. PICK d : d = Later(c, i, N)
    OBVIOUS
  <2>2. Cuts(d, M, c[i], b)
    BY <1>1, <1>2, <2>1, LaterCuts
  <2>3. s \in Seq(Seq(T)) /\ Len(s) = M /\ \A k \in 1..M : s[k] = Part(h, d[k - 1], d[k])
    <3>1. s = Slices(h, d, M)
      BY <1>2, <2>1
    <3> QED BY <2>2, <3>1, SlicesAre
  <2>4. \A k \in 1..M : k - 1 \in 0..M /\ k \in 0..M
    BY <1>3
  <2>5. d = [x \in 0..M |-> c[i + x]]
    BY <1>2, <2>1 DEF Later
  <2> QED BY <1>2, <2>3, <2>4, <2>5
<1>5. /\ t \in Seq(S) /\ Len(t) = M + 1
      /\ \A k \in 1..M + 1 : t[k] = Part(h, c[(i - 1) + (k - 1)], c[(i - 1) + k])
  <2>1. PICK d, L : d = Later(c, i - 1, N) /\ L = M + 1
    OBVIOUS
  <2>2. L = N - (i - 1) /\ L \in Nat
    BY <1>1, <1>2, <1>3, <2>1
  <2>3. Cuts(d, L, c[i - 1], b)
    BY <1>1, <2>1, <2>2, LaterCuts
  <2>4. t \in Seq(Seq(T)) /\ Len(t) = L /\ \A k \in 1..L : t[k] = Part(h, d[k - 1], d[k])
    <3>1. t = Slices(h, d, L)
      BY <1>2, <2>1, <2>2
    <3> QED BY <2>3, <3>1, SlicesAre
  <2>5. \A k \in 1..L : k - 1 \in 0..L /\ k \in 0..L
    BY <2>2
  <2>6. d = [x \in 0..L |-> c[(i - 1) + x]]
    BY <2>1, <2>2 DEF Later
  <2>7. \A k \in 1..L : t[k] = Part(h, c[(i - 1) + (k - 1)], c[(i - 1) + k])
    BY <2>4, <2>5, <2>6
  <2> QED BY <1>2, <2>1, <2>4, <2>7
<1>6. p \in S
  <2>1. Inside(h, c[i - 1], c[i])
    BY SlicesAre
  <2> QED BY <1>2, <2>1, PartIs DEF IsPart
<1>7. PICK q : q = <<p>> \o s
  OBVIOUS
<1>8. q \in Seq(S) /\ Len(q) = M + 1 /\ q[1] = p /\ \A k \in 1..M : q[k + 1] = s[k]
  BY <1>4, <1>6, <1>7, <1>3
<1>9. \A k \in 1..M + 1 : q[k] = t[k]
  <2>1. ASSUME NEW k \in 1..M + 1 PROVE q[k] = t[k]
    <3>1. CASE k = 1
      <4>1. (i - 1) + (k - 1) = i - 1 /\ (i - 1) + k = i
        BY <1>1, <3>1
      <4> QED BY <1>2, <1>5, <1>8, <3>1, <4>1
    <3>2. CASE k # 1
      <4>1. PICK j \in 1..M : k = j + 1
        BY <1>3, <3>2
      <4>2. (i - 1) + (k - 1) = i + (j - 1) /\ (i - 1) + k = i + j
        BY <1>1, <1>3, <4>1
      <4> QED BY <1>4, <1>5, <1>8, <4>1, <4>2
    <3> QED BY <3>1, <3>2
  <2> QED BY <2>1
<1>10. q = t
  BY <1>5, <1>8, <1>9, SeqEqual
<1> QED BY <1>2, <1>7, <1>10

\* The walk has come to group k and has kept the groups from the i-th cut on.
Walked(acc, h, c, N, room, k, i) ==
  /\ i \in k - 1..N
  /\ acc \in [groups : {Slices(h, Later(c, i, N), N - i)}, used : {Size(Part(h, c[i], Len(h)))},
              stopped : {TRUE, FALSE}, room : {room}]
  /\ ~acc.stopped => i = k - 1
  /\ acc.stopped => k <= i /\ Size(Part(h, c[i - 1], Len(h))) > room
  /\ i < N => Size(Part(h, c[i], Len(h))) <= room

LEMMA WalkBegins ==
  ASSUME NEW T, NEW h \in Seq(T), NEW c, NEW N, NEW l, Cuts(c, N, l, Len(h)), NEW room
  PROVE  Walked(AllRoom(room), h, c, N, room, N + 1, N)
<1>1. N \in Nat /\ c[N] = Len(h) /\ N - N = 0 /\ N \in (N + 1) - 1..N /\ ~(N < N) /\ N = (N + 1) - 1
  BY DEF Cuts
<1>2. Slices(h, Later(c, N, N), 0) = <<>>
  BY DEF Slices
<1>3. Size(Part(h, c[N], Len(h))) = 0
  BY <1>1, PartEmpty, SizeEmpty
<1>4. AllRoom(room) \in [groups : {<<>>}, used : {0}, stopped : {TRUE, FALSE}, room : {room}]
      /\ ~AllRoom(room).stopped
  BY DEF AllRoom
<1> QED BY <1>1, <1>2, <1>3, <1>4 DEF Walked

LEMMA WalkStep ==
  ASSUME NEW T, Sized(T), NEW h \in Seq(T), NEW c, NEW N, NEW l, Cuts(c, N, l, Len(h)), NEW room \in Int,
         NEW k \in 1..N, NEW i, NEW acc, Walked(acc, h, c, N, room, k + 1, i)
  PROVE  \E j : Walked(Keep(Slices(h, c, N)[k], acc), h, c, N, room, k, j)
<1>1. N \in Nat /\ k - 1 \in 0..N /\ k \in 0..N /\ (k + 1) - 1 = k /\ c[N] = Len(h) /\ Len(h) \in Nat
  BY DEF Cuts
<1>2. PICK group, n, u, v : /\ group = Slices(h, c, N)[k] /\ n = Size(group)
                            /\ u = Size(Part(h, c[k], Len(h))) /\ v = Size(Part(h, c[k - 1], Len(h)))
  OBVIOUS
<1>3. group = Part(h, c[k - 1], c[k]) /\ Inside(h, c[k - 1], c[k]) /\ Inside(h, c[k], Len(h))
  <2>1. Len(h) <= Len(h)
    BY <1>1
  <2> QED BY <1>2, <2>1, SlicesAre
<1>4. n \in Nat /\ u \in Nat /\ v = n + u
  BY <1>2, <1>3, PartSize
<1>5. PICK G, U : G = Slices(h, Later(c, i, N), N - i) /\ U = Size(Part(h, c[i], Len(h)))
  OBVIOUS
<1>6. /\ i \in k..N
      /\ acc \in [groups : {G}, used : {U}, stopped : {TRUE, FALSE}, room : {room}]
      /\ ~acc.stopped => i = k
      /\ acc.stopped => k + 1 <= i /\ Size(Part(h, c[i - 1], Len(h))) > room
      /\ i < N => U <= room
  BY <1>1, <1>5 DEF Walked
<1>7. PICK R : R = Keep(group, acc)
  OBVIOUS
<1>8. CASE ~acc.stopped /\ acc.used + n <= acc.room
  <2>1. i = k /\ U = u /\ acc.used = u /\ acc.room = room /\ acc.groups = G
    BY <1>2, <1>5, <1>6, <1>8
  <2>2. v <= room /\ u + n = v
    BY <1>4, <1>8, <2>1
  <2>3. PICK Q : Q = Slices(h, Later(c, k - 1, N), N - (k - 1))
    OBVIOUS
  <2>4. Q = <<group>> \o G
    <3>1. Len(h) <= Len(h)
      BY <1>1
    <3> QED BY <1>3, <1>5, <2>1, <2>3, <3>1, LaterSlices
  <2>5. R = [acc EXCEPT !.groups = Q, !.used = v]
    BY <1>2, <1>7, <1>8, <2>1, <2>2, <2>4 DEF Keep
  <2>6. R \in [groups : {Q}, used : {v}, stopped : {TRUE, FALSE}, room : {room}] /\ ~R.stopped
    BY <1>6, <1>8, <2>5
  <2>7. Walked(R, h, c, N, room, k, k - 1)
    <3>1. k - 1 \in k - 1..N
      BY <1>1
    <3> QED BY <1>2, <2>2, <2>3, <2>6, <3>1 DEF Walked
  <2> QED BY <1>2, <1>7, <2>7
<1>9. CASE ~(~acc.stopped /\ acc.used + n <= acc.room)
  <2>1. R = [acc EXCEPT !.stopped = TRUE]
    BY <1>2, <1>7, <1>9 DEF Keep
  <2>2. R \in [groups : {G}, used : {U}, stopped : {TRUE, FALSE}, room : {room}] /\ R.stopped
    BY <1>6, <2>1
  <2>3. k <= i /\ i \in k - 1..N
    BY <1>1, <1>6
  <2>4. Size(Part(h, c[i - 1], Len(h))) > room
    <3>1. CASE acc.stopped
      BY <1>6, <3>1
    <3>2. CASE ~acc.stopped
      <4>1. i = k /\ acc.used = u /\ acc.room = room
        BY <1>2, <1>5, <1>6, <3>2
      <4>2. ~(u + n <= room)
        BY <1>9, <3>2, <4>1
      <4>3. v > room
        BY <1>4, <4>2
      <4> QED BY <1>2, <4>1, <4>3
    <3> QED BY <3>1, <3>2
  <2>5. Walked(R, h, c, N, room, k, i)
    BY <1>5, <1>6, <2>2, <2>3, <2>4 DEF Walked
  <2> QED BY <1>2, <1>7, <2>5
<1> QED BY <1>8, <1>9

LEMMA WalkEnds ==
  ASSUME NEW T, Sized(T), NEW h \in Seq(T), NEW c, NEW N, NEW l, Cuts(c, N, l, Len(h)), NEW room \in Int
  PROVE  \E i : Walked(FoldRight(Keep, Slices(h, c, N), AllRoom(room)), h, c, N, room, 1, i)
<1>1. N \in Nat /\ Len(h) \in Nat /\ Len(h) <= Len(h)
  BY DEF Cuts
<1>2. PICK seq : seq = Slices(h, c, N)
  OBVIOUS
<1>3. seq \in Seq(Seq(T)) /\ Len(seq) = N
  BY <1>1, <1>2, SlicesAre
<1>4. PICK z : Keeps(z, seq, room) /\ FoldRight(Keep, seq, AllRoom(room)) = z[1]
  BY <1>3, FoldRightKeeps
<1>5. z[N + 1] = AllRoom(room) /\ \A k \in 1..N : z[k] = Keep(seq[k], z[k + 1])
  BY <1>3, <1>4 DEF Keeps
<1> DEFINE Is(k) == \E i : Walked(z[k], h, c, N, room, k, i)
           M == {n \in Nat : n <= N => Is((N + 1) - n)}
<1>6. 0 \in M
  <2>1. (N + 1) - 0 = N + 1
    BY <1>1
  <2>2. Is(N + 1)
    BY <1>5, WalkBegins
  <2> HIDE DEF Is
  <2> QED BY <2>1, <2>2
<1>7. ASSUME NEW n \in M PROVE n + 1 \in M
  <2>1. ASSUME n + 1 <= N PROVE Is((N + 1) - (n + 1))
    <3>1. PICK k : k = (N + 1) - (n + 1)
      OBVIOUS
    <3>2. n \in Nat /\ n <= N /\ k \in 1..N /\ k + 1 = (N + 1) - n
      BY <1>1, <2>1, <3>1
    <3>3. Is(k + 1)
      <4> HIDE DEF Is
      <4> QED BY <3>2
    <3>4. PICK i : Walked(z[k + 1], h, c, N, room, k + 1, i)
      BY <3>3
    <3>5. PICK acc : acc = z[k + 1] /\ Walked(acc, h, c, N, room, k + 1, i) /\ z[k] = Keep(seq[k], acc)
      BY <1>5, <3>2, <3>4
    <3>6. \E j : Walked(Keep(Slices(h, c, N)[k], acc), h, c, N, room, k, j)
      BY <3>2, <3>5, WalkStep
    <3> QED BY <1>2, <3>1, <3>5, <3>6
  <2> HIDE DEF Is
  <2> QED BY <2>1
<1> HIDE DEF Is, M
<1>8. M \in SUBSET Nat
  BY DEF M
<1>9. M = Nat
  BY <1>6, <1>7, <1>8, SetInduction
<1>10. Is(1)
  <2>1. (N + 1) - N = 1 /\ N <= N
    BY <1>1
  <2>2. Is((N + 1) - N)
    BY <1>1, <1>9, <2>1 DEF M
  <2> QED BY <2>1, <2>2
<1> QED BY <1>2, <1>4, <1>10 DEF Is

\* What apply_context_budget makes of it: the leading system messages and the groups from the i-th cut on.
Window(h, maxChars, l, N, c, i) ==
  LET room == maxChars - Size(Part(h, 0, l))
      rest(j) == Part(h, c[j], Len(h))
  IN  /\ Parted(h, l, N, c, Len(h)) /\ i \in 0..N
      /\ ApplyContextBudget(h, maxChars) = IF room < 0 \/ (N # 0 /\ i = N) THEN Refused
                                           ELSE Kept(Part(h, 0, l) \o rest(i))
      /\ i < N => Size(rest(i)) <= room
      /\ i > 0 => Size(rest(i - 1)) > room

LEMMA ApplyIsWindow ==
  ASSUME NEW T, Sized(T), NEW h \in Seq(T), IsReplaySafe(h), NEW maxChars \in Int
  PROVE  \E l, N, c, i : Window(h, maxChars, l, N, c, i)
<1>1. PICK l, N, c : SplitAs(Segmentize(h), h, l, N, c, Len(h))
  BY SplitIsParted
<1>2. Parted(h, l, N, c, Len(h)) /\ Cuts(c, N, l, Len(h))
  BY <1>1 DEF SplitAs, Parted
<1>3. l \in Nat /\ N \in Nat /\ Len(h) \in Nat /\ Len(h) <= Len(h) /\ l <= Len(h) /\ c[N] = Len(h)
  <2>1. l <= Len(h)
    BY <1>2, CutsOrder
  <2> QED BY <1>2, <2>1 DEF Cuts
<1>4. PICK split, P, B : split = Segmentize(h) /\ P = Slices(h, Singles(l), l) /\ B = Slices(h, c, N)
                         /\ split.prefix = P /\ split.body = B
  BY <1>1 DEF SplitAs
<1>5. Cuts(Singles(l), l, 0, l) /\ Inside(h, 0, l)
  BY <1>3, SinglesCut DEF Inside
<1>6. FlattenSeq(P) = Part(h, 0, l) /\ P \in Seq(Seq(T))
  BY <1>3, <1>4, <1>5, FlattenSlices, SlicesAre
<1>7. B \in Seq(Seq(T)) /\ Len(B) = N
  BY <1>2, <1>3, <1>4, SlicesAre
<1>8. PICK room \in Int : room = maxChars - Size(Part(h, 0, l))
  <2>1. Size(Part(h, 0, l)) \in Nat
    <3>1. Part(h, 0, l) \in Seq(T)
      BY <1>5, PartIs DEF IsPart
    <3> QED BY <3>1, SizeConcat
  <2> QED BY <2>1
<1>9. PICK kept : kept = FoldRight(Keep, B, AllRoom(room))
  OBVIOUS
<1>10. PICK i : Walked(kept, h, c, N, room, 1, i)
  BY <1>2, <1>4, <1>9, WalkEnds
<1>11. /\ i \in 0..N /\ kept.groups = Slices(h, Later(c, i, N), N - i)
       /\ i > 0 => Size(Part(h, c[i - 1], Len(h))) > room
       /\ i < N => Size(Part(h, c[i], Len(h))) <= room
  <2>1. 1 - 1 = 0 /\ ~(0 > 0)
    OBVIOUS
  <2> QED BY <1>10, <2>1 DEF Walked
<1>12. /\ kept.groups \in Seq(Seq(T)) /\ Len(kept.groups) = N - i
       /\ FlattenSeq(kept.groups) = Part(h, c[i], Len(h))
  <2>1. PICK d, M : d = Later(c, i, N) /\ M = N - i
    OBVIOUS
  <2>2. Cuts(d, M, c[i], Len(h))
    BY <1>2, <1>11, <2>1, LaterCuts
  <2>3. kept.groups = Slices(h, d, M)
    BY <1>11, <2>1
  <2> QED BY <1>3, <2>1, <2>2, <2>3, FlattenSlices, SlicesAre
<1>13. FlattenSeq(P \o kept.groups) = Part(h, 0, l) \o Part(h, c[i], Len(h))
  BY <1>6, <1>12, FlattenConcat
<1>14. B # <<>> <=> N # 0
  BY <1>3, <1>7, EmptySeq
<1>15. kept.groups = <<>> <=> i = N
  <2>1. PICK S, g : S = Seq(T) /\ g = kept.groups /\ g \in Seq(S) /\ Len(g) = N - i
    BY <1>12
  <2>2. g = <<>> <=> Len(g) = 0
    BY <2>1
  <2> QED BY <1>3, <1>11, <2>1, <2>2
<1>16. ApplyContextBudget(h, maxChars) = IF room < 0 \/ (N # 0 /\ i = N) THEN Refused
                                        ELSE Kept(Part(h, 0, l) \o Part(h, c[i], Len(h)))
  <2>1. ApplyContextBudget(h, maxChars) = IF room < 0 \/ (B # <<>> /\ kept.groups = <<>>) THEN Refused
                                          ELSE Kept(FlattenSeq(P \o kept.groups))
    BY <1>4, <1>6, <1>8, <1>9 DEF ApplyContextBudget, AllRoom
  <2> QED BY <1>13, <1>14, <1>15, <2>1
<1>17. Window(h, maxChars, l, N, c, i)
  BY <1>2, <1>8, <1>11, <1>16 DEF Window
<1> QED BY <1>17

-----------------------------------------------------------------------------
(* Where a window may begin                                                *)

\* Between two groups, and nowhere else after the leading system messages.
LEMMA CutsBetween ==
  ASSUME NEW T, NEW h \in Seq(T), NEW l, NEW N, NEW c, Parted(h, l, N, c, Len(h)), NEW i \in 0..N
  PROVE  /\ Between(h, c[i]) /\ l <= c[i] /\ c[i] \in Nat /\ Inside(h, c[i], Len(h))
         /\ i > 0 => /\ c[i - 1] \in Nat /\ c[i - 1] < c[i] /\ Inside(h, c[i - 1], Len(h))
                     /\ \A a \in Nat : a < c[i] /\ Between(h, a) => a <= c[i - 1]
<1>1. Cuts(c, N, l, Len(h)) /\ Groups(h, c, N)
  BY DEF Parted
<1>2. /\ N \in Nat /\ l \in Nat /\ Len(h) \in Nat /\ c[N] = Len(h)
      /\ \A k \in 0..N : c[k] \in Nat
  BY <1>1 DEF Cuts
<1>3. \A k \in 0..N : l <= c[k] /\ c[k] <= Len(h)
  BY <1>1, CutsOrder
<1>4. \A k \in 0..N : Inside(h, c[k], Len(h))
  <2>1. Len(h) <= Len(h)
    BY <1>2
  <2> QED BY <1>2, <1>3, <2>1 DEF Inside
<1>5. Between(h, c[i])
  <2>1. CASE i = N
    BY <1>2, <2>1 DEF Between
  <2>2. CASE i # N
    <3>1. i + 1 \in 1..N /\ (i + 1) - 1 = i
      BY <1>2, <2>2
    <3>2. h[c[i] + 1].role # "tool"
      BY <1>1, <3>1 DEF Groups
    <3> QED BY <1>2, <1>3, <3>2 DEF Between
  <2> QED BY <2>1, <2>2
<1>6. ASSUME i > 0
      PROVE  /\ c[i - 1] \in Nat /\ c[i - 1] < c[i] /\ Inside(h, c[i - 1], Len(h))
             /\ \A a \in Nat : a < c[i] /\ Between(h, a) => a <= c[i - 1]
  <2>1. i \in 1..N /\ i - 1 \in 0..N /\ i \in 0..N
    BY <1>2, <1>6
  <2>2. c[i - 1] < c[i]
    BY <1>1, <2>1 DEF Cuts
  <2>3. ASSUME NEW a \in Nat, a < c[i], Between(h, a), ~(a <= c[i - 1]) PROVE FALSE
    <3>1. PICK u \in Nat, v \in Nat, k \in Nat : u = c[i - 1] /\ v = c[i] /\ k = Len(h) /\ v <= k
      BY <1>2, <1>3, <2>1
    <3>2. a + 1 \in u + 2..v /\ a < k
      BY <2>3, <3>1
    <3>3. h[a + 1].role = "tool"
      BY <1>1, <2>1, <3>1, <3>2 DEF Groups
    <3> QED BY <2>3, <3>1, <3>2, <3>3 DEF Between
  <2> QED BY <1>2, <1>4, <2>1, <2>2, <2>3
<1> QED BY <1>2, <1>3, <1>4, <1>5, <1>6

\* What begins earlier does not fit.
LEMMA EarlierIsTooLarge ==
  ASSUME NEW T, Sized(T), NEW h \in Seq(T), NEW maxChars \in Int, NEW l, NEW N, NEW c, NEW i,
         Window(h, maxChars, l, N, c, i), NEW a \in Nat, l <= a, a < c[i], Between(h, a)
  PROVE  Size(Part(h, 0, l) \o Part(h, a, Len(h))) > maxChars
<1>1. Parted(h, l, N, c, Len(h)) /\ i \in 0..N
      /\ (i > 0 => Size(Part(h, c[i - 1], Len(h))) > maxChars - Size(Part(h, 0, l)))
  BY DEF Window
<1>2. Cuts(c, N, l, Len(h)) /\ Len(h) \in Nat
  BY <1>1 DEF Parted
<1>3. N \in Nat /\ l \in Nat /\ c[0] = l
  BY <1>2 DEF Cuts
<1>4. i > 0
  BY <1>1, <1>3
<1>5. /\ c[i - 1] \in Nat /\ Inside(h, c[i - 1], Len(h)) /\ a <= c[i - 1]
  BY <1>1, <1>4, CutsBetween
<1>6. Inside(h, a, c[i - 1]) /\ Inside(h, 0, l) /\ Inside(h, a, Len(h))
  <2>1. PICK u \in Nat, k \in Nat : u = c[i - 1] /\ k = Len(h)
    BY <1>2, <1>5
  <2>2. u <= k /\ a <= u /\ a <= k /\ l <= k
    BY <1>3, <1>5, <2>1 DEF Inside
  <2> QED BY <1>3, <1>5, <2>1, <2>2 DEF Inside
<1>7. PICK p \in Nat, q \in Nat, r \in Nat :
        /\ p = Size(Part(h, 0, l)) /\ q = Size(Part(h, a, c[i - 1])) /\ r = Size(Part(h, c[i - 1], Len(h)))
        /\ Size(Part(h, a, Len(h))) = q + r
        /\ Size(Part(h, 0, l) \o Part(h, a, Len(h))) = p + (q + r)
  <2>1. Part(h, 0, l) \in Seq(T) /\ Part(h, a, Len(h)) \in Seq(T)
    BY <1>6, PartIs DEF IsPart
  <2>2. /\ Size(Part(h, a, c[i - 1])) \in Nat /\ Size(Part(h, c[i - 1], Len(h))) \in Nat
        /\ Size(Part(h, a, Len(h))) = Size(Part(h, a, c[i - 1])) + Size(Part(h, c[i - 1], Len(h)))
    BY <1>5, <1>6, PartSize
  <2>3. /\ Size(Part(h, 0, l)) \in Nat
        /\ Size(Part(h, 0, l) \o Part(h, a, Len(h))) = Size(Part(h, 0, l)) + Size(Part(h, a, Len(h)))
    BY <2>1, SizeConcat
  <2> QED BY <2>2, <2>3
<1>8. r > maxChars - p
  BY <1>1, <1>4, <1>7
<1>9. p + (q + r) > maxChars
  BY <1>7, <1>8
<1> QED BY <1>7, <1>9

LEMMA PartBegins ==
  ASSUME NEW T, NEW h \in Seq(T), NEW a \in Nat, a <= Len(h), IsReplaySafe(Part(h, a, Len(h)))
  PROVE  Between(h, a)
<1>1. Len(h) \in Nat /\ Inside(h, a, Len(h)) /\ a \in 0..Len(h)
  BY DEF Inside
<1>2. CASE a = Len(h)
  BY <1>1, <1>2 DEF Between
<1>3. CASE a # Len(h)
  <2>1. PICK p : p = Part(h, a, Len(h))
    OBVIOUS
  <2>2. p \in Seq(T) /\ Len(p) = Len(h) - a /\ \A k \in 1..Len(h) - a : p[k] = h[a + k]
    BY <1>1, <2>1, PartIs DEF IsPart
  <2>3. Len(p) # 0 /\ 1 \in 1..Len(h) - a
    BY <1>1, <1>3, <2>2
  <2>4. p[1].role # "tool" /\ p[1] = h[a + 1]
    BY <2>1, <2>2, <2>3, SafeBegins
  <2> QED BY <1>1, <2>4 DEF Between
<1> QED BY <1>2, <1>3

-----------------------------------------------------------------------------
(* The files of a checkpoint                                               *)

\* What follows the position x, up to y, is within the bound or a single group.
IsFile(h, c, N, bound, x, y) ==
  \/ Size(Part(h, x, y)) <= bound
  \/ \E g \in 1..N : x = c[g - 1] /\ y = c[g]

\* M files that hold the history up to the position e, each of them up to the end of a group.
FilledUpto(h, c, N, bound, d, M, e) ==
  /\ Cuts(d, M, 0, e)
  /\ \A k \in 0..M : \E g \in 0..N : d[k] = c[g]
  /\ \A k \in 1..M : IsFile(h, c, N, bound, d[k - 1], d[k])

\* The first n groups: in the files, and from e on in the one being filled.
PackedUpto(acc, h, c, N, bound, n, d, M, e) ==
  /\ FilledUpto(h, c, N, bound, d, M, e)
  /\ e <= c[n] /\ Size(Part(h, e, c[n])) <= bound
  /\ acc \in [files : {Slices(h, d, M)}, current : {Part(h, e, c[n])}, bound : {bound}]

\* One file more.
LEMMA FileAdded ==
  ASSUME NEW h, NEW c, NEW N, NEW bound, NEW d, NEW M, NEW e, FilledUpto(h, c, N, bound, d, M, e),
         NEW g \in 0..N, c[g] \in Nat, e < c[g], IsFile(h, c, N, bound, e, c[g])
  PROVE  \E f, L : /\ FilledUpto(h, c, N, bound, f, L, c[g])
                   /\ Slices(h, f, L) = Append(Slices(h, d, M), Part(h, e, c[g]))
<1>1. Cuts(d, M, 0, e)
  BY DEF FilledUpto
<1>2. PICK f, L : f = Extended(d, M, c[g]) /\ L = M + 1
  OBVIOUS
<1>3. /\ Cuts(f, L, 0, c[g]) /\ (\A k \in 0..M : f[k] = d[k]) /\ f[L] = c[g]
      /\ Slices(h, f, L) = Append(Slices(h, d, M), Part(h, e, c[g]))
  <2>1. PICK y \in Nat : y = c[g] /\ e < y
    OBVIOUS
  <2>2. PICK a : a = 0 /\ Cuts(d, M, a, e)
    BY <1>1
  <2>3. /\ Cuts(Extended(d, M, y), M + 1, a, y)
        /\ \A k \in 0..M : Extended(d, M, y)[k] = d[k]
        /\ Extended(d, M, y)[M + 1] = y
        /\ Slices(h, Extended(d, M, y), M + 1) = Append(Slices(h, d, M), Part(h, e, y))
    <3>1. y \in Nat /\ e < y
      BY <2>1
    <3> M \in Nat
      BY <1>1 DEF Cuts
    <3>2. Cuts(Extended(d, M, y), M + 1, a, y)
      BY <2>2, <3>1, SlicesAppend
    <3>3. \A k \in 0..M : Extended(d, M, y)[k] = d[k]
      BY DEF Extended
    <3>4. Extended(d, M, y)[M + 1] = y
      BY DEF Extended
    <3>5. Slices(h, Extended(d, M, y), M + 1) = Append(Slices(h, d, M), Part(h, e, y))
      BY <2>2, <3>1, SlicesAppend
    <3> QED BY <3>2, <3>3, <3>4, <3>5
  <2> QED BY <1>2, <2>1, <2>2, <2>3
<1>4. M \in Nat /\ L = M + 1 /\ d[M] = e
  BY <1>1, <1>2 DEF Cuts
<1>5. ASSUME NEW k \in 0..L PROVE \E j \in 0..N : f[k] = c[j]
  <2>1. k \in 0..M \/ k = L
    BY <1>4
  <2> QED BY <1>3, <2>1 DEF FilledUpto
<1>6. ASSUME NEW k \in 1..L
      PROVE  IsFile(h, c, N, bound, f[k - 1], f[k])
  <2>1. CASE k = L
    <3>1. f[k - 1] = e /\ f[k] = c[g]
      BY <1>3, <1>4, <2>1
    <3> QED BY <3>1
  <2>2. CASE k # L
    <3>1. k \in 1..M /\ k - 1 \in 0..M /\ k \in 0..M
      BY <1>4, <2>2
    <3>2. f[k - 1] = d[k - 1] /\ f[k] = d[k]
      BY <1>3, <3>1
    <3> QED BY <3>1, <3>2 DEF FilledUpto
  <2> QED BY <2>1, <2>2
<1>7. FilledUpto(h, c, N, bound, f, L, c[g])
  BY <1>3, <1>5, <1>6 DEF FilledUpto
<1> QED BY <1>3, <1>7

\* The file being filled, unless it is empty.
LEMMA FlushedIsFilled ==
  ASSUME NEW T, NEW h \in Seq(T), NEW c, NEW N, Cuts(c, N, 0, Len(h)), NEW bound, NEW n \in 0..N,
         NEW acc, NEW d, NEW M, NEW e, PackedUpto(acc, h, c, N, bound, n, d, M, e)
  PROVE  \E f, L : FilledUpto(h, c, N, bound, f, L, c[n]) /\ Flushed(acc) = Slices(h, f, L)
<1>1. /\ FilledUpto(h, c, N, bound, d, M, e)
      /\ e <= c[n] /\ Size(Part(h, e, c[n])) <= bound
      /\ acc.files = Slices(h, d, M) /\ acc.current = Part(h, e, c[n])
  BY DEF PackedUpto
<1>2. c[n] \in Nat /\ e \in Nat /\ c[n] <= Len(h) /\ Len(h) \in Nat
  BY <1>1, CutsOrder DEF Cuts, FilledUpto
<1>3. CASE e = c[n]
  <2>1. acc.current = <<>>
    BY <1>1, <1>2, <1>3, PartEmpty
  <2> QED BY <1>1, <1>3, <2>1 DEF Flushed
<1>4. CASE e # c[n]
  <2>1. e < c[n] /\ Inside(h, e, c[n])
    BY <1>1, <1>2, <1>4 DEF Inside
  <2>2. Len(acc.current) = c[n] - e
    BY <1>1, <2>1, PartIs DEF IsPart
  <2>3. acc.current # <<>>
    BY <1>2, <2>1, <2>2
  <2>4. \E f, L : /\ FilledUpto(h, c, N, bound, f, L, c[n])
                  /\ Slices(h, f, L) = Append(Slices(h, d, M), Part(h, e, c[n]))
    <3>1. IsFile(h, c, N, bound, e, c[n])
      BY <1>1 DEF IsFile
    <3> QED BY <1>1, <1>2, <2>1, <3>1, FileAdded
  <2> QED BY <1>1, <2>3, <2>4 DEF Flushed
<1> QED BY <1>3, <1>4

LEMMA PackBegins ==
  ASSUME NEW T, NEW h \in Seq(T), NEW c, NEW N, Cuts(c, N, 0, Len(h)), NEW bound \in Nat
  PROVE  \E d, M, e : PackedUpto(NothingPacked(bound), h, c, N, bound, 0, d, M, e)
<1> DEFINE d == [k \in 0..0 |-> 0]
<1>1. c[0] = 0 /\ 0 \in 0..N
  BY DEF Cuts
<1>2. Cuts(d, 0, 0, 0)
  BY DEF Cuts
<1>3. FilledUpto(h, c, N, bound, d, 0, 0)
  BY <1>1, <1>2 DEF FilledUpto
<1>4. Slices(h, d, 0) = <<>> /\ Part(h, 0, 0) = <<>>
  BY PartEmpty DEF Slices
<1>5. PackedUpto(NothingPacked(bound), h, c, N, bound, 0, d, 0, 0)
  BY <1>1, <1>3, <1>4, SizeEmpty DEF PackedUpto, NothingPacked
<1> QED BY <1>5

\* One group more.
LEMMA PackStep ==
  ASSUME NEW T, Sized(T), NEW h \in Seq(T), NEW c, NEW N, Cuts(c, N, 0, Len(h)), NEW bound \in Nat,
         NEW n \in 0..N, n + 1 <= N, NEW acc, NEW d, NEW M, NEW e, PackedUpto(acc, h, c, N, bound, n, d, M, e)
  PROVE  \E f, L, x : PackedUpto(Pack(acc, Slices(h, c, N)[n + 1]), h, c, N, bound, n + 1, f, L, x)
<1>1. /\ FilledUpto(h, c, N, bound, d, M, e)
      /\ e <= c[n] /\ Size(Part(h, e, c[n])) <= bound
      /\ acc \in [files : {Slices(h, d, M)}, current : {Part(h, e, c[n])}, bound : {bound}]
  BY DEF PackedUpto
<1>2. /\ n \in Nat /\ n + 1 \in 0..N /\ n + 1 \in 1..N /\ N \in Nat /\ Len(h) \in Nat
      /\ c[n] \in Nat /\ c[n + 1] \in Nat /\ e \in Nat
  BY <1>1 DEF Cuts, FilledUpto
<1>3. PICK group, y : group = Slices(h, c, N)[n + 1] /\ y = c[n + 1]
  OBVIOUS
<1>4. group = Part(h, c[n], y) /\ c[n] < y /\ y <= Len(h) /\ (n + 1) - 1 = n
  BY <1>2, <1>3, SlicesAre DEF Inside
<1>5. Inside(h, e, c[n]) /\ Inside(h, c[n], y)
  BY <1>1, <1>2, <1>3, <1>4 DEF Inside
<1>6. /\ Size(Part(h, e, c[n])) \in Nat /\ Size(group) \in Nat
      /\ Size(Part(h, e, y)) = Size(Part(h, e, c[n])) + Size(group)
      /\ Part(h, e, c[n]) \o group = Part(h, e, y)
  <2>1. PICK x : x = c[n]
    OBVIOUS
  <2>2. Inside(h, e, x) /\ Inside(h, x, y)
    BY <1>5, <2>1
  <2>3. /\ Size(Part(h, e, x)) \in Nat /\ Size(Part(h, x, y)) \in Nat
        /\ Size(Part(h, e, y)) = Size(Part(h, e, x)) + Size(Part(h, x, y))
    BY <2>2, PartSize
  <2>4. Part(h, e, x) \o Part(h, x, y) = Part(h, e, y)
    BY <2>2, PartJoin
  <2> QED BY <1>4, <2>1, <2>3, <2>4
<1>7. PICK f, L : FilledUpto(h, c, N, bound, f, L, c[n]) /\ Flushed(acc) = Slices(h, f, L)
  BY FlushedIsFilled
<1>8. acc.files = Slices(h, d, M) /\ acc.current = Part(h, e, c[n]) /\ acc.bound = bound
  BY <1>1
<1>9. CASE Size(group) > bound
  <2>1. PICK u, K : /\ FilledUpto(h, c, N, bound, u, K, y)
                    /\ Slices(h, u, K) = Append(Slices(h, f, L), Part(h, c[n], y))
    <3>1. PICK g \in 0..N : g = n + 1
      BY <1>2
    <3>2. PICK x : x = c[n]
      OBVIOUS
    <3>3. c[g] = y /\ c[g] \in Nat /\ x < c[g] /\ IsFile(h, c, N, bound, x, c[g])
      BY <1>2, <1>3, <1>4, <3>1, <3>2 DEF IsFile
    <3>4. FilledUpto(h, c, N, bound, f, L, x)
      BY <1>7, <3>2
    <3>5. \E u, K : /\ FilledUpto(h, c, N, bound, u, K, c[g])
                    /\ Slices(h, u, K) = Append(Slices(h, f, L), Part(h, x, c[g]))
      BY <3>3, <3>4, FileAdded
    <3> QED BY <3>2, <3>3, <3>5
  <2>2. Part(h, y, y) = <<>>
    BY <1>2, <1>3, PartEmpty
  <2>3. Pack(acc, group) = [acc EXCEPT !.files = Append(Flushed(acc), group), !.current = <<>>]
    BY <1>6, <1>8, <1>9 DEF Pack
  <2>4. PICK F : F = Append(Flushed(acc), group)
    OBVIOUS
  <2>5. [acc EXCEPT !.files = F, !.current = <<>>] \in [files : {F}, current : {<<>>}, bound : {bound}]
    BY <1>1
  <2>6. F = Slices(h, u, K)
    BY <1>4, <1>7, <2>1, <2>4
  <2>7. PackedUpto(Pack(acc, group), h, c, N, bound, n + 1, u, K, y)
    BY <1>2, <1>3, <2>1, <2>2, <2>3, <2>4, <2>5, <2>6, SizeEmpty DEF PackedUpto
  <2> QED BY <1>3, <2>7
<1>10. CASE Size(group) <= bound /\ Size(acc.current) + Size(group) > bound
  <2>1. Pack(acc, group) = [acc EXCEPT !.files = Flushed(acc), !.current = group]
    BY <1>6, <1>8, <1>10 DEF Pack
  <2>2. PICK F : F = Flushed(acc)
    OBVIOUS
  <2>3. [acc EXCEPT !.files = F, !.current = group] \in [files : {F}, current : {group}, bound : {bound}]
    BY <1>1
  <2>4. PackedUpto(Pack(acc, group), h, c, N, bound, n + 1, f, L, c[n])
    BY <1>2, <1>3, <1>4, <1>7, <1>10, <2>1, <2>2, <2>3 DEF PackedUpto
  <2> QED BY <1>3, <2>4
<1>11. CASE Size(group) <= bound /\ ~(Size(acc.current) + Size(group) > bound)
  <2>1. Pack(acc, group) = [acc EXCEPT !.current = @ \o group]
    BY <1>6, <1>8, <1>11 DEF Pack
  <2>2. PICK p : p = acc.current \o group
    OBVIOUS
  <2>3. [acc EXCEPT !.current = p] \in [files : {Slices(h, d, M)}, current : {p}, bound : {bound}]
    BY <1>1
  <2>4. p = Part(h, e, y) /\ Size(p) <= bound /\ e <= y
    BY <1>1, <1>2, <1>3, <1>4, <1>6, <1>8, <1>11, <2>2
  <2>5. PackedUpto(Pack(acc, group), h, c, N, bound, n + 1, d, M, e)
    BY <1>1, <1>3, <2>1, <2>2, <2>3, <2>4 DEF PackedUpto
  <2> QED BY <1>3, <2>5
<1> QED BY <1>6, <1>9, <1>10, <1>11

LEMMA PackEnds ==
  ASSUME NEW T, Sized(T), NEW h \in Seq(T), NEW c, NEW N, Cuts(c, N, 0, Len(h)), NEW bound \in Nat,
         NEW z, Packs(z, Slices(h, c, N), bound)
  PROVE  \E f, L : FilledUpto(h, c, N, bound, f, L, Len(h)) /\ Flushed(z[N]) = Slices(h, f, L)
<1>1. N \in Nat /\ c[N] = Len(h) /\ Len(h) \in Nat
  BY DEF Cuts
<1>2. Len(Slices(h, c, N)) = N
  BY <1>1, SlicesAre
<1> DEFINE Is(n) == n <= N => \E d, M, e : PackedUpto(z[n], h, c, N, bound, n, d, M, e)
           S == {n \in Nat : Is(n)}
<1>3. Is(0)
  BY PackBegins DEF Packs
<1>4. ASSUME NEW n \in Nat, Is(n) PROVE Is(n + 1)
  <2> SUFFICES ASSUME n + 1 <= N
      PROVE  \E d, M, e : PackedUpto(z[n + 1], h, c, N, bound, n + 1, d, M, e)
    OBVIOUS
  <2>1. n \in 0..N /\ n <= N
    BY <1>1
  <2>2. PICK d, M, e : PackedUpto(z[n], h, c, N, bound, n, d, M, e)
    BY <1>4, <2>1
  <2>3. z[n + 1] = Pack(z[n], Slices(h, c, N)[n + 1])
    BY <1>2 DEF Packs
  <2> QED BY <2>1, <2>2, <2>3, PackStep
<1> HIDE DEF Is
<1>5. S = Nat
  <2>1. 0 \in S /\ \A n \in S : n + 1 \in S
    BY <1>3, <1>4
  <2> HIDE DEF S
  <2>2. S \in SUBSET Nat
    BY DEF S
  <2> QED BY <2>1, <2>2, SetInduction
<1>6. PICK d, M, e : PackedUpto(z[N], h, c, N, bound, N, d, M, e)
  BY <1>1, <1>5 DEF Is
<1>7. N \in 0..N
  BY <1>1
<1> QED BY <1>1, <1>6, <1>7, FlushedIsFilled

-----------------------------------------------------------------------------
(* What a resume reads                                                     *)

\* A set of positions of a history has a last one.
LEMMA LastPosition ==
  ASSUME NEW m \in Nat, NEW s \in SUBSET (0..m), s # {}
  PROVE  \E n \in s : \A k \in s : k <= n
<1> DEFINE M == {n \in Nat : \A r \in SUBSET (0..n) : r # {} => \E x \in r : \A k \in r : k <= x}
<1>1. 0 \in M
  <2>1. \A k \in 0..0 : k = 0
    OBVIOUS
  <2>2. ASSUME NEW r \in SUBSET (0..0), r # {} PROVE \E x \in r : \A k \in r : k <= x
    <3>1. \A k \in r : k = 0
      BY <2>1
    <3>2. PICK x : x \in r
      BY <2>2
    <3>3. x = 0 /\ 0 <= 0
      BY <3>1, <3>2
    <3> QED BY <3>1, <3>2, <3>3
  <2> QED BY <2>2
<1>2. ASSUME NEW n \in M PROVE n + 1 \in M
  <2>1. n \in Nat /\ \A r \in SUBSET (0..n) : r # {} => \E x \in r : \A k \in r : k <= x
    OBVIOUS
  <2>2. ASSUME NEW r \in SUBSET (0..n + 1), r # {} PROVE \E x \in r : \A k \in r : k <= x
    <3>1. CASE n + 1 \in r
      <4>1. \A k \in r : k <= n + 1
        BY <2>1
      <4> QED BY <3>1, <4>1
    <3>2. CASE n + 1 \notin r
      <4>1. r \in SUBSET (0..n)
        BY <2>1, <3>2
      <4> QED BY <2>1, <2>2, <4>1
    <3> QED BY <3>1, <3>2
  <2>3. n + 1 \in Nat
    BY <2>1
  <2> QED BY <2>2, <2>3
<1>3. M = Nat
  <2>1. M \in SUBSET Nat
    OBVIOUS
  <2> HIDE DEF M
  <2> QED BY <1>1, <1>2, <2>1, SetInduction
<1>4. \A r \in SUBSET (0..m) : r # {} => \E x \in r : \A k \in r : k <= x
  BY <1>3
<1> QED BY <1>4

\* What is left of a history may be replayed, and it is the history itself if that may.
LEMMA PrefixIsSafe ==
  ASSUME NEW T, NEW h \in Seq(T)
  PROVE  /\ ReplaySafePrefix(h) \in Seq(T) /\ IsReplaySafe(ReplaySafePrefix(h))
         /\ IsReplaySafe(h) => ReplaySafePrefix(h) = h
<1> DEFINE safe == {n \in 0..Len(h) : IsReplaySafe(SubSeq(h, 1, n))}
<1>1. PICK s : s = safe
  OBVIOUS
<1>2. Len(h) \in Nat /\ IsReplaySafe(SubSeq(h, 1, 0))
  <2>1. Part(h, 0, 0) = <<>> /\ 0 + 1 = 1
    BY PartEmpty
  <2>2. SubSeq(h, 1, 0) = <<>>
    BY <2>1 DEF Part
  <2>3. Len(h) \in Nat
    OBVIOUS
  <2>4. IsReplaySafe(SubSeq(h, 1, 0))
    <3>1. PICK p : p = SubSeq(h, 1, 0) /\ p = <<>>
      BY <2>2
    <3>2. IsReplaySafe(p)
      BY <3>1, EmptyIsSafe
    <3> QED BY <3>1, <3>2
  <2> QED BY <2>3, <2>4
<1>3. 0 \in s /\ s \in SUBSET (0..Len(h))
  BY <1>1, <1>2
<1>4. PICK n : n = CHOOSE x \in s : \A k \in s : k <= x
  OBVIOUS
<1>5. n \in s /\ \A k \in s : k <= n
  <2>1. \E x \in s : \A k \in s : k <= x
    BY <1>2, <1>3, LastPosition
  <2> QED BY <1>4, <2>1
<1>6. ReplaySafePrefix(h) = SubSeq(h, 1, n)
  BY <1>1, <1>4 DEF ReplaySafePrefix
<1>7. SubSeq(h, 1, Len(h)) = h
  <2>1. Part(h, 0, Len(h)) = h /\ 0 + 1 = 1
    BY PartAll
  <2> QED BY <2>1 DEF Part
<1>8. IsReplaySafe(h) => n = Len(h)
  <2>1. IsReplaySafe(h) => Len(h) \in s
    <3>1. Len(h) \in 0..Len(h)
      BY <1>2
    <3>2. IsReplaySafe(h) => IsReplaySafe(SubSeq(h, 1, Len(h)))
      BY <1>7
    <3> QED BY <1>1, <3>1, <3>2
  <2>2. n \in 0..Len(h)
    BY <1>3, <1>5
  <2> QED BY <1>2, <1>5, <2>1, <2>2
<1>9. SubSeq(h, 1, n) \in Seq(T)
  <2>1. n \in Nat /\ n <= Len(h)
    BY <1>2, <1>3, <1>5
  <2>2. Inside(h, 0, n) /\ 0 + 1 = 1
    BY <1>2, <2>1 DEF Inside
  <2> QED BY <2>2, PartIs DEF IsPart, Part
<1>10. IsReplaySafe(SubSeq(h, 1, n))
  BY <1>1, <1>5
<1> QED BY <1>6, <1>7, <1>8, <1>9, <1>10

\* The messages that a resume loads.
Unsystem(T) == {m \in T : m.role # "system"}

LEMMA StrippedIs ==
  ASSUME NEW T, NEW h \in Seq(T)
  PROVE  /\ StripSystemMessages(h) \in Seq(Unsystem(T))
         /\ h \in Seq(Unsystem(T)) => StripSystemMessages(h) = h
<1>1. Len(h) \in Nat /\ \A n \in 1..Len(h) : h[n] \in T /\ h[n] \in Range(h)
  BY DEF Range
<1>2. \A n \in 1..Len(h) : h[n] \in {m \in Range(h) : m.role # "system"} <=> h[n] \in Unsystem(T)
  BY <1>1 DEF Unsystem
<1>3. StripSystemMessages(h) = Only(h, Unsystem(T))
  BY <1>1, <1>2, OnlyAgree DEF StripSystemMessages
<1>4. Only(h, Unsystem(T)) \in Seq(T \cap Unsystem(T)) /\ T \cap Unsystem(T) = Unsystem(T)
  BY OnlyType DEF Unsystem
<1>5. h \in Seq(Unsystem(T)) => Only(h, Unsystem(T)) = h
  BY OnlyAll
<1> QED BY <1>3, <1>4, <1>5

\* They may be replayed if those they are selected from may.
LEMMA StripIsSafe ==
  ASSUME NEW T, NEW h \in Seq(T), IsReplaySafe(h)
  PROVE  IsReplaySafe(StripSystemMessages(h))
<1>1. PICK head, last : /\ head = [role |-> "system", calls |-> {}, id |-> NoId, size |-> 0]
                        /\ last = [role |-> "user", calls |-> {}, id |-> NoId, size |-> 0]
  OBVIOUS
<1>2. head.role = "system" /\ last.role = "user"
  BY <1>1
<1>3. PICK U : U = T \cup {head, last}
  OBVIOUS
<1>4. head \in U /\ last \in U /\ h \in Seq(U)
  BY <1>3
<1>5. PICK s : s = StripSystemMessages(h)
  OBVIOUS
<1>6. s \in Seq(U)
  <2>1. s \in Seq(Unsystem(U))
    BY <1>4, <1>5, StrippedIs
  <2>2. PICK V : V = Unsystem(U) /\ V \subseteq U
    BY DEF Unsystem
  <2> QED BY <2>1, <2>2
<1>7. PICK more : more = <<head>> \o s \o <<last>>
  OBVIOUS
<1>8. IsReplaySafe(more)
  BY <1>2, <1>4, <1>5, <1>7, StrippedIsSafe
<1>9. PICK n \in Nat : n = Len(s) + 1
  BY <1>6
<1>10. /\ Len(s) \in Nat /\ more \in Seq(U) /\ Len(more) = n + 1 /\ more[1] = head /\ more[n + 1] = last
       /\ \A k \in 1..Len(s) : more[1 + k] = s[k]
  BY <1>4, <1>6, <1>7, <1>9
<1>11. Between(more, 1)
  <2>1. After(more, 0) = Fresh /\ After(more, 1) = Follow(After(more, 0), more[1])
    BY <1>9, <1>10, AfterNext
  <2>2. After(more, 1).calls = {}
    BY <1>2, <1>10, <2>1, FollowOther DEF Asks
  <2>3. After(more, 2) = Follow(After(more, 1), more[2]) /\ After(more, 2).safe
    <3>1. 1 + 1 <= Len(more) /\ 1 + 1 = 2 /\ 2 \in 0..Len(more)
      BY <1>9, <1>10
    <3>2. After(more, 1 + 1) = Follow(After(more, 1), more[1 + 1])
      BY <1>10, <3>1, AfterNext
    <3>3. Scanned(more).safe
      BY <1>8, SafeIsScanned
    <3> QED BY <1>10, <3>1, <3>2, <3>3, AfterSafe
  <2>4. more[2].role # "tool"
    BY <2>2, <2>3, FollowResult
  <2> QED BY <1>9, <1>10, <2>4 DEF Between
<1>12. Between(more, n)
  BY <1>2, <1>9, <1>10 DEF Between
<1>13. 1 <= n /\ Inside(more, 1, n) /\ n - 1 = Len(s)
  BY <1>9, <1>10 DEF Inside
<1>14. IsReplaySafe(Part(more, 1, n))
  BY <1>8, <1>10, <1>11, <1>12, <1>13, BetweenIsSafe
<1>15. Part(more, 1, n) = s
  <2>1. PICK p : p = Part(more, 1, n)
    OBVIOUS
  <2>2. p \in Seq(U) /\ Len(p) = Len(s) /\ \A k \in 1..Len(s) : p[k] = more[1 + k]
    BY <1>10, <1>13, <2>1, PartIs DEF IsPart
  <2>3. \A k \in 1..Len(s) : p[k] = s[k]
    BY <1>10, <2>2
  <2>4. p = s
    BY <1>6, <2>2, <2>3, SeqEqual
  <2> QED BY <2>1, <2>4
<1> QED BY <1>5, <1>14, <1>15

-----------------------------------------------------------------------------
(* What a checkpoint writes and a resume loads                             *)

\* Without system messages all of the partition is groups.
LEMMA PartitionIs ==
  ASSUME NEW T, NEW s \in Seq(Unsystem(T)), IsReplaySafe(s)
  PROVE  \E N, c : Parted(s, 0, N, c, Len(s)) /\ PartitionHistory(s) = Slices(s, c, N)
<1>1. PICK l, N, c : SplitAs(Segmentize(s), s, l, N, c, Len(s))
  BY SplitIsParted
<1>2. PICK split : split = Segmentize(s)
  OBVIOUS
<1>3. /\ Parted(s, l, N, c, Len(s))
      /\ split \in [prefix : {Slices(s, Singles(l), l)}, body : {Slices(s, c, N)}, open : {After(s, Len(s)).calls}]
  BY <1>1, <1>2 DEF SplitAs
<1>4. split.prefix = Slices(s, Singles(l), l) /\ split.body = Slices(s, c, N)
  BY <1>3
<1>5. l = 0
  <2>1. Cuts(c, N, l, Len(s)) /\ \A i \in 1..l : s[i].role = "system"
    BY <1>3 DEF Parted
  <2>2. l \in Nat /\ l <= Len(s) /\ Len(s) \in Nat
    BY <2>1, CutsOrder DEF Cuts
  <2>3. \A i \in 1..Len(s) : s[i].role # "system"
    BY DEF Unsystem
  <2> QED BY <2>1, <2>2, <2>3
<1>6. Slices(s, Singles(l), l) = <<>>
  BY <1>5 DEF Slices
<1>7. Slices(s, c, N) \in Seq(Seq(Unsystem(T)))
  BY <1>3, SlicesAre DEF Parted
<1>8. <<>> \o Slices(s, c, N) = Slices(s, c, N)
  <2>1. PICK W, b : W = Seq(Unsystem(T)) /\ b = Slices(s, c, N) /\ b \in Seq(W)
    BY <1>7
  <2>2. <<>> \o b = b
    BY <2>1
  <2> QED BY <2>1, <2>2
<1>9. PartitionHistory(s) = split.prefix \o split.body
  BY <1>2 DEF PartitionHistory
<1> QED BY <1>3, <1>4, <1>5, <1>6, <1>8, <1>9

\* A message and its results are one group.
LEMMA OneGroup ==
  ASSUME NEW T, NEW s \in Seq(Unsystem(T)), IsReplaySafe(s), Len(s) # 0,
         \A i \in 2..Len(s) : s[i].role = "tool"
  PROVE  Len(PartitionHistory(s)) = 1
<1>1. PICK N, c : Parted(s, 0, N, c, Len(s)) /\ PartitionHistory(s) = Slices(s, c, N)
  BY PartitionIs
<1>2. Cuts(c, N, 0, Len(s)) /\ Groups(s, c, N)
  BY <1>1 DEF Parted
<1>3. N \in Nat /\ Len(s) \in Nat /\ c[0] = 0 /\ c[N] = Len(s) /\ N # 0
  BY <1>2 DEF Cuts
<1>4. N = 1
  <2> SUFFICES ASSUME N # 1 PROVE FALSE
    OBVIOUS
  <2>1. 0 \in 0..N /\ 1 \in 0..N /\ N \in 0..N /\ 2 \in 1..N /\ 2 - 1 = 1 /\ 0 < 1 /\ 1 < N
    BY <1>3
  <2>2. c[0] < c[1] /\ c[1] < c[N] /\ c[1] \in Nat
    BY <1>2, <2>1, CutsOrder DEF Cuts
  <2>3. s[c[1] + 1].role # "tool"
    BY <1>2, <2>1 DEF Groups
  <2>4. c[1] + 1 \in 2..Len(s)
    BY <1>3, <2>2
  <2> QED BY <2>3, <2>4
<1>5. Len(Slices(s, c, N)) = N
  BY <1>2, <1>3, SlicesAre
<1> QED BY <1>1, <1>4, <1>5

\* The files of a history without system messages.
LEMMA FilesAreSlices ==
  ASSUME NEW T, Sized(T), NEW s \in Seq(Unsystem(T)), IsReplaySafe(s), NEW bound \in Nat
  PROVE  \E N, c, f, L : /\ Parted(s, 0, N, c, Len(s)) /\ FilledUpto(s, c, N, bound, f, L, Len(s))
                         /\ PackSegments(s, bound) = Slices(s, f, L)
<1>1. PICK N, c : Parted(s, 0, N, c, Len(s)) /\ PartitionHistory(s) = Slices(s, c, N)
  BY PartitionIs
<1>2. Cuts(c, N, 0, Len(s)) /\ Sized(Unsystem(T)) /\ Len(s) \in Nat
  BY <1>1 DEF Parted, Sized, Unsystem
<1>3. Slices(s, c, N) \in Seq(Seq(Unsystem(T))) /\ Len(Slices(s, c, N)) = N
  BY <1>2, SlicesAre
<1>4. PICK z : Packs(z, PartitionHistory(s), bound)
               /\ PackSegments(s, bound) = Flushed(z[Len(PartitionHistory(s))])
  BY <1>1, <1>3, PackSegmentsPacks
<1>5. PICK f, L : FilledUpto(s, c, N, bound, f, L, Len(s)) /\ Flushed(z[N]) = Slices(s, f, L)
  BY <1>1, <1>2, <1>4, PackEnds
<1> QED BY <1>1, <1>3, <1>4, <1>5

\* What apply_context_budget keeps of a history without system messages may be replayed.
LEMMA KeptIsSafe ==
  ASSUME NEW T, Sized(T), NEW s \in Seq(Unsystem(T)), IsReplaySafe(s), NEW maxChars \in Int
  PROVE  IsReplaySafe(ApplyContextBudget(s, maxChars).messages)
<1>1. Sized(Unsystem(T)) /\ Len(s) \in Nat
  BY DEF Sized, Unsystem
<1>2. PICK l, N, c, i : Window(s, maxChars, l, N, c, i)
  BY <1>1, ApplyIsWindow
<1>3. /\ Parted(s, l, N, c, Len(s)) /\ i \in 0..N
      /\ \/ ApplyContextBudget(s, maxChars) = Refused
         \/ ApplyContextBudget(s, maxChars) = Kept(Part(s, 0, l) \o Part(s, c[i], Len(s)))
  BY <1>2 DEF Window
<1>4. l = 0
  <2>1. Cuts(c, N, l, Len(s)) /\ \A k \in 1..l : s[k].role = "system"
    BY <1>3 DEF Parted
  <2>2. l \in Nat /\ l <= Len(s)
    BY <2>1, CutsOrder DEF Cuts
  <2>3. \A k \in 1..Len(s) : s[k].role # "system"
    BY DEF Unsystem
  <2> QED BY <1>1, <2>1, <2>2, <2>3
<1>5. PICK rest : rest = Part(s, c[i], Len(s))
  OBVIOUS
<1>6. Between(s, c[i]) /\ Inside(s, c[i], Len(s))
  BY <1>3, CutsBetween
<1>7. IsReplaySafe(rest)
  <2>1. Between(s, Len(s)) /\ c[i] <= Len(s)
    BY <1>1, <1>6 DEF Between, Inside
  <2> QED BY <1>5, <1>6, <2>1, BetweenIsSafe
<1>8. Part(s, 0, l) \o rest = rest
  <2>1. rest \in Seq(Unsystem(T))
    BY <1>5, <1>6, PartIs DEF IsPart
  <2>2. Part(s, 0, l) = <<>>
    BY <1>4, PartEmpty
  <2> QED BY <2>1, <2>2
<1>9. CASE ApplyContextBudget(s, maxChars) = Refused
  BY <1>9, EmptyIsSafe DEF Refused
<1>10. CASE ApplyContextBudget(s, maxChars) = Kept(Part(s, 0, l) \o rest)
  <2>1. ApplyContextBudget(s, maxChars) = Kept(rest)
    BY <1>8, <1>10
  <2>2. Kept(rest).messages = rest
    BY DEF Kept
  <2> QED BY <1>7, <2>1, <2>2
<1> QED BY <1>3, <1>5, <1>9, <1>10
=============================================================================
