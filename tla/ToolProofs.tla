----------------------------- MODULE ToolProofs -----------------------------
(***************************************************************************)
(* Proofs about the tools: WorkspacePrivacy, for any workspace, catalog,   *)
(* ignore files and number of changes; ProcessBounds and CodexExec, for    *)
(* any bounds, chunks, pipes and output; WriteFile, for any number of      *)
(* changes by other programs.                                              *)
(***************************************************************************)
EXTENDS WorkspacePrivacy, CodexExec, WriteFile, SequenceTheorems, TLAPS

-----------------------------------------------------------------------------
(* Prefixes                                                                *)

\* A prefix agrees component by component.
LEMMA PrefixAgrees ==
  ASSUME NEW S, NEW s \in Seq(S), NEW t \in Seq(S)
  PROVE  IsPrefix(s, t) <=> Len(s) <= Len(t) /\ \A i \in 1..Len(s) : s[i] = t[i]
<1>1. Len(s) \in Nat /\ Len(t) \in Nat
  OBVIOUS
<1>2. CASE Len(s) <= Len(t)
  <2>1. /\ Len(SubSeq(s, 1, Len(s))) = Len(s) /\ SubSeq(s, 1, Len(s)) \in Seq(S)
        /\ \A i \in 1..Len(s) : SubSeq(s, 1, Len(s))[i] = s[i]
    BY <1>1, SubSeqProperties
  <2>2. /\ Len(SubSeq(t, 1, Len(s))) = Len(s) /\ SubSeq(t, 1, Len(s)) \in Seq(S)
        /\ \A i \in 1..Len(s) : SubSeq(t, 1, Len(s))[i] = t[i]
    BY <1>1, <1>2, SubSeqProperties
  <2>3. SubSeq(s, 1, Len(s)) = SubSeq(t, 1, Len(s)) <=> \A i \in 1..Len(s) : s[i] = t[i]
    BY <2>1, <2>2, SeqEqual
  <2> QED
    BY <1>2, <2>3 DEF IsPrefix
<1>3. CASE ~(Len(s) <= Len(t))
  BY <1>3 DEF IsPrefix
<1> QED
  BY <1>2, <1>3

\* A name leads into the workspace or to its root.
LEMMA NamesLead ==
  /\ \A n \in DirectoryNames : n.path \in Paths \cup {<<>>}
  /\ \A n \in DirectoryNames : n \in OtherNames \/ n.asked = n.path
  /\ \A p \in Paths : Own(p) \in DirectoryNames /\ Own(p).path = p
<1>1. ASSUME NEW n \in DirectoryNames
      PROVE  n.path \in Paths \cup {<<>>} /\ (n \in OtherNames \/ n.asked = n.path)
  <2>1. CASE n \in OtherNames
    BY <2>1, PathsAssumption
  <2>2. CASE n \in {Own(p) : p \in Paths \cup {<<>>}}
    <3>1. PICK p \in Paths \cup {<<>>} : n = [asked |-> p, path |-> p]
      BY <2>2 DEF Own
    <3>2. n.path = p /\ n.asked = p
      BY <3>1
    <3> QED
      BY <3>2
  <2>3. n \in OtherNames \/ n \in {Own(p) : p \in Paths \cup {<<>>}}
    BY DEF DirectoryNames
  <2> QED
    BY <2>1, <2>2, <2>3
<1>2. ASSUME NEW p \in Paths PROVE Own(p) \in DirectoryNames /\ Own(p).path = p
  <2>1. Own(p) \in {Own(q) : q \in Paths \cup {<<>>}}
    OBVIOUS
  <2>2. Own(p) \in DirectoryNames
    BY <2>1 DEF DirectoryNames
  <2>3. Own(p).path = p
    BY DEF Own
  <2> QED
    BY <2>2, <2>3
<1> QED
  BY <1>1, <1>2

\* What is compared are sequences of components.
LEMMA ComparedAreSequences ==
  /\ Paths \subseteq Seq(Component)
  /\ \A n \in DirectoryNames : n.asked \in Seq(Component) /\ n.path \in Seq(Component)
  /\ AbsoluteSuffixes \cup SensitiveSuffixes \subseteq Seq(Component)
  /\ AbsoluteSequences \cup SensitiveSequences \subseteq Seq(Component)
<1>1. Paths \subseteq Seq(Component) /\ {n.asked : n \in OtherNames} \subseteq Seq(Component)
  BY PathsAssumption DEF Compared
<1>2. /\ AbsoluteSuffixes \cup SensitiveSuffixes \subseteq Seq(Component)
      /\ AbsoluteSequences \cup SensitiveSequences \subseteq Seq(Component)
  BY PathsAssumption DEF Compared
<1>3. \A n \in DirectoryNames : n.asked \in Seq(Component) /\ n.path \in Seq(Component)
  <2>1. <<>> \in Seq(Component)
    OBVIOUS
  <2>2. \A n \in DirectoryNames : n.path \in Seq(Component)
    BY <1>1, <2>1, NamesLead
  <2>3. \A n \in OtherNames : n.asked \in Seq(Component)
    BY <1>1
  <2> QED
    BY <2>2, <2>3, NamesLead
<1> QED
  BY <1>1, <1>2, <1>3

\* Every path is below itself.
LEMMA PrefixReflexive == \A p \in Paths : IsPrefix(p, p)
BY ComparedAreSequences, PrefixAgrees

\* What is below a path is below whatever that is below.
LEMMA PrefixTransitive ==
  \A p, q, r \in Paths : IsPrefix(p, q) /\ IsPrefix(q, r) => IsPrefix(p, r)
<1> SUFFICES ASSUME NEW p \in Paths, NEW q \in Paths, NEW r \in Paths,
                    IsPrefix(p, q), IsPrefix(q, r)
             PROVE  IsPrefix(p, r)
  OBVIOUS
<1>1. p \in Seq(Component) /\ q \in Seq(Component) /\ r \in Seq(Component)
  BY ComparedAreSequences
<1>2. Len(p) <= Len(q) /\ \A i \in 1..Len(p) : p[i] = q[i]
  BY <1>1, PrefixAgrees
<1>3. Len(q) <= Len(r) /\ \A i \in 1..Len(q) : q[i] = r[i]
  BY <1>1, PrefixAgrees
<1>4. Len(p) \in Nat /\ Len(q) \in Nat /\ Len(r) \in Nat
  BY <1>1
<1> QED
  BY <1>1, <1>2, <1>3, <1>4, PrefixAgrees

\* A suffix agrees component by component, from the end.
LEMMA SuffixAgrees ==
  ASSUME NEW S, NEW s \in Seq(S), NEW t \in Seq(S)
  PROVE  IsSuffix(s, t) <=>
           Len(s) <= Len(t) /\ \A i \in 1..Len(s) : s[(Len(s) - i) + 1] = t[(Len(t) - i) + 1]
<1>1. Len(s) \in Nat /\ Len(t) \in Nat
  OBVIOUS
<1>2. ASSUME NEW u \in Seq(S)
      PROVE  /\ Reverse(u) \in Seq(S) /\ Len(Reverse(u)) = Len(u)
             /\ \A i \in 1..Len(u) : Reverse(u)[i] = u[(Len(u) - i) + 1]
  <2>1. \A i \in 1..Len(u) : (Len(u) - i) + 1 \in 1..Len(u)
    BY <1>2
  <2>2. Reverse(u) \in [1..Len(u) -> S]
    BY <2>1 DEF Reverse
  <2> QED
    BY <2>2 DEF Reverse
<1> QED
  BY <1>1, <1>2, PrefixAgrees DEF IsSuffix

\* What ends as its end does ends as it does.
LEMMA SuffixTransitive ==
  ASSUME NEW S, NEW r \in Seq(S), NEW s \in Seq(S), NEW t \in Seq(S),
         IsSuffix(r, s), IsSuffix(s, t)
  PROVE  IsSuffix(r, t)
<1>1. Len(r) <= Len(s) /\ \A i \in 1..Len(r) : r[(Len(r) - i) + 1] = s[(Len(s) - i) + 1]
  BY SuffixAgrees
<1>2. Len(s) <= Len(t) /\ \A i \in 1..Len(s) : s[(Len(s) - i) + 1] = t[(Len(t) - i) + 1]
  BY SuffixAgrees
<1>3. Len(r) \in Nat /\ Len(s) \in Nat /\ Len(t) \in Nat
  OBVIOUS
<1>4. \A i \in 1..Len(r) : i \in 1..Len(s)
  BY <1>1, <1>3
<1> QED
  BY <1>1, <1>2, <1>3, <1>4, SuffixAgrees

\* What a sequence contains is contained in whatever ends in it.
LEMMA SuffixContains ==
  ASSUME NEW S, NEW p \in Seq(S), NEW q \in Seq(S), IsSuffix(p, q),
         NEW sequences, sequences \subseteq Seq(S), ContainsOne(p, sequences)
  PROVE  ContainsOne(q, sequences)
<1>1. PICK r \in sequences, n \in 0..Len(p) : IsPrefix(r, SubSeq(p, n + 1, Len(p)))
  BY DEF ContainsOne
<1> DEFINE k == Len(q) - Len(p)
<1>2. /\ Len(p) \in Nat /\ Len(q) \in Nat /\ k \in Nat
      /\ \A i \in 1..Len(p) : p[(Len(p) - i) + 1] = q[(Len(q) - i) + 1]
  BY SuffixAgrees
<1>3. k + n \in 0..Len(q)
  BY <1>2
<1>4. ASSUME NEW i \in 1..(Len(p) - n) PROVE p[n + i] = q[(k + n) + i]
  <2>1. (Len(p) - (n + i)) + 1 \in 1..Len(p) /\ n + i \in 1..Len(p)
    BY <1>2
  <2>2. p[(Len(p) - ((Len(p) - (n + i)) + 1)) + 1] = q[(Len(q) - ((Len(p) - (n + i)) + 1)) + 1]
    BY <1>2, <2>1
  <2>3. /\ (Len(p) - ((Len(p) - (n + i)) + 1)) + 1 = n + i
        /\ (Len(q) - ((Len(p) - (n + i)) + 1)) + 1 = (k + n) + i
    BY <1>2
  <2> QED
    BY <2>2, <2>3
<1>5. ASSUME NEW t \in Seq(S), NEW m \in 0..Len(t)
      PROVE  /\ SubSeq(t, m + 1, Len(t)) \in Seq(S)
             /\ Len(SubSeq(t, m + 1, Len(t))) = Len(t) - m
             /\ \A i \in 1..(Len(t) - m) : SubSeq(t, m + 1, Len(t))[i] = t[m + i]
  BY SubSeqProperties
<1>6. Len(q) - (k + n) = Len(p) - n
  BY <1>2
<1>7. SubSeq(p, n + 1, Len(p)) = SubSeq(q, (k + n) + 1, Len(q))
  <2>1. /\ SubSeq(p, n + 1, Len(p)) \in Seq(S)
        /\ Len(SubSeq(p, n + 1, Len(p))) = Len(p) - n
        /\ \A i \in 1..(Len(p) - n) : SubSeq(p, n + 1, Len(p))[i] = p[n + i]
    BY <1>5
  <2>2. /\ SubSeq(q, (k + n) + 1, Len(q)) \in Seq(S)
        /\ Len(SubSeq(q, (k + n) + 1, Len(q))) = Len(q) - (k + n)
        /\ \A i \in 1..(Len(q) - (k + n)) : SubSeq(q, (k + n) + 1, Len(q))[i] = q[(k + n) + i]
    BY <1>3, <1>5
  <2>3. \A i \in 1..(Len(p) - n) :
          SubSeq(p, n + 1, Len(p))[i] = SubSeq(q, (k + n) + 1, Len(q))[i]
    BY <1>4, <1>6, <2>1, <2>2
  <2> HIDE DEF k
  <2> QED
    BY <1>6, <2>1, <2>2, <2>3, SeqEqual
<1> QED
  BY <1>1, <1>3, <1>7 DEF ContainsOne

\* The catalog looks at how a path ends and at what it contains: what it says of a path it
\* says of every name that ends in it.
LEMMA CatalogOfSuffix ==
  ASSUME NEW p \in Seq(Component), NEW q \in Seq(Component), IsSuffix(p, q)
  PROVE  /\ AbsoluteDeny(p) => AbsoluteDeny(q)
         /\ SensitiveBuiltin(p) => SensitiveBuiltin(q)
<1>1. ASSUME NEW suffixes, suffixes \subseteq Seq(Component), EndsWithOne(p, suffixes)
      PROVE  EndsWithOne(q, suffixes)
  BY <1>1, SuffixTransitive DEF EndsWithOne
<1>2. ASSUME NEW sequences, sequences \subseteq Seq(Component), ContainsOne(p, sequences)
      PROVE  ContainsOne(q, sequences)
  BY <1>2, SuffixContains
<1> QED
  BY <1>1, <1>2, ComparedAreSequences DEF AbsoluteDeny, SensitiveBuiltin
-----------------------------------------------------------------------------
(* The invariants                                                          *)

Policies == {RulesOf(f) : f \in IgnoreFiles}

PrivacyType ==
  /\ kind \in [Paths -> {"none", "file", "directory"}]
  /\ leadsTo \in [Paths -> Paths]
  /\ ignoring \in IgnoreFiles
  /\ phase \in {"declare", "run"}
  /\ exact \subseteq Paths /\ subtrees \subseteq Paths
  /\ cached \in Policies \cup {NoPolicy}
  /\ mark \subseteq [path : Paths, scope : Scopes]
  /\ relied \subseteq Paths
  /\ reading.does \in {"none", "open", "list", "answered"}
  /\ reading.does \in {"open", "list"} =>
       reading \in [does : {"open", "list"}, name : DirectoryNames, swapped : BOOLEAN]
  /\ reading.does = "open" => reading.name \in {Own(p) : p \in Paths}
  /\ phase = "declare" => reading = NoCall /\ denied = {}

\* Only files are links.
LinksAreFiles == \A p \in Paths : kind[p] = "directory" => leadsTo[p] = p

\* Once a call was checked, or something was denied, the policy is in the cache and stays
\* there for the rest of the run; what was checked, or shown as something, is allowed by it,
\* and what was denied is not.
CallInv ==
  /\ reading.does \in {"open", "list"} => cached # NoPolicy /\ cached.valid
  /\ reading.does = "open" /\ ~reading.swapped =>
       LET q == leadsTo[reading.name.path] IN kind[q] = "none" \/ Allowed(cached, q)
  /\ reading.does = "answered" /\ ~reading.swapped /\ reading.shown # {} =>
       /\ cached # NoPolicy /\ cached.valid
       /\ \A e \in reading.shown :
            e.path \in Seq(Component) /\ e.as \in Seq(Component) /\ Allowed(cached, e.as)
  /\ \A q \in denied : cached # NoPolicy /\ ~(cached.valid /\ Allowed(cached, q))

\* What runs relied on is below a descriptor of the mark, and in a run below what is
\* declared for it: to pass on the authority it is enough to cover the mark.
AuthorityInv ==
  /\ \A p \in relied : \E d \in mark : IsPrefix(d.path, p)
  /\ RenewedAuthority

PrivacyInv == PrivacyType /\ LinksAreFiles /\ CallInv /\ AuthorityInv

\* Initially no run has relied on anything.
LEMMA InitPrivacy == PrivacyInit => PrivacyInv
<1> SUFFICES ASSUME PrivacyInit PROVE PrivacyInv
  OBVIOUS
<1>1. PrivacyType /\ LinksAreFiles
  BY DEF PrivacyInit, PrivacyType, LinksAreFiles, NoCall
<1>2. CallInv /\ AuthorityInv
  BY DEF PrivacyInit, CallInv, AuthorityInv, RenewedAuthority, NoCall
<1> QED
  BY <1>1, <1>2 DEF PrivacyInv

\* Between runs, and while the next is declared, no call is in progress.
LEMMA Declaring ==
  ASSUME PrivacyInv, NEW p \in Paths, NEW scope \in Scopes, Declare(p, scope)
  PROVE  PrivacyInv'
<1>1. /\ UNCHANGED <<kind, leadsTo, ignoring, phase, mark, reading, relied, denied>>
      /\ phase = "declare" /\ cached' = NoPolicy
      /\ leadsTo[p] \in Paths
      /\ exact' \subseteq exact \cup {leadsTo[p]} /\ subtrees' \subseteq subtrees \cup {leadsTo[p]}
  BY DEF Declare, workspace, PrivacyInv, PrivacyType
<1> QED
  BY <1>1 DEF PrivacyInv, PrivacyType, LinksAreFiles, CallInv, AuthorityInv, RenewedAuthority, NoCall

\* authority_covers makes up for what the mark, and through it every earlier run, relied on.
LEMMA Beginning ==
  ASSUME PrivacyInv, BeginRun
  PROVE  PrivacyInv'
<1>1. /\ UNCHANGED <<kind, leadsTo, ignoring, exact, subtrees, cached, mark, reading, relied, denied>>
      /\ Covers(mark) /\ phase' = "run"
  BY DEF BeginRun, workspace, authorization
<1>2. ASSUME NEW p \in relied PROVE Authorizes(p) \/ \E f \in exact : IsPrefix(f, p)
  <2>1. PICK d \in mark : IsPrefix(d.path, p)
    BY DEF PrivacyInv, AuthorityInv
  <2>2. d.path \in Paths /\ p \in Paths /\ subtrees \subseteq Paths
    BY DEF PrivacyInv, PrivacyType
  <2>3. d.path \in exact \/ \E s \in subtrees : IsPrefix(s, d.path)
    BY <1>1 DEF Covers, Authorizes
  <2> QED
    BY <2>1, <2>2, <2>3, PrefixTransitive DEF Authorizes
<1>3. AuthorityInv'
  BY <1>1, <1>2 DEF PrivacyInv, AuthorityInv, RenewedAuthority, Authorizes
<1> QED
  BY <1>1, <1>3 DEF PrivacyInv, PrivacyType, LinksAreFiles, CallInv, Allowed, Authorizes

\* What a run is authorized for is below what it declared, and so below its descriptors.
LEMMA Marking ==
  ASSUME PrivacyInv, Mark
  PROVE  PrivacyInv'
<1>1. /\ UNCHANGED <<kind, leadsTo, ignoring, phase, exact, subtrees, cached, reading, denied>>
      /\ phase = "run"
      /\ mark' = [path : exact, scope : {"file"}] \cup [path : subtrees, scope : {"subtree"}]
      /\ relied' = relied \cup {p \in Paths : Authorizes(p)}
  BY DEF Mark, workspace, authorization
<1>2. ASSUME NEW q \in exact \cup subtrees PROVE \E d \in mark' : d.path = q
  <2>1. CASE q \in exact
    <3>1. [path |-> q, scope |-> "file"] \in mark'
      BY <1>1, <2>1
    <3> QED
      BY <3>1
  <2>2. CASE q \in subtrees
    <3>1. [path |-> q, scope |-> "subtree"] \in mark'
      BY <1>1, <2>2
    <3> QED
      BY <3>1
  <2> QED
    BY <2>1, <2>2
<1>3. \A p \in relied' : Authorizes(p) \/ \E f \in exact : IsPrefix(f, p)
  BY <1>1 DEF PrivacyInv, AuthorityInv, RenewedAuthority
<1>4. ASSUME NEW p \in relied' PROVE \E d \in mark' : IsPrefix(d.path, p)
  <2>1. p \in Paths
    BY <1>1 DEF PrivacyInv, PrivacyType
  <2>2. PICK q \in exact \cup subtrees : IsPrefix(q, p)
    BY <1>3, <2>1, PrefixReflexive DEF Authorizes
  <2> QED
    BY <1>2, <2>2
<1>5. AuthorityInv'
  BY <1>1, <1>3, <1>4 DEF AuthorityInv, RenewedAuthority, Authorizes
<1>6. mark' \subseteq [path : Paths, scope : Scopes] /\ relied' \subseteq Paths
  BY <1>1 DEF PrivacyInv, PrivacyType, Scopes
<1> QED
  BY <1>1, <1>5, <1>6 DEF PrivacyInv, PrivacyType, LinksAreFiles, CallInv, Allowed, Authorizes

\* The end of a run forgets its exceptions: the mark keeps what it relied on.
LEMMA Ending ==
  ASSUME PrivacyInv, EndRun
  PROVE  PrivacyInv'
BY DEF EndRun, workspace, PrivacyInv, PrivacyType, LinksAreFiles, CallInv, AuthorityInv,
   RenewedAuthority, NoCall
\* A step of a read tool: the authority and the workspace stay; the policy in force is
\* in the cache before and after.
ReadsOnly ==
  /\ UNCHANGED <<kind, leadsTo, ignoring, phase, exact, subtrees, mark, relied>>
  /\ phase = "run" /\ cached' = InForce

\* A policy that is cached is in force as it is, whatever the ignore files say now.
LEMMA InForceStays ==
  ASSUME PrivacyInv
  PROVE  /\ InForce \in Policies /\ InForce # NoPolicy
         /\ cached # NoPolicy => InForce = cached
BY AlterationsAssumption DEF InForce, Policies, PrivacyInv, PrivacyType

\* A call is let through only for what the policy in force allows.
LEMMA Checking ==
  ASSUME PrivacyInv, NEW name \in DirectoryNames, name.path \in Paths, NEW does \in {"open", "list"},
         does = "open" => name \in {Own(p) : p \in Paths},
         Check(name, does)
  PROVE  PrivacyInv'
<1> DEFINE q == leadsTo[name.path]
<1>1. ReadsOnly /\ q \in Paths
  BY DEF Check, ReadsOnly, workspace, authorization, PrivacyInv, PrivacyType
<1>2. InForce \in Policies /\ InForce # NoPolicy /\ (cached # NoPolicy => InForce = cached)
  BY InForceStays
<1>3. AuthorityInv' /\ LinksAreFiles'
  BY <1>1 DEF ReadsOnly, PrivacyInv, AuthorityInv, RenewedAuthority, Authorizes, LinksAreFiles
<1>4. CASE /\ InForce.valid /\ Allowed(InForce, q) /\ UNCHANGED denied
           /\ reading' = [does |-> does, name |-> name, swapped |-> FALSE]
  <2>1. PrivacyType'
    BY <1>1, <1>2, <1>4 DEF ReadsOnly, PrivacyInv, PrivacyType
  <2>2. CallInv'
    BY <1>1, <1>2, <1>4 DEF ReadsOnly, PrivacyInv, CallInv, Allowed, Authorizes
  <2> QED
    BY <1>3, <2>1, <2>2 DEF PrivacyInv
<1>5. CASE /\ ~(InForce.valid /\ Allowed(InForce, q)) /\ reading' = NoCall
           /\ denied' = denied \cup {q}
  <2>1. PrivacyType'
    BY <1>1, <1>2, <1>5 DEF ReadsOnly, PrivacyInv, PrivacyType, NoCall
  <2>2. CallInv'
    BY <1>1, <1>2, <1>5 DEF ReadsOnly, PrivacyInv, CallInv, Allowed, Authorizes, NoCall
  <2> QED
    BY <1>3, <2>1, <2>2 DEF PrivacyInv
<1> QED
  BY <1>4, <1>5 DEF Check

\* What is shown was checked under the name that the path leads to: that it still leads
\* there is what `swapped` stands for.
LEMMA Opening ==
  ASSUME PrivacyInv, Open
  PROVE  PrivacyInv'
<1> DEFINE q == leadsTo[reading.name.path]
<1>1. /\ UNCHANGED <<kind, leadsTo, ignoring, phase, exact, subtrees, cached, mark, relied, denied>>
      /\ reading.does = "open"
      /\ reading' = [does |-> "answered",
                     shown |-> IF kind[q] = "file" THEN {[path |-> q, as |-> q]} ELSE {},
                     swapped |-> reading.swapped]
  BY DEF Open, Answer, workspace, authorization
<1>2. phase = "run" /\ q \in Paths
  BY <1>1 DEF PrivacyInv, PrivacyType, NoCall, Own
<1>3. AuthorityInv' /\ LinksAreFiles'
  BY <1>1 DEF PrivacyInv, AuthorityInv, RenewedAuthority, Authorizes, LinksAreFiles
<1>4. PrivacyType'
  BY <1>1, <1>2 DEF PrivacyInv, PrivacyType
<1>5. CallInv'
  <2>1. q \in Seq(Component)
    BY <1>2, ComparedAreSequences
  <2>2. \A e \in reading'.shown : kind[q] = "file" /\ e = [path |-> q, as |-> q]
    BY <1>1
  <2> QED
    BY <1>1, <2>1, <2>2 DEF PrivacyInv, CallInv, Allowed, Authorizes
<1> QED
  BY <1>3, <1>4, <1>5 DEF PrivacyInv

\* A listing shows the entries that the policy in force allows as what they would be below the
\* name that was asked for.
LEMMA ListedIsAllowed ==
  ASSUME NEW name \in DirectoryNames, NEW e \in Listed(name)
  PROVE  e.path \in Seq(Component) /\ e.as \in Seq(Component) /\ Allowed(InForce, e.as)
<1>1. PICK c \in Component : /\ Discoverable(name.asked \o <<c>>)
                             /\ e = [path |-> name.path \o <<c>>, as |-> name.asked \o <<c>>]
  BY DEF Listed, Entries
<1>2. name.asked \in Seq(Component) /\ name.path \in Seq(Component) /\ <<c>> \in Seq(Component)
  BY ComparedAreSequences
<1>3. name.asked \o <<c>> \in Seq(Component) /\ name.path \o <<c>> \in Seq(Component)
  BY <1>2, ConcatProperties
<1> QED
  BY <1>1, <1>3 DEF Discoverable

LEMMA Listing ==
  ASSUME PrivacyInv, NEW name \in DirectoryNames, List(name)
  PROVE  PrivacyInv'
<1>1. ReadsOnly /\ UNCHANGED denied
  BY DEF List, ReadsOnly, workspace, authorization
<1>2. InForce \in Policies /\ InForce # NoPolicy /\ (cached # NoPolicy => InForce = cached)
  BY InForceStays
<1>3. AuthorityInv' /\ LinksAreFiles'
  BY <1>1 DEF ReadsOnly, PrivacyInv, AuthorityInv, RenewedAuthority, Authorizes, LinksAreFiles
<1>4. /\ reading'.does = "answered" /\ InForce.valid
      /\ \A e \in reading'.shown : e \in Listed(name)
  <2>1. CASE InForce.valid
             /\ reading' = [does |-> "answered", shown |-> Listed(name), swapped |-> FALSE]
    BY <2>1
  <2>2. CASE reading.does = "list"
             /\ Answer(IF kind[name.path] = "directory" THEN Listed(name) ELSE {})
    BY <1>2, <2>2 DEF Answer, PrivacyInv, CallInv
  <2> QED
    BY <2>1, <2>2 DEF List
<1>5. PrivacyType'
  BY <1>1, <1>2, <1>4 DEF ReadsOnly, PrivacyInv, PrivacyType
<1>6. \A e \in reading'.shown :
        e.path \in Seq(Component) /\ e.as \in Seq(Component) /\ Allowed(InForce, e.as)
  BY <1>4, ListedIsAllowed
<1>7. CallInv'
  BY <1>1, <1>2, <1>4, <1>6 DEF ReadsOnly, PrivacyInv, CallInv, Allowed, Authorizes
<1> QED
  BY <1>3, <1>5, <1>7 DEF PrivacyInv

\* The workspace changes.  The policy of the run is in the cache, and what is asked for
\* leads where it led, is gone, or is noted as swapped.
LEMMA Altering ==
  ASSUME PrivacyInv,
         \/ Alter(EditIgnoreFiles)
         \/ \E p \in Paths : Alter(Relink(p)) \/ Alter(DirectoryBecomesFile(p))
  PROVE  PrivacyInv'
<1>1. UNCHANGED <<phase, exact, subtrees, cached, mark, relied, denied>>
  BY DEF Alter, authorization
<1>2. AuthorityInv'
  BY <1>1 DEF PrivacyInv, AuthorityInv, RenewedAuthority, Authorizes
<1>3. CASE Alter(EditIgnoreFiles)
  <2>1. UNCHANGED <<kind, leadsTo, reading>> /\ ignoring' \in IgnoreFiles
    BY <1>3 DEF Alter, EditIgnoreFiles
  <2> QED
    BY <1>1, <1>2, <2>1 DEF PrivacyInv, PrivacyType, LinksAreFiles, CallInv, Allowed, Authorizes
<1>4. ASSUME NEW p \in Paths, Alter(Relink(p)) PROVE PrivacyInv'
  <2>1. PICK q \in Paths : kind[p] = "file" /\ leadsTo' = [leadsTo EXCEPT ![p] = q]
    BY <1>4 DEF Alter, Relink
  <2>2. /\ UNCHANGED <<kind, ignoring>>
        /\ reading' = IF reading.does = "open" /\ reading.name = Own(p)
                      THEN [reading EXCEPT !.swapped = TRUE] ELSE reading
    BY <1>4 DEF Alter, Relink
  <2>3. LinksAreFiles'
    BY <2>1, <2>2 DEF PrivacyInv, PrivacyType, LinksAreFiles
  <2>4. CASE reading.does = "open" /\ reading.name = Own(p)
    <3>1. /\ reading' \in [does : {"open"}, name : DirectoryNames, swapped : {TRUE}]
          /\ reading'.name = reading.name
      BY <2>2, <2>4 DEF PrivacyInv, PrivacyType
    <3>2. phase = "run"
      BY <2>4 DEF PrivacyInv, PrivacyType, NoCall
    <3>3. PrivacyType'
      BY <1>1, <2>1, <2>2, <3>1, <3>2 DEF PrivacyInv, PrivacyType
    <3>4. CallInv'
      BY <1>1, <2>4, <3>1 DEF PrivacyInv, CallInv, Allowed, Authorizes
    <3> QED
      BY <1>2, <2>3, <3>3, <3>4 DEF PrivacyInv
  <2>5. CASE ~(reading.does = "open" /\ reading.name = Own(p))
    <3>1. PrivacyType'
      BY <1>1, <2>1, <2>2, <2>5 DEF PrivacyInv, PrivacyType
    <3>2. reading.does = "open" => leadsTo'[reading.name.path] = leadsTo[reading.name.path]
      BY <2>1, <2>5 DEF PrivacyInv, PrivacyType, Own
    <3>3. CallInv'
      BY <1>1, <2>2, <2>5, <3>2 DEF PrivacyInv, CallInv, Allowed, Authorizes
    <3> QED
      BY <1>2, <2>3, <3>1, <3>3 DEF PrivacyInv
  <2> QED
    BY <2>4, <2>5
<1>5. ASSUME NEW d \in Paths, Alter(DirectoryBecomesFile(d)) PROVE PrivacyInv'
  <2>1. /\ UNCHANGED <<ignoring, reading>> /\ kind[d] = "directory"
        /\ kind' = [p \in Paths |-> IF p = d THEN "file"
                                    ELSE IF IsPrefix(d, p) THEN "none" ELSE kind[p]]
        /\ leadsTo' = [p \in Paths |-> IF IsPrefix(d, p) THEN p ELSE leadsTo[p]]
        /\ \A p \in Paths : IsPrefix(d, leadsTo[p]) => IsPrefix(d, p)
    BY <1>5 DEF Alter, DirectoryBecomesFile
  <2>2. PrivacyType' /\ LinksAreFiles'
    BY <1>1, <2>1 DEF PrivacyInv, PrivacyType, LinksAreFiles
  <2>3. ASSUME NEW p \in Paths, kind[leadsTo[p]] = "none" \/ Allowed(cached, leadsTo[p])
        PROVE  kind'[leadsTo'[p]] = "none" \/ Allowed(cached, leadsTo'[p])
    <3>1. leadsTo[p] \in Paths /\ leadsTo[d] = d
      BY <2>1 DEF PrivacyInv, PrivacyType, LinksAreFiles
    <3> QED
      BY <2>1, <2>3, <3>1
  <2>4. reading.does = "open" => reading.name.path \in Paths
    BY DEF PrivacyInv, PrivacyType, Own
  <2>5. CallInv'
    BY <1>1, <2>1, <2>3, <2>4 DEF PrivacyInv, CallInv, Allowed, Authorizes
  <2> QED
    BY <1>2, <2>2, <2>5 DEF PrivacyInv
<1> QED
  BY <1>3, <1>4, <1>5

\* Every step keeps the invariant.
LEMMA NextPrivacy == PrivacyInv /\ [PrivacyNext]_privacy => PrivacyInv'
<1> SUFFICES ASSUME PrivacyInv, [PrivacyNext]_privacy PROVE PrivacyInv'
  OBVIOUS
<1>1. CASE UNCHANGED privacy
  BY <1>1 DEF privacy, workspace, authorization, PrivacyInv, PrivacyType, LinksAreFiles, CallInv,
     AuthorityInv, RenewedAuthority, Allowed, Authorizes
<1>2. CASE \/ Alter(EditIgnoreFiles)
           \/ \E p \in Paths : Alter(Relink(p)) \/ Alter(DirectoryBecomesFile(p))
  BY <1>2, Altering
<1>3. ASSUME NEW p \in Paths, Check(Own(p), "open") PROVE PrivacyInv'
  <2>1. Own(p) \in DirectoryNames /\ Own(p).path \in Paths /\ Own(p) \in {Own(q) : q \in Paths}
    BY NamesLead
  <2> QED
    BY <1>3, <2>1, Checking
<1>7. ASSUME NEW name \in DirectoryNames, name.path # <<>>, Check(name, "list") PROVE PrivacyInv'
  <2>1. name.path \in Paths
    BY <1>7, NamesLead
  <2> QED
    BY <1>7, <2>1, Checking
<1>4. CASE \E name \in DirectoryNames : List(name)
  BY <1>4, Listing
<1>5. CASE \E p \in Paths, scope \in Scopes : Declare(p, scope)
  BY <1>5, Declaring
<1>6. CASE BeginRun \/ Mark \/ EndRun \/ Open
  BY <1>6, Beginning, Marking, Ending, Opening
<1> QED
  BY <1>1, <1>2, <1>3, <1>4, <1>5, <1>6, <1>7 DEF PrivacyNext

\* The invariant holds throughout.
LEMMA PrivacyInvariant == PrivacySpec => []PrivacyInv
BY InitPrivacy, NextPrivacy, PTL DEF PrivacySpec

-----------------------------------------------------------------------------
(* The theorems                                                            *)

\* Whatever others do to the names and the ignore files, what a read shows, or a listing
\* under the path of the directory, is allowed by the policy of the run, and the catalog
\* holds under every name that ends in the path; but for a name that is turned between check
\* and opening.
THEOREM OnlyTheAllowedIsShown == PrivacySpec => []ShownIsAllowed
<1>1. PrivacyInv => ShownIsAllowed
  <2> SUFFICES ASSUME PrivacyInv, reading.does = "answered", reading.shown # {}, ~reading.swapped,
                      NEW e \in reading.shown
               PROVE  /\ cached.valid
                      /\ IsSuffix(e.path, e.as) =>
                           ~AbsoluteDeny(e.path) /\ (SensitiveBuiltin(e.path) => Authorizes(e.as))
                      /\ e.as = e.path => (Ignored(cached, e.path) => Authorizes(e.path))
    BY DEF ShownIsAllowed
  <2>1. /\ cached.valid
        /\ e.path \in Seq(Component) /\ e.as \in Seq(Component) /\ Allowed(cached, e.as)
    BY DEF PrivacyInv, CallInv
  <2>2. ~AbsoluteDeny(e.as) /\ (SensitiveBuiltin(e.as) \/ Ignored(cached, e.as) => Authorizes(e.as))
    BY <2>1 DEF Allowed, Sensitive
  <2>3. ASSUME IsSuffix(e.path, e.as)
        PROVE  ~AbsoluteDeny(e.path) /\ (SensitiveBuiltin(e.path) => Authorizes(e.as))
    BY <2>1, <2>2, <2>3, CatalogOfSuffix
  <2> QED
    BY <2>1, <2>2, <2>3
<1> QED
  BY <1>1, PrivacyInvariant, PTL

\* A denial holds for the rest of the run, for reads under every name of the file and for
\* listings under the path of its directory, against every change of the ignore files.
THEOREM DenialHolds == PrivacySpec => []DeniedStaysDenied
<1>1. PrivacyInv => DeniedStaysDenied
  <2> SUFFICES ASSUME PrivacyInv, reading.does = "answered", ~reading.swapped,
                      NEW e \in reading.shown, e.as = e.path, e.path \in denied
               PROVE  FALSE
    BY DEF DeniedStaysDenied
  <2> QED
    BY DEF PrivacyInv, CallInv
<1> QED
  BY <1>1, PrivacyInvariant, PTL

\* To cover the descriptors of the last marking run is to cover what all the runs before relied
\* on: no chain of runs loses what an earlier one was allowed to put into the history.
THEOREM AuthorityIsRenewed == PrivacySpec => []RenewedAuthority
<1>1. PrivacyInv => RenewedAuthority
  BY DEF PrivacyInv, AuthorityInv
<1> QED
  BY <1>1, PrivacyInvariant, PTL

(***************************************************************************)
(* ProcessBounds and CodexExec.                                            *)
(*                                                                         *)
(* What a drain has retained is a function of how much it has read and how *)
(* much of that is still in the text layer (Accounted); the result follows *)
(* at the end of the pipe, where the text layer is empty.                  *)
(***************************************************************************)

DrainRecord ==
  [pc : Draining \cup Drained, decoded : Nat, retained : Nat, truncated : BOOLEAN]

ProcType ==
  /\ caller \in [does : {"wait", "kill", "join", "close", "last_join", "returned"},
                 stream : Stream]
  /\ child \in {"runs", "exited", "killed"}
  /\ heirs \subseteq Stream
  /\ written \in [Stream -> Nat]
  /\ bad \in [Stream -> Nat]
  /\ taken \in [Stream -> Nat]
  /\ drain \in [Stream -> DrainRecord]
  /\ closed \in [Stream -> BOOLEAN]

\* Delivered to the loop of _drain_stream: what was read, but for the text layer.
Delivered(s) == taken[s] - drain[s].decoded

Accounted(s) ==
  /\ drain[s].decoded <= taken[s] /\ taken[s] <= written[s]
  /\ drain[s].retained = Smaller(Bound[s], Delivered(s))
  /\ drain[s].truncated <=> Delivered(s) > Bound[s]

\* Why a drain has ended.
EndedFor(s) ==
  /\ drain[s].pc = "eof" => drain[s].decoded = 0 /\ taken[s] = written[s] /\ ~HeldOpen(s)
  /\ drain[s].pc = "undecodable" => bad[s] \in 1..taken[s]
  /\ drain[s].pc = "closed" => closed[s]

ProcInv ==
  /\ ProcType
  /\ \A s \in Stream : Accounted(s) /\ EndedFor(s)
  /\ caller.does \notin {"wait", "kill"} => child # "runs"

\* The CLI that is gone with code 0 has left no file half-written, unless it was killed.
CodeInv ==
  /\ child = "killed" => code = Killed
  /\ child = "exited" /\ code = 0 => finalFile # "begun"
  /\ finalFile \in {"absent", "begun", "whole", "long"}

-----------------------------------------------------------------------------
(* The subprocess                                                          *)

\* Initially nothing was written, read or retained.
LEMMA InitProc == SubprocessInit => ProcInv
<1> SUFFICES ASSUME SubprocessInit PROVE ProcInv
  OBVIOUS
<1>1. ProcType
  BY BoundsAssumption DEF SubprocessInit, ProcType, DrainRecord, Draining, Stream
<1>2. \A s \in Stream : Accounted(s) /\ EndedFor(s)
  BY BoundsAssumption DEF SubprocessInit, Accounted, EndedFor, Delivered, Smaller
<1> QED
  BY <1>1, <1>2 DEF SubprocessInit, ProcInv

\* Once nobody holds a pipe, nobody will.
LEMMA StaysReleased ==
  ASSUME NEW s \in Stream, ~HeldOpen(s), child' = child \/ child = "runs",
         heirs' = heirs \/ heirs' = {} \/ child = "runs"
  PROVE  ~HeldOpen(s)'
BY DEF HeldOpen

\* The caller and what is outside of the program do not change what was read.
LEMMA CallerStep ==
  ASSUME ProcInv, Caller
  PROVE  ProcInv'
<1>1. UNCHANGED <<heirs, written, bad, taken, drain>>
  BY DEF Caller, Reap, Expire, Kill, Join, LeaveThread, Close
<1>2. ProcType'
  <2>1. caller' \in [does : {"wait", "kill", "join", "close", "last_join", "returned"},
                     stream : Stream]
    BY DEF Caller, Reap, Expire, Kill, Join, LeaveThread, Close, Advance, After, ProcInv, ProcType,
       Stream
  <2>2. child' \in {"runs", "exited", "killed"} /\ closed' \in [Stream -> BOOLEAN]
    BY DEF Caller, Reap, Expire, Kill, Join, LeaveThread, Close, ProcInv, ProcType
  <2> QED
    BY <1>1, <2>1, <2>2 DEF ProcInv, ProcType
<1>3. ASSUME NEW s \in Stream PROVE (Accounted(s) /\ EndedFor(s))'
  <2>1. child' = child \/ child = "runs"
    BY DEF Caller, Reap, Expire, Kill, Join, LeaveThread, Close
  <2>2. closed[s] => closed'[s]
    BY DEF Caller, Reap, Expire, Kill, Join, LeaveThread, Close, ProcInv, ProcType
  <2> QED
    BY <1>1, <2>1, <2>2, StaysReleased DEF ProcInv, Accounted, EndedFor, Delivered
<1>4. caller'.does \notin {"wait", "kill"} => child' # "runs"
  BY DEF Caller, Reap, Expire, Kill, Join, LeaveThread, Close, Advance, After, ProcInv, ProcType,
     Expires
<1> QED
  BY <1>2, <1>3, <1>4 DEF ProcInv

\* The child and those that inherited its pipes leave the drains and the caller alone.
LEMMA OutsideStep ==
  ASSUME ProcInv, Outside
  PROVE  ProcInv'
<1>1. UNCHANGED <<caller, bad, taken, drain, closed>>
  BY DEF Outside, Fork, HeirEnds, Exit, Write
<1>2. ProcType'
  BY DEF Outside, Fork, HeirEnds, Exit, Write, ProcInv, ProcType
<1>3. ASSUME NEW s \in Stream PROVE (Accounted(s) /\ EndedFor(s))'
  <2>1. child' = child \/ child = "runs"
    BY DEF Outside, Fork, HeirEnds, Exit, Write
  <2>2. heirs' = heirs \/ heirs' = {} \/ child = "runs"
    BY DEF Outside, Fork, HeirEnds, Exit, Write
  <2>3. written'[s] >= written[s] /\ (~HeldOpen(s) => written'[s] = written[s])
    BY DEF Outside, Fork, HeirEnds, Exit, Write, ProcInv, ProcType
  <2> QED
    BY <1>1, <1>2, <2>1, <2>2, <2>3, StaysReleased
       DEF ProcInv, ProcType, Accounted, EndedFor, Delivered
<1>4. child' = "runs" => child = "runs"
  BY DEF Outside, Fork, HeirEnds, Exit, Write
<1> QED
  BY <1>1, <1>2, <1>3, <1>4 DEF ProcInv
\* A step of one drain changes nothing else than that drain and what it has read.
DrainsOnly(s) ==
  /\ UNCHANGED <<caller, child, heirs, written, bad, closed>>
  /\ drain' \in [Stream -> DrainRecord]
  /\ \A t \in Stream \ {s} : drain'[t] = drain[t] /\ taken'[t] = taken[t]

\* A drain that changes leaves the records of the other in place.
LEMMA OneDrain ==
  ASSUME ProcInv, NEW s \in Stream, DrainsOnly(s), taken' \in [Stream -> Nat],
         Accounted(s)', EndedFor(s)'
  PROVE  ProcInv'
<1>1. ASSUME NEW t \in Stream \ {s} PROVE (Accounted(t) /\ EndedFor(t))'
  BY DEF ProcInv, DrainsOnly, Accounted, EndedFor, Delivered, HeldOpen
<1> QED
  BY <1>1 DEF ProcInv, ProcType, DrainsOnly

\* A block of what was read, and no more, goes to the loop: what is retained of everything
\* that has gone there stays the first Bound characters.
LEMMA Retaining ==
  ASSUME ProcInv, NEW s \in Stream, NEW block \in 0..drain[s].decoded,
         NEW then \in Draining \cup Drained,
         drain' = [drain EXCEPT ![s] = Retain(drain[s], block, Room(s), then)],
         UNCHANGED <<caller, child, heirs, written, bad, taken, closed>>
  PROVE  /\ DrainsOnly(s) /\ Accounted(s)'
         /\ drain'[s].pc = then /\ drain'[s].decoded = drain[s].decoded - block
<1> DEFINE d == drain[s]
<1>1. d \in DrainRecord /\ Bound[s] \in Nat /\ taken[s] \in Nat
  BY BoundsAssumption DEF ProcInv, ProcType
<1>2. /\ d.decoded \in Nat /\ d.retained \in Nat /\ d.truncated \in BOOLEAN
      /\ d.decoded <= taken[s]
      /\ d.retained = Smaller(Bound[s], taken[s] - d.decoded)
      /\ d.truncated <=> taken[s] - d.decoded > Bound[s]
  BY <1>1 DEF ProcInv, DrainRecord, Accounted, Delivered
<1>3. d.retained + Smaller(block, Bound[s] - d.retained) \in Nat
  BY <1>1, <1>2 DEF Smaller
<1>4. PICK cut \in BOOLEAN : cut = (d.truncated \/ block > Bound[s] - d.retained)
  OBVIOUS
<1>5. drain'[s] = [pc |-> then, decoded |-> d.decoded - block,
                   retained |-> d.retained + Smaller(block, Bound[s] - d.retained),
                   truncated |-> cut]
  BY <1>4 DEF ProcInv, ProcType, Retain, Room
<1>6. drain'[s] \in DrainRecord
  BY <1>2, <1>3, <1>5 DEF DrainRecord
<1>7. DrainsOnly(s)
  BY <1>6 DEF DrainsOnly, ProcInv, ProcType
<1>8. /\ drain'[s].decoded = d.decoded - block
      /\ drain'[s].retained = d.retained + Smaller(block, Bound[s] - d.retained)
      /\ drain'[s].truncated = cut
      /\ drain'[s].pc = then
  BY <1>5
<1>9. Accounted(s)'
  <2>1. drain'[s].decoded <= taken'[s] /\ taken'[s] <= written'[s]
    BY <1>1, <1>2, <1>8 DEF ProcInv, Accounted
  <2>2. Delivered(s)' = taken[s] - d.decoded + block
    BY <1>1, <1>2, <1>8 DEF Delivered
  <2>3. drain'[s].retained = Smaller(Bound[s], taken[s] - d.decoded + block)
    BY <1>1, <1>2, <1>8 DEF Smaller
  <2>4. drain'[s].truncated <=> taken[s] - d.decoded + block > Bound[s]
    <3>1. cut <=> d.truncated \/ block > Bound[s] - d.retained
      BY <1>4
    <3>2. cut <=> taken[s] - d.decoded + block > Bound[s]
      BY <1>1, <1>2, <3>1 DEF Smaller
    <3> QED
      BY <1>8, <3>2
  <2> QED
    BY <2>1, <2>2, <2>3, <2>4 DEF Accounted
<1> QED
  BY <1>7, <1>8, <1>9

\* Whatever a drain does, what it retained stays accounted for.
LEMMA DrainStep ==
  ASSUME ProcInv, NEW s \in Stream, Drain(s)
  PROVE  ProcInv'
<1>0. drain[s] \in DrainRecord /\ Accounted(s) /\ EndedFor(s)
  BY DEF ProcInv, ProcType
<1>1. CASE Enter(s) \/ ReadClosed(s)
  <2>1. \E then \in {"reading", "closed"} :
          /\ drain' = [drain EXCEPT ![s].pc = then]
          /\ then = "closed" => closed[s]
    BY <1>1 DEF Enter, ReadClosed
  <2>2. PICK then \in {"reading", "closed"} :
          /\ drain' = [drain EXCEPT ![s].pc = then]
          /\ then = "closed" => closed[s]
    BY <2>1
  <2>3. UNCHANGED <<caller, child, heirs, written, bad, closed, taken>>
    BY <1>1 DEF Enter, ReadClosed
  <2>4. /\ drain'[s].pc = then /\ drain'[s].decoded = drain[s].decoded
        /\ drain'[s].retained = drain[s].retained /\ drain'[s].truncated = drain[s].truncated
    BY <2>2 DEF ProcInv, ProcType, DrainRecord
  <2>5. DrainsOnly(s)
    BY <2>2, <2>3 DEF DrainsOnly, ProcInv, ProcType, DrainRecord, Draining, Drained
  <2>6. Accounted(s)' /\ EndedFor(s)'
    BY <1>0, <2>2, <2>3, <2>4 DEF Accounted, EndedFor, Delivered
  <2> QED
    BY <2>3, <2>5, <2>6, OneDrain DEF ProcInv, ProcType
<1>2. CASE Read(s)
  <2>1. /\ taken' = [taken EXCEPT ![s] = written[s]] /\ taken[s] < written[s]
        /\ UNCHANGED <<caller, child, heirs, written, bad, closed>>
    BY <1>2 DEF Read
  <2>2. PICK then \in {"undecodable", "between"} :
          then = IF bad[s] \in taken[s] + 1 .. written[s] THEN "undecodable" ELSE "between"
    OBVIOUS
  <2> DEFINE f == [drain EXCEPT ![s].pc = then]
  <2>3. drain' = [f EXCEPT ![s].decoded = drain[s].decoded + written[s] - taken[s]]
    BY <1>2, <2>2 DEF Read
  <2>4. /\ f \in [Stream -> DrainRecord] /\ f[s].pc = then
        /\ f[s].retained = drain[s].retained /\ f[s].truncated = drain[s].truncated
        /\ \A t \in Stream \ {s} : f[t] = drain[t]
    BY DEF ProcInv, ProcType, DrainRecord, Draining, Drained
  <2>5. written[s] \in Nat /\ taken[s] \in Nat /\ bad[s] \in Nat /\ drain[s].decoded \in Nat
    BY <1>0 DEF ProcInv, ProcType, DrainRecord
  <2> HIDE DEF f
  <2>6. drain[s].decoded + written[s] - taken[s] \in Nat
    BY <2>1, <2>5
  <2>7. [f[s] EXCEPT !.decoded = drain[s].decoded + written[s] - taken[s]] \in DrainRecord
    BY <2>4, <2>6 DEF DrainRecord
  <2>8. drain' = [f EXCEPT ![s] = [f[s] EXCEPT !.decoded =
                                     drain[s].decoded + written[s] - taken[s]]]
    BY <2>3
  <2>9. drain' \in [Stream -> DrainRecord] /\ \A t \in Stream \ {s} : drain'[t] = drain[t]
    BY <2>4, <2>7, <2>8
  <2>10. /\ drain'[s].decoded = drain[s].decoded + written[s] - taken[s]
         /\ drain'[s].pc = then
         /\ drain'[s].retained = drain[s].retained /\ drain'[s].truncated = drain[s].truncated
    BY <2>4, <2>8 DEF DrainRecord
  <2>11. DrainsOnly(s) /\ taken' \in [Stream -> Nat]
    BY <2>1, <2>5, <2>9 DEF DrainsOnly, ProcInv, ProcType
  <2>12. taken'[s] = written[s]
    BY <2>1 DEF ProcInv, ProcType
  <2>13. Accounted(s)'
    BY <1>0, <2>1, <2>5, <2>10, <2>12 DEF Accounted, Delivered
  <2>14. EndedFor(s)'
    BY <2>1, <2>2, <2>5, <2>10, <2>12 DEF EndedFor
  <2> QED
    BY <2>11, <2>13, <2>14, OneDrain
<1>3. CASE Deliver(s)
  <2>1. Chunk \in 0..drain[s].decoded
    BY <1>0, <1>3, BoundsAssumption DEF Deliver, DrainRecord
  <2>2. /\ drain' = [drain EXCEPT ![s] = Retain(drain[s], Chunk, Room(s), "between")]
        /\ UNCHANGED <<caller, child, heirs, written, bad, taken, closed>>
    BY <1>3 DEF Deliver, KeepsReading
  <2>3. DrainsOnly(s) /\ Accounted(s)' /\ drain'[s].pc = "between"
    BY <2>1, <2>2, Retaining DEF Draining
  <2> QED
    BY <2>2, <2>3, OneDrain DEF EndedFor, ProcInv, ProcType
<1>4. CASE Eof(s)
  <2>1. drain[s].decoded \in 0..drain[s].decoded
    BY <1>0 DEF DrainRecord
  <2>2. /\ drain' = [drain EXCEPT ![s] = Retain(drain[s], drain[s].decoded, Room(s), "eof")]
        /\ UNCHANGED <<caller, child, heirs, written, bad, taken, closed>>
    BY <1>4 DEF Eof
  <2>3. DrainsOnly(s) /\ Accounted(s)' /\ drain'[s].pc = "eof"
        /\ drain'[s].decoded = drain[s].decoded - drain[s].decoded
    BY <2>1, <2>2, Retaining DEF Drained
  <2>4. EndedFor(s)'
    BY <1>0, <1>4, <2>2, <2>3 DEF EndedFor, Eof, HeldOpen, DrainRecord
  <2> QED
    BY <2>2, <2>3, <2>4, OneDrain DEF ProcInv, ProcType
<1> QED
  BY <1>1, <1>2, <1>3, <1>4 DEF Drain

\* Every step of the subprocess keeps the invariant.
LEMMA NextProc == ProcInv /\ [SubprocessNext]_subprocess => ProcInv'
<1> SUFFICES ASSUME ProcInv, [SubprocessNext]_subprocess PROVE ProcInv'
  OBVIOUS
<1>1. CASE UNCHANGED subprocess
  BY <1>1 DEF subprocess, ProcInv, ProcType, Accounted, EndedFor, Delivered, HeldOpen
<1> QED
  BY <1>1, CallerStep, OutsideStep, DrainStep DEF SubprocessNext, Done

\* No interleaving of the child, what it has left in the background, the drains and the
\* caller gives a result that is cut without being marked, or marked without being cut.
THEOREM Truthful == SubprocessSpec => []ResultIsTruthful
<1>1. ProcInv => ResultIsTruthful
  <2> SUFFICES ASSUME ProcInv, NEW s \in Stream
               PROVE  /\ drain[s].pc \in Drained /\ ~closed[s]
                           => \/ taken[s] = written[s] /\ ~HeldOpen(s)
                              \/ bad[s] \in 1..taken[s]
                      /\ drain[s].retained <= Bound[s]
                      /\ drain[s].truncated => drain[s].retained = Bound[s] /\ written[s] > Bound[s]
                      /\ drain[s].pc = "eof" =>
                           /\ drain[s].retained = Smaller(Bound[s], written[s])
                           /\ drain[s].truncated <=> written[s] > Bound[s]
    BY DEF ResultIsTruthful, DrainsToTheEnd
  <2>1. /\ Bound[s] \in Nat /\ taken[s] \in Nat /\ written[s] \in Nat /\ drain[s].decoded \in Nat
        /\ Accounted(s) /\ EndedFor(s)
    BY BoundsAssumption DEF ProcInv, ProcType, DrainRecord
  <2>2. drain[s].decoded <= taken[s] /\ taken[s] <= written[s]
    BY <2>1 DEF Accounted
  <2>3. drain[s].retained = Smaller(Bound[s], taken[s] - drain[s].decoded)
    BY <2>1 DEF Accounted, Delivered
  <2>4. drain[s].truncated <=> taken[s] - drain[s].decoded > Bound[s]
    BY <2>1 DEF Accounted, Delivered
  <2>5. drain[s].pc = "eof" => drain[s].decoded = 0 /\ taken[s] = written[s]
    BY <2>1 DEF EndedFor
  <2>6. drain[s].pc \in Drained /\ ~closed[s]
          => \/ taken[s] = written[s] /\ ~HeldOpen(s)
             \/ bad[s] \in 1..taken[s]
    BY <2>1 DEF EndedFor, Drained
  <2>7. drain[s].retained <= Bound[s]
    BY <2>1, <2>2, <2>3 DEF Smaller
  <2>8. drain[s].truncated => drain[s].retained = Bound[s] /\ written[s] > Bound[s]
    BY <2>1, <2>2, <2>3, <2>4 DEF Smaller
  <2>9. drain[s].pc = "eof" => /\ drain[s].retained = Smaller(Bound[s], written[s])
                               /\ drain[s].truncated <=> written[s] > Bound[s]
    BY <2>1, <2>3, <2>4, <2>5
  <2> QED
    BY <2>6, <2>7, <2>8, <2>9
<1> QED
  BY <1>1, InitProc, NextProc, PTL DEF SubprocessSpec

-----------------------------------------------------------------------------
(* codex exec                                                              *)

\* Every step of the call is one of its subprocess, or none.
LEMMA ExecProc == ExecNext => [SubprocessNext]_subprocess
BY DEF ExecNext, Say, WriteFinal, KillCli, ExitWith, SubprocessNext, Caller, Outside, Stream

\* Every step of the Codex runner keeps what is known of exit code and file.
LEMMA NextCode == ProcInv /\ CodeInv /\ [ExecNext]_<<subprocess, codexExec>> => CodeInv'
<1> SUFFICES ASSUME ProcInv, CodeInv, [ExecNext]_<<subprocess, codexExec>> PROVE CodeInv'
  OBVIOUS
<1>1. CASE Say \/ WriteFinal
  BY <1>1 DEF Say, Write, WriteFinal, subprocess, codexExec, CodeInv
<1>2. CASE KillCli
  BY <1>2 DEF KillCli, Kill, CodeInv, Killed
<1>3. ASSUME NEW c \in {0, 1}, ExitWith(c) PROVE CodeInv'
  BY <1>3 DEF ExitWith, Exit, CodeInv
<1>4. CASE (Fork \/ HeirEnds \/ Reap \/ Expire \/ Join \/ LeaveThread \/ Close) /\ UNCHANGED codexExec
  BY <1>4 DEF Fork, HeirEnds, Reap, Expire, Join, LeaveThread, Close, codexExec, CodeInv
<1>5. ASSUME NEW s \in Stream, Drain(s), UNCHANGED codexExec PROVE CodeInv'
  BY <1>5 DEF Drain, Enter, Read, Deliver, Eof, ReadClosed, codexExec, CodeInv
<1>6. CASE UNCHANGED <<subprocess, codexExec>>
  BY <1>6 DEF subprocess, codexExec, CodeInv
<1> QED
  BY <1>1, <1>2, <1>3, <1>4, <1>5, <1>6 DEF ExecNext

\* An exit code of 0 from `codex exec` comes with the last message of the CLI or with the mark
\* that it was cut, for all bounds and however the file, the timeout and the pipes race.
THEOREM LastAnswer ==
  ExecInit /\ [][ExecNext]_<<subprocess, codexExec>> => []AnswerIsTheLast
<1>1. ExecInit => ProcInv /\ CodeInv
  BY InitProc DEF ExecInit, SubprocessInit, CodeInv
<1>2. ProcInv /\ CodeInv /\ [ExecNext]_<<subprocess, codexExec>> => (ProcInv /\ CodeInv)'
  BY NextProc, NextCode, ExecProc DEF subprocess
<1>3. ProcInv /\ CodeInv => AnswerIsTheLast
  <2> SUFFICES ASSUME ProcInv, CodeInv, caller.does = "returned", ExecResult.exit = 0,
                      drain["stdout"].pc = "eof", ~ExecResult.truncated
               PROVE  ExecResult.message = written["stdout"]
    BY DEF AnswerIsTheLast
  <2>1. ExecResult = [exit |-> code, message |-> FinalMessage, truncated |-> OutputTruncated]
    BY DEF ExecResult
  <2>2. code = 0 /\ ~OutputTruncated
    BY <2>1
  <2>3. finalFile \in {"absent", "whole"}
    BY <2>2 DEF OutputTruncated, ProcInv, ProcType, CodeInv, Killed
  <2>4. CASE finalFile = "whole"
    BY <2>1, <2>4 DEF FinalMessage
  <2>5. CASE finalFile = "absent"
    <3>1. Left("stdout") /\ "stdout" \in Stream
      BY DEF Left, Drained, Stream
    <3>2. FinalMessage = drain["stdout"].retained
      BY <2>5, <3>1 DEF FinalMessage, Captured
    <3>3. ~drain["stdout"].truncated
      BY <2>2, <3>1 DEF OutputTruncated
    <3>4. /\ Bound["stdout"] \in Nat /\ written["stdout"] \in Nat
          /\ Accounted("stdout") /\ EndedFor("stdout")
      BY <3>1, BoundsAssumption DEF ProcInv, ProcType
    <3>5. drain["stdout"].decoded = 0 /\ taken["stdout"] = written["stdout"]
      BY <3>4 DEF EndedFor
    <3>6. /\ drain["stdout"].retained = Smaller(Bound["stdout"], written["stdout"])
          /\ ~(written["stdout"] > Bound["stdout"])
      BY <3>3, <3>4, <3>5 DEF Accounted, Delivered
    <3> QED
      BY <2>1, <3>2, <3>4, <3>6 DEF Smaller
  <2> QED
    BY <2>3, <2>4, <2>5
<1> QED
  BY <1>1, <1>2, <1>3, PTL

(***************************************************************************)
(* WriteFile.                                                              *)
(***************************************************************************)

\* What is staged at each point of the call: nothing before mkstemp, only the whole content
\* when the name is to be replaced, and nothing that was given up while the call goes on.
StagedFile ==
  /\ pc \in {"validate", "resolve", "ensure_parent", "mkstemp"} => temporary = "none"
  /\ pc \in {"revalidate", "replace"} => temporary # "partial"
  /\ pc \notin Ended => temporary # "stuck"

WriteInv == TypeOK /\ StagedFile /\ NothingLeftBehind

USE DEF Names, Links, Files, Ended, IsLink, RealPath, Within, Holding, IsDir

LEMMA InitWrite == Init => WriteInv
<1> SUFFICES ASSUME Init PROVE WriteInv
  OBVIOUS
<1>1. node \in [Names -> {"absent", "directory"} \cup Files \cup Links]
  BY DEF Init
<1>2. ~parent => node.path = "absent"
  BY DEF Init
<1>3. changes \in 0..MaxChanges
  BY ChangesAssumption DEF Init
<1> QED  BY <1>1, <1>2, <1>3 DEF Init, WriteInv, TypeOK, StagedFile, NothingLeftBehind

\* A step of the call keeps what is staged and the names in order.
LEMMA CallKeeps == WriteInv /\ Call => WriteInv'
<1> SUFFICES ASSUME WriteInv, Call PROVE WriteInv'
  OBVIOUS
<1> USE DEF WriteInv, TypeOK, StagedFile, NothingLeftBehind
<1>1. CASE Validate  BY <1>1 DEF Validate
<1>2. CASE Resolve  BY <1>2 DEF Resolve, Accepted
<1>3. CASE EnsureParent  BY <1>3 DEF EnsureParent
<1>4. CASE Mkstemp  BY <1>4 DEF Mkstemp, GiveUp
<1>5. CASE Stage  BY <1>5 DEF Stage, GiveUp
<1>6. CASE Revalidate  BY <1>6 DEF Revalidate, GiveUp
<1>7. CASE Replace  BY <1>7 DEF Replace, GiveUp
<1>8. CASE Interrupt  BY <1>8 DEF Interrupt
<1> QED  BY <1>1, <1>2, <1>3, <1>4, <1>5, <1>6, <1>7, <1>8 DEF Call

\* So does a change by another program: the staged file goes with its directory.
LEMMA ChangeKeeps ==
  ASSUME WriteInv, NEW name \in {"path", "other"}, Elsewhere(Change(name))
  PROVE  WriteInv'
<1> USE DEF WriteInv, TypeOK, StagedFile, NothingLeftBehind
<1>1. changes' \in 0..MaxChanges
  BY ChangesAssumption DEF Elsewhere
<1>2. /\ pc' = pc /\ target' = target /\ parent' = parent /\ temporary' = temporary
      /\ name = "path" => parent
  BY DEF Elsewhere, Change
<1>3. PICK what \in {"absent", "directory", "theirs"} \cup Links :
        node' = [node EXCEPT ![name] = what]
  BY DEF Elsewhere, Change
<1>4. node' \in [Names -> {"absent", "directory"} \cup Files \cup Links]
  BY <1>3
<1>5. ~parent => node'["path"] = node["path"]
  BY <1>2, <1>3
<1> QED  BY <1>1, <1>2, <1>4, <1>5

LEMMA DirectoryKeeps ==
  ASSUME WriteInv, Elsewhere(RemoveParent) \/ Elsewhere(MakeParent)
  PROVE  WriteInv'
<1> USE DEF WriteInv, TypeOK, StagedFile, NothingLeftBehind
<1>1. changes' \in 0..MaxChanges
  BY ChangesAssumption DEF Elsewhere
<1>2. CASE Elsewhere(RemoveParent)
  BY <1>1, <1>2 DEF Elsewhere, RemoveParent
<1>3. CASE Elsewhere(MakeParent)
  BY <1>1, <1>3 DEF Elsewhere, MakeParent
<1> QED  BY <1>2, <1>3

LEMMA NextWrite == WriteInv /\ [Next]_vars => WriteInv'
<1> SUFFICES ASSUME WriteInv, [Next]_vars PROVE WriteInv'
  OBVIOUS
<1>1. CASE Call  BY <1>1, CallKeeps
<1>2. CASE \E name \in {"path", "other"} : Elsewhere(Change(name))  BY <1>2, ChangeKeeps
<1>3. CASE Elsewhere(RemoveParent) \/ Elsewhere(MakeParent)  BY <1>3, DirectoryKeeps
<1>4. CASE UNCHANGED vars
  BY <1>4 DEF vars, WriteInv, TypeOK, StagedFile, NothingLeftBehind
<1> QED  BY <1>1, <1>2, <1>3, <1>4 DEF Next

LEMMA WriteInvariant == Spec => []WriteInv
  BY InitWrite, NextWrite, PTL DEF Spec

\* TypeOK holds: among the rest, the target is in the workspace and what is staged is in
\* a directory that is there, whatever other programs do.
THEOREM TypeCorrect == Spec => []TypeOK
<1>1. WriteInv => TypeOK  BY DEF WriteInv
<1> QED  BY <1>1, WriteInvariant, PTL

\* A call that has returned, with success or an error, has left no staged file but one that
\* could not be removed.
THEOREM NothingStagedRemains == Spec => []NothingLeftBehind
<1>1. WriteInv => NothingLeftBehind  BY DEF WriteInv
<1> QED  BY <1>1, WriteInvariant, PTL

\* A step of the call changes no name, but for the one that reports success: it puts the
\* whole content in the place of the target and touches nothing else.
LEMMA AtomicStep ==
  ASSUME WriteInv, Next, pc' # pc
  PROVE  IF pc' = "done"
         THEN /\ node'[target] = "new"
              /\ \A name \in Names \ {target} : node'[name] = node[name]
              /\ Within(target)
         ELSE node' = node
<1>1. Call
  BY DEF Next, Elsewhere
<1>2. CASE Replace
  BY <1>2 DEF Replace, GiveUp, WriteInv, TypeOK, StagedFile
<1>3. CASE ~Replace
  BY <1>1, <1>3 DEF Call, Validate, Resolve, EnsureParent, Mkstemp, Stage, Revalidate,
     Interrupt, GiveUp
<1> QED  BY <1>2, <1>3

\* write_file is atomic: its target holds the whole new content, and the call reports
\* success, or no name was changed by it.
THEOREM Atomicity == Spec => WriteIsAtomic
<1>1. WriteInv /\ [Next]_vars =>
        [pc' # pc =>
           IF pc' = "done"
           THEN /\ node'[target] = "new"
                /\ \A name \in Names \ {target} : node'[name] = node[name]
                /\ Within(target)
           ELSE node' = node]_vars
  BY AtomicStep
<1> QED  BY <1>1, WriteInvariant, PTL DEF Spec, WriteIsAtomic
=============================================================================
