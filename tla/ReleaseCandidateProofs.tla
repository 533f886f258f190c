----------------------- MODULE ReleaseCandidateProofs -----------------------
(***************************************************************************)
(* What a release candidate rests on, for every source, disposition and    *)
(* list of gates, any number of commits and commands, and every place a    *)
(* command may be stopped in.                                              *)
(***************************************************************************)
EXTENDS ReleaseCandidate, TLAPS

Good == Sound \cap Audited \cap Secure

-----------------------------------------------------------------------------
(* The inductive invariant                                                 *)

Revisions == 1..Len(source)

\* The records of the work tree each have a place, and HEAD has the source it was made of.
TreeType ==
  /\ tree = [code |-> tree.code, disposition |-> tree.disposition, matrix |-> tree.matrix,
             evidence |-> tree.evidence, review |-> tree.review, verdict |-> tree.verdict,
             candidate |-> tree.candidate]
  /\ tree.code \in Codes
  /\ atHead.code = source[tip]

Repository ==
  /\ source \in Seq(Codes)
  /\ ancestors \in Seq(SUBSET Nat)
  /\ Len(ancestors) = Len(source)
  /\ tip \in Revisions

\* Gates 1 to done have run: if each official check among them passed, and there was one,
\* the tree the last of them ran on passes it.
GatesHeld(done, passed, on) ==
  LET official == {k \in 1..done : Gates[k] = "official-check"} IN
    official # {} /\ official \subseteq passed => on \in Good

EvidenceHeld(evidence) ==
  Written(evidence) => GatesHeld(Len(Gates), evidence.passed, evidence.on)

VerdictHeld(verdict) ==
  Written(verdict) =>
    /\ verdict.revision \in Revisions
    /\ verdict.verdict = Readiness(verdict.on)
    /\ verdict.evidence \in ancestors[verdict.revision]

\* What a candidate is built upon, by the time it was found valid.
ChainHeld(revision, upstream) ==
  /\ revision \in Revisions
  /\ upstream.evidence.passed = 1..Len(Gates)
  /\ upstream.evidence.on \in Good
  /\ upstream.evidence.revision \in ancestors[revision]
  /\ Blockers(upstream.verdict.on) = {}
  /\ upstream.verdict.revision \in Revisions
  /\ upstream.verdict.evidence \in ancestors[upstream.verdict.revision]

RecordsHeld ==
  /\ EvidenceHeld(tree.evidence)
  /\ VerdictHeld(tree.verdict)
  /\ Written(tree.candidate) => ChainHeld(tree.candidate.revision, tree.candidate)

\* The locals of the command that runs.
GateLocals ==
  /\ At("gate") => /\ command.done \in 0..(Len(Gates) - 1)
                   /\ command.passed \subseteq 1..command.done
                   /\ GatesHeld(command.done, command.passed, command.on)
  /\ At("evidence") => GatesHeld(Len(Gates), command.passed, command.on)

ReauditLocals ==
  /\ At("review") =>
       command = [pc |-> "review", revision |-> command.revision,
                  disposition |-> command.disposition]
  /\ At("review") \/ At("verdict") =>
       /\ command.revision \in Revisions
       /\ Written(tree.evidence)
       /\ tree.evidence.revision \in ancestors[command.revision]
  /\ At("verdict") =>
       /\ Written(tree.review)
       /\ tree.review.revision = command.revision
       /\ tree.review.outcome = "approve" <=> Residual(command.disposition) = {}

Building == command.pc \in {"build", "retain", "candidate"}

ProduceLocals ==
  /\ At("upstream") => command.retain \in BOOLEAN
  /\ Building => command.retain \in BOOLEAN /\ ChainHeld(command.revision, command.upstream)
  /\ At("retain") =>
       command = [pc |-> "retain", retain |-> command.retain, revision |-> command.revision,
                  upstream |-> command.upstream, copy |-> command.copy]
  /\ At("candidate") /\ command.retain => artifact = command.copy

\* What holds of the source unless it was changed below the command.
SourceKept ==
  ~raced =>
    /\ At("upstream") => tree.code = source[tip]
    /\ At("build") => /\ command.revision = tip
                      /\ tree.code = source[tip]
                      /\ tree.code \in Aligned
    /\ At("retain") \/ At("candidate") =>
         /\ command.copy = source[command.revision]
         /\ command.copy \in Aligned \cap Packageable

ReleaseInv ==
  /\ TreeType
  /\ Repository
  /\ RecordsHeld
  /\ GateLocals
  /\ ReauditLocals
  /\ ProduceLocals
  /\ SourceKept
  /\ WrittenTogether
-----------------------------------------------------------------------------
(* The operators                                                           *)

\* Writing one record leaves the source, the disposition and the other records.
LEMMA WriteOne ==
  ASSUME TreeType, NEW file \in Records, NEW r, Write(file, r)
  PROVE  /\ tree' = [code |-> tree'.code, disposition |-> tree'.disposition,
                     matrix |-> tree'.matrix, evidence |-> tree'.evidence,
                     review |-> tree'.review, verdict |-> tree'.verdict,
                     candidate |-> tree'.candidate]
         /\ tree'.code = tree.code
         /\ tree'.disposition = tree.disposition
         /\ tree'.evidence = IF file = "evidence" THEN r ELSE tree.evidence
         /\ tree'.review = IF file = "review" THEN r ELSE tree.review
         /\ tree'.verdict = IF file = "verdict" THEN r ELSE tree.verdict
         /\ tree'.candidate = IF file = "candidate" THEN r ELSE tree.candidate
<1>1. CASE file = "matrix"    BY <1>1 DEF TreeType, Write
<1>2. CASE file = "evidence"  BY <1>2 DEF TreeType, Write
<1>3. CASE file = "review"    BY <1>3 DEF TreeType, Write
<1>4. CASE file = "verdict"   BY <1>4 DEF TreeType, Write
<1>5. CASE file = "candidate" BY <1>5 DEF TreeType, Write
<1> QED BY <1>1, <1>2, <1>3, <1>4, <1>5 DEF Records

\* A verdict that says ready saw no open critical or major finding.
LEMMA ReadyHasNoBlockers ==
  ASSUME NEW disposition, Readiness(disposition) \in ReadyVerdicts
  PROVE  Blockers(disposition) = {}
  BY DEF Readiness, ReadyVerdicts

\* What ValidUpstream finds at HEAD is a whole chain below HEAD.
LEMMA UpstreamIsChain ==
  ASSUME Repository, RecordsHeld, ValidUpstream(tree, tip, ancestors)
  PROVE  ChainHeld(tip, [evidence |-> tree.evidence, verdict |-> tree.verdict])
<1> DEFINE upstream == [evidence |-> tree.evidence, verdict |-> tree.verdict]
<1>1. /\ Written(tree.evidence)
      /\ tree.evidence.passed = 1..Len(Gates)
  BY DEF ValidUpstream, ValidReviewedEvidence, ValidEvidence
<1>2. tree.evidence.on \in Good
  <2>1. PICK n \in 1..Len(Gates) : Gates[n] = "official-check"
    BY GatesAssumption
  <2>2. GatesHeld(Len(Gates), 1..Len(Gates), tree.evidence.on)
    BY <1>1 DEF RecordsHeld, EvidenceHeld
  <2> QED BY <2>1, <2>2 DEF GatesHeld
<1>3. tip \in Revisions /\ tip # AnyRevision
  BY DEF Repository, Revisions, AnyRevision
<1>4. tree.evidence.revision \in ancestors[tip]
  BY <1>3 DEF ValidUpstream, Binds
<1>5. /\ Written(tree.verdict)
      /\ tree.verdict.verdict \in ReadyVerdicts
  BY DEF ValidUpstream, ValidVerdict
<1>6. Blockers(tree.verdict.on) = {}
  BY <1>5, ReadyHasNoBlockers DEF RecordsHeld, VerdictHeld
<1>7. /\ tree.verdict.revision \in Revisions
      /\ tree.verdict.evidence \in ancestors[tree.verdict.revision]
  BY <1>5 DEF RecordsHeld, VerdictHeld
<1>8. upstream.evidence = tree.evidence /\ upstream.verdict = tree.verdict
  OBVIOUS
<1> HIDE DEF upstream
<1> QED BY <1>1, <1>2, <1>3, <1>4, <1>6, <1>7, <1>8 DEF ChainHeld
-----------------------------------------------------------------------------
(* What a step that leaves something alone leaves true                     *)

\* No record and no commit is touched.
LEMMA RecordsUntouched ==
  ASSUME ReleaseInv, UNCHANGED <<tree, repository>>
  PROVE  TreeType' /\ Repository' /\ RecordsHeld'
<1> USE DEF repository
<1>1. TreeType'
  BY DEF ReleaseInv, TreeType
<1>2. Repository'
  BY DEF ReleaseInv, Repository, Revisions
<1>3. RecordsHeld'
  BY DEF ReleaseInv, RecordsHeld, EvidenceHeld, GatesHeld, VerdictHeld, ChainHeld, Revisions
<1> QED BY <1>1, <1>2, <1>3

\* A command comes to a place at which nothing is known of its locals.
LEMMA Nowhere ==
  ASSUME command'.pc \in {"none", "minor", "matrix"}
  PROVE  GateLocals' /\ ReauditLocals' /\ ProduceLocals' /\ SourceKept'
  BY DEF GateLocals, ReauditLocals, ProduceLocals, SourceKept, At, Building

\* No record is touched, and the command that runs is not between two writes.
LEMMA PairsUntouched ==
  ASSUME ReleaseInv, UNCHANGED <<tree, artifact, brokenOff>>, ~At("candidate"), ~At("verdict")
  PROVE  WrittenTogether'
  BY DEF ReleaseInv, WrittenTogether, At

-----------------------------------------------------------------------------
\* A repository before its first candidate.
LEMMA InitReleaseInv == ReleaseInit => ReleaseInv
<1> SUFFICES ASSUME ReleaseInit PROVE ReleaseInv
  OBVIOUS
<1>1. PICK code \in Codes, matrix \in {NoFile, [file |-> "written", revision |-> 1, passed |-> 1..Minors]} :
        /\ tree = [code |-> code, disposition |-> Published, matrix |-> matrix, evidence |-> NoFile,
                   review |-> NoFile, verdict |-> NoFile, candidate |-> NoFile]
        /\ source = <<code>>
  BY DEF ReleaseInit
<1>2. TreeType
  BY <1>1 DEF ReleaseInit, TreeType
<1>3. Repository
  BY <1>1 DEF ReleaseInit, Repository, Revisions
<1>4. RecordsHeld /\ WrittenTogether
  BY <1>1 DEF RecordsHeld, EvidenceHeld, VerdictHeld, WrittenTogether, Written, NoFile
<1>5. GateLocals /\ ReauditLocals /\ ProduceLocals /\ SourceKept
  BY DEF ReleaseInit, Quiet, GateLocals, ReauditLocals, ProduceLocals, SourceKept, At, Building
<1> QED BY <1>2, <1>3, <1>4, <1>5 DEF ReleaseInv

-----------------------------------------------------------------------------
(* The developer                                                           *)

\* An edit below a command is a race, and no record is touched.
LEMMA EditStep ==
  ASSUME ReleaseInv, NEW code \in Codes, Edit(code)
  PROVE  ReleaseInv'
<1> USE DEF repository
<1>1. /\ tree' = [code |-> code, disposition |-> tree.disposition, matrix |-> tree.matrix,
                  evidence |-> tree.evidence, review |-> tree.review, verdict |-> tree.verdict,
                  candidate |-> tree.candidate]
      /\ UNCHANGED <<repository, artifact, command, brokenOff>>
      /\ raced' = (raced \/ Running)
  BY DEF Edit, ReleaseInv, TreeType
<1>2. TreeType'
  BY <1>1 DEF ReleaseInv, TreeType
<1>3. Repository'
  BY <1>1 DEF ReleaseInv, Repository, Revisions
<1>4. RecordsHeld'
  BY <1>1 DEF ReleaseInv, RecordsHeld, EvidenceHeld, GatesHeld, VerdictHeld, ChainHeld, Revisions
<1>5. GateLocals'
  BY <1>1 DEF ReleaseInv, GateLocals, GatesHeld, At
<1>6. ReauditLocals'
  BY <1>1 DEF ReleaseInv, ReauditLocals, Revisions, At
<1>7. ProduceLocals'
  BY <1>1 DEF ReleaseInv, ProduceLocals, ChainHeld, Revisions, Building, At
<1>8. SourceKept'
  BY <1>1 DEF ReleaseInv, SourceKept, Running, At
<1>9. WrittenTogether'
  BY <1>1 DEF ReleaseInv, WrittenTogether, At
<1> QED BY <1>2, <1>3, <1>4, <1>5, <1>6, <1>7, <1>8, <1>9 DEF ReleaseInv

\* The disposition is read once by each command.
LEMMA EditDispositionStep ==
  ASSUME ReleaseInv, NEW d \in Dispositions, EditDisposition(d)
  PROVE  ReleaseInv'
<1> USE DEF repository
<1>1. /\ tree' = [code |-> tree.code, disposition |-> d, matrix |-> tree.matrix,
                  evidence |-> tree.evidence, review |-> tree.review, verdict |-> tree.verdict,
                  candidate |-> tree.candidate]
      /\ UNCHANGED <<repository, artifact, command, raced, brokenOff>>
  BY DEF EditDisposition, ReleaseInv, TreeType
<1>2. TreeType'
  BY <1>1 DEF ReleaseInv, TreeType
<1>3. Repository'
  BY <1>1 DEF ReleaseInv, Repository, Revisions
<1>4. RecordsHeld'
  BY <1>1 DEF ReleaseInv, RecordsHeld, EvidenceHeld, GatesHeld, VerdictHeld, ChainHeld, Revisions
<1>5. GateLocals'
  BY <1>1 DEF ReleaseInv, GateLocals, GatesHeld, At
<1>6. ReauditLocals'
  BY <1>1 DEF ReleaseInv, ReauditLocals, Revisions, At
<1>7. ProduceLocals'
  BY <1>1 DEF ReleaseInv, ProduceLocals, ChainHeld, Revisions, Building, At
<1>8. SourceKept'
  BY <1>1 DEF ReleaseInv, SourceKept, At
<1>9. WrittenTogether'
  BY <1>1 DEF ReleaseInv, WrittenTogether, At
<1> QED BY <1>2, <1>3, <1>4, <1>5, <1>6, <1>7, <1>8, <1>9 DEF ReleaseInv

\* A commit adds a revision; of those that are there nothing changes.
LEMMA NewCommitStep ==
  ASSUME ReleaseInv, NEW upon \in SUBSET Nat, NewCommit(upon)
  PROVE  ReleaseInv'
<1>1. /\ UNCHANGED <<tree, artifact, command, brokenOff>>
      /\ atHead' = tree
      /\ tip' = Len(source) + 1
      /\ ancestors' = Append(ancestors, upon \cup {Len(source) + 1})
      /\ source' = Append(source, tree.code)
      /\ raced' = (raced \/ Running)
  BY DEF NewCommit
<1>2. TreeType /\ Repository
  BY DEF ReleaseInv
<1>3. Len(source) \in Nat /\ Len(source) + 1 \in Nat /\ tree.code \in Codes
  BY <1>2 DEF Repository, TreeType
<1>4. /\ source' \in Seq(Codes) /\ Len(source') = Len(source) + 1
      /\ source'[Len(source) + 1] = tree.code
      /\ \A n \in Revisions : source'[n] = source[n]
  BY <1>1, <1>2, <1>3 DEF Repository, Revisions
<1>5. /\ ancestors' \in Seq(SUBSET Nat) /\ Len(ancestors') = Len(source) + 1
      /\ \A n \in Revisions : ancestors'[n] = ancestors[n]
  <2>1. upon \cup {Len(source) + 1} \in SUBSET Nat
    BY <1>3
  <2> QED BY <1>1, <1>2, <2>1 DEF Repository, Revisions
<1>6. \A n \in Revisions : n \in Revisions'
  BY <1>3, <1>4 DEF Revisions
<1>7. TreeType'
  BY <1>1, <1>2, <1>4 DEF TreeType
<1>8. Repository'
  BY <1>1, <1>3, <1>4, <1>5 DEF Repository, Revisions
<1>9. RecordsHeld'
  BY <1>1, <1>5, <1>6 DEF ReleaseInv, RecordsHeld, EvidenceHeld, GatesHeld, VerdictHeld, ChainHeld
<1>10. GateLocals'
  BY <1>1 DEF ReleaseInv, GateLocals, GatesHeld, At
<1>11. ReauditLocals'
  BY <1>1, <1>5, <1>6 DEF ReleaseInv, ReauditLocals, At
<1>12. ProduceLocals'
  BY <1>1, <1>5, <1>6 DEF ReleaseInv, ProduceLocals, ChainHeld, Building, At
<1>13. SourceKept'
  BY <1>1 DEF ReleaseInv, SourceKept, Running, At
<1>14. WrittenTogether'
  BY <1>1 DEF ReleaseInv, WrittenTogether, At
<1> QED BY <1>7, <1>8, <1>9, <1>10, <1>11, <1>12, <1>13, <1>14 DEF ReleaseInv
-----------------------------------------------------------------------------
(* The matrix and the evidence                                             *)

\* A command that begins finds the records and the pairs as they were.
LEMMA BeginKeeps ==
  ASSUME ReleaseInv, NEW locals, Begin(locals)
  PROVE  /\ TreeType' /\ Repository' /\ RecordsHeld' /\ WrittenTogether'
         /\ UNCHANGED <<tree, repository>>
         /\ command' = locals
<1>1. UNCHANGED <<tree, repository, artifact, brokenOff>> /\ command' = locals
  BY DEF Begin, repository
<1>2. ~At("candidate") /\ ~At("verdict")
  BY DEF Begin, Running, At
<1> QED BY <1>1, <1>2, RecordsUntouched, PairsUntouched

\* The matrix record is no part of what a candidate rests on.
LEMMA MatrixStep ==
  ASSUME ReleaseInv, Matrix
  PROVE  ReleaseInv'
<1>1. CASE StartMatrix
  <2>1. /\ TreeType' /\ Repository' /\ RecordsHeld' /\ WrittenTogether'
        /\ command' = [pc |-> "minor", done |-> 0, passed |-> {}]
    BY <1>1, BeginKeeps DEF StartMatrix
  <2> QED BY <2>1, Nowhere DEF ReleaseInv
<1>2. ASSUME NEW built \in BOOLEAN, RunMinor(built)
      PROVE  ReleaseInv'
  <2>1. /\ UNCHANGED <<tree, repository, artifact, raced, brokenOff>>
        /\ ~At("candidate") /\ ~At("verdict")
    BY <1>2 DEF RunMinor, repository, At
  <2>2. command'.pc \in {"none", "minor", "matrix"}
    BY <1>2 DEF RunMinor, End, Quiet
  <2> QED BY <2>1, <2>2, Nowhere, RecordsUntouched, PairsUntouched DEF ReleaseInv
<1>3. CASE WriteMatrix
  <2> DEFINE r == [file |-> "written", revision |-> tip, passed |-> command.passed]
  <2>1. Write("matrix", r)
    BY <1>3 DEF WriteMatrix
  <2>2. UNCHANGED <<repository, artifact, brokenOff>> /\ command'.pc = "none" /\ At("matrix")
    BY <1>3 DEF WriteMatrix, End, Quiet
  <2> HIDE DEF r
  <2>3. /\ tree' = [code |-> tree'.code, disposition |-> tree'.disposition,
                    matrix |-> tree'.matrix, evidence |-> tree'.evidence,
                    review |-> tree'.review, verdict |-> tree'.verdict,
                    candidate |-> tree'.candidate]
        /\ tree'.code = tree.code
        /\ tree'.evidence = tree.evidence
        /\ tree'.review = tree.review
        /\ tree'.verdict = tree.verdict
        /\ tree'.candidate = tree.candidate
    BY <2>1, WriteOne DEF ReleaseInv, Records
  <2>4. TreeType'
    BY <2>2, <2>3 DEF ReleaseInv, TreeType, repository
  <2>5. Repository'
    BY <2>2 DEF ReleaseInv, Repository, Revisions, repository
  <2>6. RecordsHeld'
    BY <2>2, <2>3 DEF ReleaseInv, RecordsHeld, EvidenceHeld, GatesHeld, VerdictHeld, ChainHeld,
                      Revisions, repository
  <2>7. WrittenTogether'
    BY <2>2, <2>3 DEF ReleaseInv, WrittenTogether, At
  <2> QED BY <2>2, <2>4, <2>5, <2>6, <2>7, Nowhere DEF ReleaseInv
<1> QED BY <1>1, <1>2, <1>3 DEF Matrix

\* One more gate: an official check that passes has run on a tree that passes it.
LEMMA OneMoreGate ==
  ASSUME NEW online, tree.code \in Codes,
         NEW done \in Nat, done + 1 \in 1..Len(Gates),
         NEW passed \in SUBSET (1..done), NEW on,
         GatesHeld(done, passed, on)
  PROVE  GatesHeld(done + 1,
                   passed \cup (IF GatePasses(Gates[done + 1], tree, atHead, online)
                                  THEN {done + 1} ELSE {}),
                   IF Gates[done + 1] = "official-check" THEN tree.code ELSE on)
<1> DEFINE n == done + 1
           after == passed \cup (IF GatePasses(Gates[n], tree, atHead, online) THEN {n} ELSE {})
<1>1. CASE Gates[n] = "official-check"
  <2>1. n \in {k \in 1..n : Gates[k] = "official-check"} /\ n \notin passed
    BY <1>1
  <2>2. SUFFICES ASSUME n \in after PROVE tree.code \in Good
    BY <1>1, <2>1 DEF GatesHeld
  <2>3. GatePasses("official-check", tree, atHead, online)
    BY <1>1, <2>1, <2>2
  <2>4. OfficialCheck(tree.code, online)
    BY <2>3 DEF GatePasses
  <2> QED BY <2>4 DEF OfficialCheck, QualityPolicy, AllStages, CoverageStage,
                      DependencyAuditStage, SourceSecurityStage, Good
<1>2. CASE Gates[n] # "official-check"
  <2>1. {k \in 1..n : Gates[k] = "official-check"} = {k \in 1..done : Gates[k] = "official-check"}
    BY <1>2
  <2>2. {k \in 1..done : Gates[k] = "official-check"} \subseteq after
          => {k \in 1..done : Gates[k] = "official-check"} \subseteq passed
    BY <1>2
  <2> HIDE DEF after
  <2> QED BY <1>2, <2>1, <2>2 DEF GatesHeld, after
<1> QED BY <1>1, <1>2

\* The evidence record says of its gates what they found.
LEMMA EvidenceStep ==
  ASSUME ReleaseInv, Evidence
  PROVE  ReleaseInv'
<1>1. CASE StartEvidence
  <2>1. /\ TreeType' /\ Repository' /\ RecordsHeld' /\ WrittenTogether'
        /\ command' = [pc |-> "gate", revision |-> tip, done |-> 0, passed |-> {}, on |-> NoCode]
    BY <1>1, BeginKeeps DEF StartEvidence
  <2>2. Len(Gates) \in Nat /\ 0 \in 0..(Len(Gates) - 1)
    BY GatesAssumption
  <2>3. GateLocals'
    BY <2>1, <2>2 DEF GateLocals, GatesHeld, At
  <2>4. ReauditLocals' /\ ProduceLocals' /\ SourceKept'
    BY <2>1 DEF ReauditLocals, ProduceLocals, SourceKept, At, Building
  <2> QED BY <2>1, <2>3, <2>4 DEF ReleaseInv
<1>2. ASSUME NEW online \in BOOLEAN, RunGate(online)
      PROVE  ReleaseInv'
  <2> DEFINE n == command.done + 1
             after == command.passed
                        \cup (IF GatePasses(Gates[n], tree, atHead, online) THEN {n} ELSE {})
             on == IF Gates[n] = "official-check" THEN tree.code ELSE command.on
  <2>1. /\ At("gate")
        /\ UNCHANGED <<tree, repository, artifact, raced, brokenOff>>
        /\ command' = [pc |-> IF n = Len(Gates) THEN "evidence" ELSE "gate",
                       revision |-> command.revision, done |-> n, passed |-> after, on |-> on]
    BY <1>2 DEF RunGate, repository
  <2>2. /\ command.done \in 0..(Len(Gates) - 1)
        /\ command.passed \subseteq 1..command.done
        /\ GatesHeld(command.done, command.passed, command.on)
        /\ tree.code \in Codes
    BY <2>1 DEF ReleaseInv, GateLocals, TreeType
  <2>3. command.done \in Nat /\ n \in 1..Len(Gates) /\ Len(Gates) \in Nat
    BY <2>2, GatesAssumption
  <2>4. GatesHeld(n, after, on)
    BY <2>2, <2>3, OneMoreGate
  <2>5. after \subseteq 1..n
    BY <2>2, <2>3
  <2> HIDE DEF after, on
  <2>6. GateLocals'
    BY <2>1, <2>3, <2>4, <2>5 DEF GateLocals, GatesHeld, At
  <2>7. ReauditLocals' /\ ProduceLocals' /\ SourceKept'
    BY <2>1 DEF ReauditLocals, ProduceLocals, SourceKept, At, Building
  <2>8. ~At("candidate") /\ ~At("verdict")
    BY <2>1 DEF At
  <2> QED BY <2>1, <2>6, <2>7, <2>8, RecordsUntouched, PairsUntouched DEF ReleaseInv
<1>3. CASE WriteEvidence
  <2> DEFINE r == [file |-> "written", revision |-> command.revision,
                   passed |-> command.passed, on |-> command.on]
  <2>1. Write("evidence", r)
    BY <1>3 DEF WriteEvidence
  <2>2. UNCHANGED <<repository, artifact, brokenOff>> /\ command'.pc = "none" /\ At("evidence")
    BY <1>3 DEF WriteEvidence, End, Quiet
  <2>3. EvidenceHeld(r)
    BY <2>2 DEF ReleaseInv, GateLocals, EvidenceHeld
  <2> HIDE DEF r
  <2>4. /\ tree' = [code |-> tree'.code, disposition |-> tree'.disposition,
                    matrix |-> tree'.matrix, evidence |-> tree'.evidence,
                    review |-> tree'.review, verdict |-> tree'.verdict,
                    candidate |-> tree'.candidate]
        /\ tree'.code = tree.code
        /\ tree'.evidence = r
        /\ tree'.review = tree.review
        /\ tree'.verdict = tree.verdict
        /\ tree'.candidate = tree.candidate
    BY <2>1, WriteOne DEF ReleaseInv, Records
  <2>5. TreeType'
    BY <2>2, <2>4 DEF ReleaseInv, TreeType, repository
  <2>6. Repository'
    BY <2>2 DEF ReleaseInv, Repository, Revisions, repository
  <2>7. RecordsHeld'
    BY <2>2, <2>3, <2>4 DEF ReleaseInv, RecordsHeld, EvidenceHeld, GatesHeld, VerdictHeld,
                            ChainHeld, Revisions, repository
  <2>8. WrittenTogether'
    BY <2>2, <2>4 DEF ReleaseInv, WrittenTogether, At
  <2> QED BY <2>2, <2>5, <2>6, <2>7, <2>8, Nowhere DEF ReleaseInv
<1> QED BY <1>1, <1>2, <1>3 DEF Evidence
-----------------------------------------------------------------------------
(* The re-audit                                                            *)

\* Review and verdict are made from one evidence, revision and disposition.
LEMMA ReauditStep ==
  ASSUME ReleaseInv, Reaudit
  PROVE  ReleaseInv'
<1>1. CASE StartReaudit
  <2>1. /\ TreeType' /\ Repository' /\ RecordsHeld' /\ WrittenTogether'
        /\ UNCHANGED <<tree, repository>>
        /\ command' = [pc |-> "review", revision |-> tip, disposition |-> tree.disposition]
    BY <1>1, BeginKeeps DEF StartReaudit
  <2>2. tip \in Revisions /\ tip # AnyRevision
    BY DEF ReleaseInv, Repository, Revisions, AnyRevision
  <2>3. Written(tree.evidence) /\ tree.evidence.revision \in ancestors[tip]
    BY <1>1, <2>2 DEF StartReaudit, ValidEvidence, Binds
  <2>4. ReauditLocals'
    BY <2>1, <2>2, <2>3 DEF ReauditLocals, Revisions, At, repository
  <2>5. GateLocals' /\ ProduceLocals' /\ SourceKept'
    BY <2>1 DEF GateLocals, ProduceLocals, SourceKept, At, Building
  <2> QED BY <2>1, <2>4, <2>5 DEF ReleaseInv
<1>2. CASE WriteReview
  <2> DEFINE r == Review(command.revision, command.disposition, tree.evidence)
  <2>1. Write("review", r)
    BY <1>2 DEF WriteReview
  <2>2. /\ UNCHANGED <<repository, artifact, brokenOff>>
        /\ command' = [command EXCEPT !.pc = "verdict"]
        /\ At("review")
    BY <1>2 DEF WriteReview, Go
  <2>3. /\ Written(r) /\ r.revision = command.revision
        /\ r.outcome = "approve" <=> Residual(command.disposition) = {}
    BY DEF Review, Written
  <2> HIDE DEF r
  <2>4. /\ tree' = [code |-> tree'.code, disposition |-> tree'.disposition,
                    matrix |-> tree'.matrix, evidence |-> tree'.evidence,
                    review |-> tree'.review, verdict |-> tree'.verdict,
                    candidate |-> tree'.candidate]
        /\ tree'.code = tree.code
        /\ tree'.evidence = tree.evidence
        /\ tree'.review = r
        /\ tree'.verdict = tree.verdict
        /\ tree'.candidate = tree.candidate
    BY <2>1, WriteOne DEF ReleaseInv, Records
  <2>5. TreeType'
    BY <2>2, <2>4 DEF ReleaseInv, TreeType, repository
  <2>6. Repository'
    BY <2>2 DEF ReleaseInv, Repository, Revisions, repository
  <2>7. RecordsHeld'
    BY <2>2, <2>4 DEF ReleaseInv, RecordsHeld, EvidenceHeld, GatesHeld, VerdictHeld,
                      ChainHeld, Revisions, repository
  <2>8. At("verdict")' /\ UNCHANGED <<command.revision, command.disposition>>
    <3>1. command = [pc |-> "review", revision |-> command.revision,
                     disposition |-> command.disposition]
      BY <2>2 DEF ReleaseInv, ReauditLocals, At
    <3> QED BY <2>2, <3>1 DEF At
  <2>9. ReauditLocals'
    BY <2>2, <2>3, <2>4, <2>8 DEF ReleaseInv, ReauditLocals, Revisions, At, repository
  <2>10. GateLocals' /\ ProduceLocals' /\ SourceKept'
    BY <2>8 DEF GateLocals, ProduceLocals, SourceKept, At, Building
  <2>11. WrittenTogether'
    BY <2>2, <2>4, <2>8 DEF ReleaseInv, WrittenTogether, At
  <2> QED BY <2>5, <2>6, <2>7, <2>9, <2>10, <2>11 DEF ReleaseInv
<1>3. CASE WriteVerdict
  <2> DEFINE r == Verdict(command.revision, command.disposition, tree.evidence)
  <2>1. Write("verdict", r)
    BY <1>3 DEF WriteVerdict
  <2>2. /\ UNCHANGED <<repository, artifact>>
        /\ brokenOff' = brokenOff \ {"verdict"}
        /\ command'.pc = "none" /\ At("verdict")
    BY <1>3 DEF WriteVerdict, End, Quiet
  <2>3. /\ r.revision = command.revision /\ r.on = command.disposition
        /\ r.verdict = Readiness(r.on) /\ r.evidence = tree.evidence.revision
    BY DEF Verdict
  <2> HIDE DEF r
  <2>4. VerdictHeld(r)
    BY <2>2, <2>3 DEF ReleaseInv, ReauditLocals, VerdictHeld
  <2>5. /\ tree' = [code |-> tree'.code, disposition |-> tree'.disposition,
                    matrix |-> tree'.matrix, evidence |-> tree'.evidence,
                    review |-> tree'.review, verdict |-> tree'.verdict,
                    candidate |-> tree'.candidate]
        /\ tree'.code = tree.code
        /\ tree'.evidence = tree.evidence
        /\ tree'.review = tree.review
        /\ tree'.verdict = r
        /\ tree'.candidate = tree.candidate
    BY <2>1, WriteOne DEF ReleaseInv, Records
  <2>6. TreeType'
    BY <2>2, <2>5 DEF ReleaseInv, TreeType, repository
  <2>7. Repository'
    BY <2>2 DEF ReleaseInv, Repository, Revisions, repository
  <2>8. RecordsHeld'
    BY <2>2, <2>4, <2>5 DEF ReleaseInv, RecordsHeld, EvidenceHeld, GatesHeld, VerdictHeld,
                            ChainHeld, Revisions, repository
  <2>9. WrittenTogether'
    <3>1. /\ tree.review.revision = r.revision
          /\ tree.review.outcome = "approve" <=> Residual(r.on) = {}
      BY <2>2, <2>3 DEF ReleaseInv, ReauditLocals
    <3>2. ~At("candidate") /\ ("candidate" \in brokenOff' <=> "candidate" \in brokenOff)
      BY <2>2 DEF At
    <3> QED BY <2>2, <2>5, <3>1, <3>2 DEF ReleaseInv, WrittenTogether
  <2> QED BY <2>2, <2>6, <2>7, <2>8, <2>9, Nowhere DEF ReleaseInv
<1> QED BY <1>1, <1>2, <1>3 DEF Reaudit
-----------------------------------------------------------------------------
(* The candidate                                                           *)

\* The work tree is found clean: it is the source of HEAD.
LEMMA StartProduceStep ==
  ASSUME ReleaseInv, NEW retain \in BOOLEAN, StartProduce(retain)
  PROVE  ReleaseInv'
<1>1. /\ TreeType' /\ Repository' /\ RecordsHeld' /\ WrittenTogether'
      /\ UNCHANGED <<tree, repository>>
      /\ command' = [pc |-> "upstream", retain |-> retain]
  BY BeginKeeps DEF StartProduce
<1>2. tree.code = source[tip]
  BY DEF StartProduce, ReleaseInv, TreeType
<1>3. SourceKept'
  BY <1>1, <1>2 DEF SourceKept, At, repository
<1>4. GateLocals' /\ ReauditLocals' /\ ProduceLocals'
  BY <1>1 DEF GateLocals, ReauditLocals, ProduceLocals, At, Building
<1> QED BY <1>1, <1>3, <1>4 DEF ReleaseInv

\* HEAD is read, and the records are found to be a chain below it.
LEMMA ValidateUpstreamStep ==
  ASSUME ReleaseInv, ValidateUpstream
  PROVE  ReleaseInv'
<1>1. UNCHANGED <<tree, repository, artifact, raced, brokenOff>> /\ At("upstream")
  BY DEF ValidateUpstream, repository
<1>2. ~At("candidate") /\ ~At("verdict")
  BY <1>1 DEF At
<1>3. TreeType' /\ Repository' /\ RecordsHeld' /\ WrittenTogether'
  BY <1>1, <1>2, RecordsUntouched, PairsUntouched
<1>4. CASE tree.code \in Aligned /\ ValidUpstream(tree, tip, ancestors)
  <2> DEFINE upstream == [evidence |-> tree.evidence, verdict |-> tree.verdict]
  <2>1. command' = [pc |-> "build", retain |-> command.retain, revision |-> tip,
                    upstream |-> upstream]
    BY <1>4 DEF ValidateUpstream
  <2>2. ChainHeld(tip, upstream)
    BY <1>4, UpstreamIsChain DEF ReleaseInv
  <2> HIDE DEF upstream
  <2>3. command.retain \in BOOLEAN
    BY <1>1 DEF ReleaseInv, ProduceLocals
  <2>4. ProduceLocals'
    BY <1>1, <2>1, <2>2, <2>3 DEF ProduceLocals, ChainHeld, Revisions, Building, At, repository
  <2>5. SourceKept'
    BY <1>1, <1>4, <2>1 DEF ReleaseInv, SourceKept, At, repository
  <2>6. GateLocals' /\ ReauditLocals'
    BY <2>1 DEF GateLocals, ReauditLocals, At
  <2> QED BY <1>3, <2>4, <2>5, <2>6 DEF ReleaseInv
<1>5. CASE ~(tree.code \in Aligned /\ ValidUpstream(tree, tip, ancestors))
  <2>1. command'.pc = "none"
    BY <1>5 DEF ValidateUpstream, End, Quiet
  <2> QED BY <1>3, <2>1, Nowhere DEF ReleaseInv
<1> QED BY <1>4, <1>5

\* The wheel is made from the work tree.
LEMMA BuildWheelStep ==
  ASSUME ReleaseInv, BuildWheel
  PROVE  ReleaseInv'
<1>1. UNCHANGED <<tree, repository, artifact, raced, brokenOff>> /\ At("build")
  BY DEF BuildWheel, repository
<1>2. ~At("candidate") /\ ~At("verdict")
  BY <1>1 DEF At
<1>3. TreeType' /\ Repository' /\ RecordsHeld' /\ WrittenTogether'
  BY <1>1, <1>2, RecordsUntouched, PairsUntouched
<1>4. CASE tree.code \in Packageable
  <2>1. command' = [pc |-> IF command.retain THEN "retain" ELSE "candidate",
                    retain |-> command.retain, revision |-> command.revision,
                    upstream |-> command.upstream, copy |-> tree.code]
    BY <1>4 DEF BuildWheel
  <2>2. command.retain \in BOOLEAN /\ ChainHeld(command.revision, command.upstream)
    BY <1>1 DEF ReleaseInv, ProduceLocals, Building, At
  <2>3. CASE command.retain = TRUE
    <3>1. command' = [pc |-> "retain",
                      retain |-> command.retain, revision |-> command.revision,
                      upstream |-> command.upstream, copy |-> tree.code]
      BY <2>1, <2>3
    <3>2. ProduceLocals'
      BY <1>1, <2>2, <3>1 DEF ProduceLocals, ChainHeld, Revisions, Building, At, repository
    <3>3. SourceKept'
      BY <1>1, <1>4, <3>1 DEF ReleaseInv, SourceKept, At, repository
    <3>4. GateLocals' /\ ReauditLocals'
      BY <3>1 DEF GateLocals, ReauditLocals, At
    <3> QED BY <1>3, <3>2, <3>3, <3>4 DEF ReleaseInv
  <2>4. CASE command.retain = FALSE
    <3>1. command' = [pc |-> "candidate",
                      retain |-> FALSE, revision |-> command.revision,
                      upstream |-> command.upstream, copy |-> tree.code]
      BY <2>1, <2>4
    <3>2. ProduceLocals'
      BY <1>1, <2>2, <3>1 DEF ProduceLocals, ChainHeld, Revisions, Building, At, repository
    <3>3. SourceKept'
      BY <1>1, <1>4, <3>1 DEF ReleaseInv, SourceKept, At, repository
    <3>4. GateLocals' /\ ReauditLocals'
      BY <3>1 DEF GateLocals, ReauditLocals, At
    <3> QED BY <1>3, <3>2, <3>3, <3>4 DEF ReleaseInv
  <2> QED BY <2>2, <2>3, <2>4
<1>5. CASE tree.code \notin Packageable
  <2>1. command'.pc = "none"
    BY <1>5 DEF BuildWheel, End, Quiet
  <2> QED BY <1>3, <2>1, Nowhere DEF ReleaseInv
<1> QED BY <1>4, <1>5

\* The wheel that was built is the one that is kept.
LEMMA RetainArtifactStep ==
  ASSUME ReleaseInv, RetainArtifact
  PROVE  ReleaseInv'
<1>1. /\ UNCHANGED <<tree, repository, raced, brokenOff>>
      /\ At("retain")
      /\ artifact' = command.copy
      /\ command' = [command EXCEPT !.pc = "candidate"]
  BY DEF RetainArtifact, Go, repository
<1>2. command' = [pc |-> "candidate", retain |-> command.retain, revision |-> command.revision,
                  upstream |-> command.upstream, copy |-> command.copy]
  BY <1>1 DEF ReleaseInv, ProduceLocals
<1>3. TreeType' /\ Repository' /\ RecordsHeld'
  BY <1>1, RecordsUntouched
<1>4. ProduceLocals'
  <2>1. command.retain \in BOOLEAN /\ ChainHeld(command.revision, command.upstream)
    BY <1>1 DEF ReleaseInv, ProduceLocals, Building, At
  <2>2. artifact' = command.copy /\ UNCHANGED repository
    BY <1>1
  <2> QED BY <1>2, <2>1, <2>2 DEF ProduceLocals, ChainHeld, Revisions, Building, At, repository
<1>5. UNCHANGED <<tree, repository, raced, brokenOff>> /\ At("retain")
  BY <1>1
<1>6. SourceKept'
  BY <1>2, <1>5 DEF ReleaseInv, SourceKept, At, repository
<1>7. GateLocals' /\ ReauditLocals'
  BY <1>2 DEF GateLocals, ReauditLocals, At
<1>8. WrittenTogether'
  BY <1>2, <1>5 DEF ReleaseInv, WrittenTogether, At
<1> QED BY <1>3, <1>4, <1>6, <1>7, <1>8 DEF ReleaseInv

\* The record says what was built, from what.
LEMMA WriteCandidateStep ==
  ASSUME ReleaseInv, WriteCandidate
  PROVE  ReleaseInv'
<1> DEFINE r == CandidateRecord(command.revision, command.copy, command.upstream, command.retain)
<1>1. Write("candidate", r)
  BY DEF WriteCandidate
<1>2. /\ UNCHANGED <<repository, artifact>>
      /\ brokenOff' = brokenOff \ {"candidate"}
      /\ command'.pc = "none" /\ At("candidate")
  BY DEF WriteCandidate, End, Quiet
<1>3. /\ r.revision = command.revision /\ r.code = command.copy
      /\ r.retained = command.retain
      /\ r.evidence = command.upstream.evidence /\ r.verdict = command.upstream.verdict
  BY DEF CandidateRecord
<1> HIDE DEF r
<1>4. command.retain \in BOOLEAN /\ ChainHeld(command.revision, command.upstream)
  BY <1>2 DEF ReleaseInv, ProduceLocals, Building, At
<1>5. ChainHeld(r.revision, r)
  BY <1>3, <1>4 DEF ChainHeld
<1>6. /\ tree' = [code |-> tree'.code, disposition |-> tree'.disposition,
                  matrix |-> tree'.matrix, evidence |-> tree'.evidence,
                  review |-> tree'.review, verdict |-> tree'.verdict,
                  candidate |-> tree'.candidate]
      /\ tree'.code = tree.code
      /\ tree'.evidence = tree.evidence
      /\ tree'.review = tree.review
      /\ tree'.verdict = tree.verdict
      /\ tree'.candidate = r
  BY <1>1, WriteOne DEF ReleaseInv, Records
<1>7. TreeType'
  BY <1>2, <1>6 DEF ReleaseInv, TreeType, repository
<1>8. Repository'
  BY <1>2 DEF ReleaseInv, Repository, Revisions, repository
<1>9. RecordsHeld'
  BY <1>2, <1>5, <1>6 DEF ReleaseInv, RecordsHeld, EvidenceHeld, GatesHeld, VerdictHeld,
                          ChainHeld, Revisions, repository
<1>10. WrittenTogether'
  <2>1. r.retained => artifact = r.code
    BY <1>2, <1>3 DEF ReleaseInv, ProduceLocals
  <2>2. ~At("verdict") /\ ("verdict" \in brokenOff' <=> "verdict" \in brokenOff)
    BY <1>2 DEF At
  <2> QED BY <1>2, <1>6, <2>1, <2>2 DEF ReleaseInv, WrittenTogether
<1> QED BY <1>2, <1>7, <1>8, <1>9, <1>10, Nowhere DEF ReleaseInv

-----------------------------------------------------------------------------
(* A command is stopped                                                    *)

\* A command that is stopped leaves a record old, new or cut, and the pair is marked.
LEMMA StopStep ==
  ASSUME ReleaseInv, Stop
  PROVE  ReleaseInv'
<1>1. /\ UNCHANGED <<repository, artifact>>
      /\ brokenOff' = brokenOff \cup ({"verdict", "candidate"} \cap Cut)
      /\ command'.pc = "none"
      /\ UNCHANGED tree \/ \E file \in Cut : Write(file, Torn)
  BY DEF Stop, End, Quiet
<1>2. /\ At("verdict") => "verdict" \in brokenOff'
      /\ At("candidate") => "candidate" \in brokenOff'
      /\ brokenOff \subseteq brokenOff'
  BY <1>1 DEF Cut, Records, At
<1>3. ~Written(Torn)
  BY DEF Written, Torn
<1>4. CASE UNCHANGED tree
  <2>1. TreeType' /\ Repository' /\ RecordsHeld'
    BY <1>1, <1>4, RecordsUntouched
  <2>2. WrittenTogether'
    BY <1>1, <1>2, <1>4 DEF ReleaseInv, WrittenTogether
  <2> QED BY <1>1, <2>1, <2>2, Nowhere DEF ReleaseInv
<1>5. ASSUME NEW file \in Cut, Write(file, Torn)
      PROVE  ReleaseInv'
  <2>1. file \in Records
    BY DEF Cut
  <2>2. /\ tree' = [code |-> tree'.code, disposition |-> tree'.disposition,
                    matrix |-> tree'.matrix, evidence |-> tree'.evidence,
                    review |-> tree'.review, verdict |-> tree'.verdict,
                    candidate |-> tree'.candidate]
        /\ tree'.code = tree.code
        /\ tree'.evidence \in {tree.evidence, Torn}
        /\ tree'.review \in {tree.review, Torn}
        /\ tree'.verdict \in {tree.verdict, Torn}
        /\ tree'.candidate \in {tree.candidate, Torn}
    BY <1>5, <2>1, WriteOne DEF ReleaseInv
  <2>3. TreeType'
    BY <1>1, <2>2 DEF ReleaseInv, TreeType, repository
  <2>4. Repository'
    BY <1>1 DEF ReleaseInv, Repository, Revisions, repository
  <2>5. RecordsHeld'
    <3>1. EvidenceHeld(tree.evidence)' /\ VerdictHeld(tree.verdict)'
      BY <1>1, <1>3, <2>2 DEF ReleaseInv, RecordsHeld, EvidenceHeld, GatesHeld, VerdictHeld,
                              Revisions, repository
    <3>2. (Written(tree.candidate) => ChainHeld(tree.candidate.revision, tree.candidate))'
      BY <1>1, <1>3, <2>2 DEF ReleaseInv, RecordsHeld, ChainHeld, Revisions, repository
    <3> QED BY <3>1, <3>2 DEF RecordsHeld
  <2>6. WrittenTogether'
    BY <1>1, <1>2, <1>3, <2>2 DEF ReleaseInv, WrittenTogether
  <2> QED BY <1>1, <2>3, <2>4, <2>5, <2>6, Nowhere DEF ReleaseInv
<1> QED BY <1>1, <1>4, <1>5

-----------------------------------------------------------------------------
\* Every step keeps the invariant.
LEMMA NextReleaseInv == ReleaseInv /\ [ReleaseNext]_release => ReleaseInv'
<1> SUFFICES ASSUME ReleaseInv, [ReleaseNext]_release PROVE ReleaseInv'
  OBVIOUS
<1>1. CASE Developer
  <2>1. ASSUME NEW code \in Codes, Edit(code) PROVE ReleaseInv'
    BY <2>1, EditStep
  <2>2. ASSUME NEW d \in Dispositions, EditDisposition(d) PROVE ReleaseInv'
    BY <2>2, EditDispositionStep
  <2>3. ancestors[tip] \in SUBSET Nat
    BY DEF ReleaseInv, Repository, Revisions
  <2>4. CASE CommitTree
    BY <2>3, <2>4, NewCommitStep DEF CommitTree
  <2>5. CASE Amend
    <3>1. ancestors[tip] \ {tip} \in SUBSET Nat
      BY <2>3
    <3> QED BY <2>5, <3>1, NewCommitStep DEF Amend
  <2> QED BY <1>1, <2>1, <2>2, <2>4, <2>5 DEF Developer
<1>2. CASE Matrix   BY <1>2, MatrixStep
<1>3. CASE Evidence BY <1>3, EvidenceStep
<1>4. CASE Reaudit  BY <1>4, ReauditStep
<1>5. CASE Produce
  <2>1. ASSUME NEW retain \in BOOLEAN, StartProduce(retain) PROVE ReleaseInv'
    BY <2>1, StartProduceStep
  <2> QED BY <1>5, <2>1, ValidateUpstreamStep, BuildWheelStep, RetainArtifactStep,
             WriteCandidateStep DEF Produce
<1>6. CASE Stop     BY <1>6, StopStep
<1>7. CASE UNCHANGED release
  <2>1. UNCHANGED <<tree, repository, artifact, command, raced, brokenOff>>
    BY <1>7 DEF release, repository
  <2>2. TreeType' /\ Repository' /\ RecordsHeld'
    BY <2>1, RecordsUntouched
  <2>3. GateLocals' /\ ReauditLocals'
    BY <2>1 DEF ReleaseInv, GateLocals, GatesHeld, ReauditLocals, Revisions, At, repository
  <2>4. ProduceLocals'
    BY <2>1 DEF ReleaseInv, ProduceLocals, ChainHeld, Revisions, Building, At, repository
  <2>5. SourceKept'
    BY <2>1 DEF ReleaseInv, SourceKept, At, repository
  <2>6. WrittenTogether'
    BY <2>1 DEF ReleaseInv, WrittenTogether, At
  <2> QED BY <2>2, <2>3, <2>4, <2>5, <2>6 DEF ReleaseInv
<1> QED BY <1>1, <1>2, <1>3, <1>4, <1>5, <1>6, <1>7 DEF ReleaseNext

\* The invariant holds throughout.
LEMMA ReleaseInvariant == ReleaseSpec => []ReleaseInv
  BY InitReleaseInv, NextReleaseInv, PTL DEF ReleaseSpec

-----------------------------------------------------------------------------
(* What the run checks, for all values of the constants                    *)

\* A candidate the validator accepts rests on evidence in which every gate passed on a tree
\* that passes it, and on a ready verdict over such evidence: whatever was edited, committed,
\* amended or stopped between the commands that made its parts.
THEOREM ChainIsWhole == ReleaseSpec => []CandidateRestsOnItsChain
<1>1. ReleaseInv => CandidateRestsOnItsChain
  BY DEF ReleaseInv, RecordsHeld, ChainHeld, CandidateRestsOnItsChain, ValidCandidate, Good
<1> QED BY <1>1, ReleaseInvariant, PTL

\* The wheel beside a candidate is the one the record names, and a review and its verdict are
\* of one revision and one disposition, unless the command was stopped between the two writes.
THEOREM WritesBelongTogether == ReleaseSpec => []WrittenTogether
<1>1. ReleaseInv => WrittenTogether
  BY DEF ReleaseInv
<1> QED BY <1>1, ReleaseInvariant, PTL

\* A candidate record appears only with the source of the commit it names, aligned and
\* packageable, unless the source or HEAD moved below the command: no other step writes one.
THEOREM CandidateOfItsRevision == ReleaseSpec => CandidateIsItsRevision
<1> DEFINE OfItsRevision ==
      LET candidate == tree'.candidate IN
        candidate # tree.candidate /\ Written(candidate) /\ ~raced =>
          /\ candidate.code = source[candidate.revision]
          /\ candidate.code \in Aligned \cap Packageable
<1>1. ReleaseInv /\ [ReleaseNext]_release => [OfItsRevision]_release
  <2> SUFFICES ASSUME ReleaseInv, ReleaseNext,
                      tree'.candidate # tree.candidate, Written(tree'.candidate), ~raced
               PROVE  /\ tree'.candidate.code = source[tree'.candidate.revision]
                      /\ tree'.candidate.code \in Aligned \cap Packageable
    OBVIOUS
  <2>1. WriteCandidate
    <3>1. ~Written(Torn) /\ TreeType
      BY DEF ReleaseInv, Written, Torn
    <3>2. ASSUME NEW file \in Records \ {"candidate"}, NEW r, Write(file, r) PROVE FALSE
      BY <3>1, <3>2, WriteOne
    <3>3. ~Developer
      <4>1. ASSUME NEW code \in Codes, Edit(code) PROVE FALSE
        BY <3>1, <4>1 DEF Edit, TreeType
      <4>2. ASSUME NEW d \in Dispositions, EditDisposition(d) PROVE FALSE
        BY <3>1, <4>2 DEF EditDisposition, TreeType
      <4> QED BY <4>1, <4>2 DEF Developer, CommitTree, Amend, NewCommit
    <3>4. ~Stop
      <4>1. SUFFICES ASSUME Stop PROVE FALSE
        OBVIOUS
      <4>2. PICK file \in Cut : Write(file, Torn)
        BY <4>1 DEF Stop
      <4>3. file \in Records
        BY DEF Cut
      <4> QED BY <3>1, <4>2, <4>3, WriteOne
    <3>5. ~Matrix
      BY <3>2 DEF Matrix, StartMatrix, Begin, RunMinor, WriteMatrix, Records
    <3>6. ~Evidence
      BY <3>2 DEF Evidence, StartEvidence, Begin, RunGate, WriteEvidence, Records
    <3>7. ~Reaudit
      BY <3>2 DEF Reaudit, StartReaudit, Begin, WriteReview, WriteVerdict, Records
    <3> QED BY <3>3, <3>4, <3>5, <3>6, <3>7
            DEF ReleaseNext, Produce, StartProduce, Begin, ValidateUpstream, BuildWheel, RetainArtifact
  <2> DEFINE r == CandidateRecord(command.revision, command.copy, command.upstream, command.retain)
  <2>2. Write("candidate", r) /\ At("candidate")
    BY <2>1 DEF WriteCandidate
  <2>3. r.code = command.copy /\ r.revision = command.revision
    BY DEF CandidateRecord
  <2> HIDE DEF r
  <2>4. tree'.candidate = r
    BY <2>2, WriteOne DEF ReleaseInv, Records
  <2> QED BY <2>2, <2>3, <2>4 DEF ReleaseInv, SourceKept
<1> QED BY <1>1, ReleaseInvariant, PTL DEF ReleaseSpec, CandidateIsItsRevision
=============================================================================
