---------------------------- MODULE ReleaseGates ----------------------------
(***************************************************************************)
(* What the release scripts decide (scripts/*.py): which gates a source    *)
(* tree passes, and which records the validators accept.  Pure operators;  *)
(* ReleaseCandidate has the repository and the commands.                   *)
(*                                                                         *)
(* A source tree is one of Codes, known by what the gates tell apart.  A   *)
(* disposition is a set of findings [severity, status].  A record is what  *)
(* its JSON file says, and in "on" or "code" what it was made from, which  *)
(* the file does not say: no validator reads it.                           *)
(***************************************************************************)
EXTENDS Integers, FiniteSets, Sequences

CONSTANTS
  Codes,         \* states of the source tree
  Sound,         \* ... whose tests pass, with the coverage the policy asks for
  Audited,       \* ... whose locked dependencies have no known vulnerability
  Secure,        \* ... in which Bandit finds nothing
  Aligned,       \* ... whose name and versions are the selected identity
  Packageable,   \* ... whose wheel has package files only and runs when installed
  AsAssessed,    \* ... with the files the disposition cites as they were assessed
  Published,     \* the disposition whose digest the baseline script pins
  Gates,         \* the gates in the order they run
  Minors         \* how many versions of Python the matrix has

ASSUME CodesAssumption ==
  \A S \in {Sound, Audited, Secure, Aligned, Packageable, AsAssessed} : S \subseteq Codes
ASSUME GatesAssumption ==
  /\ Gates \in Seq({"quality-policy", "official-check", "python-matrix", "release-baseline"})
  /\ \E n \in 1..Len(Gates) : Gates[n] = "official-check"
  /\ Minors \in Nat \ {0}

-----------------------------------------------------------------------------
(* Files: a record, none, or one that was cut while it was written         *)

NoFile == [file |-> "absent"]
Torn == [file |-> "torn"]
Written(f) == f.file = "written"

\* No particular revision is asked for.
AnyRevision == 0

\* `git merge-base --is-ancestor`: ancestors has, for a commit, those it is made upon, and itself.
Binds(revision, expected, ancestors) ==
  expected = AnyRevision \/ revision \in ancestors[expected]

-----------------------------------------------------------------------------
(* Gates                                                                   *)

CoverageStage(code) == code \in Sound

\* Whatever is not exit code 0 fails, also when the advisory data cannot be reached.
DependencyAuditStage(code, online) == online /\ code \in Audited

SourceSecurityStage(code) == code \in Secure

QualityPolicy(stages, code, online) ==
  /\ "coverage" \in stages => CoverageStage(code)
  /\ "dependency_audit" \in stages => DependencyAuditStage(code, online)
  /\ "source_security" \in stages => SourceSecurityStage(code)

AllStages == {"coverage", "dependency_audit", "source_security"}

OfficialCheck(code, online) ==
  QualityPolicy(AllStages, code, online) /\ code \in Packageable

\* The contract is the published one, and no file it cites differs from the assessed commit.
ReleaseBaseline(code, disposition) ==
  disposition = Published /\ code \in AsAssessed

ValidMatrix(matrix, expected) ==
  /\ Written(matrix)
  /\ expected = AnyRevision \/ matrix.revision = expected
  /\ matrix.passed = 1..Minors

\* The matrix gate runs nothing: it reads the tracked record, of whatever revision.
MatrixGate(matrix, committedMatrix) ==
  ValidMatrix(matrix, AnyRevision) /\ matrix = committedMatrix

GatePasses(gate, tree, atHead, online) ==
  CASE gate = "quality-policy"   -> QualityPolicy({"dependency_audit", "source_security"}, tree.code, online)
    [] gate = "official-check"   -> OfficialCheck(tree.code, online)
    [] gate = "python-matrix"    -> MatrixGate(tree.matrix, atHead.matrix)
    [] gate = "release-baseline" -> ReleaseBaseline(tree.code, tree.disposition)

-----------------------------------------------------------------------------
(* Records                                                                 *)

ValidEvidence(evidence, expected, ancestors) ==
  /\ Written(evidence)
  /\ Binds(evidence.revision, expected, ancestors)
  /\ evidence.passed = 1..Len(Gates)

Residual(disposition) ==
  {f \in disposition : f.status \in {"accepted", "deferred", "open"}}

Review(revision, disposition, evidence) ==
  [file |-> "written", revision |-> revision,
   outcome |-> IF Residual(disposition) = {} THEN "approve" ELSE "approve_with_residual_risk"]

Blockers(disposition) ==
  {f \in disposition : f.status = "open" /\ f.severity \in {"critical", "major"}}

Readiness(disposition) ==
  IF Blockers(disposition) # {} THEN "NOT_READY"
  ELSE IF \E f \in disposition : f.status \in {"accepted", "deferred"}
       THEN "READY_WITH_EXPLICIT_ACCEPTANCE"
       ELSE "READY"

ReadyVerdicts == {"READY", "READY_WITH_EXPLICIT_ACCEPTANCE"}

Verdict(revision, disposition, evidence) ==
  [file |-> "written", revision |-> revision, verdict |-> Readiness(disposition),
   blockers |-> Blockers(disposition) # {}, evidence |-> evidence.revision, on |-> disposition]

ValidVerdict(verdict, expected, ancestors, requireReady) ==
  /\ Written(verdict)
  /\ Binds(verdict.revision, expected, ancestors)
  /\ verdict.blockers => verdict.verdict = "NOT_READY"
  /\ requireReady => verdict.verdict \in ReadyVerdicts

\* The evidence, a completed review of any revision, and a ready verdict.
ValidReviewedEvidence(tree, expected, ancestors) ==
  /\ ValidEvidence(tree.evidence, expected, ancestors)
  /\ Written(tree.review)
  /\ ValidVerdict(tree.verdict, expected, ancestors, TRUE)

\* Mutation: the repeated check is not followed by the one of the ancestor.
ValidUpstream_AnyEvidence(tree, revision, ancestors) ==
  /\ \/ ValidReviewedEvidence(tree, revision, ancestors)
     \/ ValidReviewedEvidence(tree, AnyRevision, ancestors)
  /\ ValidVerdict(tree.verdict, AnyRevision, ancestors, TRUE)
  /\ Written(tree.matrix)

\* What a candidate is built upon; a check at the exact revision that fails is repeated without one.
ValidUpstream(tree, revision, ancestors) ==
  /\ \/ ValidReviewedEvidence(tree, revision, ancestors)
     \/ ValidReviewedEvidence(tree, AnyRevision, ancestors)
  /\ Binds(tree.evidence.revision, revision, ancestors)
  /\ ValidVerdict(tree.verdict, AnyRevision, ancestors, TRUE)
  /\ Written(tree.matrix)

CandidateRecord(revision, wheel, upstream, retained) ==
  [file |-> "written", revision |-> revision, code |-> wheel, retained |-> retained,
   evidence |-> upstream.evidence, verdict |-> upstream.verdict]

ValidCandidate(candidate, expected, ancestors) ==
  /\ Written(candidate)
  /\ Binds(candidate.revision, expected, ancestors)
  /\ candidate.verdict.verdict \in ReadyVerdicts
=============================================================================
