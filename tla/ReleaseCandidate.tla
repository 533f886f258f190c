-------------------------- MODULE ReleaseCandidate --------------------------
(***************************************************************************)
(* The way to a release candidate (scripts/*.py): a repository that        *)
(* somebody edits and commits to, and one command at a time that runs the  *)
(* Python matrix, generates the evidence, re-audits or produces the        *)
(* candidate.  A command takes long: the tree may change below it, and it  *)
(* may be stopped anywhere.                                                *)
(***************************************************************************)
EXTENDS ReleaseGates

CONSTANTS
  Dispositions,   \* what current-finding-disposition.json may say
  MaxCommits,     \* bound: commits
  MaxCommands,    \* bound: commands that are started
  MaxEdits        \* bound: changes of the source or the disposition

ASSUME DispositionsAssumption == Published \in Dispositions
ASSUME BoundAssumption == MaxCommits \in Nat \ {0} /\ MaxCommands \in Nat /\ MaxEdits \in Nat

VARIABLES
  tree,        \* the work tree: source, disposition and the records of specs/verifications
  atHead,      \* the same at HEAD
  tip,         \* HEAD
  ancestors,   \* per commit: those it is made upon, and itself
  source,      \* per commit: its source
  artifact,    \* the wheel retained beside the candidate record
  command,     \* the command that is running, its place and its locals
  commands,    \* how many commands were started
  edits,       \* how many changes were made
  raced,       \* for the properties: the source changed, or HEAD moved, below the command
  brokenOff    \* for the properties: a command was stopped between two writes that belong together

release == <<tree, atHead, tip, ancestors, source, artifact, command, commands, edits, raced, brokenOff>>
budget == <<commands, edits>>
repository == <<atHead, tip, ancestors, source>>

NoCode == "none"
Commits == 1..MaxCommits
Records == {"matrix", "evidence", "review", "verdict", "candidate"}

Quiet == [pc |-> "none"]

\* A repository before its first candidate, with or without a qualified matrix.
ReleaseInit ==
  /\ \E code \in Codes, matrix \in {NoFile, [file |-> "written", revision |-> 1, passed |-> 1..Minors]} :
       /\ tree = [code |-> code, disposition |-> Published, matrix |-> matrix, evidence |-> NoFile,
                  review |-> NoFile, verdict |-> NoFile, candidate |-> NoFile]
       /\ source = <<code>>
  /\ atHead = tree
  /\ tip = 1
  /\ ancestors = <<{1}>>
  /\ artifact = NoCode
  /\ command = Quiet /\ commands = 0 /\ edits = 0
  /\ raced = FALSE /\ brokenOff = {}

-----------------------------------------------------------------------------
(* The developer                                                           *)

Running == command.pc # "none"

Edit(code) ==
  /\ code # tree.code
  /\ edits < MaxEdits /\ edits' = edits + 1
  /\ tree' = [tree EXCEPT !.code = code]
  /\ raced' = (raced \/ Running)
  /\ UNCHANGED <<repository, artifact, command, commands, brokenOff>>

EditDisposition(d) ==
  /\ d # tree.disposition
  /\ edits < MaxEdits /\ edits' = edits + 1
  /\ tree' = [tree EXCEPT !.disposition = d]
  /\ UNCHANGED <<repository, artifact, command, commands, raced, brokenOff>>

NewCommit(upon) ==
  /\ tree # atHead
  /\ Len(source) < MaxCommits
  /\ LET new == Len(source) + 1 IN
       /\ tip' = new
       /\ ancestors' = Append(ancestors, upon \cup {new})
       /\ source' = Append(source, tree.code)
  /\ atHead' = tree
  /\ raced' = (raced \/ Running)
  /\ UNCHANGED <<tree, artifact, command, budget, brokenOff>>

CommitTree == NewCommit(ancestors[tip])
Amend == NewCommit(ancestors[tip] \ {tip})

-----------------------------------------------------------------------------
(* Commands                                                                *)

At(label) == command.pc = label
Go(label) == command' = [command EXCEPT !.pc = label]

Begin(locals) ==
  /\ ~Running
  /\ commands < MaxCommands /\ commands' = commands + 1
  /\ command' = locals
  /\ raced' = FALSE
  /\ UNCHANGED <<tree, repository, artifact, edits, brokenOff>>

End == command' = Quiet

\* path.write_text: the record, or a part of it when the process is stopped in it.
Write(file, record) == tree' = [tree EXCEPT ![file] = record]

-----------------------------------------------------------------------------
(* check-python-matrix.sh                                                  *)

StartMatrix == Begin([pc |-> "minor", done |-> 0, passed |-> {}])

\* The stages of a minor are in a function that is the condition of an `if`, where bash ignores
\* what fails, set -e or not: tests, audit and types that fail there change nothing.  A
\* minor fails only if `uv build` has left no wheel.
RunMinor(built) ==
  /\ At("minor")
  /\ LET n == command.done + 1 IN
       IF built
         THEN command' = [pc |-> IF n = Minors THEN "matrix" ELSE "minor",
                          done |-> n, passed |-> command.passed \cup {n}]
         ELSE End
  /\ UNCHANGED <<tree, repository, artifact, budget, raced, brokenOff>>

\* The revision is read now; the file is renamed into its place.
WriteMatrix ==
  /\ At("matrix")
  /\ Write("matrix", [file |-> "written", revision |-> tip, passed |-> command.passed])
  /\ End
  /\ UNCHANGED <<repository, artifact, budget, raced, brokenOff>>

-----------------------------------------------------------------------------
(* release_evidence.py generate                                            *)

\* The revision is read first.
StartEvidence ==
  Begin([pc |-> "gate", revision |-> tip, done |-> 0, passed |-> {}, on |-> NoCode])

RunGate(online) ==
  /\ At("gate")
  /\ LET n == command.done + 1 IN
       command' =
         [pc |-> IF n = Len(Gates) THEN "evidence" ELSE "gate",
          revision |-> command.revision,
          done |-> n,
          passed |-> command.passed
                       \cup (IF GatePasses(Gates[n], tree, atHead, online) THEN {n} ELSE {}),
          on |-> IF Gates[n] = "official-check" THEN tree.code ELSE command.on]
  /\ UNCHANGED <<tree, repository, artifact, budget, raced, brokenOff>>

\* The record is written whatever the gates said; with a failed one the command exits with 1.
WriteEvidence ==
  /\ At("evidence")
  /\ Write("evidence", [file |-> "written", revision |-> command.revision,
                        passed |-> command.passed, on |-> command.on])
  /\ End
  /\ UNCHANGED <<repository, artifact, budget, raced, brokenOff>>

-----------------------------------------------------------------------------
(* candidate_reaudit.py generate                                           *)

StartReaudit ==
  /\ ValidEvidence(tree.evidence, tip, ancestors)
  /\ Begin([pc |-> "review", revision |-> tip, disposition |-> tree.disposition])

WriteReview ==
  /\ At("review")
  /\ Write("review", Review(command.revision, command.disposition, tree.evidence))
  /\ Go("verdict")
  /\ UNCHANGED <<repository, artifact, budget, raced, brokenOff>>

WriteVerdict ==
  /\ At("verdict")
  /\ Write("verdict", Verdict(command.revision, command.disposition, tree.evidence))
  /\ brokenOff' = brokenOff \ {"verdict"}
  /\ End
  /\ UNCHANGED <<repository, artifact, budget, raced>>

-----------------------------------------------------------------------------
(* release_candidate.py produce                                            *)

\* Mutation: a work tree with changes is let through.
StartProduce_NotClean(retain) ==
  Begin([pc |-> "upstream", retain |-> retain])

StartProduce(retain) ==
  /\ tree = atHead
  /\ Begin([pc |-> "upstream", retain |-> retain])

ValidateUpstream ==
  /\ At("upstream")
  /\ IF tree.code \in Aligned /\ ValidUpstream(tree, tip, ancestors)
       THEN command' = [pc |-> "build", retain |-> command.retain, revision |-> tip,
                        upstream |-> [evidence |-> tree.evidence, verdict |-> tree.verdict]]
       ELSE End
  /\ UNCHANGED <<tree, repository, artifact, budget, raced, brokenOff>>

\* The wheel is built from the work tree, then inspected and tried in a place of its own.
BuildWheel ==
  /\ At("build")
  /\ IF tree.code \in Packageable
       THEN command' = [pc |-> IF command.retain THEN "retain" ELSE "candidate",
                        retain |-> command.retain, revision |-> command.revision,
                        upstream |-> command.upstream, copy |-> tree.code]
       ELSE End
  /\ UNCHANGED <<tree, repository, artifact, budget, raced, brokenOff>>

\* Mutation: the wheel is built again for the place it is kept in.
RetainArtifact_Rebuilt ==
  /\ At("retain")
  /\ artifact' = tree.code
  /\ Go("candidate")
  /\ UNCHANGED <<tree, repository, budget, raced, brokenOff>>

RetainArtifact ==
  /\ At("retain")
  /\ artifact' = command.copy
  /\ Go("candidate")
  /\ UNCHANGED <<tree, repository, budget, raced, brokenOff>>

WriteCandidate ==
  /\ At("candidate")
  /\ Write("candidate", CandidateRecord(command.revision, command.copy, command.upstream, command.retain))
  /\ brokenOff' = brokenOff \ {"candidate"}
  /\ End
  /\ UNCHANGED <<repository, artifact, budget, raced>>

-----------------------------------------------------------------------------
(* A command is stopped, or fails                                          *)

\* Which record a command that is stopped here leaves cut, if any.
Cut == IF command.pc \in Records \ {"matrix"} THEN {command.pc} ELSE {}

Stop ==
  /\ Running
  /\ UNCHANGED tree \/ \E file \in Cut : Write(file, Torn)
  /\ brokenOff' = brokenOff \cup ({"verdict", "candidate"} \cap Cut)
  /\ End
  /\ UNCHANGED <<repository, artifact, budget, raced>>

-----------------------------------------------------------------------------
Developer ==
  \/ \E code \in Codes : Edit(code)
  \/ \E d \in Dispositions : EditDisposition(d)
  \/ CommitTree \/ Amend

Matrix == StartMatrix \/ (\E built \in BOOLEAN : RunMinor(built)) \/ WriteMatrix
Evidence == StartEvidence \/ (\E b \in BOOLEAN : RunGate(b)) \/ WriteEvidence
Reaudit == StartReaudit \/ WriteReview \/ WriteVerdict
Produce ==
  \/ \E retain \in BOOLEAN : StartProduce(retain)
  \/ ValidateUpstream \/ BuildWheel \/ RetainArtifact \/ WriteCandidate

ReleaseNext == Developer \/ Matrix \/ Evidence \/ Reaudit \/ Produce \/ Stop

ReleaseSpec == ReleaseInit /\ [][ReleaseNext]_release

-----------------------------------------------------------------------------
(* Properties                                                              *)

\* A candidate the validator accepts rests on evidence of a commit it is made upon, in
\* which every gate passed and the tests passed on a tree that passes them, and on a ready
\* verdict of a re-audit that saw no open critical or major finding and such evidence,
\* whatever was edited, committed, amended or broken off on the way.
CandidateRestsOnItsChain ==
  ValidCandidate(tree.candidate, AnyRevision, ancestors) =>
    LET evidence == tree.candidate.evidence
        verdict == tree.candidate.verdict IN
      /\ evidence.passed = 1..Len(Gates)
      /\ evidence.on \in Sound \cap Audited \cap Secure
      /\ evidence.revision \in ancestors[tree.candidate.revision]
      /\ Blockers(verdict.on) = {}
      /\ verdict.evidence \in ancestors[verdict.revision]

\* Unless the source was changed or HEAD moved while the command ran, a candidate's wheel is
\* the source of the commit it names, under the selected name and version: the tree is
\* checked, HEAD read and the wheel built in three steps, the last from the work tree.
CandidateIsItsRevision ==
  [][LET candidate == tree'.candidate IN
       candidate # tree.candidate /\ Written(candidate) /\ ~raced =>
         /\ candidate.code = source[candidate.revision]
         /\ candidate.code \in Aligned \cap Packageable]_release

\* Two files that are written one after the other are of the same command, unless it was
\* stopped in between: the wheel kept beside an accepted record is the one whose hash the
\* record has, and review and verdict are of one revision and one disposition.
WrittenTogether ==
  /\ Written(tree.candidate) /\ tree.candidate.retained
     /\ "candidate" \notin brokenOff /\ ~At("candidate")
     => artifact = tree.candidate.code
  /\ Written(tree.review) /\ Written(tree.verdict)
     /\ "verdict" \notin brokenOff /\ ~At("verdict")
     => /\ tree.review.revision = tree.verdict.revision
        /\ tree.review.outcome = "approve" <=> Residual(tree.verdict.on) = {}
=============================================================================
