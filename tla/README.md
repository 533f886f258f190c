# OrbitRelay: a verification project

OrbitRelay is a command-line coding agent. It sends a conversation to a model
through an OpenAI-compatible API, runs the tools the model asks for once the user
has approved them, and can keep the conversation in a session directory so that a
later run resumes it. The package is `src/orbitrelay` (about 7,300 lines of
Python). The scripts under `scripts/` (about 3,100 lines) decide which commit becomes a
release candidate.

Nothing here runs for long, but much of it must survive being stopped: the user
presses Ctrl-C, the process is killed, a second process starts on the same
session, the provider answers late, somebody edits the source while its gates run. What a
stopped or concurrent process leaves on disk decides what the next one sees. That is what
this project models.

## 1. Inventory

| Component (source) | State it keeps | Operations | Interacts with | What makes it correct |
|---|---|---|---|---|
| Session store (`sessions.py`) | per session: `metadata.json`, `messages/`, `events/`, staged and moved-aside directories, format 1 files | create, load, commit_checkpoint, mark_sensitive, delete, delete_all, list, inspect | command line (calls), agent loop (checkpoint callback), file system | no committed generation is lost, none is loaded in part, whatever interrupts |
| Session lease (`sessions.py`) | `session.lock` (flock), `active.json` | acquire (wait, timeout), release, probe | every process that opens the session; delete | one owner from load to last checkpoint; no deletion under an owner |
| Context budget (`context_budget.py`) | none (pure) | segmentize, budget, pack, replay prefix, replay window | store and agent loop | tool calls are never separated from their results; newest groups win |
| Agent loop (`agent.py`) | message list, response number | one response, one round of tool calls, final answer | provider, approvals, tools, events, checkpoint callback | every call of a round has one result; a refused call does not run; the response limit |
| Approvals (`approvals.py`, `terminal_authorizer.py`) | disabled tools, records | authorise a batch, ask on the terminal | agent loop | a disabled tool stays disabled; no answer means no |
| Workspace privacy (`tools/workspace_privacy.py`) | the exceptions declared for this run, the policy cache | classify a path, declare, authorise, cover a stored descriptor, clear | command line, read tools, store | nothing protected is read or listed; sensitive history resumes only under renewed authority |
| Tools (`tools/`) | files of the workspace | read, list, write, run a Python file | agent loop, bounded subprocess | a write lands whole or not at all, inside the workspace |
| Bounded subprocess (`process_bounds.py`) | child, two drain threads, sinks | run, time out, kill, join | run_python_file, codex bridge | bounded output, says so when cut, always returns |
| Streaming (`streaming.py`) | buckets of partial tool calls | merge a delta, assemble | agent loop | the assembled message is the one that was cut up |
| Events and summary (`events.py`, `run_summary.py`) | event list | emit, summarise | agent loop, store | counts agree with what happened |
| Profiles and credentials (`profile_store.py`, `credentials.py`) | metadata file, keyring entries, lock | create, save, select, delete, verify | provider connections | metadata and secret agree; updates are serialised |
| Provider connections (`connection_service.py`) | none of its own | connect, verify, disconnect, combined Codex logout | profiles, keyring, probe, Codex CLI | reported results are what happened |
| Codex bridge (`codex_bridge.py`) | none | detect, login, logout, exec | official CLI, bounded subprocess | partial results are told truthfully |
| Command line (`cli.py`, `session_cli.py`, ...) | arguments | prepare session, run, session commands | everything | lease before load, authority before load |
| Release tooling (`scripts/`) | records under `specs/verifications/`, a retained wheel | matrix, gates, evidence, re-audit, candidate, and the validator of each record | git, the work tree | a candidate rests on gates that passed and on a ready verdict, and its wheel is the commit it names |

Hard behaviours, with their lines, are the `hazards` of `PROJECT.json`: crash
windows between two renames, a mark written after the data it protects, windows of
history that are written back as the whole, a lock file that is deleted while
another process waits on it, secrets and metadata updated one after the other,
evidence gathered outside the transaction that stores it, pipes held open by
grandchildren, names that are resolved once to be checked and once to be opened, readers
that hold no lease, gates that run on a tree which moves below them.

## 2. Modules

### SessionCheckpoint (with DurableHistory)

`SessionCheckpoint` is one session directory and the process that owns it.

| State | Code |
|---|---|
| `directory`, `metadata`, `messages`, `events`, `legacy` | the session directory, `metadata.json` (history format, sensitive authority), `messages/`, `events/`, `messages.jsonl` |
| `staged`, `backup` | `.messages.tmp-*` and the newest `.messages.bak-*` of `_replace_jsonl_segments` |
| `pc` | which file-system operation of `create`, `commit_checkpoint`, `mark_sensitive` or `delete` comes next; `idle` when no process owns the session |
| `history`, `authority`, `consent` | the messages in `run_agent`, the exceptions declared for the run, `--persist-sensitive-session` |
| `nextId`, `committed`, `generations`, `exposed` | observers; no guard of the code depends on them (the bound `nextId <= MaxGroup` ends the exploration) |

An action is one operation that the file system makes visible at once: an atomic
replacement of a file (`_write_text_secure`), a rename of a directory, an unlink.
`commit_checkpoint` is therefore nine actions in a fixed order, from
`BeginCheckpoint` to `RemoveLegacy`. `Abandon` may come between any two of them
and stands for a kill, an interrupt and an `OSError` alike: in all three the staged
files are gone or unreadable by name and what was moved aside stays aside. A crash
of the machine, with renames that were not synced, is not modelled.

Abstractions. A *group* is what `partition_history` never splits: the prompt, an
assistant message with its tool results, the final answer. A group records its
number, the authority of the run that produced it and whether that run consented to
persist. All groups have size one, so a window of `MaxReplay` groups stands for
`DEFAULT_MAX_REPLAY_CHARS`. An events directory is known by the newest group of the
checkpoint that wrote it. Only one moved-aside directory is kept (the newest: the
others are never read and only use space).

`DurableHistory` is the promise: one recoverable value, changed in one step by a
checkpoint, reported only once it has changed, taken back only by a deletion.
`ImplementsDurableHistory` is the refinement, with `stored` mapped to what a
reader of the whole directory can recover (`Recoverable`) and `pending` to the
generation being committed.

Environment: `Init` allows an absent session, one of format 1 (a single
`messages.jsonl`) and one of a newer format that must be refused.

### SessionInspection

`session show` and `session delete-all` beside runs and other deletions: the two commands
that go over session directories without a lease.

| State | Code |
|---|---|
| `files` | per session: the directory, `metadata.json`, `session.lock`, and `messages/` as a function from file numbers to groups |
| `owner` | the run on a session: creating it, running, or between the two renames of `commit_checkpoint`, with its history |
| `command` | the command: its place and its locals (names listed, paths that are files, rows read, sessions to do, sessions listed, what its last pass over a session read) |
| `deletion`, `outcome` | a deletion in progress, of the command and of somebody else; what the command reported of each session |
| `noticed`, `groups`, `lives` | observer: what happened to each session since the command began, a set of the words created, swapped, shortened and deleted; the bounds |

| Actions | Code |
|---|---|
| `ReadMetadata`, `Look`, `ListNames`, `TestName`, `ReadFile` | `inspect_session` and `_read_message_segments`: one access to the file system each; `is_file` is asked name by name, then the files are opened one by one |
| `Show`, `Load` | `session show`: inspect, then `load_messages`, which reads all of it again |
| `StartDeleteAll`, `Summarize`, `StartDeleting`, `DeleteListed`, `EndDeleteAll` | `list_sessions` and the loop of `delete_all` |
| `Delete`, `Clear`, `ListRest`, `Erase`, `RemoveDirectory` | the two passes of `delete`, one unlink at a time |
| `Create`, `CreateFiles`, `Resume`, `MoveAside`, `Install`, `Stop`, `LateLock` | runs, as far as these readers can tell |

Who may own a session is the subject of `SessionLease`; here a lease is free or held. A
run that resumes puts the newest `ReplaySize` groups in the place of the history; files
have a fixed number of groups (`Segments`). A session that is being created is held by nobody
(`Busy`), because `create` comes before the lease; that a deletion meets such a creation is the race
*create* of `SessionLease` and does not happen here. A run, a deletion and `Install` act on a
directory that is there. Probing whether a session is active, format 1 and events
are left out.

### SessionLease

`SessionLease` is one session name and the processes that use it: runs
(`orbitrelay --session X`), deletions and probes (`session list`, `session show`).
`SessionCheckpoint` assumes one owner; this module asks whether that is so.

| State | Code |
|---|---|
| `directory`, `metadata`, `messages`, `active` | the session directory (numbered, because it may be removed and made again under the same name), `metadata.json`, the history, `active.json` |
| `lockFile`, `holder` | which file is named `session.lock`, and for every such file, also the unlinked ones, which process has locked it |
| `pc`, `mode`, `patient`, `expired` | where a process is, what it wants the lease for, whether `--session-wait` was given, whether its deadline has passed |
| `fd`, `view`, `listing`, `place` | the lock file a process has open, the history in its memory, the names a deletion read and the directory it read them from |
| `raced` | observer: which of three races have happened |

The kernel locks files and not names, and that is the heart of the model: `fd`
keeps pointing at a file that a deletion has unlinked. Everything else goes by name:
metadata, segments, the chmod after the lock (`Announce`, which is why a process that
locked an unlinked file usually fails, and does not when somebody has created a new
one). An action is one access to what the processes share. A checkpoint is one
action here; inside it is `SessionCheckpoint`. `Crash` may hit anywhere; the kernel
then frees the lock and `active.json` stays.

The three races are what `acquire_lease` does not exclude. *create*: `create` runs
before the lease and meets another creation, an owner or a deletion. *listing*: a
deletion has read a directory that was then replaced. *lock*: a deletion unlinks a
lock file that another process has open. The properties say that there is no
fourth one.

Abstractions: the segments of a history are one value; `unlink` of a directory's
segments and its `rmdir` are one step; `events/` and temporary files are left out.

### ContextBudget and HistoryBounds

`ContextBudget` has the pure functions of `context_budget.py` as operators over
sequences of messages (role, ids of the calls, id of the answered call, size); the
loops are folds whose accumulator holds the loop's local variables.

| Operators | Code |
|---|---|
| `Place`, `Segmentize`, `PartitionHistory` | `_segmentize`, `partition_history` |
| `Keep`, `ApplyContextBudget`, `SelectReplayMessages` | the walk from the newest group; the two errors are the result `Refused` |
| `Pack`, `Flushed`, `PackSegments` | `pack_segments` |
| `Follow`, `IsReplaySafe`, `ReplaySafePrefix` | `is_replay_safe`, `replay_safe_prefix` |
| `Only` | the comprehensions that keep the messages or events of a kind; a recursive function, so that it can be reasoned about |

`HistoryBounds` lets a history grow by one message at a time, as `run_agent` and the
user do, and composes the operators as the store does: `Committed` is what
`commit_checkpoint` writes, `Loaded` what `load_replay_messages` returns. The messages
are any sequence, because a directory of an older version or of another tool may
hold one; the properties of requests and files assume `IsReplaySafe`, which
`commit_checkpoint` requires.

Abstractions: the size of a message is a number of its own; calls always have
ids (the code accepts any results for calls without ids); loading returns messages
as they were written (redaction before the write may change a message, not its
place).

### AgentLoop

One run of `run_agent`, with the approval session, the terminal and the event
collector it uses. It extends `ContextBudget`: messages are those of that module,
requests are built by `ApplyContextBudget`, and `IsReplaySafe` is the test
`commit_checkpoint` makes.

| Variable | Code |
|---|---|
| `messages`, `response` | the list of `run_agent`, `response_number` |
| `calls`, `answers`, `attempt`, `decisions`, `drawn`, `results` | the locals of a round: validated calls, what the authorizer said so far, prompts not understood, what `authorize` returned, how far the iterator of decisions is, the tool messages |
| `mode`, `disabled`, `records` | `ApprovalSession` (policy, `_disabled_tools`, `_records`) |
| `events`, `durable` | `EventCollector`, the messages of the last checkpoint |
| `effects` | for the properties only: which tools were run, for which call |

| Action | Code |
|---|---|
| `Start`, `Finish`, `Update` | the three places where `on_messages_update` is called; each may fail |
| `RequestFails`, `Receive`, `ResponseFails`, `FinalAnswer` | `_create_model_response`, `_process_response`; the budget, the provider or the response may fail |
| `ToolRound`, `Ask`, `AnswerByPolicy`, `Authorized` | `_tool_round_messages` up to the decisions, one question at a time |
| `ExecuteNext`, `RoundDone`, `RoundFails` | `_tool_result_messages`, one call at a time; the assistant message is serialized last and may fail |
| `Interrupt` | Ctrl-C, a signal or a crash anywhere, also within a tool after it had its effect |

Abstractions: tools are run or not and return a result that is an error or not; reasons of a
refusal are left out where they lead to the same decision; a run always has a checkpoint
callback and a collector; an output stream or event sink that raises is left out. A run
starts with nothing or with a history that may be replayed (`ResumeAssumption`), which is
what `load_replay_messages` returns. What a failing checkpoint leaves on disk is
`SessionCheckpoint`'s business, here it is the old or the new history.

### Connections

Stored provider connections and the processes that change them: `provider connect`,
`disconnect`, `verify` and the Codex login and logout.

| Variable | Code |
|---|---|
| `file` | `profiles.json`: the selection, the profiles, the evidence of verification; replaced as a whole |
| `keyring` | the secret of each API-key provider in the native keyring |
| `lock` | the flock of `ProfileRepository.transaction` |
| `command` | per process: which command, where it is, and its locals (`previous_secret`, whether the connection was selected) |
| `versions` | a connect brings the next profile and secret, so the pair is told from an older one |
| `torn` | observer: providers whose two writes were broken off half-way |

| Action | Code |
|---|---|
| `Lookup`, `Store`, `Save`, `Undo` | `_save_api_key_profile`: the previous secret is read, the new one stored, the profile saved, the secret put back on failure |
| `Select` | the second transaction of a connect |
| `ReadProfile`, `ReadSelected`, `DeleteSecret`, `DeleteProfile`, `Confirm` | `disconnect`, with the reads that are outside the transaction |
| `Login`, `Logout` | the official CLI (external), which succeeds or fails |
| `ReadSecret`, `SetVerification` | `verify`: the probe is between them, outside any transaction |
| `Crash` | a process dies anywhere; the kernel frees its lock |

A write of the file and a call of the keyring may fail. Left out: `resolve`, `status`,
`inspect` and `list`, which only read; the rewriting of version-1 metadata; reads that
fail; validation of names, URLs and permissions.

### ProcessBounds

One call of `run_bounded_subprocess`: the child, what the child starts in the
background, the two pipes, the two drain threads and the calling thread.

| Variable | Code |
|---|---|
| `caller` | what the calling thread does: wait, kill, join, close, join again, returned |
| `child`, `heirs` | the child, and the pipes held open by a process it started |
| `written`, `taken` | characters put into and read from each pipe |
| `drain` | `_drain_stream`: in a read or between two, what is decoded, retained, `truncated` |
| `bad` | the first character that is not UTF-8, if any: `_drain_stream` ends there |
| `closed` | pipes the caller has closed |

Reading is two steps (`Enter`, `Read`), because the thread holds the lock of the
buffer while it is blocked, and `close` needs that lock. `LeaveThread` is the timeout of
`join`; it is only taken of a thread that has nothing to read, because five seconds
are long for one that has. Left out: the wording of the result, and
`bound_completed_process`, which only tests call.

### CodexExec

`codex exec`: the official CLI as the child of `ProcessBounds`. `finalFile` is the file of
`--output-last-message`, `code` the return code; `Say`, `WriteFinal` and `ExitWith` are the CLI
(external: it writes its messages, then the file, and succeeds only with a whole file or
with none), `KillCli` the timeout. `FinalMessage`, `OutputTruncated` and `ExecResult` are what
`CodexBridge.exec` makes of all that after the call has returned; `Printed` is what `codex_cli.py` passes
on of that object, which is the message and the exit code and not the marks. A character of stdout
stands for a line with a message. The two calls before, for version and login, only refuse.

### Streaming

`assemble_chat_completion` as a pass over chunks: `WithChunk` is the body of the loop,
`sofar` its local variables, `ReceiveChunk` the arrival of a chunk. A string is the
sequence of the pieces it was sent in, so that an assembled string tells which pieces
it is made of. `SentMessage` reads the same message off the whole stream without a
pass: it is the reference. The values of provider fields are texts, lists, maps or
something else; a value of another type replaces the one before, `role` is never
joined. The module has recursive operators (fields nest), so nothing is proved about
it. `iter_text_deltas` has no caller.

### WriteFile

One call of `write_file` and other programs that change the same names.

| Variable | Code |
|---|---|
| `node` | what is at the name the call was given, at another name of the workspace and at one outside: nothing, a directory, a link or a file with known content |
| `parent` | whether the directory of the name is there |
| `target` | `target_file`, the name found when the path was resolved |
| `temporary` | the file of `mkstemp`: none, begun, whole, or left behind because it could not be removed |
| `pc`, `changes` | the next step of the call; the bound on changes |

The actions are the steps of the call in their order: `Validate`, `Resolve`,
`EnsureParent`, `Mkstemp`, `Stage`, `Revalidate`, `Replace`, and `Interrupt` anywhere.
`Change`, `RemoveParent` and `MakeParent` come between any two. The path is resolved three
times, and each time it may lead elsewhere. `validate_write_target` also runs when the call
is prepared, before the approval; that only refuses earlier. The removal of a staged file may fail,
which the code passes over (`GiveUp`). Abstractions: a directory above the target is there or not
and is no link, so that the check of the parent's real path in `_ensure_parent_within_workspace`
never refuses; making several directories is one step.

### WorkspacePrivacy

Which paths the read tools may show, over a chain of runs on one session.

| State | Code |
|---|---|
| `kind`, `leadsTo`, `ignoring` | the workspace: what each path is, where a link leads, what `.gitignore` files and `.orbitrelayignore` say |
| `phase`, `exact`, `subtrees`, `cached` | before or in a run; `exact_files` and `subtrees` of the run's authorization; the cached policy |
| `mark` | the descriptors of `sensitive_authority` in the session's metadata |
| `reading` | the call of a read tool: checked and not yet opened, or answered with the paths it showed |
| `relied`, `denied` | observers |

| Operators and actions | Code |
|---|---|
| `AbsoluteDeny`, `SensitiveBuiltin`, `Matches`, `GitIgnores`, `Ignored`, `Allowed` | classification: the catalog, the ignore files, the exceptions |
| `RulesOf` | `_load_git_ignore_spec`: what is kept of `.gitignore` files some of which cannot be read |
| `InForce` | `workspace_privacy_policy`: read once, cleared when the authorization is set |
| `Declare`, `BeginRun`, `Mark`, `EndRun` | `declare_run_exception`, `authority_covers` in `_prepare_session`, `mark_sensitive`, `clear_privacy_authorization` |
| `Check`, `Open` | `deny_protected_read`, `deny_protected_listing`, and the opening of a file, whose name is resolved again |
| `DirectoryNames`, `List`, `Listed` | `get_files_info` and `filter_listing_names`: the directory that a name leads to, each entry classified below the name that was asked for |
| `EditIgnoreFiles`, `Relink`, `DirectoryBecomesFile` | other programs, and the agent's own `write_file` |

A directory has its path and may have other names (`OtherNames`): absolute, by way of `..`, or
through a link. `_normalize_relative` takes them apart without looking at the file system, so
`../ws/d` becomes `ws/d` and the entry `x` of the directory `d` is classified as `ws/d/x`. An answer
therefore records for each path it shows also what it was classified `as`.

Abstractions: a path is the sequence of its components, normalised and in one case; the
two catalogs are given as suffixes and as sequences that a path may contain; a
pattern is a plain name, which matches at any depth or from the root, may be negated and may come
from a nested `.gitignore`; a file that is read is named by its path or by a link in the
place of a file; links of directories do not change.

### ReleaseGates and ReleaseCandidate

`ReleaseGates` has what the scripts decide, as operators: what a gate says of a tree and
what each validator accepts of a record. `ReleaseCandidate` is a repository, a
developer and one command at a time.

| State | Code |
|---|---|
| `tree`, `committed`, `tip`, `ancestors`, `source` | the work tree and HEAD (source, disposition and the five records), and per commit its ancestors and its source |
| `artifact` | the wheel retained beside the candidate record |
| `command` | the command, its place and its locals: revision, gates passed, the wheel's source, the upstream records |
| `raced`, `brokenOff` | observers: the source changed or HEAD moved below the command; a stop between two writes that belong together |

| Actions | Code |
|---|---|
| `StartMatrix`, `RunMinor`, `WriteMatrix` | `check-python-matrix.sh` |
| `StartEvidence`, `RunGate`, `WriteEvidence` | `release_evidence.py generate` |
| `StartReaudit`, `WriteReview`, `WriteVerdict` | `candidate_reaudit.py generate` |
| `StartProduce`, `ValidateUpstream`, `BuildWheel`, `RetainArtifact`, `WriteCandidate` | `release_candidate.py produce` |
| `Edit`, `EditDisposition`, `CommitTree`, `Amend` | the developer, also while a command runs |
| `Stop` | a command fails or is stopped; a record that is being written may be cut |

Abstractions: a source tree is known by what the gates tell apart (its tests pass, its
dependencies are clean, ...), a disposition by the severity and status of its findings. The four
gates that run a part of the tests (privacy, provider readiness, Codex lifecycle, session
integrity) are in the official check, which runs all tests. Records say in `on` or `code` what
they were made from, which their files do not: only the properties look at it. Left out:
`--allow-dirty`, `--run-full-matrix` and `--revision`, records edited by hand, several
commands at a time, the scan of records for secrets, and checks of the shape of JSON.

## 3. Runs

Components that share nothing are checked in one run, one at a time: a variable of the MC module
says which of them moves, and the others stay in one initial state. The states of such a run are the sum
of those of its components and not the product; the modules themselves know nothing of it.

| Run | Asks | Result |
|---|---|---|
| `stores` (`MCStores`: `store` is the session or the release) | does what is written in several steps survive any of them being the last? | hold, 4.3 million states |
| `access` (`MCAccess`: `subject` is the sessions or the workspace) | one owner, nothing changed behind it, waits end; what may be shown | hold, 0.9 million states |
| `reading` (`MCReading`: `source` is histories with streams, or sessions) | are requests, files, windows, messages and answers what they should be? | hold, 1.4 million states |
| `agent` | what runs, what is remembered, what is reported | hold, 0.5 million states |
| `tools` (`MCToolCalls`: `tool` is one of two tools, `codex exec` or the connections) | are writes whole, pipes drained, results true, connections consistent? | hold, 0.4 million states |
| `interrupt` | does an interruption leave the prior generation valid? | violated |
| `retention` | does the full history remain until deletion? | violated |
| `lease_split` | does one process own the session from load to last checkpoint? | violated |
| `listing` | does a listing classify like a read? | violated |
| `summary_denied` | is a denied call reported as denied by the summary? | violated |
| `codex_print` | is an answer that is not complete printed as such? | violated |
| `process_hang` | is the timeout hard? | violated |

### `stores`

The session uses `MCSessionCheckpoint`, as do `interrupt` and `retention`: a protected directory and a
file in it (so that a subtree exception, an exact exception, both and none are distinct authorities and
one covers another), four groups, a resume window of two. Four groups are enough
for a first run, a resumed run that drops a group and a third run that commits over
an interrupted one; two groups in a window give multi-segment generations, so
that a partially staged one differs from a whole one.

Properties of the session:

* `LoadableIsWhole`: what a resume or `session show` loads is empty or one whole
  generation, through interrupted checkpoints and interrupted deletions.
* `LatestRecoverable`: once a checkpoint has returned, it or a newer one is whole
  on disk, in `messages/` or moved aside. With the `interrupt` finding this says how
  bad an interruption can be: the data is there, the program does not look.
* `ReturnedCheckpointIsLoadable`: when the call returns, the loader finds exactly
  that generation, with the events of the same checkpoint and no old file beside it.
* `MarkCoversHistory`: over any chain of runs the stored authority covers every
  group that would be loaded, unless its run was stopped before the mark.
* `AuthorityNeverWeakens`: a stored authority is only replaced by one that covers it.
* `NoUnconsentedSensitive`: groups of a run that did not consent reach no file.
* `ImplementsDurableHistory`, `TypeOK`.

All are safety properties and no fairness is assumed: an owner may stop anywhere.
Deadlock is checked; the session can always be created, resumed or deleted.

The release uses `MCReleaseCandidate`: three gates, two minors, a source that passes
everything and one that fails tests, security, identity and the assessment but has good
dependencies and can be packaged, a disposition with a fixed major finding and one where it
is open again; three commits, four commands, two changes. Four commands are what the chain
needs (evidence, re-audit, produce, one of them twice or the matrix); two changes let
the source go wrong and come back. The gate `quality-policy` is left out of the instance:
the official check has the same stages and one more. Work on a
release ends at the bounds, where the run stutters.

* `CandidateRestsOnItsChain`: an accepted candidate rests on evidence of an ancestor in which
  every gate passed and the tests passed on a tree that passes them, and on a ready verdict
  of a re-audit that saw no blocker and such evidence.
* `CandidateIsItsRevision`: the wheel is the source of the commit that the record names, unless
  source or HEAD changed while the command ran.
* `WrittenTogether`: review and verdict are of one revision and one disposition, and a retained
  wheel is the one its record has the hash of, unless a stop came between the two writes.

### `access`

The sessions use `MCSessionLease`, as does `lease_split`: two processes, each of which may run
and delete, one may also probe; the directory is made up to three times, two lock
files are created, two checkpoints are committed. Each race is between one process and
one other, a process may play one part after another, and two lock files are
what a split ownership needs. The same properties were also checked once with two
runs and one separate deletion. Deadlock is checked.

Properties of the lease:

* `OneHolder`: `acquire_lease` has returned the lease to two processes at once only
  if the race *lock* has happened. `is_session_active` counts as holding the lock
  but not a lease.
* `OwnerSeesItsSession`: as long as no race has happened, a running owner's session is
  whole and its history is the one in the owner's memory, although others wait,
  probe, decide to resume before they own it, or start to delete.
* `WaitEnds`: whoever waits for the lock gets it or gives up, even if the owner keeps
  it for ever. Fairness: weak fairness of the waiter's attempts (it is an ordinary
  process in a loop that sleeps 50 ms) and of the clock reaching the deadline (the
  deadline is finite, `_session_wait` refuses anything else). Nothing is assumed of
  the owner or of deletions.
* `TypeOK`.

*Reads and listings* use `MCWorkspacePrivacy`, as does `listing`: a directory with a key (absolutely
denied) and another file in it, which the ignore files of the root hide and those of the directory
bring back, or which only the directory's hide, and a sensitive file at the root; the root and the
directory may be listed by other names; an `.orbitrelayignore` that is not valid, a root `.gitignore`
that cannot be read; two changes of names or ignore files; any number of runs, declarations, marks and
reads. The run `listing` needs no change.

* `ShownIsAllowed`: what a read shows, or a listing under the path of its directory, is allowed by the
  catalog, the ignore files this run read and its exceptions. A listing under another name shows
  nothing that is absolutely denied, and what the catalog has sensitive only under an exception of
  that name, provided the name ends in the path (one through a link need not). A name that is turned
  to another file between check and opening escapes.
* `DeniedStaysDenied`: what was denied is not read later in the same run, under no name, nor listed
  under the path of its directory, although the ignore files may be rewritten, by the agent itself too.
  A listing under another name may show it (finding 5).
* `RenewedAuthority`: a run on a marked session is authorized for all that the runs that marked
  it were authorized for, except below a directory that has become a file.

### `reading`

*Histories* use `MCHistoryBounds`: eight kinds of messages (every
role, a round of one call and of two, results and answers of several sizes, one
result larger than the request and as large as a file allows with its call beyond
it), histories of at most six, a request of four and a file of five units. Two
prompts with a round of tools each have six messages; a boundary of a file and of
the window fall into, before and after each of them.

* `ReplaySafetyIsPairing`: the scan accepts exactly the histories in which every
  result answers a call of the message it follows and every call has one result.
* `RequestIsLargestWindow`: a request is the leading system messages and a paired end
  of the history, within the budget, and no earlier start would do; an error is raised
  only if there is no such request.
* `FilesCarryTheHistory`: the files of a checkpoint, one after the other, are the history; each
  is paired by itself and exceeds its bound only for one group; what a resume gets back from
  them is what the window of the history is, so the two bounds and the file boundaries do
  not interfere; and whatever is on disk, a resume loads a paired history.
* `AssembledIsWhatWasSent` (of `Streaming`, which is explored beside the histories):
  after every stream of up to four chunks over ten kinds, the message assembled in one
  pass is the one that was sent. The kinds are: usage alone, text, two calls in one chunk
  with the indices in the wrong order, fragments with and without an index, and a
  field that is a text, a list or a map with entries of two kinds.

*Sessions* use `MCSessionInspection`: two interchangeable sessions, files of two
groups, a resume of two, three groups in all, each session created once. The third group
begins a file, and a resumed run cuts a history of three. The exploration ends with the
command, so deadlock is not checked.

* `ShowAgrees`: `session show` counts the groups of the session; when checkpoints replace
  `messages/` meanwhile, what it read are groups of the newest generation, each once and in
  order, although the files may be of several generations. That rests on `pack_segments`
  leaving full files as they are, and it ends when a resumed run cuts the history. A
  session that nothing happens to is not reported unhealthy.
* `SweepIsComplete`: when `delete-all` reports no failure, every session that was there is gone,
  unreadable ones too, or was made again.

### `agent`

The runs of AgentLoop use `MCAgentLoop`: a tool that reads and two that ask, a
call that cannot be prepared, two call ids, rounds of up to two calls, a limit of three
responses (so two rounds and a refused third), two attempts at the terminal, every policy,
a resumed session whose window holds a round of tools, results that fit the budget or exceed it. Two
calls are enough to shift a decision by one and to disable a tool within a batch, two
rounds to carry it over. Deadlock is not checked, because a run ends; `RunEnds`
says that it stops nowhere else. Properties of `agent`:

* `RunsExactlyTheAllowed`: the effects are the allowed records, in their order, none
  twice; after a round all of them; of the last allowed response none.
* `DisabledStaysDisabled`: within a batch and across rounds.
* `CheckpointsAreReplaySafe`: so `commit_checkpoint` never refuses what the loop gives it.
* `EffectsAreRemembered`: whenever the provider is asked, the checkpoint tells of every
  effect; a run that fails or is stopped forgets those of its last round at most.
* `SummaryAgrees`: in a completed run the summary counts as many requests as outcomes and as
  tool messages of the saved history, as many allowed decisions as effects; and the calls it counts
  as ok are those that were refused and at most the ones that ran. That the refused are among
  them is what the code does and not what it should do (finding 6).
* `RunEnds`: under weak fairness of the run's own steps: the provider's client and
  `run_python_file` have timeouts, a question on the terminal too, and all
  loops are bounded.

`TypeOK` of this module and `ConnectionsTypeOK` hold in these instances too; they are what the
proofs begin with and not among the properties of the runs.

### `tools`

*Connections* use `MCConnections`: two processes, one API-key provider and
Codex, two connects; disconnects, verifications and logouts without limit. The second
connect of a provider meets a secret to put back; the other process does the rest.

* `FileIsWellFormed`: the selection and the evidence name existing connections, although a
  disconnect may come between the two transactions of a connect and during a probe.
* `SecretMatchesProfile`: profile and secret are of the same connect, or neither is there;
  a provider is exempt only after a process died between its two writes or the undo
  failed, until the next command on it succeeds.
* `FailedConnectRestores`: a connect that raises has put the old secret back.
* `EveryCommandEnds`. Fairness: weak for a process's own steps, because the keyring, the
  official CLI and the probe return or time out; strong for getting the lock, because
  flock serves its waiters. Nothing keeps a process from dying.

*write_file*: three changes by other programs, one before each of three resolutions, or a
change and its reverse within one gap.

* `WriteIsAtomic`: a step of the call changes no name, but the one that reports success: it
  puts the whole content in the place of the target.
* `NothingLeftBehind`: no staged file after a call that has returned, but one that could not be
  removed after an error. (An interrupted call may leave `.orbitrelay-write-*.tmp` too; nothing
  collects those.)
* `TypeOK`: also that the target is in the workspace.

*run_python_file* uses `MCProcessBounds`, as does `process_hang`: bounds of three and one characters,
chunks of two, pipes of two, output of up to four. So there is output below, at and above each
bound, bounds that a chunk reaches and overshoots, and a child that is blocked by a full pipe. Of the
two pipes only standard output may be other than UTF-8; one function drains both.

* `ResultIsTruthful`: a drain ends only when nobody has the pipe any more, or at output that
  is not UTF-8 (`DrainsToTheEnd`), and then `truncated` is set exactly if there was more
  than what is kept.
* `CallReturns`: if what the child started ends, the call returns, whether the child
  ends, blocks or writes for ever. Fairness: weak for the calling and the draining
  threads, timeouts expire. Nothing is assumed of the child.

*codex exec*: the same bounds, so up to four messages of which three are kept, and a CLI that
writes its file or not.

* `AnswerIsTheLast`: of the object that `CodexBridge.exec` returns: with exit code 0 its message is the
  last one, or it is marked as cut, although the file may be missing or unfinished and the
  call timed out. What the command prints is another matter (finding 7, `codex_print`).

Deadlock is not checked in this run: calls of tools end. That no command on the connections is left
waiting for another is `EveryCommandEnds`.

### Findings

1. **An interrupted checkpoint hides the session's history** (`sessions.py:852`).
   `messages/` is renamed away, then the new one renamed in. A stop in between leaves
   no `messages/`; `_read_message_segments` returns an empty list, `inspect_session`
   reports the session healthy, and the next run starts over. The story
   `e08s02` says the prior generation stays valid and a mismatch is reported.
2. **Resuming deletes what does not fit the resume window** (`cli.py:241`). The window
   bounds memory, but the next checkpoint writes the window back as the whole history.
   The story `e08s04` says the full durable history remains until user deletion.
3. **A deletion can split ownership** (`sessions.py:655`). The last phase of `delete`
   runs after `lease.release()` and unlinks `session.lock`. A run that had opened or
   locked that file goes on owning a file without a name; the next run creates another
   `session.lock`, locks it at once, and both commit to the same session. The story
   `e08s01` says one process owns the session from load to last checkpoint.
4. **The timeout of a bounded process is not hard** (`process_bounds.py:164`). A process
   that the child has left in the background keeps the pipe open; the drain thread is
   blocked in a read and holds the lock of the buffer; both joins time out, but
   `process.stdout.close()` waits for that lock. The call returns when the background
   process ends. A child that runs `sleep 15 &` and exits holds a call with `timeout=2`
   for 15 seconds. The docstring says "hard timeout".
5. **A listing under another name is classified by that name** (`workspace_privacy.py:371`).
   `get_files_info` lists the directory that the name resolves to; `filter_listing_names` classifies the
   entries below the name as it was asked, with a leading slash and `..` dropped and no link
   resolved. Patterns that match from the root match nothing below `/root/ws/d` or `../ws/d`, and every
   pattern of a nested `.gitignore` is such a pattern: the listing shows entries that a read denies,
   also after it has denied them. Exceptions for the path do not apply either. The story `e06s02`
   says that every path receives the same classification as a direct read.
6. **The summary counts a denied call as ok** (`run_summary.py:88`): whatever is not an error is.
   The story `e08s06` says every observer reports denied.
7. **A cut answer of `codex exec` is printed without its mark** (`codex_cli.py:107`). The command
   prints `final_message` and returns the exit code; `output_truncated` and `timed_out` of the result are
   dropped. The story `e08s05` says explicit truncation, never silent loss presented as complete.

### Seen on the way

Disagreements met while modelling that no run shows:

* `create` runs before `acquire_lease` (`sessions.py:456`, `cli.py:231`). Two first runs of
  the same name can both pass the existence check, and the slower one empties the first
  segment after the other owns the session. It is the race *create* of `SessionLease`.
* A replay window can start with an answer whose prompt was dropped
  (`context_budget.py:94`): only tool rounds are groups. The story `e08s04` speaks of
  atomic user/assistant/tool units.
* `logout_and_disconnect_codex` (`connection_service.py:723`) catches `ConnectionError` only:
  when the logout has succeeded and the metadata cannot be removed, `ProfileStorageError`
  escapes and the partial result that story `e07s04` promises is not reported.
* `disconnect` reports the selection from a read before the lock (`connection_service.py:690`).
* A drain thread ends at output that is not UTF-8 (`process_bounds.py:99`): the call
  returns the blocks before it, unmarked, and a child with more to write is blocked
  until it is killed. The story `e08s05` says never silent loss presented as complete.
* `_revalidate_before_replace` follows the link it should notice (`write_file.py:151`): a
  target that became a link to a file of the workspace is replaced and the write succeeds.
  The story `e08s06` says it fails when a target becomes a link before the commit.
* Directories made for a write remain when the write fails afterwards (`write_file.py:105`).
* A consented sensitive checkpoint is on disk before its mark (`cli.py:307`): a stop between
  `commit_checkpoint` and `mark_sensitive` leaves groups that a run without any exception loads
  and sends. The story `e06s04` says persisted sessions are marked and require renewed
  authority before every load. `MarkCoversHistory` exempts exactly these groups.
* An exact exception satisfies the stored descriptor of a subtree once the directory has
  become a file (`workspace_privacy.py:104` strips the slash that told them apart).
  `RenewedAuthority` exempts it. Descriptors are relative to a workspace, and the workspace a
  session was made in is not compared when it is resumed.
* An `.orbitrelayignore` that is not valid ignores nothing; every read and listing asks for its
  validity first, so nothing is shown.
* A root `.gitignore` that cannot be read ignores nothing, and with it no nested one is read
  (`workspace_privacy.py:393`); a nested one that cannot be read is passed over (414). The story `e06s02`
  says that an unreadable policy fails closed for the affected paths. (One that is not UTF-8
  raises, and the tool reports an error.) `ShownIsAllowed` speaks of the rules that could be read.
* A listing classifies an entry that is a link by its own name, a read by what it leads to.
* `delete_all` catches errors of the store only: an `OSError` of `rmdir` or `iterdir` ends it
  (`sessions.py:662`), though its docstring says it reports each failure. `SweepIsComplete`
  therefore speaks of a command that reported no failure.
* Between the two renames of a checkpoint, and for good after one that was stopped there,
  `session show` reports a healthy session of 0 messages; a file that vanishes between its
  `is_file` and the listing is skipped (`ShowAgrees` has the exceptions).
* `check-python-matrix.sh:209` calls `run_minor` as the condition of an `if`, where bash
  ignores `set -e` for everything inside: failing tests, type checks or audits do not fail
  the minor, and the matrix records "passed" unless the wheel is missing. The story
  `e09s03` says that evidence is published only after every gate of the matrix passes. For
  that reason `RunMinor` fails only without a wheel, and no property relies on the matrix.
* Evidence of any ancestor is accepted for a candidate (`release_evidence.py`), so the source
  that is released need not be the one the gates ran on. The story `e10s02` says that a verdict
  is invalid when its evidence is of another revision.
* When the check of the upstream records at HEAD fails, `release_candidate.py` repeats it without a
  revision and then compares the evidence only: the verdict need not be of an ancestor.
* `release_evidence.py generate` asks for no clean work tree and writes its record whatever the
  gates said; the matrix gate accepts a record of any revision.
* The baseline gate pins the disposition when it runs; the re-audit reads it again later and
  takes whatever it says. A finding with the status "waived" neither blocks nor is residual,
  though the story `e10s02` knows no waiver of critical findings.
* `--allow-dirty` leaves no trace in the record it produces.

## 4. Proofs

Eight modules hold theorems. Each theorem below holds of the specification for every value
of the constants that meets the named assumptions, which TLC evaluates in every run. They
are the bounds (naturals, some of them positive), that "nobody", "none" and "absent" are none
of the values they are compared with, and a few facts of the code: which paths lie below
which (`PathAssumption`, `PathsAssumption`), that a tool is read or guarded
(`ToolAssumption`), that the gates of a release include the official check
(`GatesAssumption`), that a message has a size (`MessageAssumption`), and that a resumed history may
be replayed (`ResumeAssumption`, which is the last clause of `FilesCarryTheHistory` and so proved of
`load_replay_messages` by the theorem `FilesCarry`).

A property says what must not be seen, and is seldom inductive as it stands: it says nothing of a
protocol half-way. What is added in each case is where everybody stands.

### The session store: `SessionCheckpointProofs`

| Theorem | States | What its invariant adds |
|---|---|---|
| `TypeCorrect` | `TypeOK` | |
| `LatestAlwaysRecoverable` | `LatestRecoverable` | `CommitProtocol`: the staged segments are the whole generation before anything is moved, the new generation is in place before the old is deleted, and there is metadata for as long as a checkpoint has returned |
| `LoadedHistoryIsWhole` | `LoadableIsWhole` | `HistoryInv`: what is there at each step of a creation and a deletion, which removes what makes the rest a history before it cuts `messages/` into pieces (`Edges`); the old single file is whole even while `messages/` hides it (`Whole`) |
| `CommitIsLoadable` | `ReturnedCheckpointIsLoadable` | `Beside`: metadata and events of the checkpoint are there before it returns |
| `RefinesDurableHistory` | `ImplementsDurableHistory` | `Dated`: a checkpoint is newer than all it replaces; `HistoryStep` maps each action to one of the five of `DurableHistory` or to a stutter |
| `StoredAuthorityNeverWeakens` | `AuthorityNeverWeakens` | `Renewed`: in a run, the authority declared covers the one stored |
| `UnconsentedReachesNoFile` | `NoUnconsentedSensitive` | `ConsentInv`: a run that may be kept has only groups that may be kept, those it loaded included, and only such a run makes checkpoints |
| `MarkCoversTheHistory` | `MarkCoversHistory` | `MarkInv`: each group of a run's history has this run's authority, is covered by the mark, or is of a run stopped before it marked; while the run's generation is installed and not yet marked, it is what `messages/` has |

### The lease: `SessionLeaseProofs`

* `TypeCorrect`: in two halves, what is shared and what belongs to a process, because most
  actions touch one of them.
* `MutualExclusion` (`OneHolder`). The property compares two processes and says nothing of
  those that have only opened the file. `LockInv` says how each process stands to the kernel:
  the file is open exactly at the labels where the code has a descriptor (`OpenFiles`); a
  lock is held through that file (`HeldLocks`); only a deletion that has released its lease
  has `session.lock` on its list (`Listed`); until the race, an open file is the one named
  `session.lock` (`NamedLock`). Then two holders would have locked the same file. Four lemmas,
  one each for closing the file, moving on, being granted a lock and opening it, carry the
  actions.
* `OwnerSees` (`OwnerSeesItsSession`). `SessionInv` adds what each process knows of
  the directory at its place (`Knows`): a creation finds what it made, an owner what it
  loaded, and a deletion that has given up its lease has removed `metadata.json`. It rests on
  `MutualExclusion`'s invariant.

### Histories: `ContextBudgetProofs`, `HistoryProofs`, `AgentLoopProofs`

`ContextBudgetProofs` has lemmas about the operators: what a selection keeps and in which order,
how much a concatenation adds to it, what the scan of `is_replay_safe` makes of one message or
one round more, how often a kind of element occurs in a concatenation of many, and what the three
folds of `_segmentize`, `apply_context_budget` and `pack_segments` come to. They go by
induction. The library's induction theorems take an operator as parameter, which the provers
cannot instantiate; `SetInduction` says the same of a set and follows from the
well-foundedness of <, so that the induction step is an ordinary obligation. That is why
the modules select with `Only`, a recursive function, and not with `SelectSeq`, of which the
provers know nothing. A fold is reached by `FoldExists`: the function it is the value of exists, for
either order of the positions, so that each fold is a sequence of states with one step per
message or group (`Places`, `Keeps`, `Packs`).

* `SafetyIsPairing` (`ReplaySafetyIsPairing`), for histories of any length and any messages. `Linked`
  relates the scan's three fields to positions: where the last message that is no result is, that
  its calls are those open, that those seen are the ids of the results since, each of which `Fits`;
  and everything before is `Complete`. `PairedIsSafe` is the equivalence for every history, and is
  used below for parts of one.
* `RequestIsLargest` (`RequestIsLargestWindow`), for messages of any sizes, any budget and any
  length. A history that may be replayed is cut into the leading system messages and groups,
  each a message that is no result and the results that follow it (`Cuts`, `Groups`, `Parted`;
  `SplitIsParted`). The walk has kept a number of groups from the end, and when it has stopped the
  next one would not fit (`Walked`, `WalkStep`); so the request is the prefix and what follows
  one of the cuts (`Window`). A part that is paired begins between two groups and nowhere else
  (`CutsBetween`, `PartBegins`, `BetweenIsSafe`), and one that begins earlier is larger.
* `FilesCarry` (`FilesCarryTheHistory`), for any two bounds. A packing is a coarser cut: each file ends
  where a group ends, and is within its bound or a single group (`FilledUpto`, `PackStep`). Its slices
  put together are the history (`FlattenSlices`), each of them lies between two groups and may be replayed by
  itself. A resume strips, cuts and windows what it reads: to strip keeps a history
  replayable (`StripIsSafe`), the longest safe prefix of a safe history is the history
  (`PrefixIsSafe`), and that of any other is safe, the empty one at the least.
* `SweepCompletes` (`SweepIsComplete` of `SessionInspection`), for any sessions, runs and deletions beside
  the command. `SweepInv` accounts for every session that was there when the command began and was
  not made since: it is still to be summarized, is the one being read or is listed, and it is not
  reported as deleted (`Accounted`). A step of anybody else makes no directory without it being
  noticed (`Aside`).
* `ShowTellsTheHistory` (`ShowAgrees`), for histories of any length and files of any size. `ShowInv`
  adds to it that the sessions are in order (`Ordered`: a history has each group once, later ones are
  larger; `messages/` is not there or has the files of one; an owner has what it will write; a
  deletion has the session for itself) and what the pass that is reading knows
  (`Knows`): as long as nothing happened it has read exactly what is there (`Exact`), after
  checkpoints that only added groups the rows it read are where the newest generation has
  them, because full files stay as they are (`Within`).
* `TypeCorrect` (of a run; `LoopType`, `RoundInv`, `DrawnInv`), `DisabledForGood`
  (`DisabledStaysDisabled`; `AnswersInv`: a request is answered as disabled only after the
  user disabled its tool, `DisabledInv`: only tools that ask are disabled).
* `AllowedAreRun` (`RunsExactlyTheAllowed`). While a round is executed its records are the last
  ones, in the order of the requests (`RecordsInv`), as many decisions have been drawn as
  prepared calls have a result (`DrawnInv`), and the effects are the allowed ones among the
  records up to there (`EffectsInv`).
* `CheckpointsReplay` (`CheckpointsAreReplaySafe`). The conversation may be replayed at any
  time and not only when it is handed to the store (`HistoryInv`), because rounds join it whole; the
  results of a round answer its calls in their order (`CallsInv`).
* `EffectsRemembered` (`EffectsAreRemembered`). The conversation holds the rounds of all
  earlier responses, in their order (`TellsInv`); each effect is of one of those, and for a call in
  it (`RecallInv`).
* `SummaryCorrect` (`SummaryAgrees`). `CountInv` is the count in mid-round: there are more
  requests than results by the calls still to be executed, more results than messages
  by those that have not joined the conversation, and as many allowed decisions as records.
  `OutcomeInv` tells the results apart: each decision that was drawn has become a denial or an
  effect, and what is neither an error nor a denial is the result of an effect. So the calls counted
  as ok are the refused ones and some of those that ran.

### Tools: `ToolProofs`

* `TypeCorrect`, `NothingStagedRemains` (`NothingLeftBehind`), `Atomicity` (`WriteIsAtomic`), of
  `WriteFile`. The invariant adds `StagedFile`: nothing is staged before `mkstemp`, a file that could not
  be removed is left of a call that has ended, and there is only whole content when the name is about to be replaced, also if the directory was removed and made
  again in between.
* `Truthful` (`ResultIsTruthful`), of `ProcessBounds`, for any bounds, chunks, capacities and
  output: what a drain has decoded is what it took from the pipe, up to the character that is not
  UTF-8, and what it retains is the beginning of that.
* `LastAnswer` (`AnswerIsTheLast`), of `CodexExec`: a CLI that ended by itself with code 0 left no
  unfinished file, and one that was killed has another code (`CodeInv`); with `Truthful`'s
  invariant (`ProcInv`) the message is the last of what was kept, or the cut is marked. It is a
  theorem about the object that `exec` returns; what is printed of it has no mark to prove.
* `OnlyTheAllowedIsShown`, `DenialHolds`, `AuthorityIsRenewed` (`ShownIsAllowed`,
  `DeniedStaysDenied`, `RenewedAuthority`), of `WorkspacePrivacy`, for any tree of paths, catalog,
  ignore files and other names of directories. An entry that a listing shows was allowed as what it was
  classified as (`ListedIsAllowed`); where that ends in the entry's path, whatever the catalog says
  of the path it says of that too. A read that has been checked, what was shown and what was denied agree with the
  one policy that is cached for the run (`CallInv`); what earlier runs relied on lies below a
  descriptor of the mark, so that to cover the mark is to cover them all (`AuthorityInv`).

### Connections: `ConnectionsProofs`

`ConnectionsType`, `AlwaysDecodable` (`FileIsWellFormed`), `StoresAgree` (`SecretMatchesProfile`) and
`FailureRestores` (`FailedConnectRestores`), for any processes, providers and number of
connects. A process is inside a transaction exactly while it holds the lock (`LockInv`); what it
has done to its provider and what it would put back is `InTransaction`; the number a connect
carries is nobody else's (`Numbered`, `OwnNumber`, `Unused`), so that an old secret put back is
not mistaken for a new one; between transactions the two stores agree (`Settled`).

### The release: `ReleaseCandidateProofs`

`ChainIsWhole` (`CandidateRestsOnItsChain`), `WritesBelongTogether` (`WrittenTogether`) and
`CandidateOfItsRevision` (`CandidateIsItsRevision`), for any sources, gates and dispositions and
any number of commits and commands. Each record is as good as what it was made from, in
the work tree and in the locals of the command that makes it (`EvidenceHeld`, `VerdictHeld`,
`ChainHeld`), and a commit keeps what is an ancestor of what. `SourceKept` says what a command may conclude of
the source as long as nobody changed it below.

### What stays with TLC

* Liveness: `WaitEnds`, `RunEnds`, `EveryCommandEnds` and `CallReturns` need fairness and ENABLED,
  which no installed prover handles.
* `AssembledIsWhatWasSent`: `Streaming` has recursive operators.
* The seven properties that are expected to fail, each of which has its counterexample.

## 5. Plan

The models came first, the most important behaviour of the system first; then the proofs.

1. `SessionCheckpoint`, `DurableHistory`, `SessionLease`, `SessionInspection`: done.
2. `ContextBudget`, `HistoryBounds`, `Streaming`: done.
3. `AgentLoop`, `ProcessBounds`, `CodexExec`, `WriteFile`, `WorkspacePrivacy`, `Connections`: done.
4. `ReleaseGates`, `ReleaseCandidate`: done.
5. Proofs of the session store, the lease and the refinement: done.
6. Proofs of what runs, what is remembered and what is shown: done.
7. Proofs of connections and of the release: done.
8. Proofs of the commands that inspect sessions: done.
9. Proofs of segmentation, packing and the walk, and with them of requests and files: done.
10. What is left is liveness and `AssembledIsWhatWasSent`, which stay with TLC.

## 6. Not modelled

* Wording, formatting, redaction, command-line parsing, the validation of names, URLs and
  permissions, and the reading of the environment: pure functions or input and output
  without a state to keep.
* Loss of power: renames that were not synced.
* `append_events`, `replace_messages`, `iter_text_deltas` and `bound_completed_process`, which the
  program does not call, and the content of `events/`.
* Links among the directories above the target of a read or a write; a directory may be listed
  through a link, but the link does not change.
* A deletion that meets a session in creation, in `SessionInspection`; it is in `SessionLease`.
* `resolve`, `status` and `inspect` of connections and of the Codex bridge, which only read,
  and the rewriting of version-1 metadata.
* Of the release scripts: the overrides of the command line, records edited by hand, several
  commands at a time, and the shape and the secrecy of what the records say.
