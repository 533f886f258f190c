-------------------------- MODULE SessionCheckpoint --------------------------
(***************************************************************************)
(* The directory of one session and the process that owns it.              *)
(*                                                                         *)
(* The owner creates or resumes the session, runs the agent, commits the   *)
(* conversation after each complete group of messages, and may die or meet *)
(* an OSError between any two file-system operations; later owners find    *)
(* what it left.  `session delete` erases the directory in two passes.     *)
(* Each action is one operation the file system makes visible at once:     *)
(* a rename, an atomic file replacement, an unlink.                        *)
(*                                                                         *)
(* One owner at a time: that is the lease's work (acquire_lease), which    *)
(* this module takes for granted.                                          *)
(*                                                                         *)
(* Data: a message group is a record of its number and of the run that     *)
(* produced it; a history is a sequence of groups; sizes are counted in    *)
(* groups; an event file is known by the number of the newest group of the *)
(* checkpoint that wrote it.                                               *)
(***************************************************************************)
EXTENDS Integers, Sequences, FiniteSets

CONSTANTS
  MaxGroup,    \* bound: groups produced over the life of the session
  MaxReplay,   \* resume-memory bound (DEFAULT_MAX_REPLAY_CHARS), in groups
  Path,        \* workspace-relative paths a run may name in an exception
  Directory,   \* those of them that are directories
  Below,       \* Below[p]: p and the paths underneath it
  Absent       \* the content of a file or directory that does not exist

ASSUME BoundsAssumption == MaxGroup \in Nat /\ MaxReplay \in Nat \ {0}

ASSUME PathAssumption ==
  /\ Directory \subseteq Path
  /\ Below \in [Path -> SUBSET Path]
  /\ \A p \in Path : p \in Below[p]
  /\ \A p \in Path : \A q \in Below[p] : Below[q] \subseteq Below[p]

\* What run-exception flags store: an exact file or a whole subtree.
Descriptor == [path : Path, scope : {"file", "subtree"}]

\* declare_run_exception refuses a file exception for a directory and a
\* subtree exception for a file.
Declarable == {d \in Descriptor : d.scope = "subtree" <=> d.path \in Directory}

Group == [id : 1..MaxGroup, authority : SUBSET Declarable, consented : BOOLEAN]

Generation == Seq(Group)

ASSUME AbsentAssumption == Absent \notin Generation \cup Nat \cup
  [format : Nat, authority : SUBSET Declarable]

VARIABLES
  \* the session directory
  directory,  \* does it exist
  metadata,   \* metadata.json: history format and sensitive authority
  messages,   \* content of messages/, the segmented history
  staged,     \* content of .messages.tmp-*, the segments written so far
  backup,     \* content of the newest .messages.bak-*
  events,     \* events/, by the checkpoint that wrote it (0: created empty)
  legacy,     \* messages.jsonl, the format 1 history
  \* the owning process
  pc,         \* the operation it makes next; "idle" when nobody owns it
  history,    \* the conversation in its memory
  authority,  \* the exceptions declared for this run
  consent,    \* --persist-sensitive-session (without effect in other runs)
  \* observers, not part of the program
  nextId,      \* number of the next group
  committed,   \* newest generation whose commit_checkpoint returned
  generations, \* generations handed to commit_checkpoint (those no longer
               \* on disk when the next one is handed over are dropped)
  exposed      \* groups of runs that stopped before mark_sensitive

disk == <<directory, metadata, messages, staged, backup, events, legacy>>
run == <<history, authority, consent>>
observers == <<nextId, committed, generations, exposed>>
vars == <<disk, pc, run, observers>>

Creating == {"create_metadata", "create_messages", "create_events"}
Committing == {"stage", "move_aside", "install", "install_first", "clean_backup",
               "events_aside", "events_install", "metadata", "remove_legacy"}
Deleting == {"delete_files", "delete_nested"}

\* Every file of the session holds what some checkpoint wrote, and the owner has the
\* locals of the operation it is in.
TypeOK ==
  /\ directory \in BOOLEAN
  /\ metadata \in [format : Nat, authority : SUBSET Declarable] \cup {Absent}
  /\ messages \in Generation \cup {Absent}
  /\ staged \in Generation \cup {Absent}
  /\ backup \in Generation \cup {Absent}
  /\ events \in Nat \cup {Absent}
  /\ legacy \in Generation \cup {Absent}
  /\ pc \in {"idle", "running", "mark_sensitive"}
              \cup Creating \cup Committing \cup Deleting
  /\ history \in Generation
  /\ authority \in SUBSET Declarable
  /\ consent \in BOOLEAN
  /\ nextId \in 1..(MaxGroup + 1)
  /\ committed \in Generation
  /\ generations \subseteq Generation
  /\ exposed \subseteq 1..MaxGroup

-----------------------------------------------------------------------------
(* Helpers of the store                                                    *)

\* authority_covers, for every stored descriptor: a subtree exception reaches
\* every path beneath it, an exact-file exception only its own path.
CoversAll(auth, descriptors) ==
  \A d \in descriptors : \E a \in auth :
    IF a.scope = "subtree" THEN d.path \in Below[a.path] ELSE d.path = a.path

\* _read_message_segments: messages/ if it is there, else the old single file,
\* else an empty history.
Loadable ==
  CASE messages # Absent -> messages
    [] messages = Absent /\ legacy # Absent -> legacy
    [] OTHER -> <<>>

\* select_replay_messages: the newest groups within the resume bound.
Window(h) == IF Len(h) <= MaxReplay THEN h
             ELSE SubSeq(h, Len(h) - MaxReplay + 1, Len(h))

\* Checkpoints are installed for ordinary runs, and for sensitive runs only
\* with the separate consent to persist.
Persists_Always == TRUE

Persists == authority = {} \/ consent

Newest(gen) == IF gen = <<>> THEN 0 ELSE gen[Len(gen)].id

-----------------------------------------------------------------------------
(* Sessions that exist before the first run: none, one written by an older *)
(* version (format 1, a single file) or by a newer one (format 3).         *)

OldGroup == [id |-> 1, authority |-> {}, consented |-> FALSE]

NoRun == history = <<>> /\ authority = {} /\ consent = FALSE

InitEmpty ==
  /\ directory = FALSE /\ metadata = Absent
  /\ messages = Absent /\ events = Absent /\ legacy = Absent
  /\ nextId = 1 /\ committed = <<>> /\ generations = {}

InitStored(format) ==
  /\ directory = TRUE
  /\ metadata = [format |-> format, authority |-> {}]
  /\ nextId = 2 /\ committed = <<OldGroup>> /\ generations = {<<OldGroup>>}
  /\ IF format = 1
     THEN legacy = <<OldGroup>> /\ messages = Absent /\ events = Absent
     ELSE legacy = Absent /\ messages = <<OldGroup>> /\ events = 1

Init ==
  /\ pc = "idle"
  /\ staged = Absent /\ backup = Absent
  /\ NoRun
  /\ exposed = {}
  /\ \/ InitEmpty
     \/ MaxGroup >= 1 /\ \E format \in {1, 3} : InitStored(format)

-----------------------------------------------------------------------------
(* A new session: create, then the agent runs with no prior messages.      *)

CreateDirectory(auth, persist) ==
  /\ pc = "idle"
  /\ ~directory
  /\ directory' = TRUE
  /\ pc' = "create_metadata"
  /\ authority' = auth
  /\ consent' = (persist /\ auth # {})
  /\ UNCHANGED <<metadata, messages, staged, backup, events, legacy, history,
                 observers>>

CreateMetadata ==
  /\ pc = "create_metadata"
  /\ metadata' = [format |-> 2, authority |-> {}]
  /\ pc' = "create_messages"
  /\ UNCHANGED <<directory, messages, staged, backup, events, legacy, run,
                 observers>>

CreateMessages ==
  /\ pc = "create_messages"
  /\ messages' = <<>>
  /\ pc' = "create_events"
  /\ UNCHANGED <<directory, metadata, staged, backup, events, legacy, run,
                 observers>>

CreateEvents ==
  /\ pc = "create_events"
  /\ events' = 0
  /\ pc' = "running"
  /\ UNCHANGED <<directory, metadata, messages, staged, backup, legacy, run,
                 observers>>

-----------------------------------------------------------------------------
(* Resume: under the lease, read the metadata, require renewed authority   *)
(* for a sensitive session, refuse a newer format, load the window.  A     *)
(* refusal changes nothing.                                                *)

Resume_NoAuthorityCheck(auth, persist) ==
  /\ pc = "idle"
  /\ directory
  /\ metadata # Absent
  /\ metadata.format <= 2
  /\ history' = Window(Loadable)
  /\ authority' = auth
  /\ consent' = (persist /\ auth # {})
  /\ pc' = "running"
  /\ UNCHANGED <<disk, observers>>

Resume(auth, persist) ==
  /\ pc = "idle"
  /\ directory
  /\ metadata # Absent
  /\ metadata.format <= 2
  /\ CoversAll(auth, metadata.authority)
  /\ history' = Window(Loadable)
  /\ authority' = auth
  /\ consent' = (persist /\ auth # {})
  /\ pc' = "running"
  /\ UNCHANGED <<disk, observers>>

-----------------------------------------------------------------------------
(* The agent completes a group of messages: the prompt, a round of tool    *)
(* calls with their results, or the final answer.                          *)

NewGroup == [id |-> nextId, authority |-> authority, consented |-> consent]

\* A run whose history is not kept only grows in memory.
EphemeralGroup ==
  /\ pc = "running"
  /\ nextId <= MaxGroup
  /\ ~Persists
  /\ history' = Append(history, NewGroup)
  /\ nextId' = nextId + 1
  /\ UNCHANGED <<disk, pc, authority, consent, committed, generations, exposed>>

BeginCheckpoint ==
  /\ pc = "running"
  /\ nextId <= MaxGroup
  /\ Persists
  /\ history' = Append(history, NewGroup)
  /\ nextId' = nextId + 1
  /\ generations' = (generations \cap {messages, backup, legacy})
                      \cup {Append(history, NewGroup)}
  /\ staged' = <<>>
  /\ pc' = "stage"
  /\ UNCHANGED <<directory, metadata, messages, backup, events, legacy,
                 authority, consent, committed, exposed>>

StageSegment_FirstOnly ==
  /\ pc = "stage"
  /\ \E n \in (Len(staged) + 1)..Len(history) :
       staged' = SubSeq(history, 1, n)
  /\ pc' = "move_aside"
  /\ UNCHANGED <<directory, metadata, messages, backup, events, legacy, run,
                 observers>>

\* The next segment file: at least one more group, in order.
StageSegment ==
  /\ pc = "stage"
  /\ \E n \in (Len(staged) + 1)..Len(history) :
       /\ staged' = SubSeq(history, 1, n)
       /\ pc' = IF n = Len(history) THEN "move_aside" ELSE "stage"
  /\ UNCHANGED <<directory, metadata, messages, backup, events, legacy, run,
                 observers>>

MoveAside_Discard ==
  /\ pc = "move_aside"
  /\ messages' = Absent
  /\ pc' = IF messages = Absent THEN "install_first" ELSE "install"
  /\ UNCHANGED <<directory, metadata, staged, backup, events, legacy, run,
                 observers>>

\* target_dir.rename(backup), if there is a target.
MoveAside ==
  /\ pc = "move_aside"
  /\ IF messages = Absent
     THEN pc' = "install_first" /\ UNCHANGED <<messages, backup>>
     ELSE pc' = "install" /\ backup' = messages /\ messages' = Absent
  /\ UNCHANGED <<directory, metadata, staged, events, legacy, run, observers>>

\* temporary.rename(target_dir).
Install ==
  /\ pc \in {"install", "install_first"}
  /\ messages' = staged
  /\ staged' = Absent
  /\ pc' = IF pc = "install" THEN "clean_backup" ELSE "events_aside"
  /\ UNCHANGED <<directory, metadata, backup, events, legacy, run, observers>>

\* The first file unlinked makes the backup incomplete.
CleanBackup ==
  /\ pc = "clean_backup"
  /\ backup' = Absent
  /\ pc' = "events_aside"
  /\ UNCHANGED <<directory, metadata, messages, staged, events, legacy, run,
                 observers>>

\* _write_event_segments swaps events/ the same way; this run's events replace
\* those of every earlier run.
EventsAside ==
  /\ pc = "events_aside"
  /\ events' = Absent
  /\ pc' = "events_install"
  /\ UNCHANGED <<directory, metadata, messages, staged, backup, legacy, run,
                 observers>>

EventsInstall ==
  /\ pc = "events_install"
  /\ events' = Newest(history)
  /\ pc' = "metadata"
  /\ UNCHANGED <<directory, metadata, messages, staged, backup, legacy, run,
                 observers>>

\* The metadata is read and rewritten with the current format.
WriteMetadata ==
  /\ pc = "metadata"
  /\ metadata # Absent
  /\ metadata' = [metadata EXCEPT !.format = 2]
  /\ pc' = "remove_legacy"
  /\ UNCHANGED <<directory, messages, staged, backup, events, legacy, run,
                 observers>>

AfterCommit == IF authority = {} THEN "running" ELSE "mark_sensitive"

RemoveLegacy_Forgotten ==
  /\ pc = "remove_legacy"
  /\ committed' = history
  /\ pc' = AfterCommit
  /\ UNCHANGED <<disk, run, nextId, generations, exposed>>

\* The last step of commit_checkpoint, which then returns.
RemoveLegacy ==
  /\ pc = "remove_legacy"
  /\ legacy' = Absent
  /\ committed' = history
  /\ pc' = AfterCommit
  /\ UNCHANGED <<directory, metadata, messages, staged, backup, events, run,
                 nextId, generations, exposed>>

MarkSensitive_Once ==
  /\ pc = "mark_sensitive"
  /\ metadata # Absent
  /\ metadata' = IF metadata.authority = {}
                 THEN [metadata EXCEPT !.authority = authority] ELSE metadata
  /\ pc' = "running"
  /\ UNCHANGED <<directory, messages, staged, backup, events, legacy, run,
                 observers>>

MarkSensitive_PathOnly ==
  /\ pc = "mark_sensitive"
  /\ metadata # Absent
  /\ metadata' = [metadata EXCEPT !.authority = {d.path : d \in authority}]
  /\ pc' = "running"
  /\ UNCHANGED <<directory, messages, staged, backup, events, legacy, run,
                 observers>>

\* The descriptors of this run replace the stored ones.
MarkSensitive ==
  /\ pc = "mark_sensitive"
  /\ metadata # Absent
  /\ metadata' = [metadata EXCEPT !.authority = authority]
  /\ pc' = "running"
  /\ UNCHANGED <<directory, messages, staged, backup, events, legacy, run,
                 observers>>

-----------------------------------------------------------------------------
(* The end of a run, and its interruptions.                                *)

NoRun_Next == history' = <<>> /\ authority' = {} /\ consent' = FALSE

\* run_agent returns or raises between two checkpoints.
FinishRun ==
  /\ pc = "running"
  /\ pc' = "idle"
  /\ NoRun_Next
  /\ UNCHANGED <<disk, observers>>

\* Groups of this run are on disk and their mark is not.
Unmarked ==
  IF /\ pc \in {"clean_backup", "events_aside", "events_install", "metadata",
                "remove_legacy", "mark_sensitive"}
     /\ authority # {}
     /\ metadata # Absent
     /\ metadata.authority # authority
  THEN {history[i].id : i \in {j \in 1..Len(history) :
                                 history[j].authority = authority}}
  ELSE {}

Abandon_DropsBackup ==
  /\ pc \notin {"idle", "running"}
  /\ pc' = "idle"
  /\ staged' = Absent
  /\ backup' = Absent
  /\ exposed' = exposed \cup Unmarked
  /\ NoRun_Next
  /\ UNCHANGED <<directory, metadata, messages, events, legacy, nextId,
                 committed, generations>>

\* The process dies, is interrupted, or meets an OSError in the middle of an
\* operation.  The staged segments are deleted or stay behind under a name that
\* nothing reads; what was moved aside is not moved back.
Abandon ==
  /\ pc \notin {"idle", "running"}
  /\ pc' = "idle"
  /\ staged' = Absent
  /\ exposed' = exposed \cup Unmarked
  /\ NoRun_Next
  /\ UNCHANGED <<directory, metadata, messages, backup, events, legacy, nextId,
                 committed, generations>>

-----------------------------------------------------------------------------
(* session delete: first the plain files, then the nested directories.     *)

StartDelete ==
  /\ pc = "idle"
  /\ directory
  /\ pc' = "delete_files"
  /\ committed' = <<>>
  /\ UNCHANGED <<disk, run, nextId, generations, exposed>>

\* Plain files go in the order the directory lists them.
DeleteFile ==
  /\ pc = "delete_files"
  /\ \/ /\ metadata # Absent
        /\ metadata' = Absent
        /\ UNCHANGED legacy
     \/ /\ legacy # Absent
        /\ legacy' = Absent
        /\ UNCHANGED metadata
  /\ UNCHANGED <<directory, messages, staged, backup, events, pc, run,
                 observers>>

FilesDeleted_Unchecked ==
  /\ pc = "delete_files"
  /\ pc' = "delete_nested"
  /\ UNCHANGED <<disk, run, observers>>

FilesDeleted ==
  /\ pc = "delete_files"
  /\ metadata = Absent
  /\ legacy = Absent
  /\ pc' = "delete_nested"
  /\ UNCHANGED <<disk, run, observers>>

\* Segment files go one by one, in any order; then the empty directory.
DeleteSegment ==
  /\ pc = "delete_nested"
  /\ messages # Absent
  /\ IF messages = <<>>
     THEN messages' = Absent
     ELSE \E i \in 1..Len(messages) : \E j \in i..Len(messages) :
            messages' = SubSeq(messages, 1, i - 1)
                          \o SubSeq(messages, j + 1, Len(messages))
  /\ UNCHANGED <<directory, metadata, staged, backup, events, legacy, pc, run,
                 observers>>

DeleteOtherDirectory ==
  /\ pc = "delete_nested"
  /\ \/ /\ backup # Absent
        /\ backup' = Absent
        /\ UNCHANGED events
     \/ /\ events # Absent
        /\ events' = Absent
        /\ UNCHANGED backup
  /\ UNCHANGED <<directory, metadata, messages, staged, legacy, pc, run,
                 observers>>

\* directory.rmdir() succeeds on an empty directory only.
DeleteDirectory ==
  /\ pc = "delete_nested"
  /\ messages = Absent /\ backup = Absent /\ events = Absent
  /\ directory' = FALSE
  /\ pc' = "idle"
  /\ generations' = {}
  /\ exposed' = {}
  /\ UNCHANGED <<metadata, messages, staged, backup, events, legacy, run,
                 nextId, committed>>

-----------------------------------------------------------------------------
Start == \E auth \in SUBSET Declarable, persist \in BOOLEAN :
           CreateDirectory(auth, persist) \/ Resume(auth, persist)

Create == CreateMetadata \/ CreateMessages \/ CreateEvents

Commit ==
  \/ BeginCheckpoint \/ StageSegment \/ MoveAside \/ Install \/ CleanBackup
  \/ EventsAside \/ EventsInstall \/ WriteMetadata \/ RemoveLegacy

Delete ==
  \/ StartDelete \/ DeleteFile \/ FilesDeleted
  \/ DeleteSegment \/ DeleteOtherDirectory \/ DeleteDirectory

Next ==
  \/ Start \/ Create \/ EphemeralGroup \/ Commit \/ MarkSensitive
  \/ FinishRun \/ Abandon \/ Delete

Spec == Init /\ [][Next]_vars

-----------------------------------------------------------------------------
(* Properties                                                              *)

\* What a reader of the whole session directory can recover: messages/ while it
\* is there, else what was moved aside, else the old single file.  A session
\* without metadata is being created or deleted and has no history.
Recoverable ==
  CASE metadata = Absent -> <<>>
    [] metadata # Absent /\ messages # Absent -> messages
    [] metadata # Absent /\ messages = Absent /\ backup # Absent -> backup
    [] OTHER -> Loadable

\* Whatever interrupts the owner or a deletion, a history that a resume or
\* `session show` can load is empty or one whole generation, never the first
\* segments of one or the remains of a deletion (_replace_jsonl_segments stages
\* every segment before the renames; delete removes metadata.json first).
LoadableIsWhole ==
  metadata # Absent => Loadable \in generations \cup {<<>>}

\* From the return of commit_checkpoint until the session is deleted, the
\* generation it committed or a newer one is whole on disk, in messages/ or in
\* the directory moved aside, across failed and interrupted checkpoints.
LatestRecoverable ==
  committed # <<>> => /\ Recoverable \in generations
                      /\ Newest(Recoverable) >= Newest(committed)

\* When commit_checkpoint returns, a resume loads exactly what was committed,
\* the events are those of the same checkpoint and no format 1 file is left to
\* be read in its place.
ReturnedCheckpointIsLoadable ==
  [][committed' # committed /\ committed' # <<>> =>
       /\ messages' = committed'
       /\ events' = Newest(committed')
       /\ legacy' = Absent
       /\ metadata'.format = 2]_vars

\* Between the steps of a run, the authority stored with the session covers the
\* authority of every run whose groups a resume would load, over any chain of
\* resumed runs, except the runs that were stopped before mark_sensitive.
MarkCoversHistory ==
  pc \in {"idle", "running"} /\ metadata # Absent =>
    \A i \in 1..Len(Loadable) :
      \/ Loadable[i].id \in exposed
      \/ CoversAll(metadata.authority, Loadable[i].authority)

\* A later run may replace the stored authority only by one that covers it
\* (mark_sensitive overwrites; the check at resume is what makes it safe).
AuthorityNeverWeakens ==
  [][metadata # Absent /\ metadata' # Absent =>
       CoversAll(metadata'.authority, metadata.authority)]_vars

\* Groups of a sensitive run that did not consent to persist reach no file: not
\* the history, not the staged segments, not what was moved aside, not through
\* the history that a later run loads and commits again.
NoUnconsentedSensitive ==
  \A h \in {messages, staged, backup, legacy} \ {Absent} :
    \A i \in 1..Len(h) : h[i].authority = {} \/ h[i].consented

\* The abstract history: a checkpoint lands at once, is reported only after it
\* landed, and an abandoned one leaves the old value or the new one.
DH == INSTANCE DurableHistory WITH
        NoGeneration <- Absent,
        stored <- Recoverable,
        pending <- IF pc \in Committing THEN history ELSE Absent

ImplementsDurableHistory == DH!Spec

-----------------------------------------------------------------------------
(* Claims of the documentation that the code does not keep                 *)

\* "Interrupt before commit leaves the prior generation valid": at rest, a
\* session whose checkpoint returned loads that generation or a newer one.
InterruptKeepsPriorValid ==
  pc = "idle" /\ committed # <<>> => Newest(Loadable) >= Newest(committed)

\* "full durable history remains until user deletion": messages/ is moved aside
\* only for a generation that holds every group it held.
FullHistoryRemains ==
  pc = "move_aside" /\ messages # Absent =>
    \A i \in 1..Len(messages) : \E j \in 1..Len(staged) : staged[j] = messages[i]
=============================================================================
