---------------------------- MODULE SessionLease ----------------------------
(***************************************************************************)
(* Several processes on one session name: runs that create or resume it,   *)
(* deletions, and the probes of `session list` and `session show`.         *)
(*                                                                         *)
(* Ownership is a kernel lock on the file `session.lock` of the session    *)
(* directory.  A lock belongs to the file that was opened and not to its   *)
(* name: once a deletion has unlinked it, the same name is another file.   *)
(* Everything else is done by name in whatever directory is there.         *)
(*                                                                         *)
(* Each action is one access to what the processes share.  What a          *)
(* checkpoint does inside the directory is SessionCheckpoint; here it is   *)
(* one write of a new history.                                             *)
(***************************************************************************)
EXTENDS Naturals, FiniteSets

CONSTANTS
  Runner,      \* processes that run the agent on the session
  Deleter,     \* processes that delete it
  Prober,      \* processes that list or show sessions
  Nobody,      \* no process
  Absent,      \* there is no messages/
  MaxBirth,    \* bound: times the session directory is made
  MaxLock,     \* bound: lock files created
  MaxCommit    \* bound: checkpoints

Proc == Runner \cup Deleter \cup Prober

ASSUME ProcAssumption == Nobody \notin Proc
ASSUME BoundAssumption == MaxBirth \in Nat /\ MaxLock \in Nat /\ MaxCommit \in Nat
ASSUME AbsentAssumption == Absent \notin Nat

VARIABLES
  \* the session directory
  directory,   \* which of the directories made under this name; 0: none
  metadata,    \* is there a metadata.json
  messages,    \* the history: number of the checkpoint, 0: created empty
  lockFile,    \* which file is named session.lock; 0: none
  active,      \* is there an active.json, the owner's announcement
  \* the kernel
  holder,      \* holder[f]: the process that has locked file f
  \* the processes
  pc,
  mode,        \* what a lease is wanted for: "new", "resume" or "delete"
  patient,     \* --session-wait was given
  expired,     \* the deadline of the wait has passed
  fd,          \* the lock file a process has open; 0: none
  listing,     \* names a deletion has read and not yet unlinked
  place,       \* the directory it read them from
  view,        \* the history a run has in memory
  \* observers and bounds
  births, locks, commits,
  raced        \* which of the races below have happened

session == <<directory, metadata, messages, lockFile, active>>
terms == <<mode, patient, expired>>
deletion == <<listing, place>>
counters == <<births, locks, commits>>
vars == <<session, holder, pc, terms, fd, deletion, view, counters, raced>>

Acquiring == {"open", "lock", "blocked", "locked"}
Owning == {"load", "running"}
Deleting == {"delete_list", "delete_files", "delete_relist", "delete_rest"}

\* The processes to which acquire_lease has returned a lease.
Holds(p) == pc[p] \in Owning \cup {"delete_list", "delete_files"}

\* A run that has made the directory and does not own it yet.
Creating(p) ==
  \/ pc[p] \in {"write_metadata", "make_messages"}
  \/ pc[p] \in Acquiring /\ mode[p] = "new"

\* Files, kernel locks and the locals of every process keep their shape.
TypeOK ==
  /\ directory \in 0..MaxBirth
  /\ metadata \in BOOLEAN
  /\ messages \in 0..MaxCommit \cup {Absent}
  /\ lockFile \in 0..MaxLock
  /\ active \in BOOLEAN
  /\ holder \in [1..MaxLock -> Proc \cup {Nobody}]
  /\ pc \in [Proc -> {"idle", "create", "make_directory", "write_metadata",
                      "make_messages", "probe"} \cup Acquiring \cup Owning
                      \cup Deleting]
  /\ mode \in [Proc -> {"new", "resume", "delete"}]
  /\ patient \in [Proc -> BOOLEAN]
  /\ expired \in [Proc -> BOOLEAN]
  /\ fd \in [Proc -> 0..MaxLock]
  /\ listing \in [Proc -> SUBSET {"metadata", "active", "messages", "lock"}]
  /\ place \in [Proc -> 0..MaxBirth]
  /\ view \in [Proc -> 0..MaxCommit \cup {Absent}]
  /\ births \in 0..MaxBirth
  /\ locks \in 0..MaxLock
  /\ commits \in 0..MaxCommit
  /\ raced \subseteq {"create", "listing", "lock"}

Init ==
  /\ directory = 0 /\ lockFile = 0
  /\ metadata = FALSE /\ messages = Absent /\ active = FALSE
  /\ holder = [f \in 1..MaxLock |-> Nobody]
  /\ pc = [p \in Proc |-> "idle"]
  /\ mode = [p \in Proc |-> "resume"]
  /\ patient = [p \in Proc |-> FALSE]
  /\ expired = [p \in Proc |-> FALSE]
  /\ fd = [p \in Proc |-> 0]
  /\ listing = [p \in Proc |-> {}]
  /\ place = [p \in Proc |-> 0]
  /\ view = [p \in Proc |-> Absent]
  /\ births = 0 /\ locks = 0 /\ commits = 0
  /\ raced = {}

-----------------------------------------------------------------------------
(* Steps of a process                                                      *)

Goto(p, label) == pc' = [pc EXCEPT ![p] = label]

\* Closing the lock file gives up the lock that was taken through it.
Unlocked(p) == [f \in 1..MaxLock |-> IF holder[f] = p THEN Nobody ELSE holder[f]]

\* The process leaves: it returned, raised or was killed.  Its memory goes, and
\* the kernel closes its files.
Leave(p) ==
  /\ Goto(p, "idle")
  /\ fd' = [fd EXCEPT ![p] = 0]
  /\ holder' = Unlocked(p)
  /\ mode' = [mode EXCEPT ![p] = "resume"]
  /\ patient' = [patient EXCEPT ![p] = FALSE]
  /\ expired' = [expired EXCEPT ![p] = FALSE]
  /\ listing' = [listing EXCEPT ![p] = {}]
  /\ place' = [place EXCEPT ![p] = 0]
  /\ view' = [view EXCEPT ![p] = Absent]

\* An owner leaves: SessionLease.release first unlinks active.json by its name.
LeaveOwned(p) == Leave(p) /\ active' = FALSE

\* Three races that acquire_lease does not exclude, recorded when they happen.
\* "create": a creation, which is not under the lease, meets another writer.
\* "listing": a deletion goes on in a directory made after it read the old one.
\* "lock": a deletion unlinks a lock file that another process has opened.
Disturbs(p) == \E q \in Proc \ {p} : Creating(q)
DisturbedBy(p) == \E q \in Proc \ {p} : Holds(q) \/ pc[q] \in Deleting

Note(race, happened) == raced' = IF happened THEN raced \cup {race} ELSE raced

-----------------------------------------------------------------------------
(* `orbitrelay --session X`: _prepare_session                              *)

\* get_metadata decides between resuming and creating; a directory without
\* metadata is reported as corrupt.
StartRun(p) ==
  /\ p \in Runner
  /\ pc[p] = "idle"
  /\ \/ directory = 0 /\ Goto(p, "create") /\ mode' = [mode EXCEPT ![p] = "new"]
     \/ metadata /\ Goto(p, "open") /\ mode' = [mode EXCEPT ![p] = "resume"]
  /\ UNCHANGED <<session, holder, patient, expired, fd, deletion, view, counters,
                 raced>>

\* create: refused when the directory has appeared in the meantime.
Create(p) ==
  /\ pc[p] = "create"
  /\ IF directory = 0
     THEN /\ Goto(p, "make_directory")
          /\ UNCHANGED <<holder, terms, fd, deletion, view>>
     ELSE Leave(p)
  /\ UNCHANGED <<session, counters, raced>>

\* mkdir(exist_ok=True): no error when another creation was faster.
MakeDirectory(p) ==
  /\ pc[p] = "make_directory"
  /\ births < MaxBirth
  /\ IF directory = 0
     THEN directory' = births + 1 /\ births' = births + 1
     ELSE UNCHANGED <<directory, births>>
  /\ Goto(p, "write_metadata")
  /\ Note("create", directory # 0)
  /\ UNCHANGED <<metadata, messages, lockFile, active, holder, terms, fd, deletion,
                 view, locks, commits>>

\* The write fails when the directory is gone.
WriteMetadata(p) ==
  /\ pc[p] = "write_metadata"
  /\ IF directory # 0
     THEN /\ metadata' = TRUE
          /\ Goto(p, "make_messages")
          /\ Note("create", Disturbs(p) \/ DisturbedBy(p))
          /\ UNCHANGED <<holder, terms, fd, deletion, view>>
     ELSE Leave(p) /\ UNCHANGED <<metadata, raced>>
  /\ UNCHANGED <<directory, messages, lockFile, active, counters>>

\* mkdir(parents=True) makes the session directory again if it is gone; the
\* first segment is replaced by an empty one.
MakeMessages(p) ==
  /\ pc[p] = "make_messages"
  /\ directory # 0 \/ births < MaxBirth
  /\ IF directory = 0
     THEN directory' = births + 1 /\ births' = births + 1
     ELSE UNCHANGED <<directory, births>>
  /\ messages' = 0
  /\ Goto(p, "open")
  /\ Note("create", Disturbs(p) \/ DisturbedBy(p))
  /\ UNCHANGED <<metadata, lockFile, active, holder, terms, fd, deletion, view,
                 locks, commits>>

-----------------------------------------------------------------------------
(* acquire_lease                                                           *)

\* The lock file is opened, and created if need be.  Only a run may have been
\* given a time to wait.
OpenLock(p, wait) ==
  /\ pc[p] = "open"
  /\ mode[p] = "delete" => ~wait
  /\ \/ /\ directory = 0
        /\ Leave(p)
        /\ UNCHANGED <<lockFile, locks>>
     \/ /\ directory # 0
        /\ lockFile # 0 \/ locks < MaxLock
        /\ LET file == IF lockFile = 0 THEN locks + 1 ELSE lockFile
           IN  /\ lockFile' = file
               /\ fd' = [fd EXCEPT ![p] = file]
               /\ locks' = IF lockFile = 0 THEN locks + 1 ELSE locks
        /\ Goto(p, "lock")
        /\ patient' = [patient EXCEPT ![p] = wait]
        /\ UNCHANGED <<holder, mode, expired, deletion, view>>
  /\ UNCHANGED <<directory, metadata, messages, active, births, commits, raced>>

\* One attempt; who does not wait is refused at once.
TryLock(p) ==
  /\ pc[p] = "lock"
  /\ IF holder[fd[p]] = Nobody
     THEN /\ holder' = [holder EXCEPT ![fd[p]] = p]
          /\ Goto(p, "locked")
          /\ patient' = [patient EXCEPT ![p] = FALSE]
          /\ expired' = [expired EXCEPT ![p] = FALSE]
          /\ UNCHANGED <<mode, fd, deletion, view>>
     ELSE IF patient[p]
     THEN Goto(p, "blocked") /\ UNCHANGED <<holder, terms, fd, deletion, view>>
     ELSE Leave(p)
  /\ UNCHANGED <<session, counters, raced>>

Blocked_NoDeadline(p) ==
  /\ pc[p] = "blocked"
  /\ Goto(p, "lock")
  /\ UNCHANGED <<session, holder, terms, fd, deletion, view, counters, raced>>

\* After a failed attempt the deadline decides: give up, or sleep and retry.
Blocked(p) ==
  /\ pc[p] = "blocked"
  /\ IF expired[p]
     THEN Leave(p)
     ELSE Goto(p, "lock") /\ UNCHANGED <<holder, terms, fd, deletion, view>>
  /\ UNCHANGED <<session, counters, raced>>

\* The clock reaches the deadline of a waiter.
DeadlinePasses(p) ==
  /\ pc[p] \in {"lock", "blocked"}
  /\ patient[p]
  /\ ~expired[p]
  /\ expired' = [expired EXCEPT ![p] = TRUE]
  /\ UNCHANGED <<session, holder, pc, mode, patient, fd, deletion, view, counters,
                 raced>>

Granted_ByMode(p) == IF mode[p] = "new" THEN "running" ELSE mode[p]

\* A new session starts with no messages: nothing is read after the lease.
Granted(p) ==
  CASE mode[p] = "new" -> "running"
    [] mode[p] = "resume" -> "load"
    [] OTHER -> "delete_list"

\* The lock is taken on the open file; the chmod that follows is by name and
\* raises when session.lock was unlinked.  Then active.json is written and the
\* lease returned.
Announce(p) ==
  /\ pc[p] = "locked"
  /\ IF lockFile = 0
     THEN Leave(p) /\ UNCHANGED active
     ELSE /\ active' = TRUE
          /\ Goto(p, Granted(p))
          /\ view' = [view EXCEPT ![p] = IF mode[p] = "new" THEN 0 ELSE Absent]
          /\ mode' = [mode EXCEPT ![p] = "resume"]
          /\ UNCHANGED <<holder, patient, expired, fd, deletion>>
  /\ UNCHANGED <<directory, metadata, messages, lockFile, counters, raced>>

-----------------------------------------------------------------------------
(* The owner                                                               *)

Load_WithoutMetadata(p) ==
  /\ pc[p] = "load"
  /\ \/ /\ messages # Absent
        /\ Goto(p, "running")
        /\ view' = [view EXCEPT ![p] = messages]
        /\ UNCHANGED <<active, holder, terms, fd, deletion>>
     \/ LeaveOwned(p)
  /\ UNCHANGED <<directory, metadata, messages, lockFile, counters, raced>>

\* Under the lease the metadata is read again.  The lease is released when the
\* session was deleted in the meantime, when its authority was not renewed or
\* when its history cannot be read.
Load(p) ==
  /\ pc[p] = "load"
  /\ \/ /\ metadata
        /\ Goto(p, "running")
        /\ view' = [view EXCEPT ![p] = messages]
        /\ UNCHANGED <<active, holder, terms, fd, deletion>>
     \/ LeaveOwned(p)
  /\ UNCHANGED <<directory, metadata, messages, lockFile, counters, raced>>

\* commit_checkpoint: refused without a directory; the segments are installed
\* before the metadata is read, whose absence is an error.
Commit(p) ==
  /\ pc[p] = "running"
  /\ commits < MaxCommit
  /\ IF directory = 0
     THEN LeaveOwned(p) /\ UNCHANGED <<messages, commits, raced>>
     ELSE /\ commits' = commits + 1
          /\ messages' = commits + 1
          /\ Note("create", Disturbs(p))
          /\ IF metadata
             THEN /\ view' = [view EXCEPT ![p] = commits + 1]
                  /\ UNCHANGED <<active, pc, holder, terms, fd, deletion>>
             ELSE LeaveOwned(p)
  /\ UNCHANGED <<directory, metadata, lockFile, births, locks>>

Release_UnlinksLock(p) ==
  /\ pc[p] = "running"
  /\ LeaveOwned(p)
  /\ lockFile' = 0
  /\ UNCHANGED <<directory, metadata, messages, counters, raced>>

\* The end of the run.
Release(p) ==
  /\ pc[p] = "running"
  /\ LeaveOwned(p)
  /\ UNCHANGED <<directory, metadata, messages, lockFile, counters, raced>>

\* A process is killed anywhere.
Crash(p) ==
  /\ pc[p] # "idle"
  /\ Leave(p)
  /\ UNCHANGED <<session, counters, raced>>

-----------------------------------------------------------------------------
(* is_session_active: the probe takes the lock for a moment.               *)

\* `session list`, `session show`, and the first thing a deletion does.
Probe(p) ==
  /\ pc[p] = "idle"
  /\ p \in Deleter \cup Prober
  /\ lockFile # 0
  /\ holder[lockFile] = Nobody
  /\ holder' = [holder EXCEPT ![lockFile] = p]
  /\ fd' = [fd EXCEPT ![p] = lockFile]
  /\ Goto(p, "probe")
  /\ UNCHANGED <<session, terms, deletion, view, counters, raced>>

\* Nobody owned the session: a deletion goes on.
Probed(p) ==
  /\ pc[p] = "probe"
  /\ \/ p \in Prober /\ Leave(p)
     \/ /\ p \in Deleter
        /\ holder' = Unlocked(p)
        /\ fd' = [fd EXCEPT ![p] = 0]
        /\ Goto(p, "open")
        /\ mode' = [mode EXCEPT ![p] = "delete"]
        /\ UNCHANGED <<patient, expired, deletion, view>>
  /\ UNCHANGED <<session, counters, raced>>

\* Without a lock file there is nothing to probe.
StartDelete(p) ==
  /\ p \in Deleter
  /\ pc[p] = "idle"
  /\ directory # 0
  /\ lockFile = 0
  /\ Goto(p, "open")
  /\ mode' = [mode EXCEPT ![p] = "delete"]
  /\ UNCHANGED <<session, holder, patient, expired, fd, deletion, view, counters,
                 raced>>

-----------------------------------------------------------------------------
(* delete                                                                  *)

Names == {name \in {"metadata", "active", "messages", "lock"} :
            \/ name = "metadata" /\ metadata
            \/ name = "active" /\ active
            \/ name = "messages" /\ messages # Absent
            \/ name = "lock" /\ lockFile # 0}

\* Under the lease, the plain files but the lock file.
ListFiles(p) ==
  /\ pc[p] = "delete_list"
  /\ IF directory # 0
     THEN /\ listing' = [listing EXCEPT ![p] = Names \cap {"metadata", "active"}]
          /\ place' = [place EXCEPT ![p] = directory]
          /\ Goto(p, "delete_files")
          /\ UNCHANGED <<active, holder, terms, fd, view>>
     ELSE LeaveOwned(p)
  /\ UNCHANGED <<directory, metadata, messages, lockFile, counters, raced>>

\* One name of the list is unlinked, in whatever directory is there now.
Unlink(p) ==
  /\ pc[p] \in {"delete_files", "delete_rest"}
  /\ \E name \in listing[p] :
       /\ listing' = [listing EXCEPT ![p] = @ \ {name}]
       /\ metadata' = (metadata /\ name # "metadata")
       /\ active' = (active /\ name # "active")
       /\ messages' = IF name = "messages" THEN Absent ELSE messages
       /\ lockFile' = IF name = "lock" THEN 0 ELSE lockFile
       /\ raced' = raced
            \cup (IF Disturbs(p) THEN {"create"} ELSE {})
            \cup (IF directory # place[p] THEN {"listing"} ELSE {})
            \cup (IF name = "lock" /\ \E q \in Proc \ {p} : fd[q] # 0 /\ fd[q] = lockFile
                  THEN {"lock"} ELSE {})
  /\ UNCHANGED <<directory, holder, pc, terms, fd, place, view, counters>>

\* lease.release() comes before the rest of the deletion.
ReleaseDeletion(p) ==
  /\ pc[p] = "delete_files"
  /\ listing[p] = {}
  /\ Goto(p, "delete_relist")
  /\ holder' = Unlocked(p)
  /\ fd' = [fd EXCEPT ![p] = 0]
  /\ active' = FALSE
  /\ UNCHANGED <<directory, metadata, messages, lockFile, terms, deletion, view,
                 counters, raced>>

\* Without the lease, everything that is left.
ListRest(p) ==
  /\ pc[p] = "delete_relist"
  /\ IF directory # 0
     THEN /\ listing' = [listing EXCEPT ![p] = Names]
          /\ place' = [place EXCEPT ![p] = directory]
          /\ Goto(p, "delete_rest")
          /\ UNCHANGED <<holder, terms, fd, view>>
     ELSE Leave(p)
  /\ UNCHANGED <<session, counters, raced>>

\* rmdir fails on a directory that has entries again.
RemoveDirectory(p) ==
  /\ pc[p] = "delete_rest"
  /\ listing[p] = {}
  /\ IF Names = {}
     THEN directory' = 0 /\ Note("create", Disturbs(p))
     ELSE UNCHANGED <<directory, raced>>
  /\ Leave(p)
  /\ UNCHANGED <<metadata, messages, lockFile, active, counters>>

-----------------------------------------------------------------------------
Acquire(p) ==
  \/ \E wait \in BOOLEAN : OpenLock(p, wait)
  \/ TryLock(p) \/ Blocked(p) \/ Announce(p)

CreateSteps(p) == Create(p) \/ MakeDirectory(p) \/ WriteMetadata(p) \/ MakeMessages(p)

DeleteSteps(p) ==
  \/ StartDelete(p) \/ ListFiles(p) \/ Unlink(p) \/ ReleaseDeletion(p)
  \/ ListRest(p) \/ RemoveDirectory(p)

Next == \E p \in Proc :
  \/ StartRun(p)
  \/ CreateSteps(p)
  \/ Acquire(p)
  \/ DeadlinePasses(p)
  \/ Load(p) \/ Commit(p) \/ Release(p)
  \/ Probe(p) \/ Probed(p)
  \/ DeleteSteps(p)
  \/ Crash(p)

\* A waiter keeps being scheduled and the clock advances; an owner may keep the
\* session for ever.
Fairness == \A p \in Runner :
  WF_vars(TryLock(p)) /\ WF_vars(Blocked(p)) /\ WF_vars(DeadlinePasses(p))

Spec == Init /\ [][Next]_vars /\ Fairness

-----------------------------------------------------------------------------
(* Properties                                                              *)

\* Two processes hold a lease on the session at the same time only if a
\* deletion unlinked a lock file that somebody had opened.
OneHolder ==
  \A p, q \in Proc : p # q /\ Holds(p) /\ Holds(q) => "lock" \in raced

\* Unless one of the races happened, the session of a run that goes on is
\* whole, and its history is the one the run has in memory: nothing is
\* committed over or deleted behind an owner, whatever waits for it.
OwnerSeesItsSession ==
  raced = {} => \A p \in Proc : pc[p] = "running" =>
    directory # 0 /\ metadata /\ messages = view[p]

\* "acquires it or fails without waiting indefinitely": a wait ends even when
\* the owner keeps the session.
WaitEnds == \A p \in Runner :
  (pc[p] \in {"lock", "blocked"}) ~> (pc[p] \notin {"lock", "blocked"})

-----------------------------------------------------------------------------
(* A claim of the documentation that the code does not keep                *)

\* "One process exclusively owns a session from load through final durable
\* checkpoint."
OneProcessOwns ==
  \A p, q \in Proc : p # q => ~(pc[p] = "running" /\ pc[q] = "running")
=============================================================================
