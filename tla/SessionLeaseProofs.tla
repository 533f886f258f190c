-------------------------- MODULE SessionLeaseProofs --------------------------
(***************************************************************************)
(* Theorems about SessionLease, for any number of processes and any bounds.*)
(***************************************************************************)
EXTENDS SessionLease, TLAPS

-----------------------------------------------------------------------------
(* Typing, in two halves: what is shared and what belongs to a process     *)

Pcs == {"idle", "create", "make_directory", "write_metadata", "make_messages",
        "probe"} \cup Acquiring \cup Owning \cup Deleting

SharedType ==
  /\ directory \in 0..MaxBirth
  /\ metadata \in BOOLEAN
  /\ messages \in 0..MaxCommit \cup {Absent}
  /\ lockFile \in 0..MaxLock
  /\ active \in BOOLEAN
  /\ births \in 0..MaxBirth
  /\ locks \in 0..MaxLock
  /\ commits \in 0..MaxCommit
  /\ raced \subseteq {"create", "listing", "lock"}

ProcessType ==
  /\ holder \in [1..MaxLock -> Proc \cup {Nobody}]
  /\ pc \in [Proc -> Pcs]
  /\ mode \in [Proc -> {"new", "resume", "delete"}]
  /\ patient \in [Proc -> BOOLEAN]
  /\ expired \in [Proc -> BOOLEAN]
  /\ fd \in [Proc -> 0..MaxLock]
  /\ listing \in [Proc -> SUBSET {"metadata", "active", "messages", "lock"}]
  /\ place \in [Proc -> 0..MaxBirth]
  /\ view \in [Proc -> 0..MaxCommit \cup {Absent}]

LEMMA TypeHalves == TypeOK <=> SharedType /\ ProcessType
BY DEF TypeOK, SharedType, ProcessType, Pcs

\* Every variable is typed before any process has done anything.
LEMMA InitType == Init => TypeOK
<1> SUFFICES ASSUME Init PROVE SharedType /\ ProcessType
  BY TypeHalves
<1>1. SharedType
  <2>1. metadata = FALSE /\ active = FALSE
    BY DEF Init
  <2>2. metadata \in BOOLEAN /\ active \in BOOLEAN
    BY <2>1
  <2>3. /\ directory = 0 /\ lockFile = 0 /\ births = 0 /\ locks = 0 /\ commits = 0
        /\ messages = Absent /\ raced = {}
    BY DEF Init
  <2> QED
    BY <2>2, <2>3, BoundAssumption DEF SharedType
<1>2. patient \in [Proc -> BOOLEAN] /\ expired \in [Proc -> BOOLEAN]
  <2>1. patient = [p \in Proc |-> FALSE] /\ expired = [p \in Proc |-> FALSE]
    BY DEF Init
  <2> QED
    BY <2>1
<1>3. ProcessType
  BY <1>2, BoundAssumption DEF Init, ProcessType, Pcs
<1> QED
  BY <1>1, <1>3

\* A process that leaves is back where it started.
LEMMA LeaveType ==
  ASSUME ProcessType, NEW p \in Proc, Leave(p)
  PROVE  ProcessType'
<1>1. patient' \in [Proc -> BOOLEAN] /\ expired' \in [Proc -> BOOLEAN]
  BY DEF Leave, ProcessType
<1>2. holder' \in [1..MaxLock -> Proc \cup {Nobody}]
  BY DEF Leave, ProcessType, Unlocked
<1> QED
  BY <1>1, <1>2, BoundAssumption DEF Leave, Goto, ProcessType, Pcs

\* A race is one of the three.
LEMMA NoteType ==
  ASSUME raced \subseteq {"create", "listing", "lock"},
         NEW race \in {"create", "listing", "lock"}, NEW happened \in BOOLEAN,
         Note(race, happened)
  PROVE  raced' \subseteq {"create", "listing", "lock"}
BY DEF Note

-----------------------------------------------------------------------------
(* The actions                                                             *)

LEMMA LeaveOwnedType ==
  ASSUME ProcessType, NEW p \in Proc, LeaveOwned(p)
  PROVE  ProcessType' /\ active' \in BOOLEAN
<1>1. Leave(p) /\ active' = FALSE
  BY DEF LeaveOwned
<1> QED
  BY <1>1, LeaveType

\* A step of a process to a label it has, when nothing else of it changes.
LEMMA GotoType ==
  ASSUME ProcessType, NEW p \in Proc, NEW label \in Pcs, Goto(p, label)
  PROVE  pc' \in [Proc -> Pcs]
BY DEF Goto, ProcessType

LEMMA CreateType ==
  ASSUME SharedType, ProcessType, NEW p \in Proc, CreateSteps(p)
  PROVE  SharedType' /\ ProcessType'
<1> USE DEF Pcs
<1>1. CASE Create(p)
  <2>1. SharedType'
    BY <1>1 DEF Create, SharedType, session, counters
  <2>2. ProcessType'
    <3>1. CASE directory = 0
      BY <1>1, <3>1 DEF Create, Goto, ProcessType, terms, deletion
    <3>2. CASE directory # 0
      BY <1>1, <3>2, LeaveType DEF Create
    <3> QED
      BY <3>1, <3>2
  <2> QED
    BY <2>1, <2>2
<1>2. CASE MakeDirectory(p)
  <2>1. raced' \subseteq {"create", "listing", "lock"}
    BY <1>2, NoteType DEF MakeDirectory, SharedType
  <2>2. directory' \in 0..MaxBirth /\ births' \in 0..MaxBirth
    BY <1>2, BoundAssumption DEF MakeDirectory, SharedType
  <2>3. SharedType'
    BY <1>2, <2>1, <2>2 DEF MakeDirectory, SharedType
  <2>4. ProcessType'
    BY <1>2 DEF MakeDirectory, Goto, ProcessType, terms, deletion
  <2> QED
    BY <2>3, <2>4
<1>3. CASE WriteMetadata(p)
  <2>1. CASE directory # 0
    <3>1. raced' \subseteq {"create", "listing", "lock"}
      BY <1>3, <2>1, NoteType DEF WriteMetadata, SharedType
    <3>2. SharedType'
      BY <1>3, <2>1, <3>1 DEF WriteMetadata, SharedType, counters
    <3>3. ProcessType'
      BY <1>3, <2>1 DEF WriteMetadata, Goto, ProcessType, terms, deletion
    <3> QED
      BY <3>2, <3>3
  <2>2. CASE directory = 0
    <3>1. SharedType'
      BY <1>3, <2>2 DEF WriteMetadata, SharedType, counters
    <3>2. ProcessType'
      BY <1>3, <2>2, LeaveType DEF WriteMetadata
    <3> QED
      BY <3>1, <3>2
  <2> QED
    BY <2>1, <2>2
<1>4. CASE MakeMessages(p)
  <2>1. raced' \subseteq {"create", "listing", "lock"}
    BY <1>4, NoteType DEF MakeMessages, SharedType
  <2>2. directory' \in 0..MaxBirth /\ births' \in 0..MaxBirth /\ messages' \in 0..MaxCommit
    BY <1>4, BoundAssumption DEF MakeMessages, SharedType
  <2>3. SharedType'
    BY <1>4, <2>1, <2>2 DEF MakeMessages, SharedType
  <2>4. pc' \in [Proc -> Pcs]
    BY <1>4, GotoType DEF MakeMessages, Acquiring
  <2>5. ProcessType'
    BY <1>4, <2>4 DEF MakeMessages, ProcessType, terms, deletion
  <2> QED
    BY <2>3, <2>5
<1> QED
  BY <1>1, <1>2, <1>3, <1>4 DEF CreateSteps
LEMMA OpenLockType ==
  ASSUME SharedType, ProcessType, NEW p \in Proc, NEW wait \in BOOLEAN, OpenLock(p, wait)
  PROVE  SharedType' /\ ProcessType'
<1> USE DEF Pcs, Acquiring
<1>1. CASE directory = 0
  <2>1. Leave(p) /\ UNCHANGED <<lockFile, locks>>
    BY <1>1 DEF OpenLock
  <2>2. SharedType'
    BY <1>1, <2>1 DEF OpenLock, SharedType
  <2> QED
    BY <2>1, <2>2, LeaveType
<1>2. CASE directory # 0
  <2> DEFINE file == IF lockFile = 0 THEN locks + 1 ELSE lockFile
  <2>1. /\ lockFile' = file
        /\ fd' = [fd EXCEPT ![p] = file]
        /\ locks' = IF lockFile = 0 THEN locks + 1 ELSE locks
        /\ lockFile # 0 \/ locks < MaxLock
        /\ Goto(p, "lock")
        /\ patient' = [patient EXCEPT ![p] = wait]
    BY <1>2 DEF OpenLock
  <2>2. file \in 0..MaxLock /\ locks' \in 0..MaxLock
    BY <2>1, BoundAssumption DEF SharedType
  <2>3. SharedType'
    BY <1>2, <2>1, <2>2 DEF OpenLock, SharedType
  <2>4. patient' \in [Proc -> BOOLEAN]
    BY <2>1 DEF ProcessType
  <2>5. pc' \in [Proc -> Pcs]
    BY <2>1, GotoType
  <2>6. fd' \in [Proc -> 0..MaxLock]
    BY <2>1, <2>2 DEF ProcessType
  <2>7. UNCHANGED <<holder, mode, expired, deletion, view>>
    BY <1>2 DEF OpenLock
  <2> QED
    BY <2>3, <2>4, <2>5, <2>6, <2>7 DEF ProcessType, deletion
<1> QED
  BY <1>1, <1>2

LEMMA TryLockType ==
  ASSUME SharedType, ProcessType, NEW p \in Proc, TryLock(p)
  PROVE  SharedType' /\ ProcessType'
<1> USE DEF Pcs, Acquiring
<1>1. SharedType'
  BY DEF TryLock, SharedType, session, counters
<1>2. CASE holder[fd[p]] = Nobody
  <2>1. holder' \in [1..MaxLock -> Proc \cup {Nobody}]
    <3>1. holder' = [holder EXCEPT ![fd[p]] = p]
      BY <1>2 DEF TryLock
    <3> QED
      BY <3>1 DEF ProcessType
  <2>2. pc' \in [Proc -> Pcs]
    BY <1>2, GotoType DEF TryLock
  <2>3. patient' \in [Proc -> BOOLEAN] /\ expired' \in [Proc -> BOOLEAN]
    BY <1>2 DEF TryLock, ProcessType
  <2>4. UNCHANGED <<mode, fd, deletion, view>>
    BY <1>2 DEF TryLock
  <2> QED
    BY <1>1, <2>1, <2>2, <2>3, <2>4 DEF ProcessType, deletion
<1>3. CASE holder[fd[p]] # Nobody /\ patient[p]
  <2>1. pc' \in [Proc -> Pcs]
    BY <1>3, GotoType DEF TryLock
  <2>2. UNCHANGED <<holder, terms, fd, deletion, view>>
    BY <1>3 DEF TryLock
  <2> QED
    BY <1>1, <2>1, <2>2 DEF ProcessType, terms, deletion
<1>4. CASE holder[fd[p]] # Nobody /\ ~patient[p]
  <2>1. Leave(p)
    BY <1>4 DEF TryLock
  <2> QED
    BY <1>1, <2>1, LeaveType
<1> QED
  BY <1>2, <1>3, <1>4

LEMMA WaitType ==
  ASSUME SharedType, ProcessType, NEW p \in Proc, Blocked(p) \/ DeadlinePasses(p)
  PROVE  SharedType' /\ ProcessType'
<1> USE DEF Pcs, Acquiring
<1>1. CASE Blocked(p)
  <2>1. SharedType'
    BY <1>1 DEF Blocked, SharedType, session, counters
  <2>2. CASE expired[p]
    <3>1. Leave(p)
      BY <1>1, <2>2 DEF Blocked
    <3> QED
      BY <2>1, <3>1, LeaveType
  <2>3. CASE ~expired[p]
    <3>1. pc' \in [Proc -> Pcs]
      BY <1>1, <2>3, GotoType DEF Blocked
    <3>2. UNCHANGED <<holder, terms, fd, deletion, view>>
      BY <1>1, <2>3 DEF Blocked
    <3> QED
      BY <2>1, <3>1, <3>2 DEF ProcessType, terms, deletion
  <2> QED
    BY <2>2, <2>3
<1>2. CASE DeadlinePasses(p)
  <2>1. SharedType'
    BY <1>2 DEF DeadlinePasses, SharedType, session, counters
  <2>2. expired' \in [Proc -> BOOLEAN]
    BY <1>2 DEF DeadlinePasses, ProcessType
  <2>3. UNCHANGED <<holder, pc, mode, patient, fd, deletion, view>>
    BY <1>2 DEF DeadlinePasses
  <2> QED
    BY <2>1, <2>2, <2>3 DEF ProcessType, deletion
<1> QED
  BY <1>1, <1>2

LEMMA AnnounceType ==
  ASSUME SharedType, ProcessType, NEW p \in Proc, Announce(p)
  PROVE  SharedType' /\ ProcessType'
<1> USE DEF Pcs, Acquiring, Owning, Deleting
<1>1. CASE lockFile = 0
  <2>1. Leave(p) /\ UNCHANGED active
    BY <1>1 DEF Announce
  <2>2. SharedType'
    BY <2>1 DEF Announce, SharedType, counters
  <2> QED
    BY <2>1, <2>2, LeaveType
<1>2. CASE lockFile # 0
  <2>1. active' = TRUE
    BY <1>2 DEF Announce
  <2>2. active' \in BOOLEAN
    BY <2>1
  <2>3. SharedType'
    BY <2>2 DEF Announce, SharedType, counters
  <2>4. Granted(p) \in Pcs
    BY DEF Granted
  <2>5. pc' \in [Proc -> Pcs]
    BY <1>2, <2>4, GotoType DEF Announce
  <2>6. /\ view' \in [Proc -> 0..MaxCommit \cup {Absent}]
        /\ mode' \in [Proc -> {"new", "resume", "delete"}]
    <3>1. /\ view' = [view EXCEPT ![p] = IF mode[p] = "new" THEN 0 ELSE Absent]
          /\ mode' = [mode EXCEPT ![p] = "resume"]
      BY <1>2 DEF Announce
    <3> QED
      BY <3>1, BoundAssumption DEF ProcessType
  <2>7. UNCHANGED <<holder, patient, expired, fd, deletion>>
    BY <1>2 DEF Announce
  <2> QED
    BY <2>3, <2>5, <2>6, <2>7 DEF ProcessType, deletion
<1> QED
  BY <1>1, <1>2
LEMMA OwnerType ==
  ASSUME SharedType, ProcessType, NEW p \in Proc, Load(p) \/ Commit(p) \/ Release(p) \/ Crash(p)
  PROVE  SharedType' /\ ProcessType'
<1> USE DEF Pcs, Owning
<1>1. CASE Load(p)
  <2>1. UNCHANGED <<directory, metadata, messages, lockFile, counters, raced>>
    BY <1>1 DEF Load
  <2>2. CASE ~LeaveOwned(p)
    <3>1. UNCHANGED <<active, holder, terms, fd, deletion>>
      BY <1>1, <2>2 DEF Load
    <3>2. pc' \in [Proc -> Pcs]
      BY <1>1, <2>2, GotoType DEF Load
    <3>3. view' \in [Proc -> 0..MaxCommit \cup {Absent}]
      BY <1>1, <2>2 DEF Load, ProcessType, SharedType
    <3> QED
      BY <2>1, <3>1, <3>2, <3>3 DEF SharedType, ProcessType, counters, terms, deletion
  <2>3. CASE LeaveOwned(p)
    <3>1. ProcessType' /\ active' \in BOOLEAN
      BY <2>3, LeaveOwnedType
    <3> QED
      BY <2>1, <3>1 DEF SharedType, counters
  <2> QED
    BY <2>2, <2>3
<1>2. CASE Commit(p)
  <2>1. UNCHANGED <<directory, metadata, lockFile, births, locks>>
    BY <1>2 DEF Commit
  <2>2. CASE directory = 0
    <3>1. LeaveOwned(p) /\ UNCHANGED <<messages, commits, raced>>
      BY <1>2, <2>2 DEF Commit
    <3>2. ProcessType' /\ active' \in BOOLEAN
      BY <3>1, LeaveOwnedType
    <3> QED
      BY <2>1, <3>1, <3>2 DEF SharedType
  <2>3. CASE directory # 0
    <3>1. commits < MaxCommit /\ commits' = commits + 1 /\ messages' = commits + 1
      BY <1>2, <2>3 DEF Commit
    <3>2. commits' \in 0..MaxCommit /\ messages' \in 0..MaxCommit
      BY <3>1, BoundAssumption DEF SharedType
    <3>3. raced' \subseteq {"create", "listing", "lock"}
      BY <1>2, <2>3, NoteType DEF Commit, SharedType, Disturbs
    <3>4. CASE metadata
      <4>1. UNCHANGED <<active, pc, holder, terms, fd, deletion>>
        BY <1>2, <2>3, <3>4 DEF Commit
      <4>2. view' = [view EXCEPT ![p] = commits + 1]
        BY <1>2, <2>3, <3>4 DEF Commit
      <4>3. view' \in [Proc -> 0..MaxCommit \cup {Absent}]
        BY <4>2, <3>1, <3>2 DEF ProcessType
      <4> QED
        BY <2>1, <3>2, <3>3, <4>1, <4>3 DEF SharedType, ProcessType, terms, deletion
    <3>5. CASE ~metadata
      <4>1. LeaveOwned(p)
        BY <1>2, <2>3, <3>5 DEF Commit
      <4>2. ProcessType' /\ active' \in BOOLEAN
        BY <4>1, LeaveOwnedType
      <4> QED
        BY <2>1, <3>2, <3>3, <4>2 DEF SharedType
    <3> QED
      BY <3>4, <3>5
  <2> QED
    BY <2>2, <2>3
<1>3. CASE Release(p)
  <2>1. ProcessType' /\ active' \in BOOLEAN
    BY <1>3, LeaveOwnedType DEF Release
  <2> QED
    BY <1>3, <2>1 DEF Release, SharedType, counters
<1>4. CASE Crash(p)
  <2>1. ProcessType'
    BY <1>4, LeaveType DEF Crash
  <2> QED
    BY <1>4, <2>1 DEF Crash, SharedType, session, counters
<1> QED
  BY <1>1, <1>2, <1>3, <1>4

LEMMA ProbeType ==
  ASSUME SharedType, ProcessType, NEW p \in Proc, StartRun(p) \/ Probe(p) \/ Probed(p) \/ StartDelete(p)
  PROVE  SharedType' /\ ProcessType'
<1> USE DEF Pcs, Acquiring
<1>1. CASE StartRun(p)
  <2>1. UNCHANGED <<session, holder, patient, expired, fd, deletion, view, counters, raced>>
    BY <1>1 DEF StartRun
  <2>2. pc' \in [Proc -> Pcs]
    BY <1>1, GotoType DEF StartRun
  <2>3. mode' \in [Proc -> {"new", "resume", "delete"}]
    BY <1>1 DEF StartRun, ProcessType
  <2> QED
    BY <2>1, <2>2, <2>3 DEF SharedType, ProcessType, session, counters, deletion
<1>2. CASE Probe(p)
  <2>1. UNCHANGED <<session, terms, deletion, view, counters, raced>>
    BY <1>2 DEF Probe
  <2>2. pc' \in [Proc -> Pcs]
    BY <1>2, GotoType DEF Probe
  <2>3. holder' = [holder EXCEPT ![lockFile] = p] /\ fd' = [fd EXCEPT ![p] = lockFile]
    BY <1>2 DEF Probe
  <2>4. holder' \in [1..MaxLock -> Proc \cup {Nobody}] /\ fd' \in [Proc -> 0..MaxLock]
    BY <2>3 DEF SharedType, ProcessType
  <2> QED
    BY <2>1, <2>2, <2>4 DEF SharedType, ProcessType, session, counters, terms, deletion
<1>3. CASE Probed(p)
  <2>1. SharedType'
    BY <1>3 DEF Probed, SharedType, session, counters
  <2>2. CASE Leave(p)
    BY <2>1, <2>2, LeaveType
  <2>3. CASE ~Leave(p)
    <3>1. /\ holder' = Unlocked(p)
          /\ fd' = [fd EXCEPT ![p] = 0]
          /\ Goto(p, "open")
          /\ mode' = [mode EXCEPT ![p] = "delete"]
          /\ UNCHANGED <<patient, expired, deletion, view>>
      BY <1>3, <2>3 DEF Probed
    <3>2. pc' \in [Proc -> Pcs]
      BY <3>1, GotoType
    <3>3. /\ holder' \in [1..MaxLock -> Proc \cup {Nobody}]
          /\ fd' \in [Proc -> 0..MaxLock]
          /\ mode' \in [Proc -> {"new", "resume", "delete"}]
      BY <3>1, BoundAssumption DEF ProcessType, Unlocked
    <3> QED
      BY <2>1, <3>1, <3>2, <3>3 DEF ProcessType, deletion
  <2> QED
    BY <2>2, <2>3
<1>4. CASE StartDelete(p)
  <2>1. UNCHANGED <<session, holder, patient, expired, fd, deletion, view, counters, raced>>
    BY <1>4 DEF StartDelete
  <2>2. pc' \in [Proc -> Pcs]
    BY <1>4, GotoType DEF StartDelete
  <2>3. mode' \in [Proc -> {"new", "resume", "delete"}]
    BY <1>4 DEF StartDelete, ProcessType
  <2> QED
    BY <2>1, <2>2, <2>3 DEF SharedType, ProcessType, session, counters, deletion
<1> QED
  BY <1>1, <1>2, <1>3, <1>4

\* What a deletion reads from the directory is a set of names.
LEMMA ListedType ==
  ASSUME SharedType, ProcessType, NEW p \in Proc, NEW names \in SUBSET Names, NEW label \in Pcs,
         listing' = [listing EXCEPT ![p] = names],
         place' = [place EXCEPT ![p] = directory],
         Goto(p, label),
         UNCHANGED <<holder, terms, fd, view>>
  PROVE  ProcessType'
<1>1. pc' \in [Proc -> Pcs]
  BY GotoType
<1>2. listing' \in [Proc -> SUBSET {"metadata", "active", "messages", "lock"}]
  BY DEF ProcessType, Names
<1>3. place' \in [Proc -> 0..MaxBirth]
  BY DEF ProcessType, SharedType
<1> QED
  BY <1>1, <1>2, <1>3 DEF ProcessType, terms

LEMMA ListType ==
  ASSUME SharedType, ProcessType, NEW p \in Proc, ListFiles(p) \/ ListRest(p)
  PROVE  SharedType' /\ ProcessType'
<1> USE DEF Pcs, Deleting
<1>1. CASE ListFiles(p)
  <2>1. UNCHANGED <<directory, metadata, messages, lockFile, counters, raced>>
    BY <1>1 DEF ListFiles
  <2>2. CASE directory # 0
    <3>1. ProcessType'
      BY <1>1, <2>2, ListedType DEF ListFiles
    <3>2. active' = active
      BY <1>1, <2>2 DEF ListFiles
    <3> QED
      BY <2>1, <3>1, <3>2 DEF SharedType, counters
  <2>3. CASE directory = 0
    <3>1. ProcessType' /\ active' \in BOOLEAN
      BY <1>1, <2>3, LeaveOwnedType DEF ListFiles
    <3> QED
      BY <2>1, <3>1 DEF SharedType, counters
  <2> QED
    BY <2>2, <2>3
<1>2. CASE ListRest(p)
  <2>1. SharedType'
    BY <1>2 DEF ListRest, SharedType, session, counters
  <2>2. CASE directory # 0
    BY <1>2, <2>1, <2>2, ListedType DEF ListRest
  <2>3. CASE directory = 0
    BY <1>2, <2>1, <2>3, LeaveType DEF ListRest
  <2> QED
    BY <2>2, <2>3
<1> QED
  BY <1>1, <1>2

LEMMA DeletionType ==
  ASSUME SharedType, ProcessType, NEW p \in Proc, Unlink(p) \/ ReleaseDeletion(p) \/ RemoveDirectory(p)
  PROVE  SharedType' /\ ProcessType'
<1> USE DEF Pcs, Deleting
<1>1. CASE Unlink(p)
  <2>1. PICK name \in listing[p] :
           /\ listing' = [listing EXCEPT ![p] = @ \ {name}]
           /\ metadata' = (metadata /\ name # "metadata")
           /\ active' = (active /\ name # "active")
           /\ messages' = IF name = "messages" THEN Absent ELSE messages
           /\ lockFile' = IF name = "lock" THEN 0 ELSE lockFile
           /\ raced' = raced
                \cup (IF Disturbs(p) THEN {"create"} ELSE {})
                \cup (IF directory # place[p] THEN {"listing"} ELSE {})
                \cup (IF name = "lock" /\ \E q \in Proc \ {p} : fd[q] # 0 /\ fd[q] = lockFile
                      THEN {"lock"} ELSE {})
    BY <1>1 DEF Unlink
  <2>2. UNCHANGED <<directory, holder, pc, terms, fd, place, view, counters>>
    BY <1>1 DEF Unlink
  <2>3. metadata' \in BOOLEAN /\ active' \in BOOLEAN
    BY <2>1
  <2>4. raced' \subseteq {"create", "listing", "lock"}
    BY <2>1 DEF SharedType
  <2>5. /\ messages' \in 0..MaxCommit \cup {Absent}
        /\ lockFile' \in 0..MaxLock
    BY <2>1, BoundAssumption DEF SharedType
  <2>6. SharedType'
    BY <2>2, <2>3, <2>4, <2>5 DEF SharedType, counters
  <2>7. listing' \in [Proc -> SUBSET {"metadata", "active", "messages", "lock"}]
    BY <2>1 DEF ProcessType
  <2>8. ProcessType'
    BY <2>2, <2>7 DEF ProcessType, terms
  <2> QED
    BY <2>6, <2>8
<1>2. CASE ReleaseDeletion(p)
  <2>1. SharedType'
    <3>1. active' = FALSE
      BY <1>2 DEF ReleaseDeletion
    <3>2. active' \in BOOLEAN
      BY <3>1
    <3> QED
      BY <1>2, <3>2 DEF ReleaseDeletion, SharedType, counters
  <2>2. pc' \in [Proc -> Pcs]
    BY <1>2, GotoType DEF ReleaseDeletion
  <2>3. holder' = Unlocked(p) /\ fd' = [fd EXCEPT ![p] = 0]
    BY <1>2 DEF ReleaseDeletion
  <2>4. holder' \in [1..MaxLock -> Proc \cup {Nobody}] /\ fd' \in [Proc -> 0..MaxLock]
    BY <2>3, BoundAssumption DEF ProcessType, Unlocked
  <2>5. UNCHANGED <<terms, deletion, view>>
    BY <1>2 DEF ReleaseDeletion
  <2> QED
    BY <2>1, <2>2, <2>4, <2>5 DEF ProcessType, terms, deletion
<1>3. CASE RemoveDirectory(p)
  <2>1. ProcessType'
    BY <1>3, LeaveType DEF RemoveDirectory
  <2>2. raced' \subseteq {"create", "listing", "lock"}
    BY <1>3, NoteType DEF RemoveDirectory, SharedType, Disturbs
  <2>3. directory' \in 0..MaxBirth
    BY <1>3, BoundAssumption DEF RemoveDirectory, SharedType
  <2>4. UNCHANGED <<metadata, messages, lockFile, active, counters>>
    BY <1>3 DEF RemoveDirectory
  <2> QED
    BY <2>1, <2>2, <2>3, <2>4 DEF SharedType, counters
<1> QED
  BY <1>1, <1>2, <1>3

\* No step leaves the types.
LEMMA NextType == TypeOK /\ [Next]_vars => TypeOK'
<1> SUFFICES ASSUME SharedType, ProcessType, [Next]_vars
             PROVE  SharedType' /\ ProcessType'
  BY TypeHalves DEF TypeOK, SharedType, ProcessType, Pcs
<1>1. CASE Next
  <2>1. PICK p \in Proc :
          \/ StartRun(p) \/ CreateSteps(p) \/ Acquire(p) \/ DeadlinePasses(p)
          \/ Load(p) \/ Commit(p) \/ Release(p) \/ Probe(p) \/ Probed(p)
          \/ DeleteSteps(p) \/ Crash(p)
    BY <1>1 DEF Next
  <2> QED
    BY <2>1, CreateType, OpenLockType, TryLockType, WaitType, AnnounceType,
       OwnerType, ProbeType, ListType, DeletionType DEF Acquire, DeleteSteps
<1>2. CASE UNCHANGED vars
  BY <1>2 DEF vars, session, terms, deletion, counters, SharedType, ProcessType
<1> QED
  BY <1>1, <1>2

\* What the processes share and what each of them keeps has its type in every
\* reachable state, whatever number of processes runs, deletes, probes and dies.
THEOREM TypeCorrect == Spec => []TypeOK
<1> QED
  BY InitType, NextType, PTL DEF Spec
-----------------------------------------------------------------------------
(* Mutual exclusion                                                        *)

\* Where a process has the lock file open, and where it has locked it.
WithLock == {"locked", "probe", "delete_list", "delete_files"} \cup Owning
WithFile == {"lock", "blocked"} \cup WithLock

\* OneHolder compares two processes; what makes it inductive is how each of them
\* stands to the kernel: a lock is held through the file that is open, every open
\* file is the one named session.lock until a deletion unlinks it, and a deletion that
\* unlinks it has released the lease.
OpenFiles == \A p \in Proc : fd[p] # 0 <=> pc[p] \in WithFile
HeldLocks == \A p \in Proc : pc[p] \in WithLock => holder[fd[p]] = p
Listed == \A p \in Proc : "lock" \in listing[p] => pc[p] = "delete_rest"
NamedLock == "lock" \notin raced => \A p \in Proc : fd[p] # 0 => fd[p] = lockFile

LockInv == OpenFiles /\ HeldLocks /\ Listed /\ NamedLock

LEMMA InitLockInv == Init => LockInv
BY DEF Init, LockInv, OpenFiles, HeldLocks, Listed, NamedLock, WithLock, WithFile, Owning

\* Of two leases on the file named session.lock, the kernel knows one holder.
LEMMA LockInvExcludes == LockInv => OneHolder
<1> SUFFICES ASSUME LockInv, NEW p \in Proc, NEW q \in Proc, p # q, Holds(p), Holds(q),
                    "lock" \notin raced
             PROVE  FALSE
  BY DEF OneHolder
<1>1. pc[p] \in WithLock /\ pc[q] \in WithLock
  BY DEF Holds, WithLock
<1>2. fd[p] = lockFile /\ fd[q] = lockFile
  BY <1>1 DEF LockInv, OpenFiles, NamedLock, WithFile
<1> QED
  BY <1>1, <1>2 DEF LockInv, HeldLocks

\* A recorded race other than "lock" is of no importance here.
LEMMA OtherRace ==
  ASSUME NEW happened, Note("create", happened)
  PROVE  "lock" \in raced' <=> "lock" \in raced
BY DEF Note

\* A process that closes its file gives up its own lock and nobody else's.
LEMMA CloseLocks ==
  ASSUME ProcessType, LockInv, NEW p \in Proc, NEW label, label \notin WithFile,
         Goto(p, label),
         fd' = [fd EXCEPT ![p] = 0],
         holder' = Unlocked(p),
         \A q \in Proc : "lock" \in listing'[q] => q # p /\ "lock" \in listing[q],
         lockFile' = lockFile, "lock" \in raced' <=> "lock" \in raced
  PROVE  LockInv'
<1> USE DEF ProcessType, LockInv
<1>1. pc' = [pc EXCEPT ![p] = label]
  BY DEF Goto
<1>2. OpenFiles'
  BY <1>1 DEF OpenFiles
<1>3. HeldLocks'
  <2> SUFFICES ASSUME NEW q \in Proc, pc'[q] \in WithLock
               PROVE  holder'[fd'[q]] = q
    BY DEF HeldLocks
  <2>1. q # p /\ pc[q] \in WithLock
    BY <1>1 DEF WithFile
  <2>2. holder[fd[q]] = q /\ fd'[q] = fd[q] /\ fd[q] \in 1..MaxLock
    BY <2>1, BoundAssumption DEF HeldLocks, OpenFiles, WithFile
  <2> QED
    BY <2>1, <2>2 DEF Unlocked
<1>4. Listed'
  BY <1>1 DEF Listed
<1>5. NamedLock'
  BY DEF NamedLock
<1> QED
  BY <1>2, <1>3, <1>4, <1>5

LEMMA LeaveLocks ==
  ASSUME ProcessType, LockInv, NEW p \in Proc, Leave(p),
         lockFile' = lockFile, "lock" \in raced' <=> "lock" \in raced
  PROVE  LockInv'
<1>1. \A q \in Proc : "lock" \in listing'[q] => q # p /\ "lock" \in listing[q]
  BY DEF Leave, ProcessType
<1>2. "idle" \notin WithFile
  BY DEF WithFile, WithLock, Owning
<1> QED
  BY <1>1, <1>2, CloseLocks DEF Leave

\* A step between two labels that agree on the file and the lock.
LEMMA MoveLocks ==
  ASSUME ProcessType, LockInv, NEW p \in Proc, NEW label, Goto(p, label),
         pc[p] \in WithFile <=> label \in WithFile,
         label \in WithLock => pc[p] \in WithLock,
         "lock" \notin listing[p],
         UNCHANGED <<holder, fd, deletion, lockFile>>,
         "lock" \in raced' <=> "lock" \in raced
  PROVE  LockInv'
<1> USE DEF ProcessType, LockInv
<1>1. pc' = [pc EXCEPT ![p] = label] /\ UNCHANGED <<holder, fd, listing, lockFile>>
  BY DEF Goto, deletion
<1>2. OpenFiles'
  BY <1>1 DEF OpenFiles
<1>3. HeldLocks'
  BY <1>1 DEF HeldLocks
<1>4. Listed'
  BY <1>1 DEF Listed
<1>5. NamedLock'
  BY <1>1 DEF NamedLock
<1> QED
  BY <1>2, <1>3, <1>4, <1>5

\* A process that is not at the end of a deletion has no session.lock on its list.
LEMMA NotListed ==
  ASSUME LockInv, NEW p \in Proc, pc[p] # "delete_rest"
  PROVE  "lock" \notin listing[p]
BY DEF LockInv, Listed

\* A process that locks a file nobody has locked disturbs no holder.
LEMMA GrantLocks ==
  ASSUME ProcessType, LockInv, NEW p \in Proc, NEW file \in 1..MaxLock, NEW label \in WithLock,
         holder[file] = Nobody, file = lockFile \/ file = fd[p],
         holder' = [holder EXCEPT ![file] = p],
         fd' = [fd EXCEPT ![p] = file],
         Goto(p, label), pc[p] # "delete_rest",
         UNCHANGED <<deletion, lockFile, raced>>
  PROVE  LockInv'
<1> USE DEF ProcessType, LockInv
<1>1. pc' = [pc EXCEPT ![p] = label] /\ UNCHANGED <<listing, lockFile, raced>>
  BY DEF Goto, deletion
<1>2. OpenFiles'
  BY <1>1, BoundAssumption DEF OpenFiles, WithFile
<1>3. HeldLocks'
  <2> SUFFICES ASSUME NEW q \in Proc, pc'[q] \in WithLock
               PROVE  holder'[fd'[q]] = q
    BY DEF HeldLocks
  <2>1. CASE q = p
    BY <2>1
  <2>2. CASE q # p
    <3>1. holder[fd[q]] = q /\ fd'[q] = fd[q]
      BY <1>1, <2>2 DEF HeldLocks
    <3>2. fd[q] # file
      BY <3>1, ProcAssumption
    <3> QED
      BY <3>1, <3>2
  <2> QED
    BY <2>1, <2>2
<1>4. Listed'
  BY <1>1 DEF Listed
<1>5. NamedLock'
  BY <1>1, BoundAssumption DEF NamedLock
<1> QED
  BY <1>2, <1>3, <1>4, <1>5
LEMMA CreateLocks ==
  ASSUME ProcessType, LockInv, NEW p \in Proc, StartRun(p) \/ CreateSteps(p)
  PROVE  LockInv'
<1> USE DEF WithFile, WithLock, Owning
<1>1. CASE StartRun(p)
  BY <1>1, MoveLocks, NotListed DEF StartRun, session
<1>2. CASE Create(p)
  <2>1. CASE directory = 0
    BY <1>2, <2>1, MoveLocks, NotListed DEF Create, session
  <2>2. CASE directory # 0
    BY <1>2, <2>2, LeaveLocks DEF Create, session
  <2> QED
    BY <2>1, <2>2
<1>3. CASE MakeDirectory(p)
  BY <1>3, MoveLocks, NotListed, OtherRace DEF MakeDirectory
<1>4. CASE WriteMetadata(p)
  <2>1. CASE directory # 0
    BY <1>4, <2>1, MoveLocks, NotListed, OtherRace DEF WriteMetadata
  <2>2. CASE directory = 0
    BY <1>4, <2>2, LeaveLocks DEF WriteMetadata
  <2> QED
    BY <2>1, <2>2
<1>5. CASE MakeMessages(p)
  BY <1>5, MoveLocks, NotListed, OtherRace DEF MakeMessages
<1> QED
  BY <1>1, <1>2, <1>3, <1>4, <1>5 DEF CreateSteps

\* The file a process opens is the one named session.lock, or becomes it.
LEMMA OpenLocks ==
  ASSUME SharedType, ProcessType, LockInv, NEW p \in Proc, NEW wait, OpenLock(p, wait)
  PROVE  LockInv'
<1>1. CASE directory = 0
  BY <1>1, LeaveLocks DEF OpenLock
<1>2. CASE directory # 0
  <2> USE DEF LockInv, ProcessType
  <2> DEFINE file == IF lockFile = 0 THEN locks + 1 ELSE lockFile
  <2>1. /\ lockFile' = file
        /\ fd' = [fd EXCEPT ![p] = file]
        /\ pc' = [pc EXCEPT ![p] = "lock"]
        /\ pc[p] = "open"
        /\ UNCHANGED <<holder, listing, raced>>
    BY <1>2 DEF OpenLock, Goto, deletion
  <2>2. file # 0
    BY DEF SharedType
  <2>3. OpenFiles'
    BY <2>1, <2>2 DEF OpenFiles, WithFile
  <2>4. HeldLocks'
    BY <2>1 DEF HeldLocks, OpenFiles, WithFile, WithLock, Owning
  <2>5. Listed'
    BY <2>1 DEF Listed
  <2>6. NamedLock'
    BY <2>1 DEF NamedLock
  <2> QED
    BY <2>3, <2>4, <2>5, <2>6
<1> QED
  BY <1>1, <1>2

LEMMA WaitLocks ==
  ASSUME ProcessType, LockInv, NEW p \in Proc,
         TryLock(p) \/ Blocked(p) \/ DeadlinePasses(p) \/ Announce(p)
  PROVE  LockInv'
<1> USE DEF WithFile, WithLock, Owning
<1>1. CASE TryLock(p)
  <2>1. UNCHANGED <<lockFile, raced>> /\ pc[p] = "lock"
    BY <1>1 DEF TryLock, session
  <2>2. CASE holder[fd[p]] = Nobody
    <3>1. fd[p] \in 1..MaxLock /\ fd = [fd EXCEPT ![p] = fd[p]]
      BY <2>1, BoundAssumption DEF ProcessType, LockInv, OpenFiles
    <3>2. /\ holder' = [holder EXCEPT ![fd[p]] = p]
          /\ Goto(p, "locked")
          /\ UNCHANGED <<fd, deletion>>
      BY <1>1, <2>2 DEF TryLock
    <3> QED
      BY <2>1, <2>2, <3>1, <3>2, GrantLocks
  <2>3. CASE holder[fd[p]] # Nobody /\ patient[p]
    <3>1. Goto(p, "blocked") /\ UNCHANGED <<holder, fd, deletion>>
      BY <1>1, <2>3 DEF TryLock
    <3> QED
      BY <2>1, <3>1, MoveLocks, NotListed
  <2>4. CASE holder[fd[p]] # Nobody /\ ~patient[p]
    <3>1. Leave(p)
      BY <1>1, <2>4 DEF TryLock
    <3> QED
      BY <2>1, <3>1, LeaveLocks
  <2> QED
    BY <2>2, <2>3, <2>4
<1>2. CASE Blocked(p)
  <2>1. UNCHANGED <<lockFile, raced>> /\ pc[p] = "blocked"
    BY <1>2 DEF Blocked, session
  <2>2. CASE expired[p]
    <3>1. Leave(p)
      BY <1>2, <2>2 DEF Blocked
    <3> QED
      BY <2>1, <3>1, LeaveLocks
  <2>3. CASE ~expired[p]
    <3>1. Goto(p, "lock") /\ UNCHANGED <<holder, fd, deletion>>
      BY <1>2, <2>3 DEF Blocked
    <3> QED
      BY <2>1, <3>1, MoveLocks, NotListed
  <2> QED
    BY <2>2, <2>3
<1>3. CASE DeadlinePasses(p)
  BY <1>3 DEF DeadlinePasses, session, deletion, LockInv, OpenFiles, HeldLocks, Listed, NamedLock
<1>4. CASE Announce(p)
  <2>1. UNCHANGED <<lockFile, raced>> /\ pc[p] = "locked"
    BY <1>4 DEF Announce
  <2>2. CASE lockFile = 0
    <3>1. Leave(p)
      BY <1>4, <2>2 DEF Announce
    <3> QED
      BY <2>1, <3>1, LeaveLocks
  <2>3. CASE lockFile # 0
    <3>1. Goto(p, Granted(p)) /\ UNCHANGED <<holder, fd, deletion>>
      BY <1>4, <2>3 DEF Announce
    <3>2. Granted(p) \in WithLock
      BY DEF Granted
    <3> QED
      BY <2>1, <3>1, <3>2, MoveLocks, NotListed
  <2> QED
    BY <2>2, <2>3
<1> QED
  BY <1>1, <1>2, <1>3, <1>4

LEMMA OwnerLocks ==
  ASSUME ProcessType, LockInv, NEW p \in Proc,
         Load(p) \/ Commit(p) \/ Release(p) \/ Crash(p)
  PROVE  LockInv'
<1> USE DEF WithFile, WithLock, Owning, LeaveOwned
<1>1. CASE Load(p)
  <2>1. CASE LeaveOwned(p)
    BY <1>1, <2>1, LeaveLocks DEF Load
  <2>2. CASE ~LeaveOwned(p)
    <3>1. Goto(p, "running") /\ UNCHANGED <<holder, fd, deletion>>
      BY <1>1, <2>2 DEF Load
    <3> QED
      BY <1>1, <3>1, MoveLocks, NotListed DEF Load
  <2> QED
    BY <2>1, <2>2
<1>2. CASE Commit(p)
  <2>1. "lock" \in raced' <=> "lock" \in raced
    BY <1>2, OtherRace DEF Commit
  <2>2. lockFile' = lockFile
    BY <1>2 DEF Commit
  <2>3. CASE Leave(p)
    BY <2>1, <2>2, <2>3, LeaveLocks
  <2>4. CASE ~Leave(p)
    <3>1. UNCHANGED <<pc, holder, fd, listing>>
      BY <1>2, <2>4 DEF Commit, deletion
    <3> QED
      BY <2>1, <2>2, <3>1 DEF LockInv, OpenFiles, HeldLocks, Listed, NamedLock
  <2> QED
    BY <2>3, <2>4
<1>3. CASE Release(p)
  BY <1>3, LeaveLocks DEF Release
<1>4. CASE Crash(p)
  BY <1>4, LeaveLocks DEF Crash, session
<1> QED
  BY <1>1, <1>2, <1>3, <1>4
LEMMA ProbeLocks ==
  ASSUME SharedType, ProcessType, LockInv, NEW p \in Proc,
         Probe(p) \/ Probed(p) \/ StartDelete(p)
  PROVE  LockInv'
<1> USE DEF WithFile, WithLock, Owning
<1>1. CASE Probe(p)
  <2>1. lockFile \in 1..MaxLock
    BY <1>1, BoundAssumption DEF Probe, SharedType
  <2> QED
    BY <1>1, <2>1, GrantLocks DEF Probe, session
<1>2. CASE Probed(p)
  <2>1. UNCHANGED <<lockFile, raced>> /\ pc[p] = "probe"
    BY <1>2 DEF Probed, session
  <2>2. CASE Leave(p)
    BY <2>1, <2>2, LeaveLocks
  <2>3. CASE ~Leave(p)
    <3>1. /\ holder' = Unlocked(p)
          /\ fd' = [fd EXCEPT ![p] = 0]
          /\ Goto(p, "open")
          /\ listing' = listing
      BY <1>2, <2>3 DEF Probed, deletion
    <3>2. "lock" \notin listing[p]
      BY <2>1, NotListed
    <3> QED
      BY <2>1, <3>1, <3>2, CloseLocks
  <2> QED
    BY <2>2, <2>3
<1>3. CASE StartDelete(p)
  BY <1>3, MoveLocks, NotListed DEF StartDelete, session
<1> QED
  BY <1>1, <1>2, <1>3

\* A deletion reads its list again once it has no lock, and only then is session.lock on it.
LEMMA ListLocks ==
  ASSUME ProcessType, LockInv, NEW p \in Proc, ListFiles(p) \/ ListRest(p)
  PROVE  LockInv'
<1>1. UNCHANGED <<lockFile, raced>>
  BY DEF ListFiles, ListRest, session
<1>2. CASE Leave(p)
  BY <1>1, <1>2, LeaveLocks
<1>3. CASE ~Leave(p)
  <2> USE DEF ProcessType, LockInv
  <2>1. UNCHANGED <<holder, fd>>
    BY <1>3 DEF ListFiles, ListRest, LeaveOwned
  <2>2. \/ /\ pc[p] = "delete_list" /\ pc' = [pc EXCEPT ![p] = "delete_files"]
           /\ listing' = [listing EXCEPT ![p] = Names \cap {"metadata", "active"}]
        \/ /\ pc[p] = "delete_relist" /\ pc' = [pc EXCEPT ![p] = "delete_rest"]
           /\ listing' = [listing EXCEPT ![p] = Names]
    BY <1>3 DEF ListFiles, ListRest, LeaveOwned, Goto
  <2>3. OpenFiles'
    BY <2>1, <2>2 DEF OpenFiles, WithFile, WithLock, Owning
  <2>4. HeldLocks'
    BY <2>1, <2>2 DEF HeldLocks, WithLock, Owning
  <2>5. Listed'
    <3>1. "lock" \in listing'[p] => pc'[p] = "delete_rest"
      <4>1. CASE listing' = [listing EXCEPT ![p] = Names \cap {"metadata", "active"}]
        <5>1. listing'[p] = Names \cap {"metadata", "active"}
          BY <4>1
        <5> QED
          BY <5>1
      <4>2. CASE pc' = [pc EXCEPT ![p] = "delete_rest"]
        BY <4>2
      <4> QED
        BY <2>2, <4>1, <4>2
    <3>2. \A q \in Proc : q # p => listing'[q] = listing[q] /\ pc'[q] = pc[q]
      BY <2>2
    <3> QED
      BY <3>1, <3>2 DEF Listed
  <2>6. NamedLock'
    BY <1>1, <2>1 DEF NamedLock
  <2> QED
    BY <2>3, <2>4, <2>5, <2>6
<1> QED
  BY <1>2, <1>3

\* Unlinking session.lock while another process has it open is the race "lock".
LEMMA UnlinkLocks ==
  ASSUME ProcessType, LockInv, NEW p \in Proc, Unlink(p)
  PROVE  LockInv'
<1> USE DEF ProcessType, LockInv
<1>1. PICK name \in listing[p] :
         /\ listing' = [listing EXCEPT ![p] = @ \ {name}]
         /\ lockFile' = IF name = "lock" THEN 0 ELSE lockFile
         /\ raced' = raced
              \cup (IF Disturbs(p) THEN {"create"} ELSE {})
              \cup (IF directory # place[p] THEN {"listing"} ELSE {})
              \cup (IF name = "lock" /\ \E q \in Proc \ {p} : fd[q] # 0 /\ fd[q] = lockFile
                    THEN {"lock"} ELSE {})
  BY DEF Unlink
<1>2. UNCHANGED <<pc, holder, fd>>
  BY DEF Unlink
<1>3. OpenFiles' /\ HeldLocks'
  BY <1>2 DEF OpenFiles, HeldLocks
<1>4. Listed'
  BY <1>1, <1>2 DEF Listed
<1>5. NamedLock'
  <2> SUFFICES ASSUME "lock" \notin raced', NEW q \in Proc, fd[q] # 0
               PROVE  fd[q] = lockFile'
    BY <1>2 DEF NamedLock
  <2>1. "lock" \notin raced /\ fd[q] = lockFile
    BY <1>1 DEF NamedLock
  <2>2. CASE name = "lock"
    <3>1. pc[p] = "delete_rest"
      BY <2>2, <1>1 DEF Listed
    <3>2. fd[p] = 0
      BY <3>1 DEF OpenFiles, WithFile, WithLock, Owning
    <3> QED
      BY <1>1, <2>1, <2>2, <3>2
  <2>3. CASE name # "lock"
    BY <1>1, <2>1, <2>3
  <2> QED
    BY <2>2, <2>3
<1> QED
  BY <1>3, <1>4, <1>5

LEMMA EndDeleteLocks ==
  ASSUME ProcessType, LockInv, NEW p \in Proc, ReleaseDeletion(p) \/ RemoveDirectory(p)
  PROVE  LockInv'
<1>1. CASE ReleaseDeletion(p)
  <2>1. "delete_relist" \notin WithFile
    BY DEF WithFile, WithLock, Owning
  <2> QED
    BY <1>1, <2>1, CloseLocks DEF ReleaseDeletion, deletion
<1>2. CASE RemoveDirectory(p)
  <2>1. "lock" \in raced' <=> "lock" \in raced
    BY <1>2, OtherRace DEF RemoveDirectory
  <2> QED
    BY <1>2, <2>1, LeaveLocks DEF RemoveDirectory
<1> QED
  BY <1>1, <1>2

LEMMA NextLockInv == TypeOK /\ LockInv /\ [Next]_vars => LockInv'
<1> SUFFICES ASSUME SharedType, ProcessType, LockInv, [Next]_vars
             PROVE  LockInv'
  BY TypeHalves
<1>1. CASE Next
  <2>1. PICK p \in Proc :
          \/ StartRun(p) \/ CreateSteps(p) \/ Acquire(p) \/ DeadlinePasses(p)
          \/ Load(p) \/ Commit(p) \/ Release(p) \/ Probe(p) \/ Probed(p)
          \/ DeleteSteps(p) \/ Crash(p)
    BY <1>1 DEF Next
  <2> QED
    BY <2>1, CreateLocks, OpenLocks, WaitLocks, OwnerLocks, ProbeLocks, ListLocks,
       UnlinkLocks, EndDeleteLocks DEF Acquire, DeleteSteps
<1>2. CASE UNCHANGED vars
  BY <1>2 DEF vars, session, deletion, LockInv, OpenFiles, HeldLocks, Listed, NamedLock
<1> QED
  BY <1>1, <1>2

\* acquire_lease has returned the lease of a session to one process at most, for
\* any number of runs, deletions and probes that start, wait, end and die, unless
\* a deletion unlinked session.lock while another process had it open.
THEOREM MutualExclusion == Spec => []OneHolder
<1>1. Init => TypeOK /\ LockInv
  BY InitType, InitLockInv
<1>2. TypeOK /\ LockInv /\ [Next]_vars => (TypeOK /\ LockInv)'
  BY NextType, NextLockInv
<1> QED
  BY <1>1, <1>2, LockInvExcludes, PTL DEF Spec
-----------------------------------------------------------------------------
(* The owner's view of the session                                         *)

\* OwnerSeesItsSession is a statement about runs that go on; it becomes inductive with
\* what the others rely on until then: a deletion that has given up its lease has
\* removed metadata.json, whatever waits for it included; a creation finds what it
\* has made so far.
Knows(p) ==
  /\ pc[p] = "delete_files" /\ metadata => "metadata" \in listing[p]
  /\ pc[p] \in {"delete_relist", "delete_rest"} => ~metadata
  /\ pc[p] = "write_metadata" => directory # 0
  /\ pc[p] = "make_messages" => directory # 0 /\ metadata
  /\ pc[p] \in Acquiring /\ mode[p] = "new" => directory # 0 /\ metadata /\ messages = 0
  /\ pc[p] = "running" => directory # 0 /\ metadata /\ messages = view[p]

SessionInv ==
  /\ metadata => directory # 0
  /\ raced = {} => \A p \in Proc : Knows(p)

\* What a step of p leaves alone of the other processes.
Others(p) ==
  \A q \in Proc \ {p} :
    pc'[q] = pc[q] /\ mode'[q] = mode[q] /\ listing'[q] = listing[q] /\ view'[q] = view[q]

LEMMA LeaveOthers ==
  ASSUME ProcessType, NEW p \in Proc, Leave(p)
  PROVE  Others(p) /\ pc'[p] = "idle"
BY DEF Others, Leave, Goto, ProcessType

\* A step that does not touch the session.
LEMMA QuietStep ==
  ASSUME SessionInv, NEW p \in Proc, Others(p), UNCHANGED <<directory, metadata, messages, raced>>,
         raced = {} => Knows(p)'
  PROVE  SessionInv'
<1>1. ASSUME NEW q \in Proc \ {p}, raced = {} PROVE Knows(q)'
  BY <1>1 DEF SessionInv, Others, Knows
<1> QED
  BY <1>1 DEF SessionInv

LEMMA LeaveSession ==
  ASSUME ProcessType, SessionInv, NEW p \in Proc, Leave(p),
         UNCHANGED <<directory, metadata, messages, raced>>
  PROVE  SessionInv'
<1>1. Others(p) /\ pc'[p] = "idle"
  BY LeaveOthers
<1>2. Knows(p)'
  BY <1>1 DEF Knows, Acquiring
<1> QED
  BY <1>1, <1>2, QuietStep

\* Start, refusal and the steps of acquire_lease.
LEMMA AcquireSession ==
  ASSUME SharedType, ProcessType, SessionInv, NEW p \in Proc,
         StartRun(p) \/ Create(p) \/ Acquire(p) \/ DeadlinePasses(p)
  PROVE  SessionInv'
<1>1. CASE Leave(p)
  <2>1. UNCHANGED <<directory, metadata, messages, raced>>
    BY DEF StartRun, Create, Acquire, OpenLock, TryLock, Blocked, Announce, DeadlinePasses, session
  <2> QED
    BY <1>1, <2>1, LeaveSession
<1>2. CASE ~Leave(p)
  <2>1. UNCHANGED <<directory, metadata, messages, raced>>
    BY DEF StartRun, Create, Acquire, OpenLock, TryLock, Blocked, Announce, DeadlinePasses, session
  <2>2. Others(p)
    BY <1>2 DEF StartRun, Create, Acquire, OpenLock, TryLock, Blocked, Announce, DeadlinePasses,
       Goto, terms, deletion, ProcessType, Others
  <2>3. ASSUME raced = {} PROVE Knows(p)'
    <3>1. Knows(p)
      BY <2>3 DEF SessionInv
    <3>2. CASE StartRun(p) \/ Create(p)
      BY <1>2, <2>1, <3>1, <3>2 DEF StartRun, Create, Goto, terms, deletion, ProcessType,
         Knows, Acquiring
    <3>3. CASE \E wait \in BOOLEAN : OpenLock(p, wait)
      BY <1>2, <2>1, <3>1, <3>3 DEF OpenLock, Goto, deletion, ProcessType, Knows, Acquiring
    <3>4. CASE TryLock(p) \/ Blocked(p) \/ DeadlinePasses(p)
      BY <1>2, <2>1, <3>1, <3>4 DEF TryLock, Blocked, DeadlinePasses, Goto, terms, deletion,
         ProcessType, Knows, Acquiring
    <3>5. CASE Announce(p)
      BY <1>2, <2>1, <3>1, <3>5 DEF Announce, Granted, Goto, terms, deletion, ProcessType,
         Knows, Acquiring
    <3> QED
      BY <3>2, <3>3, <3>4, <3>5 DEF Acquire
  <2> QED
    BY <2>1, <2>2, <2>3, QuietStep
<1> QED
  BY <1>1, <1>2
\* A creation that meets another writer is the race "create"; without it nobody else
\* relies on the session, neither another creation nor an owner nor a deletion.
LEMMA CreatorAlone ==
  ASSUME SessionInv, NEW p \in Proc, raced = {}, ~Disturbs(p), ~DisturbedBy(p),
         NEW q \in Proc \ {p}, Others(p)
  PROVE  Knows(q)'
BY DEF Disturbs, DisturbedBy, Creating, Holds, Others, Knows, Acquiring, Owning, Deleting

LEMMA MakeSession ==
  ASSUME SharedType, ProcessType, SessionInv, NEW p \in Proc,
         MakeDirectory(p) \/ WriteMetadata(p) \/ MakeMessages(p)
  PROVE  SessionInv'
<1>1. CASE Leave(p) /\ UNCHANGED <<directory, metadata, messages, raced>>
  BY <1>1, LeaveSession
<1>2. CASE MakeDirectory(p)
  <2>1. /\ Others(p) /\ pc'[p] = "write_metadata"
        /\ UNCHANGED <<metadata, messages>>
        /\ raced' = IF directory # 0 THEN raced \cup {"create"} ELSE raced
        /\ directory' # 0
    BY <1>2 DEF MakeDirectory, Note, Goto, terms, deletion, ProcessType, SharedType, Others
  <2>2. ASSUME raced' = {}, NEW q \in Proc PROVE Knows(q)'
    <3>1. raced = {} /\ directory = 0 /\ ~metadata /\ Knows(q)
      BY <2>1, <2>2 DEF SessionInv
    <3>2. CASE q = p
      BY <2>1, <3>2 DEF Knows, Acquiring
    <3>3. CASE q # p
      BY <2>1, <3>1, <3>3 DEF Others, Knows
    <3> QED
      BY <3>2, <3>3
  <2> QED
    BY <2>1, <2>2 DEF SessionInv
<1>3. CASE WriteMetadata(p) /\ ~(Leave(p) /\ UNCHANGED <<directory, metadata, messages, raced>>)
  <2>1. /\ Others(p) /\ pc'[p] = "make_messages"
        /\ UNCHANGED <<directory, messages>> /\ directory # 0 /\ metadata'
        /\ raced' = IF Disturbs(p) \/ DisturbedBy(p) THEN raced \cup {"create"} ELSE raced
    BY <1>3 DEF WriteMetadata, Note, Goto, terms, deletion, ProcessType, Others
  <2>2. Knows(p)'
    BY <2>1 DEF Knows, Acquiring
  <2>3. ASSUME raced' = {}, NEW q \in Proc \ {p} PROVE Knows(q)'
    BY <2>1, <2>3, CreatorAlone
  <2> QED
    BY <2>1, <2>2, <2>3 DEF SessionInv
<1>4. CASE MakeMessages(p)
  <2>1. /\ Others(p) /\ pc[p] = "make_messages" /\ pc'[p] = "open"
        /\ metadata' = metadata /\ messages' = 0
        /\ directory # 0 => directory' = directory
        /\ raced' = IF Disturbs(p) \/ DisturbedBy(p) THEN raced \cup {"create"} ELSE raced
    BY <1>4 DEF MakeMessages, Note, Goto, terms, deletion, ProcessType, Others
  <2>2. raced = {} => Knows(p)'
    BY <2>1 DEF SessionInv, Knows, Acquiring
  <2>3. ASSUME raced' = {}, NEW q \in Proc \ {p} PROVE Knows(q)'
    BY <2>1, <2>3, CreatorAlone
  <2> QED
    BY <2>1, <2>2, <2>3 DEF SessionInv
<1> QED
  BY <1>1, <1>2, <1>3, <1>4

\* While a process holds the lease, the others have neither loaded the session nor read
\* its directory for a deletion.
LEMMA OwnerAlone ==
  ASSUME LockInv, NEW p \in Proc, Holds(p), NEW q \in Proc \ {p}, raced = {}
  PROVE  pc[q] \notin {"load", "running", "delete_list", "delete_files"}
BY LockInvExcludes DEF OneHolder, Holds, Owning

LEMMA OwnSession ==
  ASSUME SharedType, ProcessType, LockInv, SessionInv, NEW p \in Proc,
         Load(p) \/ Commit(p) \/ Release(p) \/ Crash(p) \/ Probe(p) \/ Probed(p)
  PROVE  SessionInv'
<1>1. CASE Leave(p) /\ UNCHANGED <<directory, metadata, messages, raced>>
  BY <1>1, LeaveSession
<1>2. CASE Load(p) /\ ~LeaveOwned(p)
  <2>1. /\ Others(p) /\ pc'[p] = "running" /\ view'[p] = messages /\ metadata
        /\ UNCHANGED <<directory, metadata, messages, raced>>
    BY <1>2 DEF Load, Goto, terms, deletion, ProcessType, Others
  <2>2. Knows(p)'
    BY <2>1 DEF Knows, SessionInv, Acquiring
  <2> QED
    BY <2>1, <2>2, QuietStep
<1>3. CASE (Probe(p) \/ Probed(p)) /\ ~Leave(p)
  <2>1. /\ Others(p)
        /\ pc'[p] \in {"probe", "open"}
        /\ pc'[p] = "open" => mode'[p] = "delete"
        /\ UNCHANGED <<directory, metadata, messages, raced>>
    BY <1>3 DEF Probe, Probed, session, Goto, terms, deletion, ProcessType, Others
  <2>2. Knows(p)'
    BY <2>1 DEF Knows, Acquiring
  <2> QED
    BY <2>1, <2>2, QuietStep
<1>4. CASE Commit(p) /\ directory # 0
  <2>1. /\ pc[p] = "running" /\ UNCHANGED <<directory, metadata>>
        /\ messages' = commits + 1
        /\ raced' = IF Disturbs(p) THEN raced \cup {"create"} ELSE raced
    BY <1>4 DEF Commit, Note
  <2>2. /\ Others(p)
        /\ metadata => pc'[p] = pc[p] /\ view'[p] = commits + 1
    <3>1. CASE metadata
      BY <1>4, <3>1 DEF Commit, terms, deletion, ProcessType, Others
    <3>2. CASE ~metadata
      BY <1>4, <3>2, LeaveOthers DEF Commit, LeaveOwned
    <3> QED
      BY <3>1, <3>2
  <2>3. ASSUME raced' = {} PROVE Knows(p)'
    <3>1. raced = {} /\ metadata
      BY <2>1, <2>3 DEF SessionInv, Knows
    <3> QED
      BY <2>1, <2>2, <3>1 DEF SessionInv, Knows, Acquiring
  <2>4. ASSUME raced' = {}, NEW q \in Proc \ {p} PROVE Knows(q)'
    <3>1. raced = {} /\ ~Disturbs(p)
      BY <2>1, <2>4
    <3>2. pc[q] # "running"
      BY <2>1, <3>1, OwnerAlone DEF Holds, Owning
    <3> QED
      BY <2>1, <2>2, <3>1, <3>2 DEF SessionInv, Knows, Others, Disturbs, Creating
  <2> QED
    BY <2>1, <2>3, <2>4 DEF SessionInv
<1>5. CASE Load(p) /\ LeaveOwned(p)
  BY <1>1, <1>5 DEF Load, LeaveOwned
<1>6. CASE Commit(p) /\ directory = 0
  BY <1>1, <1>6 DEF Commit, LeaveOwned
<1>7. CASE Release(p) \/ Crash(p)
  BY <1>1, <1>7 DEF Release, Crash, LeaveOwned, session
<1>8. CASE (Probe(p) \/ Probed(p)) /\ Leave(p)
  BY <1>1, <1>8 DEF Probe, Probed, session
<1> QED
  BY <1>2, <1>3, <1>4, <1>5, <1>6, <1>7, <1>8

\* A deletion under the lease, and after it: an owner's metadata.json is never removed, for
\* the names still on the list of a deletion are those of a session without it.
LEMMA DeleteSession ==
  ASSUME SharedType, ProcessType, LockInv, SessionInv, NEW p \in Proc, DeleteSteps(p)
  PROVE  SessionInv'
<1>1. CASE Leave(p) /\ UNCHANGED <<directory, metadata, messages, raced>>
  BY <1>1, LeaveSession
<1>2. CASE StartDelete(p)
  <2>1. /\ Others(p) /\ pc'[p] = "open" /\ mode'[p] = "delete"
        /\ UNCHANGED <<directory, metadata, messages, raced>>
    BY <1>2 DEF StartDelete, session, Goto, deletion, ProcessType, Others
  <2>2. Knows(p)'
    BY <2>1 DEF Knows, Acquiring
  <2> QED
    BY <2>1, <2>2, QuietStep
<1>3. CASE ListFiles(p) /\ directory # 0
  <2>1. /\ Others(p) /\ pc'[p] = "delete_files"
        /\ listing'[p] = Names \cap {"metadata", "active"}
        /\ UNCHANGED <<directory, metadata, messages, raced>>
    BY <1>3 DEF ListFiles, Goto, terms, ProcessType, Others
  <2>2. Knows(p)'
    BY <2>1 DEF Knows, Acquiring, Names
  <2> QED
    BY <2>1, <2>2, QuietStep
<1>4. CASE ReleaseDeletion(p) \/ (ListRest(p) /\ directory # 0)
  <2>1. /\ Others(p) /\ pc'[p] \in {"delete_relist", "delete_rest"}
        /\ UNCHANGED <<directory, metadata, messages, raced>>
        /\ pc[p] = "delete_relist" \/ (pc[p] = "delete_files" /\ listing[p] = {})
    BY <1>4 DEF ReleaseDeletion, ListRest, session, Goto, terms, deletion, ProcessType, Others
  <2>2. raced = {} => Knows(p)'
    BY <2>1 DEF Knows, Acquiring, SessionInv
  <2> QED
    BY <2>1, <2>2, QuietStep
<1>5. CASE Unlink(p)
  <2>1. PICK name \in listing[p] :
          /\ listing' = [listing EXCEPT ![p] = @ \ {name}]
          /\ metadata' = (metadata /\ name # "metadata")
          /\ raced' = raced
               \cup (IF Disturbs(p) THEN {"create"} ELSE {})
               \cup (IF directory # place[p] THEN {"listing"} ELSE {})
               \cup (IF name = "lock" /\ \E q \in Proc \ {p} : fd[q] # 0 /\ fd[q] = lockFile
                     THEN {"lock"} ELSE {})
    BY <1>5 DEF Unlink
  <2>2. /\ pc[p] \in {"delete_files", "delete_rest"}
        /\ UNCHANGED <<directory, pc, mode, view>>
    BY <1>5 DEF Unlink, terms
  <2>3. ASSUME raced' = {} PROVE raced = {} /\ ~Disturbs(p)
    BY <2>1, <2>3
  <2>4. ASSUME raced' = {} PROVE Knows(p)'
    BY <2>1, <2>2, <2>3, <2>4 DEF SessionInv, Knows, Acquiring, ProcessType
  <2>5. ASSUME raced' = {}, NEW q \in Proc \ {p} PROVE Knows(q)'
    <3>1. raced = {} /\ ~Creating(q) /\ Knows(q) /\ Knows(p)
      BY <2>3, <2>5 DEF Disturbs, SessionInv
    <3>2. pc[q] # "running"
      <4>1. CASE pc[p] = "delete_files"
        BY <3>1, <4>1, OwnerAlone DEF Holds
      <4>2. CASE pc[p] = "delete_rest"
        BY <3>1, <4>2 DEF Knows
      <4> QED
        BY <2>2, <4>1, <4>2
    <3>3. listing'[q] = listing[q] /\ pc'[q] = pc[q] /\ mode'[q] = mode[q]
      BY <2>1, <2>2 DEF ProcessType
    <3>4. metadata' => metadata
      BY <2>1
    <3> QED
      BY <3>1, <3>2, <3>3, <3>4 DEF Knows, Creating
  <2> QED
    BY <2>1, <2>2, <2>4, <2>5 DEF SessionInv
<1>6. CASE RemoveDirectory(p) /\ ~UNCHANGED <<directory, raced>>
  <2>1. /\ Others(p) /\ pc'[p] = "idle"
        /\ ~metadata /\ UNCHANGED <<metadata, messages>>
        /\ raced' = IF Disturbs(p) THEN raced \cup {"create"} ELSE raced
    BY <1>6, LeaveOthers DEF RemoveDirectory, Note, Names
  <2>2. Knows(p)'
    BY <2>1 DEF Knows, Acquiring
  <2>3. ASSUME raced' = {}, NEW q \in Proc \ {p} PROVE Knows(q)'
    BY <2>1, <2>3 DEF SessionInv, Knows, Others, Disturbs, Creating
  <2> QED
    BY <2>1, <2>2, <2>3 DEF SessionInv
<1> QED
  BY <1>1, <1>2, <1>3, <1>4, <1>5, <1>6 DEF DeleteSteps, ListFiles, ListRest, RemoveDirectory,
     LeaveOwned, session

LEMMA NextSessionInv == TypeOK /\ LockInv /\ SessionInv /\ [Next]_vars => SessionInv'
<1> SUFFICES ASSUME SharedType, ProcessType, LockInv, SessionInv, [Next]_vars
             PROVE  SessionInv'
  BY TypeHalves
<1>1. CASE Next
  <2>1. PICK p \in Proc :
          \/ StartRun(p) \/ CreateSteps(p) \/ Acquire(p) \/ DeadlinePasses(p)
          \/ Load(p) \/ Commit(p) \/ Release(p) \/ Probe(p) \/ Probed(p)
          \/ DeleteSteps(p) \/ Crash(p)
    BY <1>1 DEF Next
  <2> QED
    BY <2>1, AcquireSession, MakeSession, OwnSession, DeleteSession DEF CreateSteps
<1>2. CASE UNCHANGED vars
  BY <1>2 DEF vars, session, terms, deletion, SessionInv, Knows
<1> QED
  BY <1>1, <1>2

\* Unless one of the three recorded races happened, the session of a run that goes on is
\* there and whole, and its history is the one the run has in memory: no process
\* commits over it or deletes behind it, however many wait, probe or die.
THEOREM OwnerSees == Spec => []OwnerSeesItsSession
<1>1. Init => TypeOK /\ LockInv /\ SessionInv
  BY InitType, InitLockInv DEF Init, SessionInv, Knows, Acquiring
<1>2. TypeOK /\ LockInv /\ SessionInv /\ [Next]_vars => (TypeOK /\ LockInv /\ SessionInv)'
  BY NextType, NextLockInv, NextSessionInv
<1>3. SessionInv => OwnerSeesItsSession
  BY DEF SessionInv, Knows, OwnerSeesItsSession
<1> QED
  BY <1>1, <1>2, <1>3, PTL DEF Spec
=============================================================================
