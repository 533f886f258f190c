----------------------- MODULE SessionCheckpointProofs -----------------------
(***************************************************************************)
(* Theorems about SessionCheckpoint, for every number of groups, resume    *)
(* bound and tree of protected paths.                                      *)
(***************************************************************************)
EXTENDS SessionCheckpoint, SequenceTheorems, TLAPS

-----------------------------------------------------------------------------
(* Typing                                                                  *)

\* Absent is not the content of anything.
LEMMA AbsentIsNotAHistory == \A h \in Generation : h # Absent
BY AbsentAssumption

\* The resume window of a history is a history.
LEMMA WindowType ==
  ASSUME NEW h \in Generation
  PROVE  Window(h) \in Generation
<1>1. CASE Len(h) <= MaxReplay
  BY <1>1 DEF Window
<1>2. CASE ~(Len(h) <= MaxReplay)
  <2>1. Len(h) \in Nat /\ MaxReplay \in Nat
    BY BoundsAssumption DEF Generation
  <2>2. \A i \in (Len(h) - MaxReplay + 1)..Len(h) : h[i] \in Group
    BY <1>2, <2>1 DEF Generation
  <2>3. SubSeq(h, Len(h) - MaxReplay + 1, Len(h)) \in Seq(Group)
    BY <2>1, <2>2, SubSeqProperties
  <2> QED
    BY <1>2, <2>3 DEF Window, Generation
<1> QED
  BY <1>1, <1>2

\* A prefix of a history is a history.
LEMMA PrefixType ==
  ASSUME NEW h \in Generation, NEW n \in Int, n <= Len(h)
  PROVE  SubSeq(h, 1, n) \in Generation
<1>1. \A i \in 1..n : h[i] \in Group
  BY DEF Generation
<1> QED
  BY <1>1, SubSeqProperties DEF Generation

\* So is what remains after cutting a block out of it.
LEMMA CutType ==
  ASSUME NEW h \in Generation, NEW i \in 1..Len(h), NEW j \in i..Len(h)
  PROVE  SubSeq(h, 1, i - 1) \o SubSeq(h, j + 1, Len(h)) \in Generation
<1>1. Len(h) \in Nat
  BY DEF Generation
<1>2. SubSeq(h, 1, i - 1) \in Generation
  BY <1>1, PrefixType
<1>3. \A k \in (j + 1)..Len(h) : h[k] \in Group
  BY <1>1 DEF Generation
<1>4. SubSeq(h, j + 1, Len(h)) \in Seq(Group)
  BY <1>1, <1>3, SubSeqProperties
<1> QED
  BY <1>2, <1>4, ConcatProperties DEF Generation

\* The group a run produces next is a group, and extends its history.
LEMMA NewGroupType ==
  ASSUME TypeOK, nextId <= MaxGroup
  PROVE  /\ NewGroup \in Group
         /\ Append(history, NewGroup) \in Generation
         /\ Append(history, NewGroup) # <<>>
         /\ Newest(Append(history, NewGroup)) = nextId
<1>1. NewGroup \in Group
  BY BoundsAssumption DEF TypeOK, NewGroup, Group
<1>2. /\ Append(history, NewGroup) \in Seq(Group)
      /\ Append(history, NewGroup) # <<>>
      /\ Len(Append(history, NewGroup)) = Len(history) + 1
      /\ Append(history, NewGroup)[Len(history) + 1] = NewGroup
  BY <1>1, AppendProperties DEF TypeOK, Generation
<1> QED
  BY <1>1, <1>2 DEF Newest, Generation, NewGroup

\* A history is dated by a group number, 0 when it is empty.
LEMMA NewestType ==
  ASSUME NEW h \in Generation
  PROVE  /\ Newest(h) \in Nat
         /\ h # <<>> => Newest(h) \in 1..MaxGroup
<1>1. CASE h = <<>>
  BY <1>1 DEF Newest
<1>2. CASE h # <<>>
  <2>1. Len(h) \in 1..Len(h)
    BY <1>2 DEF Generation
  <2>2. h[Len(h)] \in Group
    BY <2>1 DEF Generation
  <2> QED
    BY <1>2, <2>2, BoundsAssumption DEF Newest, Group
<1> QED
  BY <1>1, <1>2

\* What a resume loads is a history.
LEMMA LoadableType ==
  ASSUME TypeOK
  PROVE  Loadable \in Generation
BY DEF TypeOK, Loadable, Generation

\* The first session of an older or newer version is well formed.
LEMMA OldGroupType ==
  ASSUME MaxGroup >= 1
  PROVE  OldGroup \in Group /\ <<OldGroup>> \in Generation
BY BoundsAssumption DEF OldGroup, Group, Generation

\* The parts of the state that no run has touched yet.
LEMMA InitType == Init => TypeOK
<1> SUFFICES ASSUME Init PROVE TypeOK
  OBVIOUS
<1>1. /\ <<>> \in Generation
      /\ {} \in SUBSET Declarable
      /\ 1 \in 1..(MaxGroup + 1)
  BY EmptySeq, BoundsAssumption DEF Generation
<1>2. /\ pc = "idle" /\ staged = Absent /\ backup = Absent /\ history = <<>>
      /\ authority = {} /\ consent = FALSE /\ exposed = {}
  BY DEF Init, NoRun
<1>3. CASE InitEmpty
  BY <1>1, <1>2, <1>3 DEF InitEmpty, TypeOK
<1>4. ASSUME MaxGroup >= 1, NEW format \in {1, 3}, InitStored(format)
      PROVE  TypeOK
  <2>1. 2 \in 1..(MaxGroup + 1) /\ 1 \in Nat /\ format \in Nat
    BY <1>4, BoundsAssumption
  <2>2. metadata \in [format : Nat, authority : SUBSET Declarable]
    BY <1>4, <2>1 DEF InitStored
  <2>3. /\ messages \in Generation \cup {Absent}
        /\ legacy \in Generation \cup {Absent}
        /\ events \in Nat \cup {Absent}
        /\ committed \in Generation
        /\ generations \subseteq Generation
    BY <1>4, <2>1, OldGroupType DEF InitStored
  <2>4. directory \in BOOLEAN /\ nextId = 2
    BY <1>4 DEF InitStored
  <2> QED
    BY <1>1, <1>2, <2>1, <2>2, <2>3, <2>4 DEF TypeOK
<1> QED
  BY <1>3, <1>4 DEF Init

\* Every action keeps every file, and every part of the owner, of its type.
LEMMA NextType == TypeOK /\ [Next]_vars => TypeOK'
<1> SUFFICES ASSUME TypeOK, [Next]_vars PROVE TypeOK'
  OBVIOUS
<1> USE DEF TypeOK, disk, run, observers, Creating, Committing, Deleting
<1>0. <<>> \in Generation /\ {} \in SUBSET Declarable
  BY EmptySeq DEF Generation
<1>1. ASSUME NEW auth \in SUBSET Declarable, NEW persist \in BOOLEAN,
             CreateDirectory(auth, persist)
      PROVE  TypeOK'
  BY <1>1 DEF CreateDirectory
<1>2. ASSUME NEW auth \in SUBSET Declarable, NEW persist \in BOOLEAN,
             Resume(auth, persist)
      PROVE  TypeOK'
  <2>1. Window(Loadable) \in Generation
    BY LoadableType, WindowType
  <2> QED
    BY <1>2, <2>1 DEF Resume
<1>3. CASE CreateMetadata
  BY <1>3 DEF CreateMetadata
<1>4. CASE CreateMessages
  BY <1>0, <1>4 DEF CreateMessages
<1>5. CASE CreateEvents
  BY <1>5 DEF CreateEvents
<1>6. CASE EphemeralGroup
  BY <1>6, NewGroupType, BoundsAssumption DEF EphemeralGroup
<1>7. CASE BeginCheckpoint
  <2>1. /\ Append(history, NewGroup) \in Generation
        /\ nextId + 1 \in 1..(MaxGroup + 1)
    BY <1>7, NewGroupType, BoundsAssumption DEF BeginCheckpoint
  <2>2. generations' \subseteq Generation
    BY <1>7, <2>1 DEF BeginCheckpoint
  <2>3. history' \in Generation /\ nextId' \in 1..(MaxGroup + 1)
    BY <1>7, <2>1 DEF BeginCheckpoint
  <2> QED
    BY <1>0, <1>7, <2>2, <2>3 DEF BeginCheckpoint
<1>8. CASE StageSegment
  <2> PICK n \in (Len(staged) + 1)..Len(history) :
             /\ staged' = SubSeq(history, 1, n)
             /\ pc' = IF n = Len(history) THEN "move_aside" ELSE "stage"
    BY <1>8 DEF StageSegment
  <2>1. SubSeq(history, 1, n) \in Generation
    BY PrefixType
  <2>2. pc' \in {"move_aside", "stage"}
    OBVIOUS
  <2> QED
    BY <1>8, <2>1, <2>2 DEF StageSegment
<1>9. CASE MoveAside
  BY <1>9 DEF MoveAside
<1>10. CASE Install
  BY <1>10 DEF Install
<1>11. CASE CleanBackup
  BY <1>11 DEF CleanBackup
<1>12. CASE EventsAside
  BY <1>12 DEF EventsAside
<1>13. CASE EventsInstall
  <2>1. Newest(history) \in Nat
    BY NewestType
  <2> QED
    BY <1>13, <2>1 DEF EventsInstall
<1>14. CASE WriteMetadata
  BY <1>14 DEF WriteMetadata
<1>15. CASE RemoveLegacy
  BY <1>15 DEF RemoveLegacy, AfterCommit
<1>16. CASE MarkSensitive
  BY <1>16 DEF MarkSensitive
<1>17. CASE FinishRun
  BY <1>0, <1>17 DEF FinishRun, NoRun_Next
<1>18. CASE Abandon
  <2>1. ASSUME NEW i \in 1..Len(history)
        PROVE  history[i].id \in 1..MaxGroup
    <3>1. history[i] \in Group
      BY DEF Generation
    <3> QED
      BY <3>1 DEF Group
  <2>2. Unmarked \subseteq 1..MaxGroup
    BY <2>1 DEF Unmarked
  <2>3. exposed' \subseteq 1..MaxGroup
    BY <1>18, <2>2 DEF Abandon
  <2>4. pc' = "idle" /\ history' = <<>> /\ authority' = {} /\ consent' = FALSE
    BY <1>18 DEF Abandon, NoRun_Next
  <2> QED
    BY <1>0, <1>18, <2>3, <2>4 DEF Abandon
<1>19. CASE StartDelete
  BY <1>0, <1>19 DEF StartDelete
<1>20. CASE DeleteFile
  BY <1>20 DEF DeleteFile
<1>21. CASE FilesDeleted
  BY <1>21 DEF FilesDeleted
<1>22. CASE DeleteSegment
  <2>1. messages' \in Generation \cup {Absent}
    <3>0. messages \in Generation
      BY <1>22 DEF DeleteSegment
    <3>1. CASE messages = <<>>
      BY <1>22, <3>1 DEF DeleteSegment
    <3>2. CASE messages # <<>>
      BY <1>22, <3>0, <3>2, CutType DEF DeleteSegment
    <3> QED
      BY <3>1, <3>2
  <2> QED
    BY <1>22, <2>1 DEF DeleteSegment
<1>23. CASE DeleteOtherDirectory
  BY <1>23 DEF DeleteOtherDirectory
<1>24. CASE DeleteDirectory
  BY <1>24 DEF DeleteDirectory
<1>25. CASE UNCHANGED vars
  BY <1>25 DEF vars
<1> QED
  BY <1>1, <1>2, <1>3, <1>4, <1>5, <1>6, <1>7, <1>8, <1>9, <1>10, <1>11, <1>12,
     <1>13, <1>14, <1>15, <1>16, <1>17, <1>18, <1>19, <1>20, <1>21, <1>22,
     <1>23, <1>24, <1>25 DEF Next, Start, Create, Commit, Delete

\* The files of a session and the state of its owner always have their types:
\* no step of a run, of an interruption or of a deletion leaves a value that
\* the code would not have written.
THEOREM TypeCorrect == Spec => []TypeOK
<1>1. Init => TypeOK
  BY InitType
<1>2. TypeOK /\ [Next]_vars => TypeOK'
  BY NextType
<1> QED
  BY <1>1, <1>2, PTL DEF Spec

-----------------------------------------------------------------------------
(* The newest committed generation is always recoverable                   *)

\* LatestRecoverable is not inductive: it says nothing of the checkpoint in
\* progress.  What is missing is where the owner stands in the protocol: the
\* staged segments are whole before anything is moved, the new generation is in
\* place before the old one is deleted, and metadata.json is there as long as a
\* checkpoint has returned.
CommitProtocol ==
  /\ ~directory => pc = "idle" /\ committed = <<>>
  /\ pc \in Creating \cup Deleting => committed = <<>>
  /\ committed # <<>> => metadata # Absent
  /\ pc \in {"create_messages", "create_events", "running", "mark_sensitive"}
              \cup Committing => metadata # Absent
  /\ Newest(committed) < nextId
  /\ pc \in Committing =>
       /\ history \in generations
       /\ history # <<>>
       /\ Newest(history) >= Newest(committed)
       /\ Newest(history) < nextId
  /\ pc \in {"move_aside", "install", "install_first"} => staged = history
  /\ pc \in {"clean_backup", "events_aside", "events_install", "metadata",
              "remove_legacy"} => messages = history

Inv == TypeOK /\ CommitProtocol /\ LatestRecoverable

\* Nothing is committed in an untouched directory, or the old file is there.
LEMMA InitInv == Init => Inv
<1> SUFFICES ASSUME Init PROVE Inv
  OBVIOUS
<1>1. TypeOK
  BY InitType
<1>2. pc = "idle"
  BY DEF Init
<1>3. CASE InitEmpty
  BY <1>1, <1>2, <1>3 DEF InitEmpty, Inv, CommitProtocol, LatestRecoverable,
     Newest, Creating, Committing, Deleting
<1>4. ASSUME MaxGroup >= 1, NEW format \in {1, 3}, InitStored(format)
      PROVE  Inv
  <2>1. directory /\ nextId = 2 /\ committed = <<OldGroup>>
        /\ generations = {<<OldGroup>>} /\ metadata # Absent
    BY <1>4, AbsentAssumption DEF InitStored
  <2>2. Newest(committed) = 1
    BY <2>1 DEF Newest, OldGroup
  <2>3. CommitProtocol
    BY <1>2, <2>1, <2>2 DEF CommitProtocol, Creating, Committing, Deleting
  <2>4. Recoverable = <<OldGroup>>
    BY <1>4, <2>1, OldGroupType, AbsentIsNotAHistory
    DEF Init, InitStored, Recoverable, Loadable
  <2> QED
    BY <1>1, <2>1, <2>3, <2>4, <2>2 DEF Inv, LatestRecoverable
<1> QED
  BY <1>3, <1>4 DEF Init

\* A step that leaves the three histories alone leaves the session recoverable.
LEMMA HistoriesUntouched ==
  ASSUME LatestRecoverable,
         UNCHANGED <<messages, backup, legacy, committed, generations>>,
         metadata # Absent <=> metadata' # Absent
  PROVE  LatestRecoverable'
<1>1. Recoverable' = Recoverable
  BY DEF Recoverable, Loadable
<1> QED
  BY <1>1 DEF LatestRecoverable

\* What can be recovered is one of the three histories on disk, or nothing.
LEMMA RecoverableIsOnDisk ==
  Recoverable \in {messages, backup, legacy, <<>>}
BY DEF Recoverable, Loadable

\* Every action keeps the protocol, and with it the committed generation.
LEMMA NextInv == Inv /\ [Next]_vars => Inv'
<1> SUFFICES ASSUME Inv, [Next]_vars PROVE Inv'
  OBVIOUS
<1>type. TypeOK /\ TypeOK'
  BY NextType DEF Inv
<1>inv. CommitProtocol /\ LatestRecoverable
  BY DEF Inv
<1>goal. SUFFICES CommitProtocol' /\ LatestRecoverable'
  BY <1>type DEF Inv
<1>num. /\ Newest(committed) \in Nat /\ Newest(history) \in Nat
        /\ nextId \in Nat
        /\ committed # <<>> => Newest(committed) >= 1
        /\ Newest(<<>>) = 0
  <2>1. committed \in Generation /\ history \in Generation /\ nextId \in Nat
    BY <1>type, BoundsAssumption DEF TypeOK
  <2> QED
    BY <2>1, NewestType, BoundsAssumption DEF Newest
<1> USE DEF disk, run, observers, Creating, Committing, Deleting
<1>1. ASSUME NEW auth \in SUBSET Declarable, NEW persist \in BOOLEAN,
             CreateDirectory(auth, persist)
      PROVE  CommitProtocol' /\ LatestRecoverable'
  <2>1. committed' = <<>> /\ directory' /\ pc' = "create_metadata"
        /\ nextId' = nextId /\ committed' = committed
    BY <1>1, <1>inv DEF CreateDirectory, CommitProtocol
  <2> QED
    BY <1>inv, <2>1 DEF CommitProtocol, LatestRecoverable
<1>2. ASSUME NEW auth \in SUBSET Declarable, NEW persist \in BOOLEAN,
             Resume(auth, persist)
      PROVE  CommitProtocol' /\ LatestRecoverable'
  <2>1. pc' = "running" /\ metadata' # Absent /\ directory'
        /\ UNCHANGED <<disk, observers>>
    BY <1>2 DEF Resume
  <2>2. LatestRecoverable'
    BY <1>2, <1>inv, <2>1, HistoriesUntouched DEF Resume
  <2> QED
    BY <1>inv, <2>1, <2>2 DEF CommitProtocol
<1>3. CASE CreateMetadata
  <2>1. metadata' # Absent
    <3>1. [format |-> 2, authority |-> {}]
            \in [format : Nat, authority : SUBSET Declarable]
      OBVIOUS
    <3> QED
      BY <1>3, <3>1, AbsentAssumption DEF CreateMetadata
  <2> QED
    BY <1>3, <1>inv, <2>1 DEF CreateMetadata, CommitProtocol, LatestRecoverable
<1>4. CASE CreateMessages
  BY <1>4, <1>inv DEF CreateMessages, CommitProtocol, LatestRecoverable
<1>5. CASE CreateEvents
  BY <1>5, <1>inv DEF CreateEvents, CommitProtocol, LatestRecoverable
<1>6. CASE EphemeralGroup
  <2>1. pc' = "running" /\ pc = "running" /\ nextId' = nextId + 1
        /\ UNCHANGED <<disk, committed, generations>>
    BY <1>6 DEF EphemeralGroup
  <2>2. LatestRecoverable'
    BY <1>inv, <2>1, HistoriesUntouched
  <2>3. Newest(committed') < nextId'
    BY <1>inv, <1>num, <2>1 DEF CommitProtocol
  <2> QED
    BY <1>inv, <2>1, <2>2, <2>3 DEF CommitProtocol
<1>7. CASE BeginCheckpoint
  <2> DEFINE h == Append(history, NewGroup)
  <2>1. h # <<>> /\ Newest(h) = nextId
    BY <1>7, <1>type, NewGroupType DEF BeginCheckpoint
  <2>2. /\ pc = "running" /\ pc' = "stage" /\ history' = h
        /\ nextId' = nextId + 1
        /\ generations' = (generations \cap {messages, backup, legacy}) \cup {h}
        /\ UNCHANGED <<directory, metadata, messages, backup, legacy, committed>>
    BY <1>7 DEF BeginCheckpoint
  <2> HIDE DEF h
  <2>3. history' \in generations' /\ history' # <<>>
    BY <2>1, <2>2
  <2>4. /\ Newest(history') >= Newest(committed')
        /\ Newest(history') < nextId'
        /\ Newest(committed') < nextId'
    BY <1>inv, <1>num, <2>1, <2>2 DEF CommitProtocol
  <2>5. CommitProtocol'
    BY <1>inv, <2>2, <2>3, <2>4 DEF CommitProtocol
  <2>6. Recoverable' = Recoverable
    BY <2>2 DEF Recoverable, Loadable
  <2>7. ASSUME committed # <<>> PROVE Recoverable \in generations'
    <3>1. /\ Recoverable \in generations
          /\ Newest(Recoverable) >= Newest(committed)
      BY <1>inv, <2>7 DEF LatestRecoverable
    <3>2. Recoverable # <<>>
      BY <1>num, <2>7, <3>1
    <3> QED
      BY <2>2, <3>1, <3>2, RecoverableIsOnDisk
  <2> QED
    BY <1>inv, <2>2, <2>5, <2>6, <2>7 DEF LatestRecoverable
<1>8. CASE StageSegment
  <2>1. /\ pc = "stage"
        /\ UNCHANGED <<directory, metadata, messages, backup, legacy, history,
                       nextId, committed, generations>>
    BY <1>8 DEF StageSegment
  <2>2. pc' \in {"stage", "move_aside"} /\ (pc' = "move_aside" => staged' = history)
    <3> PICK n \in (Len(staged) + 1)..Len(history) :
               /\ staged' = SubSeq(history, 1, n)
               /\ pc' = IF n = Len(history) THEN "move_aside" ELSE "stage"
      BY <1>8 DEF StageSegment
    <3>1. history \in Seq(Group)
      BY <1>type DEF TypeOK, Generation
    <3>2. SubSeq(history, 1, Len(history)) = history
      BY <3>1, SubSeqFull
    <3> QED
      BY <3>2
  <2>3. LatestRecoverable'
    BY <1>inv, <2>1, HistoriesUntouched
  <2> QED
    BY <1>inv, <2>1, <2>2, <2>3 DEF CommitProtocol
<1>9. CASE MoveAside
  <2>1. CommitProtocol'
    BY <1>9, <1>inv DEF MoveAside, CommitProtocol
  <2>2. CASE messages = Absent
    BY <1>9, <1>inv, <2>1, <2>2, HistoriesUntouched DEF MoveAside
  <2>3. CASE messages # Absent
    <3>1. /\ messages' = Absent /\ backup' = messages
          /\ UNCHANGED <<metadata, committed, generations>>
      BY <1>9, <2>3 DEF MoveAside
    <3>2. committed # <<>> => Recoverable = messages /\ Recoverable' = messages
      BY <1>inv, <2>3, <3>1 DEF CommitProtocol, Recoverable
    <3> QED
      BY <1>inv, <2>1, <3>1, <3>2 DEF LatestRecoverable
  <2> QED
    BY <2>1, <2>2, <2>3
<1>10. CASE Install
  <2>1. /\ messages' = history /\ history \in generations
        /\ Newest(history) >= Newest(committed)
        /\ metadata # Absent
        /\ pc' \in {"clean_backup", "events_aside"}
        /\ UNCHANGED <<directory, metadata, backup, legacy, history, nextId,
                       committed, generations>>
    BY <1>10, <1>inv DEF Install, CommitProtocol
  <2>2. messages' # Absent
    BY <1>type, <2>1, AbsentIsNotAHistory DEF TypeOK
  <2>3. Recoverable' = history
    BY <2>1, <2>2 DEF Recoverable
  <2>4. CommitProtocol'
    BY <1>10, <1>inv, <2>1 DEF CommitProtocol, Install
  <2> QED
    BY <2>1, <2>3, <2>4 DEF LatestRecoverable
<1>11. CASE CleanBackup
  <2>1. /\ messages = history
        /\ pc' = "events_aside"
        /\ UNCHANGED <<directory, metadata, messages, legacy, history, nextId,
                       committed, generations>>
    BY <1>11, <1>inv DEF CleanBackup, CommitProtocol
  <2>2. messages # Absent
    BY <1>type, <2>1, AbsentIsNotAHistory DEF TypeOK
  <2>3. Recoverable' = Recoverable
    BY <2>1, <2>2 DEF Recoverable
  <2>4. CommitProtocol'
    BY <1>11, <1>inv, <2>1 DEF CommitProtocol, CleanBackup
  <2> QED
    BY <1>inv, <2>1, <2>3, <2>4 DEF LatestRecoverable
<1>12. CASE EventsAside
  BY <1>12, <1>inv, HistoriesUntouched DEF EventsAside, CommitProtocol
<1>13. CASE EventsInstall
  BY <1>13, <1>inv, HistoriesUntouched DEF EventsInstall, CommitProtocol
<1>14. CASE WriteMetadata
  <2>1. /\ pc = "metadata" /\ pc' = "remove_legacy"
        /\ metadata # Absent /\ metadata' # Absent
        /\ UNCHANGED <<directory, messages, staged, backup, legacy, history,
                       nextId, committed, generations>>
    <3>1. metadata \in [format : Nat, authority : SUBSET Declarable]
      BY <1>14, <1>type DEF WriteMetadata, TypeOK
    <3>2. metadata' \in [format : Nat, authority : SUBSET Declarable]
      BY <1>14, <3>1 DEF WriteMetadata
    <3> QED
      BY <1>14, <3>2, AbsentAssumption DEF WriteMetadata
  <2>2. LatestRecoverable'
    BY <1>inv, <2>1, HistoriesUntouched
  <2> QED
    BY <1>inv, <2>1, <2>2 DEF CommitProtocol
<1>15. CASE RemoveLegacy
  <2>1. /\ pc = "remove_legacy" /\ pc' \in {"running", "mark_sensitive"}
        /\ committed' = history
        /\ UNCHANGED <<directory, metadata, messages, staged, backup, history,
                       nextId, generations>>
    BY <1>15 DEF RemoveLegacy, AfterCommit
  <2>2. /\ messages = history /\ history \in generations /\ metadata # Absent
        /\ Newest(history) < nextId
    BY <1>inv, <2>1 DEF CommitProtocol
  <2>3. messages # Absent
    BY <1>type, <2>2, AbsentIsNotAHistory DEF TypeOK
  <2>4. Recoverable' = history
    BY <2>1, <2>2, <2>3 DEF Recoverable
  <2>5. CommitProtocol'
    BY <1>inv, <2>1, <2>2 DEF CommitProtocol
  <2> QED
    BY <1>num, <2>1, <2>2, <2>4, <2>5 DEF LatestRecoverable
<1>16. CASE MarkSensitive
  <2>1. /\ pc = "mark_sensitive" /\ pc' = "running"
        /\ metadata # Absent /\ metadata' # Absent
        /\ UNCHANGED <<directory, messages, staged, backup, legacy, history,
                       nextId, committed, generations>>
    <3>1. metadata \in [format : Nat, authority : SUBSET Declarable]
      BY <1>16, <1>type DEF MarkSensitive, TypeOK
    <3>2. metadata' \in [format : Nat, authority : SUBSET Declarable]
      BY <1>16, <1>type, <3>1 DEF MarkSensitive, TypeOK
    <3> QED
      BY <1>16, <3>2, AbsentAssumption DEF MarkSensitive
  <2>2. LatestRecoverable'
    BY <1>inv, <2>1, HistoriesUntouched
  <2> QED
    BY <1>inv, <2>1, <2>2 DEF CommitProtocol
<1>17. CASE FinishRun
  BY <1>17, <1>inv, HistoriesUntouched DEF FinishRun, CommitProtocol
<1>18. CASE Abandon
  <2>1. /\ pc # "idle" /\ pc' = "idle"
        /\ UNCHANGED <<directory, metadata, messages, backup, legacy, nextId,
                       committed, generations>>
    BY <1>18 DEF Abandon
  <2>2. LatestRecoverable'
    BY <1>inv, <2>1, HistoriesUntouched
  <2> QED
    BY <1>inv, <2>1, <2>2 DEF CommitProtocol
<1>19. CASE StartDelete
  <2>1. Newest(<<>>) < nextId
    BY <1>num, <1>type DEF TypeOK
  <2> QED
    BY <1>19, <1>inv, <2>1 DEF StartDelete, CommitProtocol, LatestRecoverable
<1>20. CASE DeleteFile
  BY <1>20, <1>inv DEF DeleteFile, CommitProtocol, LatestRecoverable
<1>21. CASE FilesDeleted
  BY <1>21, <1>inv DEF FilesDeleted, CommitProtocol, LatestRecoverable
<1>22. CASE DeleteSegment
  BY <1>22, <1>inv DEF DeleteSegment, CommitProtocol, LatestRecoverable
<1>23. CASE DeleteOtherDirectory
  BY <1>23, <1>inv DEF DeleteOtherDirectory, CommitProtocol, LatestRecoverable
<1>24. CASE DeleteDirectory
  BY <1>24, <1>inv DEF DeleteDirectory, CommitProtocol, LatestRecoverable
<1>25. CASE UNCHANGED vars
  BY <1>25, <1>inv, HistoriesUntouched DEF vars, CommitProtocol
<1> QED
  BY <1>1, <1>2, <1>3, <1>4, <1>5, <1>6, <1>7, <1>8, <1>9, <1>10, <1>11, <1>12,
     <1>13, <1>14, <1>15, <1>16, <1>17, <1>18, <1>19, <1>20, <1>21, <1>22,
     <1>23, <1>24, <1>25 DEF Next, Start, Create, Commit, Delete

\* Once commit_checkpoint has returned, the generation it committed or a newer
\* one is whole on disk until the session is deleted, wherever a later
\* checkpoint of any length is interrupted: the directory moved aside holds it
\* exactly when messages/ does not.
THEOREM LatestAlwaysRecoverable == Spec => []LatestRecoverable
<1>1. Init => Inv
  BY InitInv
<1>2. Inv /\ [Next]_vars => Inv'
  BY NextInv
<1>3. Inv => LatestRecoverable
  BY DEF Inv
<1> QED
  BY <1>1, <1>2, <1>3, PTL DEF Spec

-----------------------------------------------------------------------------
(* The session implements DurableHistory                                   *)

\* What the protocol leaves open: that nothing is found in a directory that is
\* being made, that a deletion has removed what makes the rest a history before
\* it cuts messages/ into pieces, and that only a run has a conversation.
NoHistory == messages = Absent /\ backup = Absent /\ legacy = Absent

Edges ==
  /\ ~directory \/ pc = "create_metadata" => metadata = Absent /\ NoHistory
  /\ pc = "create_messages" => NoHistory
  /\ pc \in {"create_messages", "create_events"} => metadata.authority = {}
  /\ pc = "delete_nested" => metadata = Absent /\ legacy = Absent
  /\ pc \in {"idle"} \cup Creating \cup Deleting => history = <<>>

\* What can be recovered is a history.
LEMMA RecoverableType ==
  ASSUME TypeOK
  PROVE  Recoverable \in Generation
BY LoadableType, EmptySeq DEF TypeOK, Recoverable, Generation

\* A checkpoint is always newer than what it replaces.
Dated == Newest(Recoverable) < nextId

\* LoadableIsWhole says nothing of the old single file while messages/ hides it.
Whole == metadata # Absent => {messages, legacy} \subseteq generations \cup {<<>>, Absent}

\* Before commit_checkpoint returns, what it wrote beside the history is there.
Beside ==
  /\ pc \in {"metadata", "remove_legacy"} => events = Newest(history)
  /\ pc = "remove_legacy" => metadata.format = 2

HistoryInv == Edges /\ Dated /\ Whole /\ Beside

\* A new session has no history.
LEMMA InitHistoryInv == Init => HistoryInv
<1> SUFFICES ASSUME Init PROVE HistoryInv
  OBVIOUS
<1>1. pc = "idle" /\ backup = Absent /\ history = <<>>
  BY DEF Init, NoRun
<1>2. CASE InitEmpty
  <2>1. metadata = Absent /\ NoHistory /\ nextId = 1
    BY <1>1, <1>2 DEF InitEmpty, NoHistory
  <2>2. Newest(Recoverable) = 0
    BY <2>1 DEF Recoverable, Newest
  <2> QED
    BY <1>1, <2>1, <2>2 DEF HistoryInv, Edges, Dated, Whole, Beside
<1>3. ASSUME MaxGroup >= 1, NEW format \in {1, 3}, InitStored(format)
      PROVE  HistoryInv
  <2>1. /\ directory /\ nextId = 2 /\ generations = {<<OldGroup>>}
        /\ {messages, legacy} = {Absent, <<OldGroup>>}
    BY <1>3 DEF InitStored
  <2>2. Recoverable \in {<<>>, <<OldGroup>>}
    BY <1>1, <2>1, OldGroupType, AbsentIsNotAHistory DEF Recoverable, Loadable
  <2>3. Newest(<<>>) = 0 /\ Newest(<<OldGroup>>) = 1
    BY DEF Newest, OldGroup
  <2>4. Dated
    BY <2>1, <2>2, <2>3 DEF Dated
  <2> QED
    BY <1>1, <2>1, <2>4 DEF HistoryInv, Edges, Whole, Beside
<1> QED
  BY <1>2, <1>3 DEF Init

\* Every step keeps the edges.
LEMMA NextEdges == Inv /\ Edges /\ [Next]_vars => Edges'
<1> SUFFICES ASSUME Inv, Edges, [Next]_vars PROVE Edges'
  OBVIOUS
<1> USE DEF Inv, CommitProtocol, Edges, NoHistory, disk, run, observers, Creating,
            Committing, Deleting
<1>1. CASE Start
  BY <1>1 DEF Start, CreateDirectory, Resume
<1>2. CASE Create
  BY <1>2 DEF Create, CreateMetadata, CreateMessages, CreateEvents
<1>3. CASE EphemeralGroup \/ FinishRun \/ MarkSensitive \/ Abandon
  BY <1>3 DEF EphemeralGroup, FinishRun, MarkSensitive, Abandon, NoRun_Next
<1>4. CASE Commit
  BY <1>4 DEF Commit, BeginCheckpoint, StageSegment, MoveAside, Install, CleanBackup,
     EventsAside, EventsInstall, WriteMetadata, RemoveLegacy, AfterCommit
<1>5. CASE Delete
  BY <1>5 DEF Delete, StartDelete, DeleteFile, FilesDeleted, DeleteSegment,
     DeleteOtherDirectory, DeleteDirectory
<1>6. CASE UNCHANGED vars
  BY <1>6 DEF vars
<1> QED
  BY <1>1, <1>2, <1>3, <1>4, <1>5, <1>6 DEF Next

\* Every step keeps the generations whole.
LEMMA NextWhole == Inv /\ Edges /\ Whole /\ [Next]_vars => Whole'
<1> SUFFICES ASSUME Inv, Edges, Whole, [Next]_vars PROVE Whole'
  OBVIOUS
<1> USE DEF Inv, CommitProtocol, Edges, Whole, NoHistory, disk, run, observers, Creating,
            Committing, Deleting
<1>1. CASE Start
  BY <1>1 DEF Start, CreateDirectory, Resume
<1>2. CASE Create
  BY <1>2 DEF Create, CreateMetadata, CreateMessages, CreateEvents
<1>3. CASE EphemeralGroup \/ FinishRun \/ MarkSensitive \/ Abandon
  BY <1>3 DEF EphemeralGroup, FinishRun, MarkSensitive, Abandon
<1>4. CASE BeginCheckpoint
  BY <1>4 DEF BeginCheckpoint
<1>5. CASE Commit /\ ~BeginCheckpoint
  BY <1>5 DEF Commit, StageSegment, MoveAside, Install, CleanBackup,
     EventsAside, EventsInstall, WriteMetadata, RemoveLegacy, AfterCommit
<1>6. CASE Delete
  BY <1>6 DEF Delete, StartDelete, DeleteFile, FilesDeleted, DeleteSegment,
     DeleteOtherDirectory, DeleteDirectory
<1>7. CASE UNCHANGED vars
  BY <1>7 DEF vars
<1> QED
  BY <1>1, <1>2, <1>3, <1>4, <1>5, <1>6, <1>7 DEF Next

\* Every step keeps what lies beside the messages.
LEMMA NextBeside == Inv /\ Beside /\ [Next]_vars => Beside'
<1> SUFFICES ASSUME Inv, Beside, [Next]_vars PROVE Beside'
  OBVIOUS
<1> USE DEF Inv, Beside, disk, run, observers
<1>1. CASE Start \/ Create
  BY <1>1 DEF Start, Create, CreateDirectory, Resume, CreateMetadata, CreateMessages, CreateEvents
<1>2. CASE EphemeralGroup \/ FinishRun \/ MarkSensitive \/ Abandon
  BY <1>2 DEF EphemeralGroup, FinishRun, MarkSensitive, Abandon
<1>3. CASE WriteMetadata
  <2>1. metadata \in [format : Nat, authority : SUBSET Declarable]
    BY <1>3 DEF WriteMetadata, TypeOK
  <2> QED
    BY <1>3, <2>1 DEF WriteMetadata
<1>4. CASE Commit /\ ~WriteMetadata
  BY <1>4 DEF Commit, BeginCheckpoint, StageSegment, MoveAside, Install, CleanBackup,
     EventsAside, EventsInstall, RemoveLegacy, AfterCommit
<1>5. CASE Delete
  BY <1>5 DEF Delete, StartDelete, DeleteFile, FilesDeleted, DeleteSegment,
     DeleteOtherDirectory, DeleteDirectory
<1>6. CASE UNCHANGED vars
  BY <1>6 DEF vars
<1> QED
  BY <1>1, <1>2, <1>3, <1>4, <1>5, <1>6 DEF Next

\* What every step does to what can be recovered, and to the checkpoint in progress: the
\* five actions of DurableHistory.
Pending == IF pc \in Committing THEN history ELSE Absent

HistoryStep ==
  \/ UNCHANGED <<Recoverable, Pending>>
  \/ BeginCheckpoint /\ Pending = Absent /\ UNCHANGED Recoverable
  \/ Install /\ Recoverable' = history /\ UNCHANGED Pending
  \/ RemoveLegacy /\ Recoverable = history /\ Pending' = Absent /\ UNCHANGED Recoverable
  \/ Abandon /\ pc \in Committing /\ Pending' = Absent /\ UNCHANGED Recoverable
  \/ Pending = Absent /\ Pending' = Absent /\ Recoverable' = <<>>

\* Every step does to the three histories what HistoryStep says.
LEMMA NextHistoryStep == Inv /\ Edges /\ [Next]_vars => HistoryStep
<1> SUFFICES ASSUME Inv, Edges, [Next]_vars PROVE HistoryStep
  OBVIOUS
<1> USE DEF Inv, CommitProtocol, Edges, NoHistory, HistoryStep, Pending, Recoverable, Loadable,
            disk, run, observers, Creating, Committing, Deleting
<1>1. CASE Start
  BY <1>1 DEF Start, CreateDirectory, Resume
<1>2. CASE Create
  BY <1>2 DEF Create, CreateMetadata, CreateMessages, CreateEvents
<1>3. CASE EphemeralGroup \/ FinishRun
  BY <1>3 DEF EphemeralGroup, FinishRun
<1>4. CASE MarkSensitive \/ WriteMetadata
  <2>1. metadata' # Absent
    <3>1. metadata \in [format : Nat, authority : SUBSET Declarable]
      BY <1>4 DEF MarkSensitive, WriteMetadata, TypeOK
    <3>2. metadata' \in [format : Nat, authority : SUBSET Declarable]
      BY <1>4, <3>1 DEF MarkSensitive, WriteMetadata, TypeOK
    <3> QED
      BY <3>2, AbsentAssumption
  <2> QED
    BY <1>4, <2>1 DEF MarkSensitive, WriteMetadata
<1>5. CASE Abandon
  BY <1>5 DEF Abandon
<1>6. CASE BeginCheckpoint
  BY <1>6 DEF BeginCheckpoint
<1>7. CASE StageSegment \/ MoveAside
  BY <1>7 DEF StageSegment, MoveAside
<1>8. CASE Install \/ CleanBackup \/ EventsAside \/ EventsInstall \/ RemoveLegacy
  <2>1. history # Absent
    BY AbsentIsNotAHistory DEF TypeOK
  <2> QED
    BY <1>8, <2>1 DEF Install, CleanBackup, EventsAside, EventsInstall, RemoveLegacy, AfterCommit
<1>9. CASE Delete
  BY <1>9 DEF Delete, StartDelete, DeleteFile, FilesDeleted, DeleteSegment,
     DeleteOtherDirectory, DeleteDirectory
<1>10. CASE UNCHANGED vars
  BY <1>10 DEF vars
<1> QED
  BY <1>1, <1>2, <1>3, <1>4, <1>5, <1>6, <1>7, <1>8, <1>9, <1>10 DEF Next, Commit

\* Every step keeps the dates.
LEMMA NextDated == Inv /\ Edges /\ Dated /\ [Next]_vars => Dated'
<1> SUFFICES ASSUME Inv, Edges, Dated, [Next]_vars PROVE Dated'
  OBVIOUS
<1>1. nextId \in Nat /\ nextId' \in Nat /\ nextId' >= nextId /\ Newest(<<>>) = 0
  <2>1. nextId' \in {nextId, nextId + 1}
    BY DEF Next, Start, Create, Commit, Delete, vars, disk, run, observers, CreateDirectory, Resume, CreateMetadata,
       CreateMessages, CreateEvents, EphemeralGroup, BeginCheckpoint, StageSegment,
       MoveAside, Install, CleanBackup, EventsAside, EventsInstall, WriteMetadata,
       RemoveLegacy, MarkSensitive, FinishRun, Abandon, StartDelete, DeleteFile,
       FilesDeleted, DeleteSegment, DeleteOtherDirectory, DeleteDirectory
  <2> QED
    BY <2>1, BoundsAssumption DEF Inv, TypeOK, Newest
<1>2. Recoverable \in {messages, backup, legacy, <<>>} /\ Newest(Recoverable) < nextId
  BY RecoverableIsOnDisk DEF Dated
<1>3. CASE Recoverable' = history /\ Install
  <2>1. Newest(history) < nextId /\ nextId' = nextId
    BY <1>3 DEF Install, Inv, CommitProtocol, Committing, observers
  <2> QED
    BY <1>3, <2>1 DEF Dated
<1>4. CASE Recoverable' = Recoverable
  <2>1. Newest(Recoverable) \in Nat
    BY NewestType, RecoverableType DEF Inv
  <2> QED
    BY <1>1, <1>2, <1>4, <2>1 DEF Dated
<1>5. CASE Recoverable' = <<>>
  BY <1>1, <1>5 DEF Dated, Inv, TypeOK
<1> QED
  BY <1>3, <1>4, <1>5, NextHistoryStep DEF HistoryStep
\* The two inductive invariants hold together.
LEMMA HistoryInvariant == Spec => [](Inv /\ HistoryInv)
<1>1. Init => Inv /\ HistoryInv
  BY InitInv, InitHistoryInv
<1>2. Inv /\ HistoryInv /\ [Next]_vars => (Inv /\ HistoryInv)'
  BY NextInv, NextEdges, NextDated, NextWhole, NextBeside DEF HistoryInv
<1> QED
  BY <1>1, <1>2, PTL DEF Spec

\* Whatever interrupts the owner or a deletion, what a resume or `session show` loads is
\* empty or one generation that was handed to commit_checkpoint, whole.
THEOREM LoadedHistoryIsWhole == Spec => []LoadableIsWhole
<1>1. HistoryInv => LoadableIsWhole
  BY DEF HistoryInv, Whole, LoadableIsWhole, Loadable
<1> QED
  BY <1>1, HistoryInvariant, PTL

\* When commit_checkpoint returns, messages/ is what it was given, the events are of the
\* same checkpoint, and no format 1 file is left to be read in its place.
THEOREM CommitIsLoadable == Spec => ReturnedCheckpointIsLoadable
<1> DEFINE Returned == committed' # committed /\ committed' # <<>> =>
             /\ messages' = committed'
             /\ events' = Newest(committed')
             /\ legacy' = Absent
             /\ metadata'.format = 2
<1>1. Inv /\ HistoryInv /\ [Next]_vars => [Returned]_vars
  <2> SUFFICES ASSUME Inv, HistoryInv, [Next]_vars, committed' # committed, committed' # <<>>
               PROVE  Returned
    OBVIOUS
  <2>1. RemoveLegacy
    BY DEF Next, Start, Create, Commit, Delete, vars, disk, run, observers, CreateDirectory, Resume,
       CreateMetadata, CreateMessages, CreateEvents, EphemeralGroup, BeginCheckpoint,
       StageSegment, MoveAside, Install, CleanBackup, EventsAside, EventsInstall,
       WriteMetadata, MarkSensitive, FinishRun, Abandon, StartDelete, DeleteFile,
       FilesDeleted, DeleteSegment, DeleteOtherDirectory, DeleteDirectory
  <2> QED
    BY <2>1 DEF RemoveLegacy, Inv, CommitProtocol, HistoryInv, Beside, run
<1> QED
  BY <1>1, HistoryInvariant, PTL DEF Spec, ReturnedCheckpointIsLoadable

\* Every step of the owner, of what interrupts it and of a deletion is a step of the
\* abstract history or leaves it alone.
LEMMA NextRefines == Inv /\ HistoryInv /\ [Next]_vars => [DH!Next]_(DH!dhVars)
<1> SUFFICES ASSUME Inv, HistoryInv, [Next]_vars
             PROVE  DH!Next \/ UNCHANGED <<Recoverable, Pending>>
  BY DEF DH!dhVars, Pending
<1>1. history # Absent
  BY AbsentIsNotAHistory DEF Inv, TypeOK
<1>2. CASE BeginCheckpoint /\ Pending = Absent /\ UNCHANGED Recoverable
  <2>1. Pending' = Append(history, NewGroup)
    BY <1>2 DEF BeginCheckpoint, Pending, Committing
  <2>2. Pending' # Absent /\ Newest(Pending') = nextId
    BY <1>2, <2>1, NewGroupType, AbsentIsNotAHistory DEF BeginCheckpoint, Inv
  <2>3. Newest(Recoverable) \in Nat /\ nextId \in Nat
    BY RecoverableType, NewestType, BoundsAssumption DEF Inv, TypeOK
  <2>4. Newest(Pending') > Newest(Recoverable)
    BY <2>2, <2>3 DEF HistoryInv, Dated
  <2> QED
    BY <1>2, <2>2, <2>4 DEF Pending, Newest, DH!Next, DH!Begin, DH!Newest
<1>3. CASE Install /\ Recoverable' = history /\ UNCHANGED Pending
  <2>1. Pending = history
    BY <1>3 DEF Install, Pending, Committing
  <2> QED
    BY <1>1, <1>3, <2>1 DEF Pending, DH!Next, DH!Land
<1>4. CASE RemoveLegacy /\ Recoverable = history /\ Pending' = Absent /\ UNCHANGED Recoverable
  <2>1. Pending = history
    BY <1>4 DEF RemoveLegacy, Pending, Committing
  <2> QED
    BY <1>1, <1>4, <2>1 DEF Pending, DH!Next, DH!Return
<1>5. CASE Abandon /\ pc \in Committing /\ Pending' = Absent /\ UNCHANGED Recoverable
  BY <1>1, <1>5 DEF Pending, DH!Next, DH!Abandon
<1>6. CASE Pending = Absent /\ Pending' = Absent /\ Recoverable' = <<>>
  BY <1>6 DEF Pending, DH!Next, DH!Erase
<1> QED
  BY <1>2, <1>3, <1>4, <1>5, <1>6, NextHistoryStep DEF HistoryInv, HistoryStep

\* The files of a session, seen through what can be recovered from them, are the abstract
\* history: a checkpoint lands at once and is reported only after it landed, and an
\* abandoned one leaves the old value or the new one.
THEOREM RefinesDurableHistory == Spec => ImplementsDurableHistory
<1>1. Init => DH!Init
  BY DEF Init, DH!Init, Committing
<1>2. Inv /\ HistoryInv /\ [Next]_vars => [DH!Next]_(DH!dhVars)
  BY NextRefines
<1> QED
  BY <1>1, <1>2, HistoryInvariant, PTL DEF Spec, ImplementsDurableHistory, DH!Spec
-----------------------------------------------------------------------------
(* Authority                                                               *)

\* Exceptions cover themselves, and covering is transitive: beneath a subtree that is
\* covered nothing is uncovered.
LEMMA CoversItself ==
  ASSUME NEW auth \in SUBSET Declarable
  PROVE  CoversAll(auth, auth)
BY PathAssumption DEF CoversAll, Declarable, Descriptor

\* Authority that covers authority that covers something covers it.
LEMMA CoversTransitive ==
  ASSUME NEW a \in SUBSET Declarable, NEW b \in SUBSET Declarable, NEW c \in SUBSET Declarable,
         CoversAll(a, b), CoversAll(b, c)
  PROVE  CoversAll(a, c)
<1> SUFFICES ASSUME NEW d \in c
             PROVE  \E x \in a : IF x.scope = "subtree" THEN d.path \in Below[x.path]
                                 ELSE d.path = x.path
  BY DEF CoversAll
<1>1. PICK y \in b : IF y.scope = "subtree" THEN d.path \in Below[y.path] ELSE d.path = y.path
  BY DEF CoversAll
<1>2. PICK x \in a : IF x.scope = "subtree" THEN y.path \in Below[x.path] ELSE y.path = x.path
  BY DEF CoversAll
<1>3. /\ x.path \in Path /\ y.path \in Path
      /\ x.scope = "subtree" <=> x.path \in Directory
      /\ y.scope = "subtree" <=> y.path \in Directory
  BY DEF Declarable, Descriptor
<1>4. IF x.scope = "subtree" THEN d.path \in Below[x.path] ELSE d.path = x.path
  BY <1>1, <1>2, <1>3, PathAssumption
<1> QED
  BY <1>4

\* Nothing needs no authority.
LEMMA CoversNothing == \A auth : CoversAll(auth, {})
BY DEF CoversAll

\* A run has renewed the authority stored with its session.
OfRun == {"running", "mark_sensitive"} \cup Committing

Renewed == pc \in OfRun => CoversAll(authority, metadata.authority)

\* Every step keeps that authority is renewed.
LEMMA NextRenewed == Inv /\ Edges /\ Renewed /\ [Next]_vars => Renewed'
<1> SUFFICES ASSUME Inv, Edges, Renewed, [Next]_vars PROVE Renewed'
  OBVIOUS
<1> USE DEF Renewed, OfRun, disk, run, observers, Committing
<1>1. ASSUME NEW auth \in SUBSET Declarable, NEW persist \in BOOLEAN,
             CreateDirectory(auth, persist) \/ Resume(auth, persist)
      PROVE  Renewed'
  BY <1>1 DEF CreateDirectory, Resume, CoversAll
<1>2. CASE Create
  BY <1>2 DEF Create, CreateMetadata, CreateMessages, CreateEvents, Edges, CoversAll
<1>3. CASE EphemeralGroup \/ FinishRun \/ Abandon
  BY <1>3 DEF EphemeralGroup, FinishRun, Abandon, CoversAll
<1>4. CASE WriteMetadata
  <2>1. metadata'.authority = metadata.authority
    BY <1>4 DEF WriteMetadata, Inv, TypeOK
  <2> QED
    BY <1>4, <2>1 DEF WriteMetadata, CoversAll
<1>5. CASE Commit /\ ~WriteMetadata
  BY <1>5 DEF Commit, BeginCheckpoint, StageSegment, MoveAside, Install, CleanBackup,
     EventsAside, EventsInstall, RemoveLegacy, AfterCommit, CoversAll
<1>6. CASE MarkSensitive
  <2>1. metadata'.authority = authority /\ authority' = authority
    BY <1>6 DEF MarkSensitive, Inv, TypeOK
  <2> QED
    BY <2>1, CoversItself DEF Inv, TypeOK, CoversAll
<1>7. CASE Delete
  BY <1>7 DEF Delete, StartDelete, DeleteFile, FilesDeleted, DeleteSegment,
     DeleteOtherDirectory, DeleteDirectory, Deleting
<1>8. CASE UNCHANGED vars
  BY <1>8 DEF vars, CoversAll
<1> QED
  BY <1>1, <1>2, <1>3, <1>4, <1>5, <1>6, <1>7, <1>8 DEF Next, Start

\* The three invariants hold throughout.
LEMMA RenewedInvariant == Spec => [](Inv /\ HistoryInv /\ Renewed)
<1>1. Init => Renewed
  BY DEF Init, Renewed, OfRun, Committing
<1>2. Inv /\ HistoryInv /\ Renewed /\ [Next]_vars => Renewed'
  BY NextRenewed DEF HistoryInv
<1> QED
  BY <1>1, <1>2, HistoryInvariant, PTL DEF Spec

\* mark_sensitive overwrites the stored exceptions, and still no run that the store lets
\* resume the session can make them reach less.
THEOREM StoredAuthorityNeverWeakens == Spec => AuthorityNeverWeakens
<1> DEFINE Weakens == ~(metadata # Absent /\ metadata' # Absent =>
                          CoversAll(metadata'.authority, metadata.authority))
<1>1. Inv /\ HistoryInv /\ Renewed /\ [Next]_vars => [~Weakens]_vars
  <2> SUFFICES ASSUME Inv, HistoryInv, Renewed, [Next]_vars, metadata # Absent, metadata' # Absent
               PROVE  CoversAll(metadata'.authority, metadata.authority)
    OBVIOUS
  <2>1. metadata.authority \in SUBSET Declarable
    BY DEF Inv, TypeOK
  <2>2. \/ MarkSensitive
        \/ metadata'.authority = metadata.authority
    <3>1. CASE CreateMetadata
      BY <3>1 DEF CreateMetadata, HistoryInv, Edges
    <3>2. CASE WriteMetadata
      BY <3>2 DEF WriteMetadata, Inv, TypeOK
    <3>3. CASE DeleteFile
      BY <3>3 DEF DeleteFile
    <3>4. CASE ~(CreateMetadata \/ WriteMetadata \/ DeleteFile \/ MarkSensitive)
      BY <3>4 DEF Next, Start, Create, Commit, Delete, vars, disk, CreateDirectory, Resume,
         CreateMessages, CreateEvents, EphemeralGroup, BeginCheckpoint, StageSegment,
         MoveAside, Install, CleanBackup, EventsAside, EventsInstall, RemoveLegacy,
         FinishRun, Abandon, StartDelete, FilesDeleted, DeleteSegment,
         DeleteOtherDirectory, DeleteDirectory
    <3> QED
      BY <3>1, <3>2, <3>3, <3>4
  <2>3. CASE MarkSensitive
    <3>1. metadata'.authority = authority
      BY <2>3 DEF MarkSensitive, Inv, TypeOK
    <3> QED
      BY <2>3, <3>1 DEF MarkSensitive, Renewed, OfRun
  <2> QED
    BY <2>1, <2>2, <2>3, CoversItself
<1> QED
  BY <1>1, RenewedInvariant, PTL DEF Spec, AuthorityNeverWeakens
-----------------------------------------------------------------------------
(* Sensitive groups that may not be kept                                   *)

Kept(h) == \A i \in 1..Len(h) : h[i].authority = {} \/ h[i].consented

\* A run that may be kept has only groups that may be kept, those it has loaded included;
\* only such a run makes checkpoints.
ConsentInv ==
  /\ NoUnconsentedSensitive
  /\ Persists => Kept(history)
  /\ pc \in Committing => Persists

\* The groups of a window, of a prefix and of what a cut leaves are groups of the whole.
LEMMA WindowGroups ==
  ASSUME NEW h \in Generation, NEW i \in 1..Len(Window(h))
  PROVE  \E j \in 1..Len(h) : Window(h)[i] = h[j]
<1>1. Len(h) \in Nat /\ MaxReplay \in Nat /\ h \in Seq(Group)
  BY BoundsAssumption DEF Generation
<1>2. CASE Len(h) <= MaxReplay
  BY <1>2 DEF Window
<1>3. CASE ~(Len(h) <= MaxReplay)
  <2>1. Window(h) = SubSeq(h, Len(h) - MaxReplay + 1, Len(h))
    BY <1>3 DEF Window
  <2>2. /\ Len(Window(h)) = MaxReplay
        /\ Window(h)[i] = h[Len(h) - MaxReplay + i]
    BY <1>1, <1>3, <2>1
  <2> QED
    BY <1>1, <1>3, <2>2
<1> QED
  BY <1>2, <1>3

\* The groups of a prefix are groups of the history.
LEMMA PrefixGroups ==
  ASSUME NEW h \in Generation, NEW n \in Int, n <= Len(h), NEW i \in 1..Len(SubSeq(h, 1, n))
  PROVE  i \in 1..Len(h) /\ SubSeq(h, 1, n)[i] = h[i]
<1>1. h \in Seq(Group) /\ Len(h) \in Nat
  BY DEF Generation
<1>2. CASE n < 1
  BY <1>1, <1>2
<1>3. CASE n >= 1
  BY <1>1, <1>3
<1> QED
  BY <1>2, <1>3

\* The groups of a history that was cut are groups of the history.
LEMMA CutGroups ==
  ASSUME NEW h \in Generation, NEW i \in 1..Len(h), NEW j \in i..Len(h),
         NEW k \in 1..Len(SubSeq(h, 1, i - 1) \o SubSeq(h, j + 1, Len(h)))
  PROVE  \E l \in 1..Len(h) : (SubSeq(h, 1, i - 1) \o SubSeq(h, j + 1, Len(h)))[k] = h[l]
<1> DEFINE before == SubSeq(h, 1, i - 1)
           after == SubSeq(h, j + 1, Len(h))
<1>1. h \in Seq(Group) /\ Len(h) \in Nat
  BY DEF Generation
<1>2. /\ before \in Seq(Group) /\ Len(before) = i - 1
      /\ \A l \in 1..(i - 1) : before[l] = h[l]
  BY <1>1
<1>3. /\ after \in Seq(Group) /\ Len(after) = Len(h) - j
      /\ \A l \in 1..(Len(h) - j) : after[l] = h[j + l]
  BY <1>1
<1>4. k \in 1..Len(before \o after)
  OBVIOUS
<1> SUFFICES \E l \in 1..Len(h) : (before \o after)[k] = h[l]
  OBVIOUS
<1> HIDE DEF before, after
<1>5. /\ Len(before \o after) = (i - 1) + (Len(h) - j)
      /\ (before \o after)[k] = IF k <= i - 1 THEN before[k] ELSE after[k - (i - 1)]
  <2>1. /\ Len(before \o after) = Len(before) + Len(after)
        /\ \A m \in 1..(Len(before) + Len(after)) :
             (before \o after)[m] = IF m <= Len(before) THEN before[m] ELSE after[m - Len(before)]
    <3>1. before \in Seq(Group) /\ after \in Seq(Group)
      BY <1>2, <1>3
    <3> QED
      BY <3>1, ConcatProperties
  <2> QED
    BY <1>2, <1>3, <1>4, <2>1
<1>6. CASE k <= i - 1
  BY <1>1, <1>2, <1>4, <1>5, <1>6
<1>7. CASE k > i - 1
  <2>1. k - (i - 1) \in 1..(Len(h) - j)
    BY <1>1, <1>4, <1>5, <1>7
  <2>2. (before \o after)[k] = h[j + (k - (i - 1))]
    <3>1. after[k - (i - 1)] = h[j + (k - (i - 1))]
      BY <1>3, <2>1
    <3>2. ~(k <= i - 1)
      BY <1>1, <1>4, <1>5, <1>7
    <3> QED
      BY <1>5, <3>1, <3>2
  <2>3. j + (k - (i - 1)) \in 1..Len(h)
    BY <1>1, <2>1
  <2> QED
    BY <2>2, <2>3
<1> QED
  BY <1>1, <1>4, <1>6, <1>7

\* The groups of a conversation that has grown.
LEMMA AppendGroups ==
  ASSUME TypeOK, NEW i \in 1..Len(Append(history, NewGroup))
  PROVE  \/ i \in 1..Len(history) /\ Append(history, NewGroup)[i] = history[i]
         \/ Append(history, NewGroup)[i] = NewGroup
BY DEF TypeOK, Generation

\* Initially there are no groups that would need consent.
LEMMA InitConsentInv == Init => ConsentInv
<1> SUFFICES ASSUME Init PROVE ConsentInv
  OBVIOUS
<1>1. \A h \in {messages, legacy} \ {Absent} : h = <<>> \/ h = <<OldGroup>>
  BY DEF Init, InitEmpty, InitStored
<1>2. Kept(<<>>) /\ Kept(<<OldGroup>>)
  BY DEF Kept, OldGroup
<1>3. /\ pc = "idle" /\ history = <<>> /\ staged = Absent /\ backup = Absent
  BY DEF Init, NoRun
<1> QED
  BY <1>1, <1>2, <1>3 DEF ConsentInv, NoUnconsentedSensitive, Kept, Committing

\* NoUnconsentedSensitive file by file.
LEMMA KeptFiles ==
  NoUnconsentedSensitive <=>
    \A h \in {messages, staged, backup, legacy} : h # Absent => Kept(h)
BY DEF NoUnconsentedSensitive, Kept

\* Every step keeps that sensitive groups have consent.
LEMMA NextConsentInv == Inv /\ Edges /\ ConsentInv /\ [Next]_vars => ConsentInv'
<1> SUFFICES ASSUME Inv, Edges, ConsentInv, [Next]_vars PROVE ConsentInv'
  OBVIOUS
<1>type. TypeOK
  BY DEF Inv
<1>files. /\ messages # Absent => Kept(messages)
          /\ staged # Absent => Kept(staged)
          /\ backup # Absent => Kept(backup)
          /\ legacy # Absent => Kept(legacy)
          /\ Kept(<<>>)
          /\ Persists => Kept(history)
          /\ pc \in Committing => Persists
  BY KeptFiles DEF ConsentInv, Kept
<1> DEFINE Goal == /\ messages' # Absent => Kept(messages')
                   /\ staged' # Absent => Kept(staged')
                   /\ backup' # Absent => Kept(backup')
                   /\ legacy' # Absent => Kept(legacy')
                   /\ Persists' => Kept(history')
                   /\ pc' \in Committing => Persists'
<1>goal. SUFFICES Goal
  BY DEF ConsentInv, NoUnconsentedSensitive, Kept
<1>grown. ASSUME Persists PROVE Kept(Append(history, NewGroup))
  <2> SUFFICES ASSUME NEW i \in 1..Len(Append(history, NewGroup))
               PROVE  LET g == Append(history, NewGroup)[i] IN g.authority = {} \/ g.consented
    BY DEF Kept
  <2>1. NewGroup.authority = {} \/ NewGroup.consented
    BY <1>grown DEF Persists, NewGroup
  <2> QED
    BY <1>type, <1>files, <1>grown, <2>1, AppendGroups DEF Kept
<1> USE DEF disk, run, observers, Committing, Persists
<1>1. ASSUME NEW auth \in SUBSET Declarable, NEW persist \in BOOLEAN,
             CreateDirectory(auth, persist)
      PROVE  Goal
  BY <1>1, <1>files DEF CreateDirectory, Edges
<1>2. ASSUME NEW auth \in SUBSET Declarable, NEW persist \in BOOLEAN,
             Resume(auth, persist)
      PROVE  Goal
  <2>1. Kept(Loadable)
    BY <1>files DEF Loadable
  <2>2. Kept(Window(Loadable))
    BY <1>type, <2>1, LoadableType, WindowGroups DEF Kept
  <2> QED
    BY <1>2, <1>files, <2>2 DEF Resume
<1>3. CASE Create
  BY <1>3, <1>files DEF Create, CreateMetadata, CreateMessages, CreateEvents
<1>4. CASE EphemeralGroup
  BY <1>4, <1>files DEF EphemeralGroup
<1>5. CASE BeginCheckpoint
  BY <1>5, <1>files, <1>grown DEF BeginCheckpoint
<1>6. CASE StageSegment
  <2>1. PICK n \in (Len(staged) + 1)..Len(history) : staged' = SubSeq(history, 1, n)
    BY <1>6 DEF StageSegment
  <2>2. Kept(SubSeq(history, 1, n))
    BY <1>6, <1>type, <1>files, PrefixGroups DEF StageSegment, TypeOK, Kept
  <2> QED
    BY <1>6, <1>files, <2>1, <2>2 DEF StageSegment
<1>7. CASE MoveAside \/ Install \/ CleanBackup \/ EventsAside \/ EventsInstall
            \/ WriteMetadata \/ RemoveLegacy
  BY <1>7, <1>files DEF MoveAside, Install, CleanBackup, EventsAside, EventsInstall,
     WriteMetadata, RemoveLegacy, AfterCommit
<1>8. CASE MarkSensitive
  BY <1>8, <1>files DEF MarkSensitive
<1>9. CASE FinishRun \/ Abandon
  BY <1>9, <1>files DEF FinishRun, Abandon, NoRun_Next
<1>10. CASE DeleteSegment
  <2>1. messages' # Absent => Kept(messages')
    <3> SUFFICES ASSUME messages' # Absent PROVE Kept(messages')
      OBVIOUS
    <3>1. messages \in Generation /\ Kept(messages)
      BY <1>10, <1>type, <1>files DEF DeleteSegment, TypeOK
    <3>2. PICK i \in 1..Len(messages) : \E j \in i..Len(messages) :
            messages' = SubSeq(messages, 1, i - 1) \o SubSeq(messages, j + 1, Len(messages))
      BY <1>10 DEF DeleteSegment
    <3>3. PICK j \in i..Len(messages) :
            messages' = SubSeq(messages, 1, i - 1) \o SubSeq(messages, j + 1, Len(messages))
      BY <3>2
    <3>4. \A k \in 1..Len(messages') : \E l \in 1..Len(messages) : messages'[k] = messages[l]
      BY <3>1, <3>3, CutGroups
    <3> QED
      BY <3>1, <3>4 DEF Kept
  <2> QED
    BY <1>10, <1>files, <2>1 DEF DeleteSegment
<1>11. CASE Delete /\ ~DeleteSegment
  BY <1>11, <1>files DEF Delete, StartDelete, DeleteFile, FilesDeleted,
     DeleteOtherDirectory, DeleteDirectory
<1>12. CASE UNCHANGED vars
  BY <1>12, <1>files DEF vars
<1> QED
  BY <1>1, <1>2, <1>3, <1>4, <1>5, <1>6, <1>7, <1>8, <1>9, <1>10, <1>11, <1>12
  DEF Next, Start, Commit

\* Groups of a sensitive run that did not consent to persist reach no file, over any chain
\* of runs that load one another's history.
THEOREM UnconsentedReachesNoFile == Spec => []NoUnconsentedSensitive
<1>1. Init => ConsentInv
  BY InitConsentInv
<1>2. Inv /\ HistoryInv /\ ConsentInv /\ [Next]_vars => ConsentInv'
  BY NextConsentInv DEF HistoryInv
<1>3. ConsentInv => NoUnconsentedSensitive
  BY DEF ConsentInv
<1> QED
  BY <1>1, <1>2, <1>3, HistoryInvariant, PTL DEF Spec
-----------------------------------------------------------------------------
(* The stored authority covers the history                                 *)

\* Of which groups of a history the stored exceptions auth need not answer for: those of
\* the run itself (own), until it has marked the session, and those of runs that were
\* stopped before they marked it.
Marked(h, auth, stopped) ==
  \A i \in 1..Len(h) : h[i].id \in stopped \/ CoversAll(auth, h[i].authority)

OwnOrMarked(h, own, auth, stopped) ==
  \A i \in 1..Len(h) :
    h[i].authority = own \/ h[i].id \in stopped \/ CoversAll(auth, h[i].authority)

\* This run's generation is in messages/, and the mark not yet certain.
Installed == {"clean_backup", "events_aside", "events_install", "metadata",
              "remove_legacy", "mark_sensitive"}

MarkInv ==
  /\ legacy # Absent => \A i \in 1..Len(legacy) : legacy[i].authority = {}
  /\ metadata # Absent /\ messages # Absent /\ pc \notin Installed =>
       Marked(messages, metadata.authority, exposed)
  /\ pc \in OfRun => OwnOrMarked(history, authority, metadata.authority, exposed)
  /\ pc \in Installed => messages = history

\* Initially there is no history to mark.
LEMMA InitMarkInv == Init => MarkInv
<1> SUFFICES ASSUME Init PROVE MarkInv
  OBVIOUS
<1>1. \A h \in {messages, legacy} \ {Absent} : h = <<>> \/ h = <<OldGroup>>
  BY DEF Init, InitEmpty, InitStored
<1>2. pc = "idle"
  BY DEF Init
<1> QED
  BY <1>1, <1>2 DEF MarkInv, Marked, CoversAll, OldGroup, OfRun, Installed, Committing

\* What a resume loads is answered for.
LEMMA LoadableMarked ==
  ASSUME MarkInv, metadata # Absent, pc \notin Installed
  PROVE  Marked(Loadable, metadata.authority, exposed)
BY DEF MarkInv, Marked, Loadable, CoversAll

\* What a run that has made its own groups must still answer for when it is stopped.
LEMMA AbandonMarks ==
  ASSUME TypeOK, pc \in Installed, metadata # Absent,
         OwnOrMarked(history, authority, metadata.authority, exposed)
  PROVE  Marked(history, metadata.authority, exposed \cup Unmarked)
<1> SUFFICES ASSUME NEW i \in 1..Len(history)
             PROVE  \/ history[i].id \in exposed \cup Unmarked
                    \/ CoversAll(metadata.authority, history[i].authority)
  BY DEF Marked
<1>1. CASE history[i].authority = authority /\ authority # {} /\ metadata.authority # authority
  BY <1>1 DEF Unmarked, Installed
<1>2. CASE history[i].authority = {}
  BY <1>2, CoversNothing
<1>3. CASE history[i].authority = authority /\ metadata.authority = authority
  BY <1>3, CoversItself DEF TypeOK
<1>4. CASE history[i].authority # authority
  BY <1>4 DEF OwnOrMarked
<1> QED
  BY <1>1, <1>2, <1>3, <1>4

\* After mark_sensitive this run answers for all it has loaded, and for itself.
LEMMA MarkedByRun ==
  ASSUME TypeOK, metadata # Absent, CoversAll(authority, metadata.authority),
         OwnOrMarked(history, authority, metadata.authority, exposed)
  PROVE  Marked(history, authority, exposed)
<1> SUFFICES ASSUME NEW i \in 1..Len(history), history[i].id \notin exposed
             PROVE  CoversAll(authority, history[i].authority)
  BY DEF Marked
<1>1. /\ authority \in SUBSET Declarable /\ metadata.authority \in SUBSET Declarable
      /\ history[i].authority \in SUBSET Declarable
  <2>1. history[i] \in Group
    BY DEF TypeOK, Generation
  <2> QED
    BY <2>1 DEF TypeOK, Group
<1>2. CASE history[i].authority = authority
  BY <1>1, <1>2, CoversItself
<1>3. CASE CoversAll(metadata.authority, history[i].authority)
  BY <1>1, <1>3, CoversTransitive
<1> QED
  BY <1>2, <1>3 DEF OwnOrMarked

\* Every step keeps that the mark covers the history.
LEMMA NextMarkInv == Inv /\ Edges /\ Renewed /\ MarkInv /\ [Next]_vars => MarkInv'
<1> SUFFICES ASSUME Inv, Edges, Renewed, MarkInv, [Next]_vars PROVE MarkInv'
  OBVIOUS
<1>type. TypeOK /\ CommitProtocol
  BY DEF Inv
<1> USE DEF MarkInv, disk, run, observers, OfRun, Committing, Installed
<1>1. ASSUME NEW auth \in SUBSET Declarable, NEW persist \in BOOLEAN,
             CreateDirectory(auth, persist)
      PROVE  MarkInv'
  BY <1>1 DEF CreateDirectory, Edges, NoHistory
<1>2. ASSUME NEW auth \in SUBSET Declarable, NEW persist \in BOOLEAN,
             Resume(auth, persist)
      PROVE  MarkInv'
  <2>1. Marked(Loadable, metadata.authority, exposed)
    BY <1>2, LoadableMarked DEF Resume
  <2>2. OwnOrMarked(Window(Loadable), auth, metadata.authority, exposed)
    BY <1>type, <2>1, LoadableType, WindowGroups DEF Marked, OwnOrMarked
  <2> QED
    BY <1>2, <2>2 DEF Resume
<1>3. CASE Create
  BY <1>3 DEF Create, CreateMetadata, CreateMessages, CreateEvents, Creating, Edges, NoHistory,
     Marked, OwnOrMarked
<1>4. CASE EphemeralGroup \/ BeginCheckpoint
  <2>1. OwnOrMarked(Append(history, NewGroup), authority, metadata.authority, exposed)
    <3> SUFFICES ASSUME NEW i \in 1..Len(Append(history, NewGroup))
                 PROVE  LET g == Append(history, NewGroup)[i]
                        IN  g.authority = authority \/ g.id \in exposed
                              \/ CoversAll(metadata.authority, g.authority)
      BY DEF OwnOrMarked
    <3>1. NewGroup.authority = authority
      BY DEF NewGroup
    <3> QED
      BY <1>4, <1>type, <3>1, AppendGroups DEF OwnOrMarked, EphemeralGroup, BeginCheckpoint
  <2> QED
    BY <1>4, <2>1 DEF EphemeralGroup, BeginCheckpoint
<1>5. CASE StageSegment \/ MoveAside
  BY <1>5 DEF StageSegment, MoveAside
<1>6. CASE Install
  BY <1>6, <1>type DEF Install, CommitProtocol
<1>7. CASE CleanBackup \/ EventsAside \/ EventsInstall
  BY <1>7 DEF CleanBackup, EventsAside, EventsInstall
<1>8. CASE WriteMetadata
  <2>1. metadata'.authority = metadata.authority
    BY <1>8, <1>type DEF WriteMetadata, TypeOK
  <2> QED
    BY <1>8, <2>1 DEF WriteMetadata
<1>9. CASE RemoveLegacy
  <2>1. CASE authority = {}
    <3>1. Marked(history, metadata.authority, exposed)
      BY <1>9, <2>1, CoversNothing DEF RemoveLegacy, Marked, OwnOrMarked
    <3> QED
      BY <1>9, <2>1, <3>1 DEF RemoveLegacy, AfterCommit
  <2>2. CASE authority # {}
    BY <1>9, <2>2 DEF RemoveLegacy, AfterCommit
  <2> QED
    BY <2>1, <2>2
<1>10. CASE MarkSensitive
  <2>1. metadata'.authority = authority
    BY <1>10, <1>type DEF MarkSensitive, TypeOK
  <2>2. Marked(history, authority, exposed)
    BY <1>10, <1>type, MarkedByRun DEF MarkSensitive, Renewed
  <2>3. OwnOrMarked(history, authority, authority, exposed)
    BY <2>2 DEF Marked, OwnOrMarked
  <2> QED
    BY <1>10, <2>1, <2>2, <2>3 DEF MarkSensitive
<1>11. CASE FinishRun
  BY <1>11 DEF FinishRun, NoRun_Next
<1>12. CASE Abandon
  <2>1. CASE pc \in Installed
    <3>1. Marked(history, metadata.authority, exposed \cup Unmarked)
      BY <1>type, <2>1, AbandonMarks DEF CommitProtocol
    <3> QED
      BY <1>12, <2>1, <3>1 DEF Abandon
  <2>2. CASE pc \notin Installed
    <3>1. metadata # Absent /\ messages # Absent =>
            Marked(messages, metadata.authority, exposed \cup Unmarked)
      BY <2>2 DEF Marked
    <3> QED
      BY <1>12, <3>1 DEF Abandon
  <2> QED
    BY <2>1, <2>2
<1>13. CASE Delete
  BY <1>13 DEF Delete, StartDelete, DeleteFile, FilesDeleted, DeleteSegment,
     DeleteOtherDirectory, DeleteDirectory, Edges
<1>14. CASE UNCHANGED vars
  BY <1>14 DEF vars
<1> QED
  BY <1>1, <1>2, <1>3, <1>4, <1>5, <1>6, <1>7, <1>8, <1>9, <1>10, <1>11, <1>12, <1>13, <1>14
  DEF Next, Start, Commit

\* Between the steps of a run, the stored exceptions cover those of every run whose groups
\* a resume would load, over any chain of runs, except of runs stopped before mark_sensitive.
THEOREM MarkCoversTheHistory == Spec => []MarkCoversHistory
<1>1. Init => MarkInv
  BY InitMarkInv
<1>2. Inv /\ HistoryInv /\ Renewed /\ MarkInv /\ [Next]_vars => MarkInv'
  BY NextMarkInv DEF HistoryInv
<1>3. MarkInv => MarkCoversHistory
  BY LoadableMarked DEF MarkCoversHistory, Marked, Installed
<1> QED
  BY <1>1, <1>2, <1>3, RenewedInvariant, PTL DEF Spec
=============================================================================
