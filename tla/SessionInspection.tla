-------------------------- MODULE SessionInspection --------------------------
(***************************************************************************)
(* `session show` and `session delete-all` (session_cli.py, sessions.py):  *)
(* they read session directories without a lease, name by name, while runs *)
(* replace messages/ and other processes delete.                           *)
(*                                                                         *)
(* A group is its number; messages/ is a function from file numbers to the *)
(* groups in the file.  The lease of a session is free or held: what goes  *)
(* wrong with it is the subject of SessionLease.                           *)
(***************************************************************************)
EXTENDS Integers, Sequences, FiniteSets, SequencesExt, Functions

CONSTANTS
  Sessions,      \* the names of sessions
  SegmentSize,   \* groups in a file (DEFAULT_MAX_SEGMENT_CHARS)
  ReplaySize,    \* groups a resume loads (DEFAULT_MAX_REPLAY_CHARS)
  NoMessages,    \* messages/ is not there
  MaxGroups,     \* bound: groups made in all sessions
  MaxLives       \* bound: how often a session is created

ASSUME SizesAssumption ==
  SegmentSize \in Nat \ {0} /\ ReplaySize \in Nat \ {0} /\ MaxGroups \in Nat /\ MaxLives \in Nat

ASSUME NoMessagesAssumption == NoMessages \notin Seq(Seq(Nat))

VARIABLES
  files,      \* per session: what is in its directory
  owner,      \* per session: the run that has its lease, or another process that deletes it
  groups,     \* how many groups were made
  lives,      \* per session: how often it was created
  command,    \* the command that inspects
  deletion,   \* per deleting process: where it is
  outcome,    \* what the command has said of each session
  noticed     \* for the properties: what happened to a session since the command began

made == <<groups, lives>>
inspection == <<files, owner, made, command, deletion, outcome, noticed>>

Deleters == {"command", "another"}
NoFiles == [directory |-> FALSE, metadata |-> FALSE, lock |-> FALSE, messages |-> NoMessages]
NoOwner == [pc |-> "none", history |-> <<>>]
NoDeletion == [pc |-> "none"]
NoPass == [names |-> <<>>, paths |-> <<>>, rows |-> <<>>]

\* A command: what it does, where it is, the session it reads, whether to count its rows, and how
\* far it is in messages/: names to test, files to read, rows read.
NewCommand(does, label) ==
  [does |-> does, pc |-> label, session |-> "none", loading |-> FALSE,
   pass |-> NoPass, todo |-> {}, listed |-> {}]

\* pack_segments, with files of equal size: each is filled before the next is begun.
Smaller(a, b) == IF a <= b THEN a ELSE b

Segments(history) ==
  [i \in 1..((Len(history) + SegmentSize - 1) \div SegmentSize) |->
     SubSeq(history, (i - 1) * SegmentSize + 1, Smaller(i * SegmentSize, Len(history)))]

\* The names in messages/, in the order in which they are read.
Listing_AsFound(messages) ==
  CHOOSE q \in [1..Cardinality(DOMAIN messages) -> DOMAIN messages] :
    \A i, j \in DOMAIN q : i < j => q[i] > q[j]

Listing(messages) ==
  CHOOSE q \in [1..Cardinality(DOMAIN messages) -> DOMAIN messages] :
    \A i, j \in DOMAIN q : i < j => q[i] < q[j]

\* The rows of these files, in the order of their names.
RowsOf(messages) ==
  IF messages = NoMessages THEN <<>>
  ELSE FlattenSeq([k \in 1..Cardinality(DOMAIN messages) |-> messages[Listing(messages)[k]]])

Newest(history) == SubSeq(history, Len(history) - Smaller(Len(history), ReplaySize) + 1, Len(history))

HeldByDeletion(s) == \E d \in Deleters : deletion[d].pc = "clear" /\ deletion[d].session = s
Busy(s) == owner[s].pc \notin {"none", "create"} \/ HeldByDeletion(s)

Notice(s, what) ==
  noticed' = [noticed EXCEPT ![s] = @ \cup what]

To(label) == [command EXCEPT !.pc = label]

-----------------------------------------------------------------------------
InspectionInit ==
  /\ files = [s \in Sessions |-> NoFiles]
  /\ owner = [s \in Sessions |-> NoOwner]
  /\ groups = 0 /\ lives = [s \in Sessions |-> 0]
  /\ command = NewCommand("none", "none")
  /\ deletion = [d \in Deleters |-> NoDeletion]
  /\ outcome = [s \in Sessions |-> "none"]
  /\ noticed = [s \in Sessions |-> {}]

-----------------------------------------------------------------------------
(* Runs                                                                    *)

Create(s) ==
  /\ ~files[s].directory /\ lives[s] < MaxLives
  /\ files' = [files EXCEPT ![s].directory = TRUE]
  /\ owner' = [owner EXCEPT ![s].pc = "create"]
  /\ lives' = [lives EXCEPT ![s] = @ + 1]
  /\ Notice(s, {"created"})
  /\ UNCHANGED <<groups, command, deletion, outcome>>

\* The command takes the lease when the files are there.
CreateFiles(s) ==
  /\ owner[s].pc = "create" /\ files[s].directory
  /\ files' = [files EXCEPT ![s] = [directory |-> TRUE, metadata |-> TRUE, lock |-> TRUE,
                                    messages |-> Segments(<<>>)]]
  /\ owner' = [owner EXCEPT ![s].pc = "running"]
  /\ UNCHANGED <<made, command, deletion, outcome, noticed>>

Resume(s) ==
  /\ ~Busy(s) /\ files[s].metadata
  /\ files' = [files EXCEPT ![s].lock = TRUE]
  /\ owner' = [owner EXCEPT ![s] = [pc |-> "running", history |-> Newest(RowsOf(files[s].messages))]]
  /\ UNCHANGED <<made, command, deletion, outcome, noticed>>

\* The staged files are complete; messages/ is renamed away.
MoveAside(s) ==
  /\ owner[s].pc = "running" /\ files[s].directory /\ groups < MaxGroups
  /\ owner' = [owner EXCEPT ![s] = [pc |-> "install", history |-> Append(@.history, groups + 1)]]
  /\ groups' = groups + 1
  /\ files' = [files EXCEPT ![s].messages = NoMessages]
  /\ LET longer == IsPrefix(RowsOf(files[s].messages), owner[s].history) IN
       Notice(s, {"swapped"} \cup (IF longer THEN {} ELSE {"shortened"}))
  /\ UNCHANGED <<lives, command, deletion, outcome>>

Install(s) ==
  /\ owner[s].pc = "install" /\ files[s].directory
  /\ files' = [files EXCEPT ![s].messages = Segments(owner[s].history)]
  /\ owner' = [owner EXCEPT ![s].pc = "running"]
  /\ Notice(s, {"swapped"})
  /\ UNCHANGED <<made, command, deletion, outcome>>

\* A run ends, fails or dies; what it moved aside stays there.
Stop(s) ==
  /\ owner[s].pc # "none"
  /\ owner' = [owner EXCEPT ![s] = NoOwner]
  /\ Notice(s, IF owner[s].pc = "install" THEN {"shortened"} ELSE {})
  /\ UNCHANGED <<files, made, command, deletion, outcome>>

\* A run that decided to resume before a deletion opens the lock file after it, gets the
\* lease, finds no metadata and gives up.
LateLock(s) ==
  /\ files[s].directory /\ ~files[s].metadata /\ ~files[s].lock
  /\ \E d \in Deleters : deletion[d].pc = "erase" /\ deletion[d].session = s
  /\ files' = [files EXCEPT ![s].lock = TRUE]
  /\ UNCHANGED <<owner, made, command, deletion, outcome, noticed>>

Runs == \E s \in Sessions :
  Create(s) \/ CreateFiles(s) \/ Resume(s) \/ MoveAside(s) \/ Install(s) \/ Stop(s) \/ LateLock(s)

-----------------------------------------------------------------------------
(* delete                                                                  *)

\* What the caller is told: delete-all collects errors of the store, not those of the system.
Told(d, s, what) ==
  /\ deletion' = [deletion EXCEPT ![d] = NoDeletion]
  /\ IF d = "command"
     THEN /\ outcome' = [outcome EXCEPT ![s] = what]
          /\ command' = IF what = "raised" THEN To("ended") ELSE command
     ELSE UNCHANGED <<outcome, command>>

\* The deletion of a session whose files are being made, which nothing holds yet, is left to
\* SessionLease: here it waits for them.
Delete(d, s) ==
  /\ deletion[d].pc = "none" /\ owner[s].pc # "create"
  /\ IF files[s].directory /\ ~Busy(s)
     THEN /\ deletion' = [deletion EXCEPT ![d] = [pc |-> "clear", session |-> s]]
          /\ files' = [files EXCEPT ![s].lock = TRUE]
          /\ UNCHANGED <<outcome, command>>
     ELSE Told(d, s, "failed") /\ UNCHANGED files
  /\ UNCHANGED <<owner, made, noticed>>

\* Under the lease the plain files go; then it is released and the rest is listed.
Clear(d) ==
  /\ deletion[d].pc = "clear"
  /\ LET s == deletion[d].session IN
       IF files[s].directory
       THEN /\ files' = [files EXCEPT ![s].metadata = FALSE]
            /\ deletion' = [deletion EXCEPT ![d] = [pc |-> "rest", session |-> s]]
            /\ Notice(s, {"deleted"})
            /\ UNCHANGED <<outcome, command>>
       ELSE /\ \E what \in {"failed", "raised"} : Told(d, s, what)
            /\ UNCHANGED <<files, noticed>>
  /\ UNCHANGED <<owner, made>>

ListRest(d) ==
  /\ deletion[d].pc = "rest"
  /\ LET s == deletion[d].session
         there == (IF files[s].lock THEN {"lock"} ELSE {})
                    \cup (IF files[s].messages # NoMessages THEN {"messages"} ELSE {})
                    \cup (IF files[s].metadata THEN {"metadata"} ELSE {}) IN
       IF files[s].directory
       THEN /\ deletion' = [deletion EXCEPT ![d] = [pc |-> "erase", session |-> s, rest |-> there]]
            /\ UNCHANGED <<outcome, command>>
       ELSE Told(d, s, "deleted")
  /\ UNCHANGED <<files, owner, made, noticed>>

\* unlink(missing_ok=True) of a file, or of what is in a directory, and rmdir.
Erase(d) ==
  /\ deletion[d].pc = "erase"
  /\ \E what \in deletion[d].rest, s \in {deletion[d].session} :
       LET partly == what = "messages" /\ files[s].messages # NoMessages /\ DOMAIN files[s].messages # {} IN
         /\ \/ partly /\ \E i \in DOMAIN files[s].messages :
                 files' = [files EXCEPT ![s].messages = Restrict(@, DOMAIN @ \ {i})]
            \/ ~partly /\ what = "messages" /\ files' = [files EXCEPT ![s].messages = NoMessages]
            \/ what = "metadata" /\ files' = [files EXCEPT ![s].metadata = FALSE]
            \/ what = "lock" /\ files' = [files EXCEPT ![s].lock = FALSE]
         /\ deletion' = [deletion EXCEPT ![d] = [pc |-> "erase", session |-> s,
                                                  rest |-> @.rest \ (IF partly THEN {} ELSE {what})]]
         /\ Notice(s, {"deleted"})
  /\ UNCHANGED <<owner, made, command, outcome>>

\* rmdir raises an OSError when another process removed the directory or put a file in it.
RemoveDirectory(d) ==
  /\ deletion[d].pc = "erase" /\ deletion[d].rest = {}
  /\ LET s == deletion[d].session
         empty == files[s].directory /\ ~files[s].metadata /\ ~files[s].lock /\ files[s].messages = NoMessages IN
       /\ Told(d, s, IF empty THEN "deleted" ELSE "raised")
       /\ files' = IF empty THEN [files EXCEPT ![s] = NoFiles] ELSE files
  /\ UNCHANGED <<owner, made, noticed>>

Deletions ==
  \/ \E s \in Sessions : files[s].directory /\ Delete("another", s)
  \/ \E d \in Deleters : Clear(d) \/ ListRest(d) \/ Erase(d) \/ RemoveDirectory(d)

-----------------------------------------------------------------------------
(* Reading one session                                                     *)

End(s, what) ==
  /\ outcome' = [outcome EXCEPT ![s] = what]
  /\ command' = To("ended")

\* The summary of a session is made; show goes on with a healthy one, delete-all with the next,
\* and what was read of this one is forgotten.
Summarized(s, health) ==
  CASE command.does = "show" /\ health = "ok" ->
         command' = To("load") /\ UNCHANGED outcome
    [] command.does = "show" /\ health # "ok" -> End(s, health)
    [] OTHER -> /\ command' = [To("next") EXCEPT !.listed = @ \cup {s}, !.pass = NoPass]
                /\ UNCHANGED outcome

\* The rows are there: to be thrown away by the validation, to be counted by show.
HaveRows(s, rows) ==
  IF command.loading THEN /\ outcome' = [outcome EXCEPT ![s] = "shown"]
                          /\ command' = [To("ended") EXCEPT !.pass = [NoPass EXCEPT !.rows = rows]]
  ELSE Summarized(s, "ok")

Reading(label) == command.pc = label /\ UNCHANGED <<files, owner, made, deletion, noticed>>

ReadMetadata ==
  /\ Reading("metadata")
  /\ LET s == command.session IN
       IF files[s].metadata
       THEN command' = To("look") /\ UNCHANGED outcome
       ELSE Summarized(s, "corrupt")

\* load_messages: the directory and the metadata again.
Load ==
  /\ Reading("load")
  /\ LET s == command.session IN
       IF files[s].directory /\ files[s].metadata
       THEN command' = [To("look") EXCEPT !.loading = TRUE] /\ UNCHANGED outcome
       ELSE End(s, "error")

Look ==
  /\ Reading("look")
  /\ LET s == command.session IN
       IF files[s].messages # NoMessages
       THEN command' = To("names") /\ UNCHANGED outcome
       ELSE HaveRows(s, <<>>)

\* iterdir raises an OSError when messages/ has gone since it was looked for.
ListNames ==
  /\ Reading("names")
  /\ LET s == command.session IN
       IF files[s].messages = NoMessages THEN End(s, "raised")
       ELSE /\ command' = [To("files") EXCEPT !.pass =
                             [NoPass EXCEPT !.names = Listing(files[s].messages)]]
            /\ UNCHANGED outcome

\* is_file of each name, in turn: one that is not there now is passed over.
TestName ==
  /\ Reading("files") /\ command.pass.names # <<>>
  /\ LET s == command.session
         pass == command.pass
         name == Head(pass.names)
         isFile == files[s].messages # NoMessages /\ name \in DOMAIN files[s].messages IN
       command' = [command EXCEPT !.pass =
                     [names |-> Tail(pass.names), rows |-> pass.rows,
                      paths |-> IF isFile THEN Append(pass.paths, name) ELSE pass.paths]]
  /\ UNCHANGED outcome

ReadFile ==
  /\ Reading("files") /\ command.pass.names = <<>>
  /\ LET s == command.session
         pass == command.pass IN
       IF pass.paths = <<>> THEN HaveRows(s, pass.rows)
       ELSE LET name == Head(pass.paths) IN
         IF files[s].messages # NoMessages /\ name \in DOMAIN files[s].messages
         THEN /\ command' = [command EXCEPT !.pass =
                               [names |-> <<>>, paths |-> Tail(pass.paths),
                                rows |-> pass.rows \o files[s].messages[name]]]
              /\ UNCHANGED outcome
         ELSE IF command.loading THEN End(s, "error") ELSE Summarized(s, "inaccessible")

ReadSession == ReadMetadata \/ Load \/ Look \/ ListNames \/ TestName \/ ReadFile

-----------------------------------------------------------------------------
(* The commands                                                            *)

Begin(fresh) ==
  /\ command.pc = "none"
  /\ command' = fresh
  /\ noticed' = [s \in Sessions |-> IF owner[s].pc = "install" THEN {"swapped"} ELSE {}]
  /\ UNCHANGED <<files, owner, made, deletion, outcome>>

Show(s) ==
  /\ files[s].directory
  /\ Begin([NewCommand("show", "metadata") EXCEPT !.session = s])

\* list_sessions: the names in the root, each summarized if it is still there.
StartDeleteAll ==
  Begin([NewCommand("delete-all", "next") EXCEPT !.todo = {s \in Sessions : files[s].directory}])

IsListed_HealthyOnly(s) == files[s].directory /\ files[s].metadata

IsListed(s) == files[s].directory

Summarize(s) ==
  /\ Reading("next") /\ s \in command.todo
  /\ LET label == IF IsListed(s) THEN "metadata" ELSE "next" IN
       command' = [[To(label) EXCEPT !.session = s] EXCEPT !.todo = @ \ {s}]
  /\ UNCHANGED outcome

StartDeleting ==
  /\ Reading("next") /\ command.todo = {}
  /\ command' = To("delete")
  /\ UNCHANGED outcome

DeleteListed(s) ==
  /\ command.pc = "delete"
  /\ s \in command.listed /\ outcome[s] = "none"
  /\ Delete("command", s)

EndDeleteAll ==
  /\ Reading("delete") /\ deletion["command"].pc = "none"
  /\ \A s \in command.listed : outcome[s] # "none"
  /\ command' = To("ended")
  /\ UNCHANGED outcome

Command ==
  \/ StartDeleteAll \/ StartDeleting \/ EndDeleteAll
  \/ \E s \in Sessions : Show(s) \/ Summarize(s) \/ DeleteListed(s)
  \/ ReadSession

\* What happens after the command has ended does not concern it.
InspectionNext == command.pc # "ended" /\ (Runs \/ Deletions \/ Command)

InspectionSpec == InspectionInit /\ [][InspectionNext]_inspection

-----------------------------------------------------------------------------
(* Properties                                                              *)

Latest(s) == IF owner[s].pc = "install" THEN owner[s].history ELSE RowsOf(files[s].messages)

\* What happened to the session while the command ran.
Was(what, s) == what \in noticed[s]

\* What show says as it ends, against the latest history of the session.
AnswerAgrees(s) ==
  LET rows == command'.pass.rows
      latest == Latest(s) IN
    IF outcome'[s] = "shown"
    THEN /\ ~Was("swapped", s) /\ ~Was("shortened", s) /\ ~Was("deleted", s) => rows = latest
         /\ ~Was("shortened", s) /\ ~Was("deleted", s) =>
              /\ \A i \in DOMAIN rows : \E j \in DOMAIN latest : rows[i] = latest[j]
              /\ \A i, j \in DOMAIN rows : i < j => rows[i] < rows[j]
    ELSE ~files[s].metadata \/ Was("swapped", s) \/ Was("deleted", s)

\* What `session show` counts are the groups of the session when nothing happens to it meanwhile;
\* when checkpoints replace messages/ meanwhile they are groups of the newest generation,
\* each once and in order, from whichever generations the files were (pack_segments leaves what
\* is full as it is), unless the history was cut to a resume window or deleted.  A session is
\* reported unhealthy, or the command raises, only if something happened to it.
ShowAgrees ==
  [][command.pc # "ended" /\ command'.pc = "ended" /\ command'.does = "show" =>
       AnswerAgrees(command.session)]_inspection

\* When delete-all ends without a failure, every session that was there when it began is gone, the
\* unreadable ones too, or was made again since, whatever runs and other deletions do.
SweepIsComplete ==
  command.pc = "ended" /\ command.does = "delete-all"
    /\ (\A s \in Sessions : outcome[s] \notin {"failed", "raised"})
  => \A s \in Sessions : files[s].directory => Was("created", s)
=============================================================================
