--------------------------- MODULE ConnectionsProofs ---------------------------
(***************************************************************************)
(* Proofs about Connections, for any processes, providers and number of    *)
(* connects.                                                               *)
(*                                                                         *)
(* The profile file and the keyring are two stores without a common        *)
(* commit.  What keeps them together is the lock of the profile file: who  *)
(* holds it is the only one between the two writes, and knows what to put  *)
(* back.  The invariant therefore says, label by label, what the holder of *)
(* the lock has written and what it remembers (InTransaction), and that    *)
(* outside of a transaction nothing is left half-way (Settled).            *)
(***************************************************************************)
EXTENDS Connections, TLAPS

Locked == {"lookup", "store", "save", "undo", "select", "delete_secret",
           "delete_profile", "set_verification"}

Unlocked == {"login", "logout", "read_profile", "read_selected", "confirm", "read_secret"}

\* Where a connect still carries the number of its profile and secret.
Carrying == {"login", "connect_wait", "codex_wait", "lookup", "store", "save", "undo",
             "select_wait", "select"}

\* Where it has stored neither.
Unstored == {"login", "connect_wait", "codex_wait", "lookup", "store"}

Verifying == {"read_secret", "verify_wait", "set_verification"}

StoreType ==
  /\ file \in [selected : Name \cup {NoName}, profiles : [Name -> Version],
               verified : [Name -> Version]]
  /\ keyring \in [ApiKey -> Version]
  /\ lock \in Proc \cup {Nobody}
  /\ versions \in Version
  /\ torn \subseteq ApiKey

Record ==
  [pc : Locked \cup Unlocked \cup Waiting \cup Resting,
   op : {"none", "connect", "disconnect", "logout", "verify"},
   name : Name \cup {NoName}, version : Version,
   before : Version, wasSelected : BOOLEAN]

Commands == [Proc -> Record]

CommandType == command \in Commands

\* A process is between Acquire and the end of its transaction exactly while it holds
\* the lock.
LockInv == \A p \in Proc : command[p].pc \in Locked <=> lock = p

\* A command that runs has a provider, of the kind its steps are for.
Named(p) ==
  /\ command[p].pc \notin Resting => command[p].name \in Name
  /\ command[p].pc \in {"connect_wait", "lookup", "store", "undo", "select_wait"} \cup Verifying
       => command[p].name \in ApiKey
  /\ command[p].pc \in {"login", "codex_wait"} => command[p].name = Codex

\* The number a connect carries is its own, and no other remembers it as an old one.
Numbered(p) ==
  /\ command[p].pc \in Carrying => command[p].version \in 1..versions
  /\ command[p].before <= versions

OwnNumber(p, q) ==
  /\ command[p].pc \in Carrying /\ command[q].pc \in Carrying
       => command[p].version # command[q].version
  /\ command[q].pc \in Unstored => command[p].before # command[q].version

Unused(p) ==
  command[p].pc \in Unstored =>
    /\ \A n \in Name : file.profiles[n] # command[p].version
    /\ \A n \in ApiKey : keyring[n] # command[p].version

\* What a connect or a disconnect has done to its provider when it stands before the
\* second of the two writes, and what it would put back.
InTransaction(p) ==
  LET n == command[p].name IN
  /\ command[p].pc \in {"connect_wait", "lookup"} => command[p].before = None
  /\ command[p].pc \in {"store", "save", "undo"} /\ n \in ApiKey =>
       /\ command[p].before # command[p].version
       /\ n \notin torn => command[p].before = file.profiles[n]
  /\ command[p].pc \in {"save", "undo"} /\ n \in ApiKey =>
       keyring[n] = command[p].version /\ file.profiles[n] # command[p].version
  /\ command[p].pc = "delete_profile" /\ n \in ApiKey => keyring[n] = None

\* Between the two writes for provider n.
Between(p, n) ==
  command[p].pc \in {"save", "undo", "delete_profile"} /\ command[p].name = n

Settled ==
  \A n \in ApiKey \ torn :
    (\A p \in Proc : ~Between(p, n)) => keyring[n] = file.profiles[n]

StoreInv ==
  /\ \A n \in Name : file.profiles[n] <= versions
  /\ \A n \in ApiKey : keyring[n] <= versions
  /\ \A p \in Proc : Named(p) /\ Numbered(p) /\ Unused(p) /\ InTransaction(p)
  /\ \A p \in Proc : \A q \in Proc \ {p} : OwnNumber(p, q)
  /\ Settled

ConnInv == StoreType /\ CommandType /\ LockInv /\ StoreInv /\ FileIsWellFormed
-----------------------------------------------------------------------------
(* Types and the lock                                                      *)

\* Initially nobody runs a command, and both stores are empty.
LEMMA InitConnInv == ConnectionsInit => ConnInv
<1> SUFFICES ASSUME ConnectionsInit PROVE ConnInv
  OBVIOUS
<1>1. StoreType /\ CommandType
  BY BoundAssumption DEF ConnectionsInit, StoreType, CommandType, Commands, Record, Idle, Rest, None, Version, Resting
<1>2. LockInv
  BY ProcAssumption DEF ConnectionsInit, LockInv, Idle, Rest, Locked
<1>3. StoreInv
  <2>1. \A p \in Proc : command[p].pc = "idle" /\ command[p].before = 0
    BY DEF ConnectionsInit, Idle, Rest, None
  <2>2. \A p \in Proc : Named(p) /\ Numbered(p) /\ Unused(p) /\ InTransaction(p)
    BY <2>1 DEF ConnectionsInit, Named, Numbered, Unused, InTransaction, Resting, Carrying, Unstored, Verifying
  <2>3. \A p \in Proc : \A q \in Proc \ {p} : OwnNumber(p, q)
    BY <2>1 DEF OwnNumber, Carrying, Unstored
  <2>4. Settled /\ \A n \in ApiKey : n \in Name
    BY DEF ConnectionsInit, Settled, Name
  <2> QED
    BY <2>2, <2>3, <2>4 DEF ConnectionsInit, StoreInv, None
<1>4. FileIsWellFormed
  BY DEF ConnectionsInit, FileIsWellFormed
<1> QED
  BY <1>1, <1>2, <1>3, <1>4 DEF ConnInv

\* Every action is a step of one process, whose record alone it replaces.
Step(p) == Start(p) \/ Acquire(p) \/ Proceed(p) \/ Crash(p)

OthersKeep(p) == \A q \in Proc \ {p} : command'[q] = command[q]

Label == Locked \cup Unlocked \cup Waiting \cup Resting

\* A step within a command: the label changes.
Moved(p, label) ==
  /\ command'[p].pc = label
  /\ command'[p].op = command[p].op
  /\ command'[p].name = command[p].name
  /\ command'[p].version = command[p].version
  /\ command'[p].before = command[p].before

\* The end of one: of the rest nothing is left.
Finished(p, label) ==
  /\ command'[p].pc = label
  /\ command'[p].name = NoName
  /\ command'[p].version = None
  /\ command'[p].before = None

\* Go changes the label of one process and nothing else of it.
LEMMA GoMoves ==
  ASSUME CommandType, NEW p \in Proc, NEW label \in Label, Go(p, label)
  PROVE  Moved(p, label) /\ OthersKeep(p) /\ CommandType'
BY DEF CommandType, Commands, Record, Go, Moved, OthersKeep, Label

\* A command that ends keeps nothing of what it knew.
LEMMA EndFinishes ==
  ASSUME CommandType, NEW p \in Proc, NEW label \in Resting, End(p, label)
  PROVE  Finished(p, label) /\ OthersKeep(p) /\ CommandType'
BY BoundAssumption DEF CommandType, Commands, Record, End, Rest, Finished, OthersKeep, Version, None

\* Nor does one that goes back to idle.
LEMMA IdleFinishes ==
  ASSUME CommandType, NEW p \in Proc, command' = [command EXCEPT ![p] = Idle]
  PROVE  Finished(p, "idle") /\ OthersKeep(p) /\ CommandType'
BY BoundAssumption DEF CommandType, Commands, Record, Idle, Rest, Finished, OthersKeep, Version, None, Resting

\* A command that begins knows its provider and the number it will store.
LEMMA BeginNames ==
  ASSUME CommandType, NEW p \in Proc, NEW op \in {"connect", "disconnect", "logout", "verify"},
         NEW n \in Name, NEW v \in Version, NEW label \in Label, Begin(p, op, n, v, label)
  PROVE  /\ command'[p].pc = label
         /\ command'[p].name = n
         /\ command'[p].version = v
         /\ command'[p].before = None
         /\ OthersKeep(p) /\ CommandType'
BY BoundAssumption DEF CommandType, Commands, Record, Begin, OthersKeep, Label, Version, None

\* Reading the secret before it is replaced is remembering what undo would put back.
LEMMA RecallMoves ==
  ASSUME CommandType, NEW p \in Proc, NEW b \in Version,
         command' = [command EXCEPT ![p].pc = "store", ![p].before = b]
  PROVE  /\ command'[p].pc = "store"
         /\ command'[p].name = command[p].name
         /\ command'[p].version = command[p].version
         /\ command'[p].before = b
         /\ OthersKeep(p) /\ CommandType'
<1> DEFINE f == [command EXCEPT ![p].pc = "store"]
<1>1. command' = [f EXCEPT ![p].before = b]
  OBVIOUS
<1>2. f \in Commands /\ \A q \in Proc \ {p} : f[q] = command[q]
  BY DEF CommandType, Commands, Record, Locked
<1>3. f[p].pc = "store" /\ f[p].name = command[p].name /\ f[p].version = command[p].version
  BY DEF CommandType, Commands, Record
<1> HIDE DEF f
<1>4. command' \in Commands
  <2>1. [f[p] EXCEPT !.before = b] \in Record
    BY <1>2 DEF Commands, Record
  <2>2. command' = [f EXCEPT ![p] = [f[p] EXCEPT !.before = b]]
    BY <1>1
  <2> QED
    BY <1>2, <2>1, <2>2 DEF Commands
<1>5. OthersKeep(p)
  BY <1>1, <1>2 DEF Commands, OthersKeep
<1>6. /\ command'[p].pc = f[p].pc /\ command'[p].name = f[p].name
      /\ command'[p].version = f[p].version /\ command'[p].before = b
  BY <1>1, <1>2 DEF Commands, Record
<1> QED
  BY <1>3, <1>4, <1>5, <1>6 DEF CommandType

\* A disconnect remembers whether its provider was selected.
LEMMA ReadMoves ==
  ASSUME CommandType, NEW p \in Proc, NEW b \in BOOLEAN,
         command' = [command EXCEPT ![p].pc = "delete_wait", ![p].wasSelected = b]
  PROVE  Moved(p, "delete_wait") /\ OthersKeep(p) /\ CommandType'
<1> DEFINE f == [command EXCEPT ![p].pc = "delete_wait"]
<1>1. command' = [f EXCEPT ![p].wasSelected = b]
  OBVIOUS
<1>2. f \in Commands /\ \A q \in Proc \ {p} : f[q] = command[q]
  BY DEF CommandType, Commands, Record, Waiting
<1>3. /\ f[p].pc = "delete_wait" /\ f[p].op = command[p].op /\ f[p].name = command[p].name
      /\ f[p].version = command[p].version /\ f[p].before = command[p].before
  BY DEF CommandType, Commands, Record
<1> HIDE DEF f
<1>4. command' \in Commands
  <2>1. [f[p] EXCEPT !.wasSelected = b] \in Record
    BY <1>2 DEF Commands, Record
  <2>2. command' = [f EXCEPT ![p] = [f[p] EXCEPT !.wasSelected = b]]
    BY <1>1
  <2> QED
    BY <1>2, <2>1, <2>2 DEF Commands
<1>5. OthersKeep(p)
  BY <1>1, <1>2 DEF Commands, OthersKeep
<1>6. /\ command'[p].pc = f[p].pc /\ command'[p].op = f[p].op
      /\ command'[p].name = f[p].name /\ command'[p].version = f[p].version
      /\ command'[p].before = f[p].before
  BY <1>1, <1>2 DEF Commands, Record
<1> QED
  BY <1>3, <1>4, <1>5, <1>6 DEF CommandType, Moved
-----------------------------------------------------------------------------
(* What a step of one process has to show                                  *)

\* The rest is as it was.
Alone(p) == OthersKeep(p) /\ CommandType'

StoresKept == UNCHANGED <<file, keyring, versions, torn>>

\* A process stays out of the transaction it is not in, and keeps the lock it holds,
\* when its label and the lock change together.
LEMMA LockFollows ==
  ASSUME CommandType, LockInv, NEW p \in Proc, Alone(p),
         \/ command'[p].pc \in Locked /\ lock' = p /\ lock \in {Nobody, p}
         \/ command'[p].pc \notin Locked /\ lock' = lock /\ command[p].pc \notin Locked
         \/ command'[p].pc \notin Locked /\ lock' = Nobody /\ lock \in {Nobody, p}
  PROVE  LockInv'
BY ProcAssumption DEF LockInv, Alone, OthersKeep

\* The end of a command that had nothing half-way, or marks it.
LEMMA FinishKeeps ==
  ASSUME ConnInv, NEW p \in Proc, NEW label \in Resting, Finished(p, label), Alone(p),
         UNCHANGED <<file, keyring, versions>>, torn \subseteq torn', torn' \subseteq ApiKey,
         \A n \in ApiKey \ torn' : ~Between(p, n)
  PROVE  StoreInv'
<1> USE BoundAssumption DEF ConnInv, StoreInv, StoreType, Version, None
<1>1. Named(p)' /\ Numbered(p)' /\ Unused(p)' /\ InTransaction(p)'
  BY DEF Finished, Named, Numbered, Unused, InTransaction, Resting, Carrying, Unstored, Verifying
<1>2. ASSUME NEW q \in Proc \ {p} PROVE (Named(q) /\ Numbered(q) /\ Unused(q) /\ InTransaction(q))'
  BY <1>2 DEF Alone, OthersKeep, Named, Numbered, Unused, InTransaction
<1>3. \A q \in Proc : \A r \in Proc \ {q} : OwnNumber(q, r)'
  BY DEF Finished, Alone, OthersKeep, OwnNumber, Resting, Carrying, Unstored, Numbered
<1>4. Settled'
  BY DEF Settled, Alone, OthersKeep, Between
<1> QED
  BY <1>1, <1>2, <1>3, <1>4

\* A step within a command that writes nothing.
LEMMA MoveKeeps ==
  ASSUME ConnInv, NEW p \in Proc, NEW label \in Label, Moved(p, label), Alone(p), StoresKept,
         label \in Carrying => command[p].pc \in Carrying,
         label \in Unstored => command[p].pc \in Unstored,
         Named(p)', InTransaction(p)',
         \A n \in ApiKey \ torn : Between(p, n) => Between(p, n)'
  PROVE  StoreInv'
<1> USE DEF ConnInv, StoreInv, StoresKept
<1>1. Numbered(p)' /\ Unused(p)'
  BY DEF Moved, Numbered, Unused
<1>2. ASSUME NEW q \in Proc \ {p} PROVE (Named(q) /\ Numbered(q) /\ Unused(q) /\ InTransaction(q))'
  BY <1>2 DEF Alone, OthersKeep, Named, Numbered, Unused, InTransaction
<1>3. \A q \in Proc : \A r \in Proc \ {q} : OwnNumber(q, r)'
  BY DEF Moved, Alone, OthersKeep, OwnNumber
<1>4. Settled'
  BY DEF Settled, Alone, OthersKeep, Between
<1> QED
  BY <1>1, <1>2, <1>3, <1>4
-----------------------------------------------------------------------------
(* The steps                                                               *)

\* The invariant holds again when a command ends without a write.
LEMMA FinishInv ==
  ASSUME ConnInv, NEW p \in Proc, NEW label \in Resting, Finished(p, label), Alone(p),
         StoresKept, \A n \in ApiKey \ torn : ~Between(p, n),
         \/ lock' = lock /\ command[p].pc \notin Locked
         \/ lock' = Nobody /\ command[p].pc \in Locked
  PROVE  ConnInv'
<1>1. LockInv'
  BY LockFollows DEF ConnInv, LockInv, Finished, Resting, Locked
<1>2. StoreInv'
  BY FinishKeeps DEF ConnInv, StoreType, StoresKept
<1> QED
  BY <1>1, <1>2, ProcAssumption DEF ConnInv, StoreType, StoresKept, Alone, FileIsWellFormed

\* Steps without the lock that go on or end.
LEMMA UnlockedStep ==
  ASSUME ConnInv, NEW p \in Proc,
         \/ Login(p) \/ Logout(p) \/ ReadProfile(p) \/ ReadSelected(p) \/ Confirm(p)
         \/ ReadSecret(p)
  PROVE  ConnInv'
<1>1. /\ StoresKept /\ lock' = lock
      /\ command[p].pc \in Unlocked
      /\ \A n \in Name : ~Between(p, n)
  BY DEF Login, Logout, ReadProfile, ReadSelected, Confirm, ReadSecret, At, StoresKept, Unlocked,
     Between
<1>2. CASE \E label \in Resting : End(p, label)
  <2>1. PICK label \in Resting : End(p, label)
    BY <1>2
  <2>2. Finished(p, label) /\ Alone(p)
    BY <2>1, EndFinishes DEF ConnInv, Alone
  <2> QED
    BY <1>1, <2>2, FinishInv DEF Name, Unlocked, Locked
<1>3. CASE ~\E label \in Resting : End(p, label)
  <2>1. \E label \in Unlocked \cup Waiting :
          /\ Moved(p, label) /\ Alone(p)
          /\ label \in Carrying => command[p].pc \in Carrying
          /\ label \in Unstored => command[p].pc \in Unstored
          /\ label \notin {"connect_wait", "lookup", "store", "undo", "select_wait"}
          /\ label \in Verifying => command[p].pc \in Verifying
          /\ label \in {"login", "codex_wait"} => command[p].pc = "login"
    <3>1. CASE ReadSelected(p)
      <4>1. Moved(p, "delete_wait") /\ Alone(p)
        BY <3>1, ReadMoves DEF ReadSelected, ConnInv, Alone
      <4> QED
        BY <4>1 DEF Waiting, Carrying, Unstored, Verifying
    <3>2. CASE Login(p) \/ Logout(p) \/ ReadProfile(p) \/ ReadSecret(p)
      <4>1. PICK label \in {"codex_wait", "read_profile", "read_selected", "verify_wait"} :
              /\ Go(p, label)
              /\ label = "codex_wait" => command[p].pc = "login"
              /\ label = "verify_wait" => command[p].pc = "read_secret"
        BY <1>3, <3>2 DEF Login, Logout, ReadProfile, ReadSecret, At, Resting
      <4>2. Moved(p, label) /\ Alone(p)
        BY <4>1, GoMoves DEF ConnInv, Alone, Label, Unlocked, Waiting
      <4> QED
        BY <4>1, <4>2 DEF Unlocked, Waiting, Carrying, Unstored, Verifying
    <3> QED
      BY <1>3, <3>1, <3>2 DEF Confirm, Resting
  <2>2. PICK label \in Unlocked \cup Waiting :
          /\ Moved(p, label) /\ Alone(p)
          /\ label \in Carrying => command[p].pc \in Carrying
          /\ label \in Unstored => command[p].pc \in Unstored
          /\ label \notin {"connect_wait", "lookup", "store", "undo", "select_wait"}
          /\ label \in Verifying => command[p].pc \in Verifying
          /\ label \in {"login", "codex_wait"} => command[p].pc = "login"
    BY <2>1
  <2>3. Named(p)' /\ InTransaction(p)'
    BY <1>1, <2>2 DEF ConnInv, StoreInv, Moved, Named, InTransaction, Unlocked, Waiting, Resting
  <2>4. StoreInv'
    BY <1>1, <2>2, <2>3, MoveKeeps DEF Label, Name
  <2>5. LockInv'
    BY <1>1, <2>2, LockFollows DEF ConnInv, Moved, Unlocked, Waiting, Locked
  <2> QED
    BY <1>1, <2>2, <2>4, <2>5 DEF ConnInv, StoreType, StoresKept, Alone, FileIsWellFormed
<1> QED
  BY <1>2, <1>3

\* The lock goes to one that waits for it: the transaction it opens has written nothing.
LEMMA AcquireStep ==
  ASSUME ConnInv, NEW p \in Proc, Acquire(p)
  PROVE  ConnInv'
<1>1. PICK label \in Locked :
        /\ Go(p, label) /\ lock = Nobody /\ lock' = p /\ StoresKept
        /\ \/ command[p].pc = "connect_wait" /\ label = "lookup"
           \/ command[p].pc = "codex_wait" /\ label = "save"
           \/ command[p].pc = "select_wait" /\ label = "select"
           \/ command[p].pc = "delete_wait" /\ label = "delete_secret"
           \/ command[p].pc = "verify_wait" /\ label = "set_verification"
  BY DEF Acquire, Body, Waiting, Locked, StoresKept
<1>2. Moved(p, label) /\ Alone(p)
  BY <1>1, GoMoves DEF ConnInv, Alone, Label
<1>3. Named(p)' /\ InTransaction(p)'
  BY <1>1, <1>2, NameAssumption
     DEF ConnInv, StoreInv, Moved, Named, InTransaction, Resting, Verifying
<1>4. StoreInv'
  BY <1>1, <1>2, <1>3, MoveKeeps DEF Label, Carrying, Unstored, Between
<1>5. LockInv'
  BY <1>1, <1>2, LockFollows DEF ConnInv, Moved
<1> QED
  BY <1>1, <1>2, <1>4, <1>5 DEF ConnInv, StoreType, StoresKept, Alone, FileIsWellFormed
\* What the start of a command leaves: a label outside of any transaction.
Starting(p, n, v, label) ==
  /\ command'[p].pc = label /\ command'[p].name = n /\ command'[p].version = v
  /\ command'[p].before = None
  /\ Alone(p)
  /\ label \in {"login", "connect_wait", "read_profile", "logout", "read_secret"}
  /\ label \in {"connect_wait", "read_secret"} => n \in ApiKey
  /\ label = "login" => n = Codex
  /\ IF label \in {"login", "connect_wait"}
     THEN versions' = versions + 1 /\ v = versions'
     ELSE versions' = versions

\* Starting a command gives out a number nobody carries, and writes nothing.
LEMMA StartStep ==
  ASSUME ConnInv, NEW p \in Proc, Start(p)
  PROVE  ConnInv'
<1>1. /\ UNCHANGED <<file, keyring, lock, torn>>
      /\ command[p].pc \in Resting
      /\ versions' \in Version
  BY BoundAssumption DEF Start, StartConnect, StartDisconnect, StartVerify, StartLogout, ConnInv,
     StoreType, Version
<1>2. \E n \in Name, v \in Version, label \in Label : Starting(p, n, v, label)
  <2>1. ASSUME NEW n \in Name, StartConnect(p, n)
        PROVE  \E v \in Version, label \in Label : Starting(p, n, v, label)
    <3> DEFINE label == IF n = Codex THEN "login" ELSE "connect_wait"
    <3>1. Begin(p, "connect", n, versions', label) /\ versions' = versions + 1
      BY <2>1 DEF StartConnect
    <3>2. label \in Label
      BY DEF Label, Unlocked, Waiting
    <3>3. /\ command'[p].pc = label /\ command'[p].name = n /\ command'[p].version = versions'
          /\ command'[p].before = None
          /\ Alone(p)
      BY <1>1, <3>1, <3>2, BeginNames DEF ConnInv, Alone
    <3> QED
      BY <1>1, <3>1, <3>2, <3>3 DEF Starting, Name
  <2>2. ASSUME NEW n \in Name, StartDisconnect(p, n)
        PROVE  \E v \in Version, label \in Label : Starting(p, n, v, label)
    <3>1. None \in Version /\ "read_profile" \in Label
      BY BoundAssumption DEF None, Version, Label, Unlocked
    <3> QED
      BY <2>2, <3>1, BeginNames DEF StartDisconnect, ConnInv, Alone, Starting
  <2>3. ASSUME NEW n \in ApiKey, StartVerify(p, n)
        PROVE  \E v \in Version, label \in Label : Starting(p, n, v, label)
    <3>1. file.profiles[n] \in Version /\ "read_secret" \in Label /\ n \in Name
      BY DEF ConnInv, StoreType, Label, Unlocked, Name
    <3> QED
      BY <2>3, <3>1, BeginNames DEF StartVerify, ConnInv, Alone, Starting
  <2>4. ASSUME StartLogout(p)
        PROVE  \E v \in Version, label \in Label : Starting(p, Codex, v, label)
    <3>1. None \in Version /\ "logout" \in Label /\ Codex \in Name
      BY BoundAssumption DEF None, Version, Label, Unlocked, Name
    <3> QED
      BY <2>4, <3>1, BeginNames DEF StartLogout, ConnInv, Alone, Starting
  <2> QED
    BY <2>1, <2>2, <2>3, <2>4 DEF Start, Name
<1>3. PICK n \in Name, v \in Version, label \in Label : Starting(p, n, v, label)
  BY <1>2
<1> USE DEF None
<1>4. Named(p)' /\ InTransaction(p)' /\ Numbered(p)' /\ Unused(p)'
  BY <1>1, <1>3 DEF ConnInv, StoreInv, StoreType, Version, Starting, Named, InTransaction,
     Numbered, Unused, Carrying, Unstored, Resting, Verifying
<1>5. ASSUME NEW q \in Proc \ {p} PROVE (Named(q) /\ Numbered(q) /\ Unused(q) /\ InTransaction(q))'
  <2>1. command[q].before \in Version
    BY DEF ConnInv, CommandType, Commands, Record
  <2> QED
    BY <1>1, <1>3, <2>1 DEF ConnInv, StoreInv, StoreType, Version, Starting, Alone, OthersKeep,
       Named, Numbered, Unused, InTransaction
<1>6. ASSUME NEW q \in Proc, NEW r \in Proc \ {q} PROVE OwnNumber(q, r)'
  <2>1. command[q].before \in Version /\ command[r].before \in Version
    BY DEF ConnInv, CommandType, Commands, Record
  <2>2. Numbered(q) /\ Numbered(r) /\ OwnNumber(q, r)
    BY DEF ConnInv, StoreInv
  <2> QED
    BY <1>1, <1>3, <2>1, <2>2 DEF ConnInv, StoreType, Version, Starting, Alone, OthersKeep,
       Numbered, OwnNumber, Carrying, Unstored
<1>7. Settled'
  BY <1>1, <1>3 DEF ConnInv, StoreInv, Starting, Alone, OthersKeep, Settled, Between, Resting
<1>8. StoreInv'
  BY <1>1, <1>3, <1>4, <1>5, <1>6, <1>7 DEF ConnInv, StoreInv, StoreType, Version, Starting
<1>9. LockInv'
  BY <1>1, <1>3, LockFollows DEF ConnInv, Starting, Resting, Locked
<1> QED
  BY <1>1, <1>3, <1>8, <1>9 DEF ConnInv, StoreType, Starting, Alone, FileIsWellFormed
\* An exception inside a transaction before anything is half-way.
LEMMA RaiseInv ==
  ASSUME ConnInv, NEW p \in Proc, Raise(p), StoresKept, command[p].pc \in Locked,
         \A n \in ApiKey \ torn : ~Between(p, n)
  PROVE  ConnInv'
<1>1. Finished(p, "raised") /\ Alone(p)
  BY EndFinishes DEF Raise, ConnInv, Alone, Resting
<1> QED
  BY <1>1, FinishInv DEF Raise, Resting

\* The old secret, which a failed connect puts back, is that of the stored profile and
\* not the one it brings.
LEMMA LookupStep ==
  ASSUME ConnInv, NEW p \in Proc, Lookup(p)
  PROVE  ConnInv'
<1>1. /\ command[p].pc = "lookup" /\ StoresKept
      /\ \A n \in Name : ~Between(p, n)
      /\ command[p].name \in ApiKey /\ lock = p
  BY DEF Lookup, At, StoresKept, Between, ConnInv, LockInv, StoreInv, Named, Locked
<1>2. CASE Raise(p)
  BY <1>1, <1>2, RaiseInv DEF Locked, Name
<1>3. CASE ~Raise(p)
  <2> DEFINE n == command[p].name
  <2>1. lock' = lock
    BY <1>3 DEF Lookup
  <2>2. /\ command'[p].pc = "store"
        /\ command'[p].name = n
        /\ command'[p].version = command[p].version
        /\ Alone(p)
        /\ \/ file.profiles[n] = None /\ command'[p].before = command[p].before
           \/ command'[p].before = keyring[n]
    <3>1. CASE Profile(p) = None /\ Go(p, "store")
      <4>1. Moved(p, "store") /\ Alone(p)
        BY <3>1, GoMoves DEF ConnInv, Alone, Label, Locked
      <4> QED
        BY <3>1, <4>1 DEF Moved, Profile
    <3>2. CASE command' = [command EXCEPT ![p].pc = "store", ![p].before = keyring[n]]
      BY <1>1, <3>2, RecallMoves DEF ConnInv, StoreType, Alone
    <3> QED
      BY <1>3, <3>1, <3>2 DEF Lookup
  <2>3. n \notin torn => keyring[n] = file.profiles[n]
    BY <1>1 DEF ConnInv, StoreInv, Settled, Between, LockInv, Locked
  <2>4. Named(p)' /\ Numbered(p)' /\ Unused(p)' /\ InTransaction(p)'
    BY <1>1, <2>2, <2>3 DEF ConnInv, StoreInv, StoresKept, Named, Numbered, Unused,
       InTransaction, Resting, Carrying, Unstored, Verifying, None
  <2>5. ASSUME NEW q \in Proc \ {p}
        PROVE  (Named(q) /\ Numbered(q) /\ Unused(q) /\ InTransaction(q))'
    BY <1>1, <2>2 DEF ConnInv, StoreInv, StoresKept, Alone, OthersKeep, Named, Numbered, Unused,
       InTransaction
  <2>6. ASSUME NEW q \in Proc, NEW r \in Proc \ {q} PROVE OwnNumber(q, r)'
    <3>1. OwnNumber(q, r) /\ Unused(r)
      BY DEF ConnInv, StoreInv
    <3> QED
      BY <1>1, <2>2, <3>1 DEF Alone, OthersKeep, OwnNumber, Unused, Carrying, Unstored
  <2>7. Settled'
    BY <1>1, <2>2 DEF ConnInv, StoreInv, StoresKept, Settled, Between, Alone, OthersKeep
  <2>8. StoreInv'
    BY <1>1, <2>4, <2>5, <2>6, <2>7 DEF ConnInv, StoreInv, StoresKept
  <2>9. LockInv'
    BY <1>1, <2>1, <2>2, LockFollows DEF ConnInv, Locked
  <2> QED
    BY <1>1, <2>1, <2>2, <2>8, <2>9 DEF ConnInv, StoreType, StoresKept, Alone, FileIsWellFormed
<1> QED
  BY <1>2, <1>3

\* The first write: the secret.  From here on only this process knows the old one.
LEMMA StoreStep ==
  ASSUME ConnInv, NEW p \in Proc, Store(p)
  PROVE  ConnInv'
<1>1. /\ command[p].pc = "store" /\ UNCHANGED <<file, versions, torn>>
      /\ \A n \in Name : ~Between(p, n)
      /\ command[p].name \in ApiKey /\ command[p].name \in Name /\ lock = p
  BY DEF Store, At, Between, ConnInv, LockInv, StoreInv, Named, Locked, Name
<1>2. CASE Raise(p) /\ UNCHANGED keyring
  BY <1>1, <1>2, RaiseInv DEF Locked, Name, StoresKept
<1>3. CASE ~(Raise(p) /\ UNCHANGED keyring)
  <2>0. PICK n \in ApiKey : n = command[p].name
    BY <1>1
  <2>1. /\ lock' = lock /\ Go(p, "save")
        /\ keyring' = [keyring EXCEPT ![n] = command[p].version]
    BY <1>3, <2>0 DEF Store
  <2>2. Moved(p, "save") /\ Alone(p)
    BY <2>1, GoMoves DEF ConnInv, Alone, Label, Locked
  <2>3. StoreType'
    BY <1>1, <2>0, <2>1 DEF ConnInv, StoreType, CommandType, Commands, Record
  <2>4. Named(p)' /\ Numbered(p)' /\ Unused(p)' /\ InTransaction(p)'
    BY <1>1, <2>0, <2>1, <2>2 DEF ConnInv, StoreInv, StoreType, Moved, Named, Numbered, Unused,
       InTransaction, Resting, Carrying, Unstored, Verifying
  <2>5. ASSUME NEW q \in Proc \ {p}
        PROVE  (Named(q) /\ Numbered(q) /\ Unused(q) /\ InTransaction(q))'
    <3>1. command'[q] = command[q] /\ command[q].pc \notin Locked
      BY <1>1, <2>2 DEF Alone, OthersKeep, ConnInv, LockInv
    <3>2. command[q].pc \in Unstored => command[q].version # command[p].version
      BY <1>1 DEF ConnInv, StoreInv, OwnNumber, Unstored, Carrying
    <3>3. InTransaction(q)'
      BY <3>1 DEF ConnInv, StoreInv, InTransaction, Locked
    <3>4. Unused(q)'
      BY <1>1, <2>0, <2>1, <3>1, <3>2 DEF ConnInv, StoreInv, StoreType, Unused
    <3> QED
      BY <1>1, <3>1, <3>3, <3>4 DEF ConnInv, StoreInv, Named, Numbered
  <2>6. ASSUME NEW q \in Proc, NEW r \in Proc \ {q} PROVE OwnNumber(q, r)'
    <3>1. OwnNumber(q, r)
      BY DEF ConnInv, StoreInv
    <3> QED
      BY <1>1, <2>2, <3>1 DEF Moved, Alone, OthersKeep, OwnNumber, Carrying, Unstored
  <2>7. Settled'
    <3>1. Between(p, n)'
      BY <2>0, <2>2 DEF Moved, Between
    <3>2. \A m \in ApiKey \ {n} : keyring'[m] = keyring[m] /\ ~Between(p, m)'
      BY <1>1, <2>0, <2>1, <2>2 DEF ConnInv, StoreType, Moved, Between
    <3>3. \A m \in ApiKey : m \in Name /\ ~Between(p, m)
      BY <1>1 DEF Name
    <3>4. ASSUME NEW m \in ApiKey \ torn, \A q \in Proc : ~Between(q, m)'
          PROVE  keyring'[m] = file.profiles[m]
      <4>1. m # n
        BY <3>1, <3>4
      <4>2. \A q \in Proc : ~Between(q, m)
        BY <2>2, <3>3, <3>4 DEF Between, Alone, OthersKeep
      <4> QED
        BY <3>2, <4>1, <4>2 DEF ConnInv, StoreInv, Settled
    <3> QED
      BY <1>1, <3>4 DEF Settled
  <2>8. \A m \in ApiKey : keyring'[m] <= versions'
    BY <1>1, <2>0, <2>1 DEF ConnInv, StoreInv, StoreType, Numbered, Carrying, Version
  <2>9. StoreInv'
    BY <1>1, <2>4, <2>5, <2>6, <2>7, <2>8 DEF ConnInv, StoreInv
  <2>10. LockInv'
    BY <1>1, <2>0, <2>1, <2>2, LockFollows DEF ConnInv, Locked, Moved
  <2> QED
    BY <1>1, <2>0, <2>1, <2>2, <2>3, <2>9, <2>10 DEF ConnInv, Alone, FileIsWellFormed
<1> QED
  BY <1>2, <1>3
\* The holder of the lock is alone in a transaction.
LEMMA AloneInTransaction ==
  ASSUME ConnInv, NEW p \in Proc, lock = p, NEW q \in Proc \ {p}
  PROVE  command[q].pc \notin Locked /\ \A n \in Name : ~Between(q, n)
BY DEF ConnInv, LockInv, Between, Locked

\* What the others know of the stores is not about the provider that a transaction
\* changes: their connects are not stored yet, and have numbers of their own.
LEMMA OthersInTransaction ==
  ASSUME ConnInv, NEW p \in Proc, lock = p, Alone(p), UNCHANGED versions,
         \A n \in Name : \/ file'.profiles[n] \in {file.profiles[n], None}
                         \/ command[p].pc \in Carrying /\ file'.profiles[n] = command[p].version,
         \A n \in ApiKey : keyring'[n] \in {keyring[n], None, command[p].before},
         NEW q \in Proc \ {p}
  PROVE  (Named(q) /\ Numbered(q) /\ Unused(q) /\ InTransaction(q))'
<1>1. command'[q] = command[q] /\ command[q].pc \notin Locked
  BY AloneInTransaction DEF Alone, OthersKeep
<1>2. InTransaction(q)'
  BY <1>1 DEF ConnInv, StoreInv, InTransaction, Locked
<1>3. OwnNumber(p, q) /\ Unused(q) /\ Named(q) /\ Numbered(q)
  BY DEF ConnInv, StoreInv
<1>4. command[q].pc \in Unstored =>
        /\ command[q].version # None /\ command[q].version # command[p].before
        /\ command[p].pc \in Carrying => command[q].version # command[p].version
  BY <1>3 DEF ConnInv, StoreType, Version, None, OwnNumber, Numbered, Unstored, Carrying
<1>5. Unused(q)'
  BY <1>1, <1>3, <1>4 DEF Unused
<1> QED
  BY <1>1, <1>2, <1>3, <1>5 DEF Named, Numbered
\* A transaction changes the stores of one provider.  What has to be shown of it is about
\* that provider; the others are as before.
LEMMA OneProvider ==
  ASSUME ConnInv, NEW p \in Proc, Alone(p), torn' \subseteq ApiKey,
         NEW n \in Name, n = command[p].name, command'[p].name \in {n, NoName},
         \A m \in ApiKey \ {n} :
           /\ keyring'[m] = keyring[m] /\ file'.profiles[m] = file.profiles[m]
           /\ m \in torn <=> m \in torn',
         n \in ApiKey \ torn' /\ ~Between(p, n)' => keyring'[n] = file'.profiles[n]
  PROVE  Settled'
<1>1. ASSUME NEW m \in ApiKey \ torn', m # n, \A q \in Proc : ~Between(q, m)'
      PROVE  keyring'[m] = file'.profiles[m]
  <2>1. \A q \in Proc : ~Between(q, m)
    BY <1>1 DEF Between, Alone, OthersKeep
  <2> QED
    BY <1>1, <2>1 DEF ConnInv, StoreInv, Settled
<1> QED
  BY <1>1 DEF Settled

\* Every connect keeps its own number when one process goes on, ends or forgets.
LEMMA NumbersKeep ==
  ASSUME ConnInv, NEW p \in Proc, Alone(p),
         command'[p].pc \in Carrying =>
           command[p].pc \in Carrying /\ command'[p].version = command[p].version,
         command'[p].pc \notin Unstored,
         command'[p].before \in {command[p].before, None},
         NEW q \in Proc, NEW r \in Proc \ {q}
  PROVE  OwnNumber(q, r)'
<1>1. OwnNumber(q, r) /\ Numbered(r)
  BY DEF ConnInv, StoreInv
<1>2. command[r].pc \in Unstored => command[r].version # None
  BY <1>1 DEF Numbered, Unstored, Carrying, None, ConnInv, StoreType, Version
<1> QED
  BY <1>1, <1>2 DEF Alone, OthersKeep, OwnNumber
\* A step of the holder of the lock that goes on with a command or ends it.
GoesOn(p) ==
  \E label \in Label :
    /\ Moved(p, label) \/ (label \in Resting /\ Finished(p, label))
    /\ label \notin Unstored
    /\ lock' = IF label \in Locked THEN p ELSE Nobody
    /\ label \in Carrying => command[p].pc \in Carrying

\* What it writes: the number of its connect, nothing, or the old secret.
Writes(p, n) ==
  /\ \/ file'.profiles[n] \in {file.profiles[n], None}
     \/ command[p].pc \in Carrying /\ file'.profiles[n] = command[p].version
  /\ n \in ApiKey => keyring'[n] \in {keyring[n], None, command[p].before}
  /\ \A m \in Name \ {n} :
       /\ file'.profiles[m] = file.profiles[m]
       /\ m \in ApiKey => keyring'[m] = keyring[m] /\ (m \in torn <=> m \in torn')

\* Every step within a transaction keeps the invariant.
LEMMA TransactionInv ==
  ASSUME ConnInv, NEW p \in Proc, lock = p, NEW n \in Name, n = command[p].name,
         GoesOn(p), Alone(p), StoreType', UNCHANGED versions, Writes(p, n),
         Named(p)', InTransaction(p)', FileIsWellFormed',
         n \in ApiKey \ torn' /\ ~Between(p, n)' => keyring'[n] = file'.profiles[n]
  PROVE  ConnInv'
<1>1. PICK label \in Label :
        /\ Moved(p, label) \/ (label \in Resting /\ Finished(p, label))
        /\ label \notin Unstored
        /\ lock' = IF label \in Locked THEN p ELSE Nobody
        /\ label \in Carrying => command[p].pc \in Carrying
  BY DEF GoesOn
<1>2. LockInv'
  BY <1>1, LockFollows DEF Moved, Finished, ConnInv
<1>3. Settled'
  BY <1>1, OneProvider DEF Moved, Finished, Writes, Name, StoreType
<1>4. \A m \in ApiKey : m \in Name
  BY DEF Name
<1>5. Numbered(p) /\ None <= versions
  BY DEF ConnInv, StoreInv, StoreType, Version, None
<1>6. Numbered(p)'
  BY <1>1, <1>5 DEF Numbered, Moved, Finished, None, Carrying, Resting
<1>7. Unused(p)'
  BY <1>1 DEF Unused, Moved, Finished
<1>8. ASSUME NEW q \in Proc \ {p} PROVE (Named(q) /\ Numbered(q) /\ Unused(q) /\ InTransaction(q))'
  <2>1. \A m \in Name : \/ file'.profiles[m] \in {file.profiles[m], None}
                        \/ command[p].pc \in Carrying /\ file'.profiles[m] = command[p].version
    BY DEF Writes
  <2>2. \A m \in ApiKey : keyring'[m] \in {keyring[m], None, command[p].before}
    BY <1>4 DEF Writes
  <2> QED
    BY <2>1, <2>2, OthersInTransaction
<1>9. ASSUME NEW q \in Proc, NEW r \in Proc \ {q} PROVE OwnNumber(q, r)'
  <2>1. /\ command'[p].pc = label
        /\ command'[p].before \in {command[p].before, None}
        /\ command'[p].pc \in Carrying => command'[p].version = command[p].version
    BY <1>1 DEF Moved, Finished, Carrying, Resting
  <2> QED
    BY <1>1, <2>1, NumbersKeep
<1>10. (\A m \in Name : file.profiles[m] <= versions)' /\ (\A m \in ApiKey : keyring[m] <= versions)'
  BY <1>4, <1>5 DEF ConnInv, StoreInv, Writes, Numbered, StoreType, Version
<1> QED
  BY <1>2, <1>3, <1>6, <1>7, <1>8, <1>9, <1>10 DEF ConnInv, StoreInv, Alone
\* How the steps below go on or end.
LEMMA GoOn ==
  ASSUME ConnInv, NEW p \in Proc, NEW label \in Label, Go(p, label), label \notin Unstored,
         lock' = IF label \in Locked THEN p ELSE Nobody,
         label \in Carrying => command[p].pc \in Carrying
  PROVE  Moved(p, label) /\ GoesOn(p) /\ Alone(p)
<1>1. Moved(p, label) /\ Alone(p)
  BY GoMoves DEF ConnInv, Alone
<1>2. GoesOn(p)
  <2> USE DEF GoesOn
  <2> WITNESS label \in Label
  <2> QED
    BY <1>1
<1> QED
  BY <1>1, <1>2

\* A command that ends gives back the lock and carries nothing.
LEMMA EndOn ==
  ASSUME ConnInv, NEW p \in Proc, NEW label \in Resting, End(p, label), lock' = Nobody
  PROVE  Finished(p, label) /\ GoesOn(p) /\ Alone(p)
<1>1. label \in Label /\ label \notin Locked \cup Carrying \cup Unstored
  BY DEF Label, Resting, Locked, Carrying, Unstored
<1> QED
  BY <1>1, EndFinishes DEF ConnInv, GoesOn, Alone

\* Who has ended has nothing to show.
LEMMA EndedShowsNothing ==
  ASSUME NEW p \in Proc, NEW label \in Resting, Finished(p, label)
  PROVE  Named(p)' /\ InTransaction(p)' /\ \A n : ~Between(p, n)'
BY DEF Resting, Finished, Named, InTransaction, Between, Verifying

\* The second write of a connect: the profile, with the number that the secret has.
LEMMA SaveStep ==
  ASSUME ConnInv, NEW p \in Proc, Save(p)
  PROVE  ConnInv'
<1>1. /\ command[p].pc = "save" /\ UNCHANGED <<keyring, versions>> /\ lock = p
      /\ InTransaction(p) /\ Named(p) /\ Numbered(p)
  BY DEF Save, At, ConnInv, LockInv, StoreInv, Locked
<1>2. PICK n \in Name : n = command[p].name
  BY <1>1 DEF Named, Resting
<1>3. command[p].version \in Version /\ command[p].version # None
  BY <1>1 DEF ConnInv, CommandType, Commands, Record, Numbered, Carrying, StoreType, Version, None
<1>4. CASE /\ file' = [file EXCEPT !.profiles[n] = command[p].version]
           /\ torn' = torn \ {n}
           /\ IF n = Codex THEN Go(p, "select") /\ UNCHANGED lock
              ELSE Go(p, "select_wait") /\ lock' = Nobody
  <2>1. /\ file'.profiles = [file.profiles EXCEPT ![n] = command[p].version]
        /\ file'.verified = file.verified /\ file'.selected = file.selected
    BY <1>4 DEF ConnInv, StoreType
  <2>2. PICK label \in Label : Moved(p, label) /\ GoesOn(p) /\ Alone(p) /\
                               label = IF n = Codex THEN "select" ELSE "select_wait"
    BY <1>1, <1>4, GoOn DEF Label, Locked, Waiting, Carrying, Unstored
  <2>3. StoreType'
    BY <1>1, <1>3, <1>4 DEF ConnInv, StoreType
  <2>4. Writes(p, n)
    BY <1>1, <1>4, <2>1 DEF Writes, ConnInv, StoreType, Carrying
  <2>5. Named(p)' /\ InTransaction(p)'
    BY <1>2, <2>2 DEF Moved, Named, InTransaction, Name, Verifying
  <2>6. FileIsWellFormed'
    BY <1>3, <2>1 DEF ConnInv, StoreType, FileIsWellFormed
  <2>7. n \in ApiKey => keyring'[n] = file'.profiles[n]
    BY <1>1, <1>2, <2>1 DEF InTransaction, ConnInv, StoreType
  <2> QED
    BY <1>1, <1>2, <2>2, <2>3, <2>4, <2>5, <2>6, <2>7, TransactionInv DEF Moved
<1>5. CASE /\ UNCHANGED <<file, torn>>
           /\ IF n = Codex THEN Raise(p) ELSE Go(p, "undo") /\ UNCHANGED lock
  <2>1. CASE Raise(p)
    <3>1. \A m \in ApiKey : n = Codex => ~Between(p, m)
      BY <1>2, NameAssumption DEF Between
    <3>2. n = Codex \/ lock' = p
      BY <1>1, <1>5
    <3> QED
      BY <1>1, <1>5, <2>1, <3>1, <3>2, RaiseInv, ProcAssumption DEF StoresKept, Locked, Raise
  <2>2. CASE n # Codex /\ Go(p, "undo") /\ UNCHANGED lock
    <3>1. Moved(p, "undo") /\ GoesOn(p) /\ Alone(p)
      BY <1>1, <2>2, GoOn DEF Label, Locked, Carrying, Unstored
    <3>2. Writes(p, n)
      BY <1>1, <1>5 DEF Writes, ConnInv, StoreType
    <3>4. StoreType' /\ FileIsWellFormed'
      BY <1>1, <1>5, <3>1, ProcAssumption, <2>2 DEF ConnInv, StoreType, FileIsWellFormed
    <3>3. Named(p)' /\ InTransaction(p)' /\ Between(p, n)'
      BY <1>1, <1>2, <1>5, <2>2, <3>1
         DEF Moved, Named, InTransaction, Between, Name, Verifying, Resting
    <3> QED
      BY <1>1, <1>2, <3>1, <3>2, <3>3, <3>4, TransactionInv
  <2> QED
    BY <1>5, <2>1, <2>2
<1> QED
  BY <1>1, <1>2, <1>4, <1>5 DEF Save

\* The old secret goes back, and it is that of the stored profile.
LEMMA UndoStep ==
  ASSUME ConnInv, NEW p \in Proc, Undo(p)
  PROVE  ConnInv'
<1>1. /\ command[p].pc = "undo" /\ UNCHANGED <<file, versions>> /\ lock = p
      /\ InTransaction(p) /\ Named(p) /\ Numbered(p)
      /\ lock' = Nobody /\ End(p, "raised")
  BY DEF Undo, Raise, At, ConnInv, LockInv, StoreInv, Locked
<1>2. PICK n \in Name : n = command[p].name /\ n \in ApiKey
  BY <1>1 DEF Named, Resting
<1>3. Finished(p, "raised") /\ GoesOn(p) /\ Alone(p)
  BY <1>1, EndOn DEF Resting
<1>4. \/ keyring' = [keyring EXCEPT ![n] = command[p].before] /\ torn' = torn
      \/ keyring' = keyring /\ torn' = torn \cup {n}
  BY <1>2 DEF Undo, Undone
<1>5. StoreType'
  BY <1>1, <1>2, <1>4 DEF ConnInv, StoreType, CommandType, Commands, Record
<1>6. Writes(p, n)
  BY <1>1, <1>2, <1>4 DEF Writes, ConnInv, StoreType
<1>7. n \notin torn' => keyring'[n] = file'.profiles[n]
  BY <1>1, <1>2, <1>4 DEF InTransaction, ConnInv, StoreType
<1>8. Named(p)' /\ InTransaction(p)'
  BY <1>3, EndedShowsNothing DEF Resting
<1>9. FileIsWellFormed'
  BY <1>1 DEF ConnInv, FileIsWellFormed
<1> QED
  BY <1>1, <1>2, <1>3, <1>5, <1>6, <1>7, <1>8, <1>9, TransactionInv

\* The selection, of a profile that is there.
LEMMA SelectStep ==
  ASSUME ConnInv, NEW p \in Proc, Select(p)
  PROVE  ConnInv'
<1>1. /\ command[p].pc = "select" /\ UNCHANGED <<keyring, versions, torn>> /\ lock = p
      /\ Named(p) /\ \A m \in ApiKey \ torn : ~Between(p, m)
  BY DEF Select, At, ConnInv, LockInv, StoreInv, Locked, Between
<1>2. PICK n \in Name : n = command[p].name
  BY <1>1 DEF Named, Resting
<1>3. CASE Raise(p) /\ UNCHANGED file
  BY <1>1, <1>3, RaiseInv DEF StoresKept, Locked
<1>4. CASE Selectable(n) /\ file' = [file EXCEPT !.selected = n] /\ End(p, "ok") /\ lock' = Nobody
  <2>1. Finished(p, "ok") /\ GoesOn(p) /\ Alone(p)
    BY <1>4, EndOn DEF Resting
  <2>2. /\ file'.profiles = file.profiles /\ file'.verified = file.verified
        /\ file'.selected = n /\ StoreType'
    BY <1>1, <1>4 DEF ConnInv, StoreType
  <2>3. Writes(p, n) /\ FileIsWellFormed'
    BY <1>1, <1>4, <2>2 DEF Writes, ConnInv, FileIsWellFormed, Selectable
  <2>4. n \in ApiKey \ torn' => keyring'[n] = file'.profiles[n]
    BY <1>1, <2>2, AloneInTransaction DEF ConnInv, StoreInv, Settled
  <2>5. Named(p)' /\ InTransaction(p)'
    BY <2>1, EndedShowsNothing DEF Resting
  <2> QED
    BY <1>1, <1>2, <2>1, <2>2, <2>3, <2>4, <2>5, TransactionInv
<1> QED
  BY <1>2, <1>3, <1>4 DEF Select
\* The first write of a disconnect.
LEMMA DeleteSecretStep ==
  ASSUME ConnInv, NEW p \in Proc, DeleteSecret(p)
  PROVE  ConnInv'
<1>1. /\ command[p].pc = "delete_secret" /\ UNCHANGED <<file, versions, torn>> /\ lock = p
      /\ Named(p) /\ \A m \in ApiKey \ torn : ~Between(p, m)
  BY DEF DeleteSecret, At, ConnInv, LockInv, StoreInv, Locked, Between
<1>2. PICK n \in Name : n = command[p].name
  BY <1>1 DEF Named, Resting
<1>3. CASE Raise(p) /\ UNCHANGED keyring
  BY <1>1, <1>3, RaiseInv DEF StoresKept, Locked
<1>4. CASE /\ Go(p, "delete_profile") /\ UNCHANGED lock
           /\ keyring' = IF n = Codex THEN keyring ELSE [keyring EXCEPT ![n] = None]
  <2>1. Moved(p, "delete_profile") /\ GoesOn(p) /\ Alone(p)
    BY <1>1, <1>4, GoOn DEF Label, Locked, Carrying, Unstored
  <2>2. StoreType' /\ \A m \in ApiKey : keyring'[m] = IF m = n THEN None ELSE keyring[m]
    BY <1>1, <1>4, NameAssumption, BoundAssumption
       DEF ConnInv, StoreType, Version, None, Name
  <2>3. Writes(p, n)
    BY <1>1, <2>2 DEF Writes
  <2>4. FileIsWellFormed'
    BY <1>1 DEF ConnInv, FileIsWellFormed
  <2>5. Named(p)' /\ InTransaction(p)' /\ Between(p, n)'
    BY <1>1, <1>2, <2>1, <2>2 DEF Moved, Named, InTransaction, Between, Resting, Verifying
  <2> QED
    BY <1>1, <1>2, <2>1, <2>2, <2>3, <2>4, <2>5, TransactionInv
<1> QED
  BY <1>2, <1>3, <1>4 DEF DeleteSecret

\* The second one: the profile, its evidence and the selection of it.
LEMMA DeleteProfileStep ==
  ASSUME ConnInv, NEW p \in Proc, DeleteProfile(p)
  PROVE  ConnInv'
<1>1. /\ command[p].pc = "delete_profile" /\ UNCHANGED <<keyring, versions>> /\ lock = p
      /\ Named(p) /\ InTransaction(p) /\ lock' = Nobody
  BY DEF DeleteProfile, Raise, At, ConnInv, LockInv, StoreInv, Locked
<1>2. PICK n \in Name : n = command[p].name
  BY <1>1 DEF Named, Resting
<1>3. CASE file' = Without(n) /\ torn' = torn \ {n} /\ Go(p, "confirm")
  <2>1. Moved(p, "confirm") /\ GoesOn(p) /\ Alone(p)
    BY <1>1, <1>3, GoOn DEF Label, Locked, Unlocked, Carrying, Unstored
  <2>2. /\ file'.profiles = [file.profiles EXCEPT ![n] = None]
        /\ file'.verified = [file.verified EXCEPT ![n] = None]
        /\ file'.selected = IF file.selected = n THEN NoName ELSE file.selected
    BY <1>3 DEF Without
  <2>3. StoreType'
    BY <1>1, <1>3, BoundAssumption DEF ConnInv, StoreType, Without, Version, None
  <2>4. Writes(p, n)
    BY <1>1, <1>3, <2>2 DEF Writes, ConnInv, StoreType
  <2>5. FileIsWellFormed'
    BY <2>2 DEF ConnInv, StoreType, FileIsWellFormed
  <2>6. n \in ApiKey => keyring'[n] = file'.profiles[n]
    BY <1>1, <1>2, <2>2 DEF InTransaction, ConnInv, StoreType
  <2>7. Named(p)' /\ InTransaction(p)'
    BY <1>1, <1>2, <2>1 DEF Moved, Named, InTransaction, Resting, Verifying
  <2> QED
    BY <1>1, <1>2, <2>1, <2>3, <2>4, <2>5, <2>6, <2>7, TransactionInv
<1>4. CASE /\ UNCHANGED file
           /\ torn' = torn \cup ({n} \cap ApiKey)
           /\ End(p, "raised")
  <2>1. Finished(p, "raised") /\ GoesOn(p) /\ Alone(p)
    BY <1>1, <1>4, EndOn DEF Resting
  <2>2. Writes(p, n)
    BY <1>1, <1>4 DEF Writes
  <2>3. StoreType' /\ FileIsWellFormed'
    BY <1>1, <1>4 DEF ConnInv, StoreType, FileIsWellFormed
  <2>4. Named(p)' /\ InTransaction(p)'
    BY <2>1, EndedShowsNothing DEF Resting
  <2> QED
    BY <1>1, <1>2, <1>4, <2>1, <2>2, <2>3, <2>4, TransactionInv
<1> QED
  BY <1>2, <1>3, <1>4 DEF DeleteProfile, Raise

\* set_verification touches the verification of a profile and no secret.
LEMMA SetVerificationStep ==
  ASSUME ConnInv, NEW p \in Proc, SetVerification(p)
  PROVE  ConnInv'
<1>1. /\ command[p].pc = "set_verification" /\ UNCHANGED <<keyring, versions, torn>> /\ lock = p
      /\ Named(p) /\ \A m \in ApiKey \ torn : ~Between(p, m)
  BY DEF SetVerification, At, ConnInv, LockInv, StoreInv, Locked, Between
<1>2. PICK n \in Name : n = command[p].name
  BY <1>1 DEF Named, Resting
<1>3. CASE Raise(p) /\ UNCHANGED file
  BY <1>1, <1>3, RaiseInv DEF StoresKept, Locked
<1>4. CASE /\ Profile(p) # None /\ End(p, "ok") /\ lock' = Nobody
           /\ file' = [file EXCEPT !.verified[n] = command[p].version]
  <2>1. Finished(p, "ok") /\ GoesOn(p) /\ Alone(p)
    BY <1>4, EndOn DEF Resting
  <2>2. /\ file'.profiles = file.profiles /\ file'.selected = file.selected
        /\ file'.verified = [file.verified EXCEPT ![n] = command[p].version]
    BY <1>4 DEF ConnInv, StoreType
  <2>3. StoreType'
    BY <1>1, <1>4 DEF ConnInv, StoreType, CommandType, Commands, Record
  <2>4. Writes(p, n)
    BY <1>1, <2>2 DEF Writes
  <2>5. FileIsWellFormed'
    BY <1>2, <1>4, <2>2 DEF ConnInv, StoreType, FileIsWellFormed, Profile
  <2>6. n \in ApiKey \ torn' => keyring'[n] = file'.profiles[n]
    BY <1>1, <2>2, AloneInTransaction DEF ConnInv, StoreInv, Settled
  <2>7. Named(p)' /\ InTransaction(p)'
    BY <2>1, EndedShowsNothing DEF Resting
  <2> QED
    BY <1>1, <1>2, <2>1, <2>3, <2>4, <2>5, <2>6, <2>7, TransactionInv
<1> QED
  BY <1>2, <1>3, <1>4 DEF SetVerification

\* A process that dies between the two writes leaves the provider marked as torn.
LEMMA CrashStep ==
  ASSUME ConnInv, NEW p \in Proc, Crash(p)
  PROVE  ConnInv'
<1>1. Finished(p, "idle") /\ Alone(p)
  BY IdleFinishes DEF Crash, ConnInv, Alone
<1>2. /\ UNCHANGED <<file, keyring, versions>>
      /\ torn \subseteq torn' /\ torn' \subseteq ApiKey
      /\ \A n \in ApiKey \ torn' : ~Between(p, n)
      /\ lock' = IF lock = p THEN Nobody ELSE lock
  BY DEF Crash, ConnInv, StoreType, Between
<1>3. StoreInv'
  BY <1>1, <1>2, FinishKeeps DEF Resting
<1>4. LockInv'
  BY <1>1, <1>2, LockFollows DEF ConnInv, LockInv, Finished, Locked
<1> QED
  BY <1>1, <1>2, <1>3, <1>4, ProcAssumption DEF ConnInv, StoreType, Alone, FileIsWellFormed

\* Every step keeps the invariant.
LEMMA NextConnInv == ConnInv /\ [ConnectionsNext]_connections => ConnInv'
<1> SUFFICES ASSUME ConnInv, [ConnectionsNext]_connections PROVE ConnInv'
  OBVIOUS
<1>1. ASSUME NEW p \in Proc, Start(p) \/ Acquire(p) \/ Proceed(p) \/ Crash(p) PROVE ConnInv'
  BY <1>1, StartStep, AcquireStep, UnlockedStep, LookupStep, StoreStep, SaveStep, UndoStep,
     SelectStep, DeleteSecretStep, DeleteProfileStep, SetVerificationStep, CrashStep DEF Proceed
<1>2. CASE UNCHANGED connections
  <2>1. StoreInv'
    BY <1>2 DEF connections, ConnInv, StoreInv, Named, Numbered, Unused, InTransaction, OwnNumber,
       Settled, Between
  <2> QED
    BY <1>2, <2>1 DEF connections, ConnInv, StoreType, CommandType, LockInv, FileIsWellFormed
<1> QED
  BY <1>1, <1>2 DEF ConnectionsNext

\* The invariant holds throughout.
LEMMA ConnInvariant == ConnectionsSpec => []ConnInv
BY InitConnInv, NextConnInv, PTL DEF ConnectionsSpec

-----------------------------------------------------------------------------
(* The theorems                                                            *)

\* The file, the keyring and the commands keep their shape, and nobody ends or waits for
\* the lock with the lock in hand.
THEOREM ConnectionsType == ConnectionsSpec => []ConnectionsTypeOK
<1>1. ConnInv => ConnectionsTypeOK
  <2> SUFFICES ASSUME ConnInv PROVE ConnectionsTypeOK
    OBVIOUS
  <2>1. ASSUME NEW p \in Proc, command[p].pc \notin Resting \cup Waiting
        PROVE  command[p].name \in Name /\ command[p].version \in Version
    BY <2>1 DEF ConnInv, StoreInv, Named, CommandType, Commands, Record
  <2>2. ASSUME NEW p \in Proc, lock = p PROVE command[p].pc \notin Resting \cup Waiting
    BY <2>2 DEF ConnInv, LockInv, Locked, Resting, Waiting
  <2> QED
    BY <2>1, <2>2 DEF ConnInv, StoreType, ConnectionsTypeOK
<1> QED
  BY <1>1, ConnInvariant, PTL

\* No order of connects, disconnects, verifications, failures and deaths leaves a profile
\* file that the next command cannot decode.
THEOREM AlwaysDecodable == ConnectionsSpec => []FileIsWellFormed
<1>1. ConnInv => FileIsWellFormed
  BY DEF ConnInv
<1> QED
  BY <1>1, ConnInvariant, PTL

\* The two stores agree on every provider that no transaction is at work on and that no
\* death or failed undo has torn.
THEOREM StoresAgree == ConnectionsSpec => []SecretMatchesProfile
<1>1. ConnInv => SecretMatchesProfile
  <2> SUFFICES ASSUME ConnInv, NEW n \in ApiKey \ torn, lock = Nobody \/ command[lock].name # n
               PROVE  keyring[n] = file.profiles[n]
    BY DEF SecretMatchesProfile
  <2>1. \A p \in Proc : ~Between(p, n)
    BY ProcAssumption DEF ConnInv, LockInv, Locked, Between
  <2> QED
    BY <2>1 DEF ConnInv, StoreInv, Settled
<1> QED
  BY <1>1, ConnInvariant, PTL

\* A step of a process touches no other command.
LEMMA StepAlone ==
  ASSUME ConnInv, NEW q \in Proc, Step(q)
  PROVE  OthersKeep(q)
<1>1. ASSUME NEW label, Go(q, label) PROVE OthersKeep(q)
  BY <1>1 DEF Go, OthersKeep, ConnInv, CommandType, Commands
<1>2. ASSUME NEW label, End(q, label) PROVE OthersKeep(q)
  BY <1>2 DEF End, OthersKeep, ConnInv, CommandType, Commands
<1>3. ASSUME NEW op, NEW n, NEW v, NEW label, Begin(q, op, n, v, label) PROVE OthersKeep(q)
  BY <1>3 DEF Begin, OthersKeep, ConnInv, CommandType, Commands
<1>4. CASE Start(q)
  BY <1>3, <1>4 DEF Start, StartConnect, StartDisconnect, StartVerify, StartLogout
<1>5. CASE Acquire(q)
  BY <1>1, <1>5 DEF Acquire
<1>6. CASE Crash(q)
  BY <1>6 DEF Crash, OthersKeep, ConnInv, CommandType, Commands
<1>7. CASE Login(q) \/ Store(q) \/ Save(q) \/ Undo(q) \/ Select(q) \/ Logout(q)
  BY <1>1, <1>2, <1>7 DEF Login, Store, Save, Undo, Select, Logout, Raise
<1>8. CASE ReadProfile(q) \/ DeleteSecret(q) \/ DeleteProfile(q) \/ Confirm(q) \/ ReadSecret(q)
           \/ SetVerification(q)
  BY <1>1, <1>2, <1>8 DEF ReadProfile, DeleteSecret, DeleteProfile, Confirm, ReadSecret,
     SetVerification, Raise
<1>9. CASE ReadSelected(q)
  BY <1>9, ReadMoves DEF ReadSelected, ConnInv
<1>10. CASE Lookup(q)
  <2>1. Named(q) /\ command[q].pc = "lookup"
    BY <1>10 DEF Lookup, At, ConnInv, StoreInv
  <2>2. keyring[command[q].name] \in Version
    BY <2>1 DEF Named, ConnInv, StoreType
  <2> QED
    BY <1>1, <1>2, <1>10, <2>2, RecallMoves DEF Lookup, Raise, ConnInv
<1> QED
  BY <1>4, <1>5, <1>6, <1>7, <1>8, <1>9, <1>10 DEF Step, Proceed

\* A connect that raises leaves the connection that was there, secret and profile, and
\* nothing of its own.
THEOREM FailureRestores == ConnectionsSpec => FailedConnectRestores
<1> DEFINE A == \A p \in Proc :
       LET n == command[p].name IN
       command[p].pc \in {"lookup", "store", "undo"} /\ command'[p].pc = "raised"
         /\ n \notin torn'
       => file'.profiles[n] = keyring'[n] /\ keyring'[n] # command[p].version
<1>1. ConnInv /\ [ConnectionsNext]_connections => [A]_connections
  <2> SUFFICES ASSUME ConnInv, ConnectionsNext, NEW p \in Proc,
                      command[p].pc \in {"lookup", "store", "undo"}, command'[p].pc = "raised",
                      command[p].name \notin torn'
               PROVE  /\ file'.profiles[command[p].name] = keyring'[command[p].name]
                      /\ keyring'[command[p].name] # command[p].version
    OBVIOUS
  <2>1. PICK q \in Proc : Step(q)
    BY DEF ConnectionsNext, Step
  <2>2. q = p
    BY <2>1, StepAlone DEF OthersKeep
  <2>3. Named(p) /\ InTransaction(p) /\ Unused(p) /\ lock = p /\ command[p].name \in ApiKey
    BY DEF ConnInv, StoreInv, Named, LockInv, Locked
  <2>4. Lookup(p) \/ Store(p) \/ Undo(p) \/ Crash(p)
    BY <2>1, <2>2 DEF Step, Start, StartConnect, StartDisconnect, StartVerify, StartLogout,
       Acquire, Proceed, Login, Save, Select, Logout, ReadProfile, ReadSelected, DeleteSecret,
       DeleteProfile, Confirm, ReadSecret, SetVerification, At, Resting, Waiting
  <2>5. command'[p].pc # "idle" /\ command'[p].pc # "save" /\ command'[p].pc # "store"
    OBVIOUS
  <2>6. ~Crash(p)
    BY <2>5, IdleFinishes DEF Crash, ConnInv, Finished
  <2>7. CASE Lookup(p) \/ Store(p)
    <3>1. Raise(p) /\ UNCHANGED <<file, keyring, torn>>
      <4>1. "store" \in Label /\ "save" \in Label
        BY DEF Label, Locked
      <4>2. ~Go(p, "store") /\ ~Go(p, "save")
        BY <2>5, <4>1, GoMoves DEF Moved, ConnInv
      <4>3. command' # [command EXCEPT ![p].pc = "store", ![p].before = keyring[command[p].name]]
        BY <2>3, <2>5, RecallMoves DEF ConnInv, StoreType
      <4> QED
        BY <2>7, <4>2, <4>3 DEF Lookup, Store
    <3>2. \A r \in Proc : ~Between(r, command[p].name)
      BY <2>3, <2>7, AloneInTransaction DEF Between, Name, Lookup, Store, At
    <3>3. command[p].pc \in Unstored
      BY <2>7 DEF Unstored, Lookup, Store, At
    <3> QED
      BY <2>3, <3>1, <3>2, <3>3 DEF ConnInv, StoreInv, Settled, Unused
  <2>8. CASE Undo(p)
    BY <2>3, <2>8 DEF Undo, Undone, At, InTransaction, ConnInv, StoreType
  <2> QED
    BY <2>4, <2>6, <2>7, <2>8
<1> QED
  BY <1>1, ConnInvariant, PTL DEF ConnectionsSpec, FailedConnectRestores
=============================================================================
