----------------------------- MODULE Connections -----------------------------
(***************************************************************************)
(* Stored provider connections (connection_service.py, credentials.py,     *)
(* profile_store.py): profiles.json, replaced as a whole under a file      *)
(* lock, and the secrets in the native keyring.  Several processes         *)
(* connect, disconnect, verify and log out of Codex; a write of the file   *)
(* or a call of the keyring may fail; a process may die anywhere.          *)
(***************************************************************************)
EXTENDS Integers, FiniteSets

CONSTANTS
  Proc,          \* processes
  ApiKey,        \* providers connected by an API key
  Codex,         \* the provider that the official CLI authenticates
  Nobody,        \* no process holds the lock
  NoName,        \* no provider is selected
  MaxVersion     \* bound: connects

Name == ApiKey \cup {Codex}

ASSUME NameAssumption == Codex \notin ApiKey /\ NoName \notin Name
ASSUME ProcAssumption == Nobody \notin Proc
ASSUME BoundAssumption == MaxVersion \in Nat

VARIABLES
  file,        \* profiles.json: [selected, profiles, verified]
  keyring,     \* the secret of each provider
  lock,        \* who holds the flock of the repository
  versions,    \* connects so far; the n-th brings the n-th profile and secret
  command,     \* what each process is doing
  torn         \* for the properties: names whose change was broken off half-way

connections == <<file, keyring, lock, versions, command, torn>>

None == 0      \* no profile, no secret, no evidence

Resting == {"idle", "ok", "refused", "raised"}
Waiting == {"connect_wait", "codex_wait", "select_wait", "delete_wait", "verify_wait"}

\* A process without a command: only how the last one ended, and which it was, is left.
Rest(outcome, op) ==
  [pc |-> outcome, op |-> op, name |-> NoName, version |-> None,
   before |-> None, wasSelected |-> FALSE]

Idle == Rest("idle", "none")

ConnectionsInit ==
  /\ file = [selected |-> NoName, profiles |-> [n \in Name |-> None],
             verified |-> [n \in Name |-> None]]
  /\ keyring = [n \in ApiKey |-> None]
  /\ lock = Nobody
  /\ versions = 0
  /\ command = [p \in Proc |-> Idle]
  /\ torn = {}

-----------------------------------------------------------------------------
(* Control                                                                 *)

At(p, label) == command[p].pc = label
Go(p, label) == command' = [command EXCEPT ![p].pc = label]

\* A command returns or raises.
End(p, outcome) == command' = [command EXCEPT ![p] = Rest(outcome, command[p].op)]

Profile(p) == file.profiles[command[p].name]

\* A command ends, inside a transaction also the transaction.  "refused" is a
\* ConnectionError or a result that says so, "raised" any other exception.
Raise_Locked(p) == End(p, "raised") /\ UNCHANGED lock

Raise(p) == End(p, "raised") /\ lock' = Nobody

\* ProfileRepository.transaction: flock waits without limit.
Body == [connect_wait |-> "lookup", codex_wait |-> "save", select_wait |-> "select",
         delete_wait |-> "delete_secret", verify_wait |-> "set_verification"]

Acquire_Unlocked(p) ==
  /\ command[p].pc \in Waiting
  /\ lock' = p
  /\ Go(p, Body[command[p].pc])
  /\ UNCHANGED <<file, keyring, versions, torn>>

Acquire(p) ==
  /\ command[p].pc \in Waiting /\ lock = Nobody
  /\ lock' = p
  /\ Go(p, Body[command[p].pc])
  /\ UNCHANGED <<file, keyring, versions, torn>>

Begin(p, op, name, version, label) ==
  command' = [command EXCEPT ![p] =
    [pc |-> label, op |-> op, name |-> name, version |-> version,
     before |-> None, wasSelected |-> FALSE]]

-----------------------------------------------------------------------------
(* connect_api_key, connect_subscription                                   *)

StartConnect(p, n) ==
  /\ command[p].pc \in Resting /\ versions < MaxVersion
  /\ versions' = versions + 1
  /\ Begin(p, "connect", n, versions + 1, IF n = Codex THEN "login" ELSE "connect_wait")
  /\ UNCHANGED <<file, keyring, lock, torn>>

\* The official CLI logs in before the connection is stored.
Login(p) ==
  /\ At(p, "login")
  /\ Go(p, "codex_wait") \/ End(p, "refused")
  /\ UNCHANGED <<file, keyring, lock, versions, torn>>

\* _save_api_key_profile: an existing connection's secret is read first, so that it
\* can be put back.
Lookup(p) ==
  /\ At(p, "lookup")
  /\ \/ /\ Profile(p) = None
        /\ Go(p, "store") /\ UNCHANGED lock
     \/ /\ Profile(p) # None /\ keyring[command[p].name] # None
        /\ command' = [command EXCEPT ![p].pc = "store", ![p].before = keyring[command[p].name]]
        /\ UNCHANGED lock
     \/ Profile(p) # None /\ Raise(p)
  /\ UNCHANGED <<file, keyring, versions, torn>>

Store(p) ==
  /\ At(p, "store")
  /\ \/ /\ keyring' = [keyring EXCEPT ![command[p].name] = command[p].version]
        /\ Go(p, "save") /\ UNCHANGED lock
     \/ Raise(p) /\ UNCHANGED keyring
  /\ UNCHANGED <<file, versions, torn>>

\* ProfileRepository.save.  An API-key connection ends its transaction here, Codex
\* selects within it.
Save(p) ==
  /\ At(p, "save")
  /\ \/ /\ file' = [file EXCEPT !.profiles[command[p].name] = command[p].version]
        /\ torn' = torn \ {command[p].name}
        /\ IF command[p].name = Codex
           THEN Go(p, "select") /\ UNCHANGED lock
           ELSE Go(p, "select_wait") /\ lock' = Nobody
     \/ /\ UNCHANGED <<file, torn>>
        /\ IF command[p].name = Codex
           THEN Raise(p)
           ELSE Go(p, "undo") /\ UNCHANGED lock
  /\ UNCHANGED <<keyring, versions>>

\* The metadata was not written: the old secret is put back, or the new one removed.
Undone_Removed(p) == keyring' = [keyring EXCEPT ![command[p].name] = None]

Undone(p) == keyring' = [keyring EXCEPT ![command[p].name] = command[p].before]

Undo(p) ==
  /\ At(p, "undo")
  /\ Raise(p)
  /\ \/ Undone(p) /\ UNCHANGED torn
     \/ torn' = torn \cup {command[p].name} /\ UNCHANGED keyring
  /\ UNCHANGED <<file, versions>>

\* ProfileRepository.select: for an API key a transaction of its own.
Selectable_Unchecked(n) == TRUE

Selectable(n) == file.profiles[n] # None

Select(p) ==
  /\ At(p, "select")
  /\ \/ /\ Selectable(command[p].name)
        /\ file' = [file EXCEPT !.selected = command[p].name]
        /\ End(p, "ok") /\ lock' = Nobody
     \/ Raise(p) /\ UNCHANGED file
  /\ UNCHANGED <<keyring, versions, torn>>

-----------------------------------------------------------------------------
(* disconnect, logout_and_disconnect_codex                                 *)

StartDisconnect(p, n) ==
  /\ command[p].pc \in Resting
  /\ Begin(p, "disconnect", n, None, "read_profile")
  /\ UNCHANGED <<file, keyring, lock, versions, torn>>

StartLogout(p) ==
  /\ command[p].pc \in Resting
  /\ Begin(p, "logout", Codex, None, "logout")
  /\ UNCHANGED <<file, keyring, lock, versions, torn>>

\* The official CLI; if it fails nothing else is done.
Logout(p) ==
  /\ At(p, "logout")
  /\ Go(p, "read_profile") \/ End(p, "refused")
  /\ UNCHANGED <<file, keyring, lock, versions, torn>>

\* Reads without the lock: the profile, then the selection.
ReadProfile(p) ==
  /\ At(p, "read_profile")
  /\ IF Profile(p) # None THEN Go(p, "read_selected")
     ELSE End(p, IF command[p].op = "logout" THEN "ok" ELSE "refused")
  /\ UNCHANGED <<file, keyring, lock, versions, torn>>

ReadSelected(p) ==
  /\ At(p, "read_selected")
  /\ command' = [command EXCEPT ![p].pc = "delete_wait",
                                ![p].wasSelected = (file.selected = command[p].name)]
  /\ UNCHANGED <<file, keyring, lock, versions, torn>>

\* ProfileService.delete: the secret goes first.  One that is not there is no error.
DeleteSecret(p) ==
  /\ At(p, "delete_secret")
  /\ \/ /\ Profile(p) # None
        /\ Go(p, "delete_profile") /\ UNCHANGED lock
        /\ keyring' = IF command[p].name = Codex THEN keyring
                      ELSE [keyring EXCEPT ![command[p].name] = None]
     \/ /\ Profile(p) = None \/ command[p].name # Codex
        /\ Raise(p) /\ UNCHANGED keyring
  /\ UNCHANGED <<file, versions, torn>>

\* ProfileRepository.delete.
Without(n) ==
  [profiles |-> [file.profiles EXCEPT ![n] = None],
   verified |-> [file.verified EXCEPT ![n] = None],
   selected |-> IF file.selected = n THEN NoName ELSE file.selected]

DeleteProfile(p) ==
  /\ At(p, "delete_profile")
  /\ \/ /\ file' = Without(command[p].name)
        /\ torn' = torn \ {command[p].name}
        /\ Go(p, "confirm") /\ lock' = Nobody
     \/ /\ UNCHANGED file
        /\ torn' = torn \cup ({command[p].name} \cap ApiKey)
        /\ Raise(p)
  /\ UNCHANGED <<keyring, versions>>

\* After the transaction: if it was selected, nothing may be selected now.
Confirm(p) ==
  /\ At(p, "confirm")
  /\ End(p, IF command[p].wasSelected /\ file.selected # NoName THEN "refused" ELSE "ok")
  /\ UNCHANGED <<file, keyring, lock, versions, torn>>

-----------------------------------------------------------------------------
(* verify_provider                                                         *)

StartVerify(p, n) ==
  /\ command[p].pc \in Resting
  /\ file.profiles[n] # None
  /\ Begin(p, "verify", n, file.profiles[n], "read_secret")
  /\ UNCHANGED <<file, keyring, lock, versions, torn>>

\* The secret is read and the provider probed, all without the lock.
ReadSecret(p) ==
  /\ At(p, "read_secret")
  /\ \/ keyring[command[p].name] # None /\ Go(p, "verify_wait")
     \/ End(p, "refused")
  /\ UNCHANGED <<file, keyring, lock, versions, torn>>

\* The evidence names the model of the profile that was read at the start.
SetVerification(p) ==
  /\ At(p, "set_verification")
  /\ \/ /\ Profile(p) # None
        /\ file' = [file EXCEPT !.verified[command[p].name] = command[p].version]
        /\ End(p, "ok") /\ lock' = Nobody
     \/ Raise(p) /\ UNCHANGED file
  /\ UNCHANGED <<keyring, versions, torn>>

-----------------------------------------------------------------------------
(* Specification                                                           *)

\* A process dies: the kernel drops its lock, nothing is undone.
Crash(p) ==
  /\ command[p].pc \notin Resting
  /\ command' = [command EXCEPT ![p] = Idle]
  /\ lock' = IF lock = p THEN Nobody ELSE lock
  /\ torn' = IF command[p].pc \in {"save", "undo", "delete_profile"}
             THEN torn \cup ({command[p].name} \cap ApiKey) ELSE torn
  /\ UNCHANGED <<file, keyring, versions>>

\* What a process does of itself once it has a command and needs no lock.
Proceed(p) ==
  \/ Login(p) \/ Lookup(p) \/ Store(p) \/ Save(p) \/ Undo(p) \/ Select(p)
  \/ Logout(p) \/ ReadProfile(p) \/ ReadSelected(p) \/ DeleteSecret(p) \/ DeleteProfile(p)
  \/ Confirm(p) \/ ReadSecret(p) \/ SetVerification(p)

Start(p) ==
  \/ \E n \in Name : StartConnect(p, n) \/ StartDisconnect(p, n)
  \/ \E n \in ApiKey : StartVerify(p, n)
  \/ StartLogout(p)

ConnectionsNext == \E p \in Proc : Start(p) \/ Acquire(p) \/ Proceed(p) \/ Crash(p)

\* Calls of the keyring and of the official CLI return; flock serves whoever waits.
ConnectionsFairness == \A p \in Proc : WF_connections(Proceed(p)) /\ SF_connections(Acquire(p))

ConnectionsSpec == ConnectionsInit /\ [][ConnectionsNext]_connections /\ ConnectionsFairness

-----------------------------------------------------------------------------
(* Properties                                                              *)

Version == 0..MaxVersion

\* The file, the secrets and the commands keep their shape, and whoever holds the lock is
\* inside a transaction of a command: none ends or waits with it.
ConnectionsTypeOK ==
  /\ file \in [selected : Name \cup {NoName}, profiles : [Name -> Version],
               verified : [Name -> Version]]
  /\ keyring \in [ApiKey -> Version]
  /\ lock \in Proc \cup {Nobody}
  /\ versions \in Version
  /\ torn \subseteq ApiKey
  /\ \A p \in Proc :
       /\ command[p].pc \notin Resting \cup Waiting =>
            command[p].name \in Name /\ command[p].version \in Version
       /\ lock = p => command[p].pc \notin Resting \cup Waiting

\* profiles.json can always be decoded: the selected connection exists, and evidence is
\* kept of existing connections only.  (Of a missing selection _decode_state refuses the
\* whole file: no command of any provider would work again.)
FileIsWellFormed ==
  /\ file.selected # NoName => file.profiles[file.selected] # None
  /\ \A n \in Name : file.verified[n] # None => file.profiles[n] # None

\* A profile and its secret come from the same connect, and there is none of them
\* without the other, unless a process died or an undo failed between the two writes
\* and no command on that provider has succeeded since.
SecretMatchesProfile ==
  \A n \in ApiKey \ torn :
    lock = Nobody \/ command[lock].name # n => keyring[n] = file.profiles[n]

\* A connect that raises within its transaction leaves the connection as it found it.
FailedConnectRestores ==
  [][\A p \in Proc :
       LET n == command[p].name IN
       command[p].pc \in {"lookup", "store", "undo"} /\ command'[p].pc = "raised"
         /\ n \notin torn'
       => file'.profiles[n] = keyring'[n] /\ keyring'[n] # command[p].version]_connections

\* Every command ends, whatever the others do and wherever they die.
EveryCommandEnds ==
  \A p \in Proc : command[p].pc \notin Resting ~> command[p].pc \in Resting

=============================================================================
