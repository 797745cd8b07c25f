-------------------------- MODULE LocalOperations --------------------------
(***************************************************************************)
(* Backup and restore of the database beside a server that starts, commits *)
(* and stops (local-operations.ts); migrate is a server that starts and    *)
(* stops without a commit.  Each file operation is one step, and a process *)
(* may crash between any two.                                              *)
(*                                                                         *)
(* Files are known by the state of the database they hold: 0 is a database *)
(* just created, 1 the one in place at first, and every commit makes the   *)
(* next.  Of SQLite this much matters: the last connection to close writes *)
(* the -wal file into the database and removes it, a crash or a reader's   *)
(* connection leaves it, and a -wal file that lies beside a database is    *)
(* replayed into it, also when it was another's: that database is torn.    *)
(* Verification (integrity_check, foreign_key_check) finds a torn one.     *)
(*                                                                         *)
(* The installation lock is taken and released in one step; that one       *)
(* process holds it is InstallationLock's affair.                          *)
(***************************************************************************)
EXTENDS Naturals

CONSTANTS
  Backup, Restore,  \* runs of the two operations
  Server,
  Path,             \* where backups lie
  PathOf,           \* where each operation puts the backup it creates
  None, Torn, Foreign,
  MaxCommits,       \* bound: states the installation goes through
  MaxFaults,        \* bound: file operations that fail
  MaxCrashes        \* bound: crashes of the server and of operations

Operation == Backup \cup Restore

ASSUME OperationsAssumption ==
  /\ PathOf \in [Operation -> Path]
  /\ Backup \cap Restore = {}
  /\ Server \notin Operation
  /\ None \notin Operation \cup Path \cup {Server, Torn, Foreign} \cup Nat
  /\ Torn \notin Nat \cup {Foreign} /\ Foreign \notin Nat

\* Default paths carry a time stamp, a chosen one is new.
ASSUME PathsAssumption == \A o, q \in Operation : PathOf[o] = PathOf[q] => o = q

ASSUME BoundsAssumption == MaxCommits \in Nat \ {0} /\ MaxFaults \in Nat /\ MaxCrashes \in Nat

VARIABLES
  main,      \* the file at databasePath
  wal,       \* the -wal file beside that path
  server,    \* "down" or "open"
  lock,      \* who has the installation lock
  store,     \* the backups: a database and the state its manifest has sums of
  pc,        \* where each operation is
  copy,      \* the temporary file of each operation
  source,    \* the backup each restore has verified
  previous,  \* the file a restore has moved aside
  latest,    \* the number of the last commit
  current,   \* the state the installation is in, if it could be read
  replaced,  \* states that a restore or a start with no database replaced
  faults, crashes

files == <<main, wal, store>>
operations == <<pc, copy, source, previous>>
history == <<latest, current, replaced>>
vars == <<files, server, lock, operations, history, faults, crashes>>

State == 0 .. MaxCommits
Content == State \cup {Torn}
Nothing == [database |-> None, manifest |-> None]

Backing == {"begin", "snapshot", "verify", "publish", "seal"}
Restoring == {"lock", "stat", "copy", "move", "replace", "cleanup", "succeeding", "aborting"}
Ended == {"done", "failed", "refused", "crashed"}

TypeOK ==
  /\ main \in Content \cup {None}
  /\ wal \in Content \cup {None, Foreign}
  /\ server \in {"down", "open"}
  /\ lock \in Restore \cup {Server, None}
  /\ store \in [Path -> [database : Content \cup {None}, manifest : Content \cup {None}]]
  /\ pc \in [Operation -> {"idle"} \cup Backing \cup Restoring \cup Ended]
  /\ copy \in [Operation -> Content \cup {None}]
  /\ source \in [Restore -> Path \cup {None}]
  /\ previous \in [Restore -> Content \cup {None}]
  /\ latest \in State
  /\ current \in Content
  /\ replaced \subseteq Content
  /\ faults \in 0 .. MaxFaults
  /\ crashes \in 0 .. MaxCrashes

Init ==
  /\ main = 1
  /\ wal = None
  /\ server = "down"
  /\ lock = None
  /\ store = [p \in Path |-> Nothing]
  /\ pc = [o \in Operation |-> IF o \in Backup THEN "begin" ELSE "idle"]
  /\ copy = [o \in Operation |-> None]
  /\ source = [r \in Restore |-> None]
  /\ previous = [r \in Restore |-> None]
  /\ latest = 1
  /\ current = 1
  /\ replaced = {}
  /\ faults = 0
  /\ crashes = 0

\* What a connection to the database reads.
Opened == IF wal = None THEN main ELSE IF wal = Foreign THEN Torn ELSE wal

FreeAlways == TRUE  \* mutant

\* A lock is taken over from a process that no longer runs.
Free ==
  \/ lock = None
  \/ lock = Server /\ server = "down"
  \/ lock \in Restore /\ pc[lock] \in Ended

Fault == faults < MaxFaults /\ faults' = faults + 1

At(o, here, next) == pc[o] = here /\ pc' = [pc EXCEPT ![o] = next]

-----------------------------------------------------------------------------
(* The server.                                                             *)

\* new Database(path) creates a file that is missing, and discards a -wal file
\* beside an empty database.
Start ==
  /\ server = "down" /\ Free
  /\ server' = "open"
  /\ lock' = Server
  /\ main' = IF main = None THEN 0 ELSE IF wal = Foreign THEN Torn ELSE main
  /\ wal' = IF main = None \/ wal = Foreign THEN None ELSE wal
  /\ current' = IF main = None THEN 0 ELSE current
  /\ replaced' = IF main = None THEN replaced \cup {current} ELSE replaced
  /\ UNCHANGED <<store, operations, latest, faults, crashes>>

\* What is committed to a torn database is lost with it.
Commit ==
  /\ server = "open"
  /\ latest < MaxCommits
  /\ latest' = latest + 1
  /\ wal' = IF Opened = Torn THEN Torn ELSE latest'
  /\ current' = wal'
  /\ UNCHANGED <<main, store, server, lock, operations, replaced, faults, crashes>>

\* The last connection to close may be that of a backup, which only reads.
Stop ==
  /\ server = "open"
  /\ server' = "down"
  /\ lock' = None
  /\ \/ main' = Opened /\ wal' = None
     \/ (\E b \in Backup : pc[b] = "snapshot") /\ UNCHANGED <<main, wal>>
  /\ UNCHANGED <<store, operations, history, faults, crashes>>

ServerCrash ==
  /\ server = "open"
  /\ crashes < MaxCrashes
  /\ crashes' = crashes + 1
  /\ server' = "down"
  /\ UNCHANGED <<files, lock, operations, history, faults>>

-----------------------------------------------------------------------------
(* createInstallationBackup, by the command and within a restore.          *)

Failing(o) == IF o \in Backup THEN "failed" ELSE "aborting"

\* The database must exist, and no backup may lie at the path.
Begin(o) ==
  /\ IF main # None /\ store[PathOf[o]] = Nothing
       THEN At(o, "begin", "snapshot") ELSE At(o, "begin", Failing(o))
  /\ UNCHANGED <<files, server, lock, copy, source, previous, history, faults, crashes>>

\* The online backup copies one snapshot, whatever the server does.
TakeSnapshot(o) ==
  /\ \/ /\ main # None
        /\ At(o, "snapshot", "verify")
        /\ copy' = [copy EXCEPT ![o] = Opened]
        /\ UNCHANGED faults
     \/ main = None /\ At(o, "snapshot", Failing(o)) /\ UNCHANGED <<copy, faults>>
     \/ Fault /\ At(o, "snapshot", Failing(o)) /\ UNCHANGED copy
  /\ UNCHANGED <<files, server, lock, source, previous, history, crashes>>

VerifiedAlways(content) == TRUE  \* mutant

\* verifySqliteDatabase
Verified(content) == content \notin {Torn, None}

\* The catch block removes the temporary files and what lies at the final paths.
Discard(o) ==
  /\ store' = [store EXCEPT ![PathOf[o]] = Nothing]
  /\ pc' = [pc EXCEPT ![o] = Failing(o)]
  /\ UNCHANGED <<main, wal, server, lock, copy, source, previous, history, crashes>>

VerifySnapshot(o) ==
  \/ /\ Verified(copy[o])
     /\ At(o, "verify", "publish")
     /\ UNCHANGED <<files, server, lock, copy, source, previous, history, faults, crashes>>
  \/ /\ ~Verified(copy[o])
     /\ pc[o] = "verify"
     /\ Discard(o)
     /\ UNCHANGED faults

PublishDatabase(o) ==
  /\ At(o, "publish", "seal")
  /\ store' = [store EXCEPT ![PathOf[o]] =
                [database |-> copy[o], manifest |-> store[PathOf[o]].manifest]]
  /\ UNCHANGED <<main, wal, server, lock, copy, source, previous, history, faults, crashes>>

PublishManifest(o) ==
  /\ At(o, "seal", IF o \in Backup THEN "done" ELSE "copy")
  /\ store' = [store EXCEPT ![PathOf[o]] =
                [database |-> store[PathOf[o]].database, manifest |-> copy[o]]]
  /\ UNCHANGED <<main, wal, server, lock, copy, source, previous, history, faults, crashes>>

BackupFails(o) ==
  /\ pc[o] \in {"verify", "publish", "seal"}
  /\ Fault
  /\ Discard(o)

-----------------------------------------------------------------------------
(* restoreInstallationBackup.                                              *)

\* verifyInstallationBackup: the sums in the manifest are those of the file.
Complete(p) == store[p].database # None /\ store[p].database = store[p].manifest

VerifySource(r, p) ==
  /\ Complete(p) /\ Verified(store[p].database)
  /\ At(r, "idle", "lock")
  /\ source' = [source EXCEPT ![r] = p]
  /\ UNCHANGED <<files, server, lock, copy, previous, history, faults, crashes>>

Lock(r) ==
  /\ \/ Free /\ At(r, "lock", "stat") /\ lock' = r
     \/ ~Free /\ At(r, "lock", "refused") /\ UNCHANGED lock
  /\ UNCHANGED <<files, server, copy, source, previous, history, faults, crashes>>

NoRecoveryBackup == "copy"  \* mutant

\* A recovery backup is made of the database, if there is one.
AfterStat == IF main # None THEN "begin" ELSE "copy"

StatCurrent(r) ==
  /\ At(r, "stat", AfterStat)
  /\ UNCHANGED <<files, server, lock, copy, source, previous, history, faults, crashes>>

\* The source is copied, opened, migrated, closed and verified.
CopySource(r) ==
  /\ pc[r] = "copy"
  /\ LET content == store[source[r]].database
     IN IF Verified(content)
          THEN /\ At(r, "copy", "move")
               /\ copy' = [copy EXCEPT ![r] = content]
          ELSE At(r, "copy", "aborting") /\ UNCHANGED copy
  /\ UNCHANGED <<files, server, lock, source, previous, history, faults, crashes>>

RestoreFails(r) ==
  /\ pc[r] \in {"stat", "copy", "move"}
  /\ Fault
  /\ pc' = [pc EXCEPT ![r] = "aborting"]
  /\ UNCHANGED <<files, server, lock, copy, source, previous, history, crashes>>

MoveCurrent(r) ==
  /\ At(r, "move", "replace")
  /\ previous' = [previous EXCEPT ![r] = main]
  /\ main' = None
  /\ UNCHANGED <<wal, store, server, lock, copy, source, history, faults, crashes>>

Replace(r) ==
  /\ At(r, "replace", "cleanup")
  /\ main' = copy[r]
  /\ wal' = IF wal = None THEN None ELSE Foreign
  /\ current' = copy[r]
  /\ replaced' = replaced \cup {current}
  /\ UNCHANGED <<store, server, lock, copy, source, previous, latest, faults, crashes>>

\* The file moved aside is renamed back, or that fails as well.
ReplaceFails(r) ==
  /\ pc[r] = "replace"
  /\ Fault
  /\ pc' = [pc EXCEPT ![r] = "aborting"]
  /\ main' \in {previous[r], None}
  /\ UNCHANGED <<wal, store, server, lock, copy, source, previous, history, crashes>>

WalKept == wal  \* mutant

WalRemoved == None

Cleanup(r) ==
  /\ At(r, "cleanup", "succeeding")
  /\ wal' = WalRemoved
  /\ UNCHANGED <<main, store, server, lock, copy, source, previous, history, faults, crashes>>

\* One of the three files cannot be removed.
CleanupFails(r) ==
  /\ pc[r] = "cleanup"
  /\ Fault
  /\ pc' = [pc EXCEPT ![r] = "aborting"]
  /\ wal' \in {wal, None}
  /\ UNCHANGED <<main, store, server, lock, copy, source, previous, history, crashes>>

\* The finally block.  When the temporary file of a failed restore cannot be removed,
\* or the lock not be given up, the process ends with the lock file in place.
Release(r) ==
  \/ /\ At(r, "succeeding", "done") \/ At(r, "aborting", "failed")
     /\ lock' = None
     /\ UNCHANGED <<files, server, copy, source, previous, history, faults, crashes>>
  \/ /\ At(r, "succeeding", "failed") \/ At(r, "aborting", "failed")
     /\ Fault
     /\ UNCHANGED <<files, server, lock, copy, source, previous, history, crashes>>

Crash(o) ==
  /\ pc[o] \in Backing \cup Restoring
  /\ crashes < MaxCrashes
  /\ crashes' = crashes + 1
  /\ pc' = [pc EXCEPT ![o] = "crashed"]
  /\ UNCHANGED <<files, server, lock, copy, source, previous, history, faults>>

-----------------------------------------------------------------------------
BackupStep(o) ==
  \/ Begin(o) \/ TakeSnapshot(o) \/ VerifySnapshot(o)
  \/ PublishDatabase(o) \/ PublishManifest(o) \/ BackupFails(o)

RestoreStep(r) ==
  \/ \E p \in Path : VerifySource(r, p)
  \/ Lock(r) \/ StatCurrent(r) \/ CopySource(r) \/ RestoreFails(r)
  \/ MoveCurrent(r) \/ Replace(r) \/ ReplaceFails(r)
  \/ Cleanup(r) \/ CleanupFails(r) \/ Release(r)

Next ==
  \/ Start \/ Commit \/ Stop \/ ServerCrash
  \/ \E o \in Operation : BackupStep(o) \/ Crash(o)
  \/ \E r \in Restore : RestoreStep(r)

Spec == Init /\ [][Next]_vars

-----------------------------------------------------------------------------
(* Properties.                                                             *)

Stored(s) ==
  \/ main # None /\ Opened = s
  \/ \E p \in Path : Complete(p) /\ store[p].database = s

\* No crash and no failing step of a restore loses what was committed: the state
\* of the installation, and every state a restore replaced, is in the database or
\* in a complete backup, also while neither file of a rename is in place.
NothingLost ==
  \A s \in (replaced \cup {current}) \ {0, Torn} : Stored(s)

\* A backup that reported success stays what it reported, a verified database with
\* its manifest, whatever other backups, restores and crashes do.
BackupsTrue ==
  \A b \in Backup : pc[b] = "done" =>
    copy[b] # Torn /\ store[PathOf[b]] = [database |-> copy[b], manifest |-> copy[b]]

\* While the server runs, the database it reads changes by its commits only.
RunningUndisturbed ==
  [][server = "open" /\ server' = "open" /\ latest' = latest => Opened' = Opened]_vars

Whole == main # None /\ Opened # Torn

\* Whoever gets the lock finds a whole database, the old or the restored one, with
\* no other's -wal file beside it, unless a restore crashed or met a failing disk.
WholeUnlessInterrupted ==
  /\ faults = 0
  /\ \A r \in Restore : pc[r] # "crashed"
  /\ Free
  => Whole
=============================================================================
