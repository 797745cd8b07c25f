----------------------- MODULE LocalOperationsProofs -----------------------
(***************************************************************************)
(* Proofs about LocalOperations, for any number of backups, restores,      *)
(* commits, failing file operations and crashes: no committed state is     *)
(* lost, and a backup that reported success stays true.                    *)
(***************************************************************************)
EXTENDS LocalOperations, TLAPS

-----------------------------------------------------------------------------
(* The inductive invariant.                                                *)

Held == Backing \cup (Restoring \ {"lock"})

\* The server and a restore that has passed the lock exclude each other, and the
\* file a server has opened stays in place.
LockHeld ==
  /\ server = "open" => lock = Server /\ main # None
  /\ \A r \in Restore : pc[r] \in Held => lock = r

\* Only its own operation writes at a path, and never once a backup is complete.
PathsOwned ==
  \A o \in Operation :
    /\ pc[o] \in {"idle", "lock", "stat", "begin", "snapshot", "verify", "publish"} =>
         store[PathOf[o]] = Nothing
    /\ pc[o] = "seal" => store[PathOf[o]] = [database |-> copy[o], manifest |-> None]
    /\ pc[o] \in {"publish", "seal"} => Verified(copy[o])
    /\ o \in Backup /\ pc[o] = "done" =>
         /\ Verified(copy[o])
         /\ store[PathOf[o]] = [database |-> copy[o], manifest |-> copy[o]]

\* The backup a restore has verified stays complete, and is what it puts in place.
SourceKept ==
  \A r \in Restore :
    /\ pc[r] \in Backing \cup {"lock", "stat", "copy", "move", "replace"} =>
         source[r] \in Path /\ Complete(source[r])
    /\ pc[r] \in {"move", "replace"} => copy[r] = store[source[r]].database

\* Before a restore moves the database away, its state is in the recovery backup.
RecoveryKept ==
  \A r \in Restore :
    /\ pc[r] \in {"verify", "publish", "seal"} => main # None /\ copy[r] = Opened
    /\ pc[r] \in {"copy", "move"} /\ main # None =>
         Complete(PathOf[r]) /\ store[PathOf[r]].database = Opened
    /\ pc[r] = "replace" => main = None
    /\ pc[r] = "cleanup" => main # None /\ wal \in {None, Foreign}

Backed(s) == \E p \in Path : Complete(p) /\ store[p].database = s

\* What was replaced is in a backup, what is current at least in the database.
Owed ==
  /\ \A s \in replaced \ {0, Torn} : Backed(s)
  /\ current \notin {0, Torn} => Stored(current)

IInv ==
  /\ TypeOK /\ LockHeld /\ PathsOwned
  /\ SourceKept /\ RecoveryKept /\ Owed

LEMMA InitEstablishes ==
  Init => IInv
<1> SUFFICES ASSUME Init PROVE IInv
  OBVIOUS
<1> USE OperationsAssumption, BoundsAssumption DEF Init, Operation
<1>1. TypeOK
  <2>1. 1 \in State /\ 1 # None /\ 0 \in 0 .. MaxFaults /\ 0 \in 0 .. MaxCrashes
    BY DEF State
  <2>2. store \in [Path -> [database : Content \cup {None}, manifest : Content \cup {None}]]
    BY DEF Nothing
  <2>3. pc \in [Operation -> {"idle"} \cup Backing \cup Restoring \cup Ended]
    BY DEF Backing
  <2> QED BY <2>1, <2>2, <2>3 DEF TypeOK, Content
<1>2. LockHeld /\ RecoveryKept
  BY DEF LockHeld, RecoveryKept, Held, Backing, Restoring
<1>3. PathsOwned
  BY DEF PathsOwned
<1>4. SourceKept
  BY DEF SourceKept, Backing
<1>5. Owed
  BY DEF Owed, Stored, Opened
<1> QED BY <1>1, <1>2, <1>3, <1>4, <1>5 DEF IInv

\* Whoever writes at a path or clears it finds no complete backup there.
Writes(o) ==
  /\ pc[o] \in {"verify", "publish", "seal"}
  /\ \E b : store' = [store EXCEPT ![PathOf[o]] = b]

LEMMA CompleteStays ==
  ASSUME IInv, NEW o \in Operation, Writes(o) \/ UNCHANGED store
  PROVE  \A p \in Path : Complete(p) => Complete(p)' /\ store'[p] = store[p]
<1> SUFFICES ASSUME NEW p \in Path, Complete(p), Writes(o)
             PROVE  store'[p] = store[p]
  BY DEF Complete
<1>1. store[PathOf[o]].database = None \/ store[PathOf[o]].manifest # store[PathOf[o]].database
  <2>1. CASE pc[o] = "seal"
    <3>1. store[PathOf[o]] = [database |-> copy[o], manifest |-> None]
      BY <2>1 DEF IInv, PathsOwned
    <3>2. copy[o] # None
      BY <2>1 DEF IInv, PathsOwned, Verified
    <3> QED BY <3>1, <3>2
  <2>2. CASE pc[o] \in {"verify", "publish"}
    <3>1. store[PathOf[o]] = Nothing
      BY <2>2 DEF IInv, PathsOwned
    <3> QED BY <3>1 DEF Nothing
  <2> QED BY <2>1, <2>2 DEF Writes
<1>2. p # PathOf[o]
  BY <1>1 DEF Complete
<1> QED BY <1>2 DEF Writes, IInv, TypeOK

LEMMA StartKeeps ==
  ASSUME IInv, Start
  PROVE  IInv'
<1> USE OperationsAssumption, PathsAssumption, BoundsAssumption
    DEF IInv, TypeOK, Start, Operation, Backing,
        files, operations, history
<1>1. TypeOK'
  BY DEF Restoring, Ended, Content, State, Opened, Nothing
<1>2. LockHeld'
  BY DEF LockHeld, Held, Backing, Restoring, Ended, Free
<1>3. PathsOwned'
  BY DEF PathsOwned, Nothing, Verified
<1>4. SourceKept'
  BY DEF SourceKept, Complete, PathsOwned, Nothing, Verified
<1>5. RecoveryKept'
  BY DEF RecoveryKept, Opened, LockHeld, Held, Restoring, Complete, PathsOwned, Nothing, Free,
         Backing, Ended
<1>6. Owed'
  BY DEF Owed, Backed, Stored, Complete, Opened, RecoveryKept
<1> QED BY <1>1, <1>2, <1>3, <1>4, <1>5, <1>6

LEMMA CommitKeeps ==
  ASSUME IInv, Commit
  PROVE  IInv'
<1> USE OperationsAssumption, PathsAssumption, BoundsAssumption
    DEF IInv, TypeOK, Commit, Operation, Backing,
        files, operations, history
<1>1. TypeOK'
  BY DEF Restoring, Ended, Content, State, Opened, Nothing
<1>2. LockHeld'
  BY DEF LockHeld, Held, Restoring
<1>3. PathsOwned'
  BY DEF PathsOwned, Nothing, Verified
<1>4. SourceKept'
  BY DEF SourceKept, Complete, PathsOwned, Nothing, Verified
<1>5. RecoveryKept'
  BY DEF RecoveryKept, Opened, LockHeld, Held, Restoring, Complete, PathsOwned, Nothing
<1>6. Owed'
  <2>1. current' = wal' /\ wal' # None /\ wal' # Foreign /\ main' # None
    BY DEF Opened, LockHeld, State
  <2>2. Stored(current)'
    BY <2>1 DEF Stored, Opened
  <2> QED BY <2>2 DEF Owed, Backed, Complete
<1> QED BY <1>1, <1>2, <1>3, <1>4, <1>5, <1>6

LEMMA StopKeeps ==
  ASSUME IInv, Stop
  PROVE  IInv'
<1> USE OperationsAssumption, PathsAssumption, BoundsAssumption
    DEF IInv, TypeOK, Stop, Operation, Backing,
        files, operations, history
<1>1. TypeOK'
  BY DEF Restoring, Ended, Content, State, Opened, Nothing
<1>2. LockHeld'
  BY DEF LockHeld, Held, Restoring
<1>3. PathsOwned'
  BY DEF PathsOwned, Nothing, Verified
<1>4. SourceKept'
  BY DEF SourceKept, Complete, PathsOwned, Nothing, Verified
<1>5. RecoveryKept'
  BY DEF RecoveryKept, Opened, LockHeld, Held, Restoring, Complete, PathsOwned, Nothing
<1>6. Owed'
  BY DEF Owed, Backed, Stored, Complete, Opened, RecoveryKept
<1> QED BY <1>1, <1>2, <1>3, <1>4, <1>5, <1>6

LEMMA ServerCrashKeeps ==
  ASSUME IInv, ServerCrash
  PROVE  IInv'
<1> USE OperationsAssumption, PathsAssumption, BoundsAssumption
    DEF IInv, TypeOK, ServerCrash, Operation, Backing,
        files, operations, history
<1>1. TypeOK'
  BY DEF Restoring, Ended, Content, State, Opened, Nothing
<1>2. LockHeld'
  BY DEF LockHeld, Held, Restoring
<1>3. PathsOwned'
  BY DEF PathsOwned, Nothing, Verified
<1>4. SourceKept'
  BY DEF SourceKept, Complete, PathsOwned, Nothing, Verified
<1>5. RecoveryKept'
  BY DEF RecoveryKept, Opened, LockHeld, Held, Restoring, Complete, PathsOwned, Nothing
<1>6. Owed'
  BY DEF Owed, Backed, Stored, Complete, Opened, RecoveryKept
<1> QED BY <1>1, <1>2, <1>3, <1>4, <1>5, <1>6

LEMMA BeginKeeps ==
  ASSUME IInv, NEW o \in Operation, Begin(o)
  PROVE  IInv'
<1> USE OperationsAssumption, PathsAssumption, BoundsAssumption
    DEF IInv, TypeOK, Begin, At, Operation, Backing, Failing,
        files, operations, history
<1>1. TypeOK'
  BY DEF Restoring, Ended, Content, State, Opened, Nothing
<1>2. LockHeld'
  BY DEF LockHeld, Held, Restoring
<1>3. PathsOwned'
  BY DEF PathsOwned, Nothing, Verified
<1>4. SourceKept'
  BY DEF SourceKept, Complete, PathsOwned, Nothing, Verified
<1>5. RecoveryKept'
  BY DEF RecoveryKept, Opened, LockHeld, Held, Restoring, Complete, PathsOwned, Nothing
<1>6. Owed'
  BY DEF Owed, Backed, Stored, Complete, Opened, RecoveryKept
<1> QED BY <1>1, <1>2, <1>3, <1>4, <1>5, <1>6

LEMMA TakeSnapshotKeeps ==
  ASSUME IInv, NEW o \in Operation, TakeSnapshot(o)
  PROVE  IInv'
<1> USE OperationsAssumption, PathsAssumption, BoundsAssumption
    DEF IInv, TypeOK, TakeSnapshot, At, Operation, Backing, Failing, Fault,
        files, operations, history
<1>1. TypeOK'
  BY DEF Restoring, Ended, Content, State, Opened, Nothing
<1>2. LockHeld'
  BY DEF LockHeld, Held, Restoring
<1>3. PathsOwned'
  <2>1. \A q \in Operation \ {o} : pc'[q] = pc[q] /\ copy'[q] = copy[q]
    OBVIOUS
  <2>2. pc'[o] \in {"verify", "failed", "aborting"}
    BY DEF Failing
  <2>3. store' = store
    OBVIOUS
  <2>4. pc[o] = "snapshot"
    OBVIOUS
  <2>5. \A q \in Operation :
          pc'[q] \in {"idle", "lock", "stat", "begin", "snapshot", "verify", "publish"} =>
            store'[PathOf[q]] = Nothing
    BY <2>1, <2>3, <2>4 DEF PathsOwned
  <2>6. \A q \in Operation : pc'[q] \in {"publish", "seal", "done"} =>
          pc'[q] = pc[q] /\ copy'[q] = copy[q]
    BY <2>1, <2>2
  <2> HIDE DEF TakeSnapshot, IInv, TypeOK
  <2> QED BY <2>3, <2>5, <2>6 DEF PathsOwned, Verified, IInv
<1>4. SourceKept'
  BY DEF SourceKept, Complete, PathsOwned, Nothing, Verified
<1>5. RecoveryKept'
  BY DEF RecoveryKept, Opened, LockHeld, Held, Restoring, Complete, PathsOwned, Nothing
<1>6. Owed'
  BY DEF Owed, Backed, Stored, Complete, Opened, RecoveryKept
<1> QED BY <1>1, <1>2, <1>3, <1>4, <1>5, <1>6

LEMMA VerifySnapshotKeeps ==
  ASSUME IInv, NEW o \in Operation, VerifySnapshot(o)
  PROVE  IInv'
<1> USE OperationsAssumption, PathsAssumption, BoundsAssumption
    DEF IInv, TypeOK, VerifySnapshot, At, Operation, Backing, Failing, Discard,
        files, operations, history
<1>1. TypeOK'
  <2>1. CASE Verified(copy[o])
    BY <2>1 DEF Restoring, Ended
  <2>2. CASE ~Verified(copy[o])
    <3>1. store' \in [Path -> [database : Content \cup {None}, manifest : Content \cup {None}]]
      BY <2>2 DEF Discard, Nothing
    <3>2. pc' \in [Operation -> {"idle"} \cup Backing \cup Restoring \cup Ended]
      BY <2>2 DEF Discard, Failing, Restoring, Ended
    <3> QED BY <2>2, <3>1, <3>2 DEF Discard
  <2> QED BY <2>1, <2>2
<1>2. LockHeld'
  BY DEF LockHeld, Held, Restoring
<1>3. PathsOwned'
  BY DEF PathsOwned, Nothing, Verified
<1>4. SourceKept'
  <2>1. \A p \in Path : Complete(p) => Complete(p)' /\ store'[p] = store[p]
    BY CompleteStays DEF Writes
  <2>2. \A r \in Restore : source'[r] = source[r] /\ copy'[r] = copy[r]
    OBVIOUS
  <2>3. \A r \in Restore \ {o} : pc'[r] = pc[r]
    OBVIOUS
  <2>4. pc[o] = "verify" /\ pc'[o] \in {"publish", "failed", "aborting"}
    OBVIOUS
  <2> QED BY <2>1, <2>2, <2>3, <2>4 DEF SourceKept
<1>5. RecoveryKept'
  BY DEF RecoveryKept, Opened, LockHeld, Held, Restoring, Complete, PathsOwned, Nothing
<1>6. Owed'
  <2>1. main' = main /\ Opened' = Opened /\ replaced' = replaced /\ current' = current
    BY DEF Opened
  <2>2. \A s : Backed(s) => Backed(s)'
    BY CompleteStays DEF Backed, Writes
  <2> QED BY <2>1, <2>2 DEF Owed, Stored, Backed
<1> QED BY <1>1, <1>2, <1>3, <1>4, <1>5, <1>6

LEMMA PublishDatabaseKeeps ==
  ASSUME IInv, NEW o \in Operation, PublishDatabase(o)
  PROVE  IInv'
<1> USE OperationsAssumption, PathsAssumption, BoundsAssumption
    DEF IInv, TypeOK, PublishDatabase, At, Operation, Backing,
        files, operations, history
<1>1. TypeOK'
  BY DEF Restoring, Ended, Content, State, Opened, Nothing
<1>2. LockHeld'
  BY DEF LockHeld, Held, Restoring
<1>3. PathsOwned'
  BY DEF PathsOwned, Nothing, Verified
<1>4. SourceKept'
  BY CompleteStays DEF SourceKept, Writes
<1>5. RecoveryKept'
  BY DEF RecoveryKept, Opened, LockHeld, Held, Restoring, Complete, PathsOwned, Nothing
<1>6. Owed'
  <2>1. main' = main /\ Opened' = Opened /\ replaced' = replaced /\ current' = current
    BY DEF Opened
  <2>2. \A s : Backed(s) => Backed(s)'
    BY CompleteStays DEF Backed, Writes
  <2> QED BY <2>1, <2>2 DEF Owed, Stored, Backed
<1> QED BY <1>1, <1>2, <1>3, <1>4, <1>5, <1>6

LEMMA PublishManifestKeeps ==
  ASSUME IInv, NEW o \in Operation, PublishManifest(o)
  PROVE  IInv'
<1> USE OperationsAssumption, PathsAssumption, BoundsAssumption
    DEF IInv, TypeOK, PublishManifest, At, Operation, Backing,
        files, operations, history
<1>1. TypeOK'
  BY DEF Restoring, Ended, Content, State, Opened, Nothing
<1>2. LockHeld'
  BY DEF LockHeld, Held, Restoring
<1>3. PathsOwned'
  BY DEF PathsOwned, Nothing, Verified
<1>4. SourceKept'
  BY CompleteStays DEF SourceKept, Writes
<1>5. RecoveryKept'
  <2>1. main' = main /\ wal' = wal /\ Opened' = Opened /\ copy' = copy
    BY DEF Opened
  <2>2. CASE o \in Backup
    <3>1. \A r \in Restore : pc'[r] = pc[r] /\ PathOf[r] \in Path
      BY <2>2
    <3> QED BY <2>1, <3>1, CompleteStays DEF RecoveryKept, Writes
  <2>3. CASE o \in Restore
    <3>1. \A q \in Restore \ {o} : pc'[q] = pc[q] /\ pc[q] \notin Held
      BY <2>3 DEF LockHeld, Held
    <3>2. pc'[o] = "copy"
      BY <2>3
    <3>3. store[PathOf[o]] = [database |-> copy[o], manifest |-> None] /\ copy[o] # None
      <4>1. pc[o] = "seal"
        OBVIOUS
      <4> QED BY <4>1 DEF PathsOwned, Verified
    <3>5. store'[PathOf[o]] = [database |-> copy[o], manifest |-> copy[o]]
      BY <3>3
    <3>4. copy[o] = Opened
      BY <2>3 DEF RecoveryKept
    <3> QED BY <2>1, <3>1, <3>2, <3>3, <3>4, <3>5 DEF RecoveryKept, Held, Restoring, Complete
  <2> QED BY <2>2, <2>3
<1>6. Owed'
  <2>1. main' = main /\ Opened' = Opened /\ replaced' = replaced /\ current' = current
    BY DEF Opened
  <2>2. \A s : Backed(s) => Backed(s)'
    BY CompleteStays DEF Backed, Writes
  <2> QED BY <2>1, <2>2 DEF Owed, Stored, Backed
<1> QED BY <1>1, <1>2, <1>3, <1>4, <1>5, <1>6

LEMMA BackupFailsKeeps ==
  ASSUME IInv, NEW o \in Operation, BackupFails(o)
  PROVE  IInv'
<1> USE OperationsAssumption, PathsAssumption, BoundsAssumption
    DEF IInv, TypeOK, BackupFails, Operation, Backing, Failing, Discard, Fault,
        files, operations, history
<1>1. TypeOK'
  BY DEF Restoring, Ended, Content, State, Opened, Nothing
<1>2. LockHeld'
  BY DEF LockHeld, Held, Restoring
<1>3. PathsOwned'
  BY DEF PathsOwned, Nothing, Verified
<1>4. SourceKept'
  BY CompleteStays DEF SourceKept, Writes
<1>5. RecoveryKept'
  BY DEF RecoveryKept, Opened, LockHeld, Held, Restoring, Complete, PathsOwned, Nothing
<1>6. Owed'
  <2>1. main' = main /\ Opened' = Opened /\ replaced' = replaced /\ current' = current
    BY DEF Opened
  <2>2. \A s : Backed(s) => Backed(s)'
    BY CompleteStays DEF Backed, Writes
  <2> QED BY <2>1, <2>2 DEF Owed, Stored, Backed
<1> QED BY <1>1, <1>2, <1>3, <1>4, <1>5, <1>6

LEMMA CrashKeeps ==
  ASSUME IInv, NEW o \in Operation, Crash(o)
  PROVE  IInv'
<1> USE OperationsAssumption, PathsAssumption, BoundsAssumption
    DEF IInv, TypeOK, Crash, Operation, Backing,
        files, operations, history
<1>1. TypeOK'
  BY DEF Restoring, Ended, Content, State, Opened, Nothing
<1>2. LockHeld'
  BY DEF LockHeld, Held, Restoring
<1>3. PathsOwned'
  BY DEF PathsOwned, Nothing, Verified
<1>4. SourceKept'
  BY DEF SourceKept, Complete, PathsOwned, Nothing, Verified
<1>5. RecoveryKept'
  BY DEF RecoveryKept, Opened, LockHeld, Held, Restoring, Complete, PathsOwned, Nothing
<1>6. Owed'
  BY DEF Owed, Backed, Stored, Complete, Opened, RecoveryKept
<1> QED BY <1>1, <1>2, <1>3, <1>4, <1>5, <1>6

LEMMA VerifySourceKeeps ==
  ASSUME IInv, NEW r \in Restore, NEW p \in Path, VerifySource(r, p)
  PROVE  IInv'
<1> USE OperationsAssumption, PathsAssumption, BoundsAssumption
    DEF IInv, TypeOK, VerifySource, At, Operation, Backing,
        files, operations, history
<1>1. TypeOK'
  BY DEF Restoring, Ended, Content, State, Opened, Nothing
<1>2. LockHeld'
  BY DEF LockHeld, Held, Restoring
<1>3. PathsOwned'
  BY DEF PathsOwned, Nothing, Verified
<1>4. SourceKept'
  BY DEF SourceKept, Complete, PathsOwned, Nothing, Verified
<1>5. RecoveryKept'
  BY DEF RecoveryKept, Opened, LockHeld, Held, Restoring, Complete, PathsOwned, Nothing
<1>6. Owed'
  BY DEF Owed, Backed, Stored, Complete, Opened, RecoveryKept
<1> QED BY <1>1, <1>2, <1>3, <1>4, <1>5, <1>6

LEMMA LockKeeps ==
  ASSUME IInv, NEW r \in Restore, Lock(r)
  PROVE  IInv'
<1> USE OperationsAssumption, PathsAssumption, BoundsAssumption
    DEF IInv, TypeOK, Lock, At, Operation, Backing,
        files, operations, history
<1>1. TypeOK'
  BY DEF Restoring, Ended, Content, State, Opened, Nothing
<1>2. LockHeld'
  BY DEF LockHeld, Held, Backing, Restoring, Ended, Free
<1>3. PathsOwned'
  BY DEF PathsOwned, Nothing, Verified
<1>4. SourceKept'
  BY DEF SourceKept, Complete, PathsOwned, Nothing, Verified
<1>5. RecoveryKept'
  BY DEF RecoveryKept, Opened, LockHeld, Held, Restoring, Complete, PathsOwned, Nothing, Free,
         Backing, Ended
<1>6. Owed'
  BY DEF Owed, Backed, Stored, Complete, Opened, RecoveryKept
<1> QED BY <1>1, <1>2, <1>3, <1>4, <1>5, <1>6

LEMMA StatCurrentKeeps ==
  ASSUME IInv, NEW r \in Restore, StatCurrent(r)
  PROVE  IInv'
<1> USE OperationsAssumption, PathsAssumption, BoundsAssumption
    DEF IInv, TypeOK, StatCurrent, At, Operation, Backing,
        files, operations, history
<1>1. TypeOK'
  BY DEF Restoring, Ended, Content, State, Opened, Nothing, AfterStat
<1>2. LockHeld'
  BY DEF LockHeld, Held, Restoring, AfterStat
<1>3. PathsOwned'
  BY DEF PathsOwned, Nothing, Verified, AfterStat
<1>4. SourceKept'
  BY DEF SourceKept, Complete, PathsOwned, Nothing, Verified, AfterStat
<1>5. RecoveryKept'
  BY DEF RecoveryKept, Opened, LockHeld, Held, Restoring, Complete, PathsOwned, Nothing, AfterStat
<1>6. Owed'
  BY DEF Owed, Backed, Stored, Complete, Opened, RecoveryKept, AfterStat
<1> QED BY <1>1, <1>2, <1>3, <1>4, <1>5, <1>6

LEMMA CopySourceKeeps ==
  ASSUME IInv, NEW r \in Restore, CopySource(r)
  PROVE  IInv'
<1> USE OperationsAssumption, PathsAssumption, BoundsAssumption
    DEF IInv, TypeOK, CopySource, At, Operation, Backing,
        files, operations, history
<1>1. TypeOK'
  BY DEF Restoring, Ended, Content, State, Opened, Nothing, SourceKept, Complete
<1>2. LockHeld'
  BY DEF LockHeld, Held, Restoring
<1>3. PathsOwned'
  BY SMTT(30) DEF PathsOwned, Nothing, Verified
<1>4. SourceKept'
  BY DEF SourceKept, Complete, PathsOwned, Nothing, Verified
<1>5. RecoveryKept'
  BY DEF RecoveryKept, Opened, LockHeld, Held, Restoring, Complete, PathsOwned, Nothing
<1>6. Owed'
  BY DEF Owed, Backed, Stored, Complete, Opened, RecoveryKept
<1> QED BY <1>1, <1>2, <1>3, <1>4, <1>5, <1>6

LEMMA RestoreFailsKeeps ==
  ASSUME IInv, NEW r \in Restore, RestoreFails(r)
  PROVE  IInv'
<1> USE OperationsAssumption, PathsAssumption, BoundsAssumption
    DEF IInv, TypeOK, RestoreFails, Operation, Backing, Fault,
        files, operations, history
<1>1. TypeOK'
  BY DEF Restoring, Ended, Content, State, Opened, Nothing
<1>2. LockHeld'
  BY DEF LockHeld, Held, Restoring
<1>3. PathsOwned'
  BY DEF PathsOwned, Nothing, Verified
<1>4. SourceKept'
  BY DEF SourceKept, Complete, PathsOwned, Nothing, Verified
<1>5. RecoveryKept'
  BY DEF RecoveryKept, Opened, LockHeld, Held, Restoring, Complete, PathsOwned, Nothing
<1>6. Owed'
  BY DEF Owed, Backed, Stored, Complete, Opened, RecoveryKept
<1> QED BY <1>1, <1>2, <1>3, <1>4, <1>5, <1>6

LEMMA MoveCurrentKeeps ==
  ASSUME IInv, NEW r \in Restore, MoveCurrent(r)
  PROVE  IInv'
<1> USE OperationsAssumption, PathsAssumption, BoundsAssumption
    DEF IInv, TypeOK, MoveCurrent, At, Operation, Backing,
        files, operations, history
<1>1. TypeOK'
  BY DEF Restoring, Ended, Content, State, Opened, Nothing
<1>2. LockHeld'
  BY DEF LockHeld, Held, Restoring
<1>3. PathsOwned'
  BY DEF PathsOwned, Nothing, Verified
<1>4. SourceKept'
  BY DEF SourceKept, Complete, PathsOwned, Nothing, Verified
<1>5. RecoveryKept'
  BY DEF RecoveryKept, Opened, LockHeld, Held, Restoring, Complete, PathsOwned, Nothing
<1>6. Owed'
  <2>1. \A s : Backed(s) => Backed(s)'
    BY DEF Backed, Complete
  <2>2. \A s : Stored(s) => Backed(s)
    BY DEF Stored, Backed, RecoveryKept
  <2> QED BY <2>1, <2>2 DEF Owed, Stored, Backed
<1> QED BY <1>1, <1>2, <1>3, <1>4, <1>5, <1>6

LEMMA ReplaceKeeps ==
  ASSUME IInv, NEW r \in Restore, Replace(r)
  PROVE  IInv'
<1> USE OperationsAssumption, PathsAssumption, BoundsAssumption
    DEF IInv, TypeOK, Replace, At, Operation, Backing,
        files, operations, history
<1>1. TypeOK'
  BY DEF Restoring, Ended, Content, State, Opened, Nothing, SourceKept, Complete
<1>2. LockHeld'
  BY DEF LockHeld, Held, Restoring
<1>3. PathsOwned'
  BY DEF PathsOwned, Nothing, Verified
<1>4. SourceKept'
  BY DEF SourceKept, Complete, PathsOwned, Nothing, Verified
<1>5. RecoveryKept'
  BY DEF RecoveryKept, Opened, LockHeld, Held, Restoring, Complete, PathsOwned, Nothing, SourceKept
<1>6. Owed'
  <2>1. \A s : Backed(s) => Backed(s)'
    BY DEF Backed, Complete
  <2>2. Backed(copy[r])
    BY DEF SourceKept, Backed
  <2>3. current \notin {0, Torn} => Backed(current)
    BY DEF Owed, Stored, Backed, RecoveryKept
  <2>4. current' = copy[r] /\ replaced' = replaced \cup {current}
    OBVIOUS
  <2>5. \A s \in replaced' \ {0, Torn} : Backed(s)'
    BY <2>1, <2>3, <2>4 DEF Owed
  <2>6. Backed(current)'
    BY <2>1, <2>2, <2>4 DEF Backed, Complete
  <2> QED BY <2>5, <2>6 DEF Owed, Stored, Backed
<1> QED BY <1>1, <1>2, <1>3, <1>4, <1>5, <1>6

LEMMA ReplaceFailsKeeps ==
  ASSUME IInv, NEW r \in Restore, ReplaceFails(r)
  PROVE  IInv'
<1> USE OperationsAssumption, PathsAssumption, BoundsAssumption
    DEF IInv, TypeOK, ReplaceFails, Operation, Backing, Fault,
        files, operations, history
<1>1. TypeOK'
  BY DEF Restoring, Ended, Content, State, Opened, Nothing
<1>2. LockHeld'
  BY DEF LockHeld, Held, Restoring
<1>3. PathsOwned'
  BY DEF PathsOwned, Nothing, Verified
<1>4. SourceKept'
  BY DEF SourceKept, Complete, PathsOwned, Nothing, Verified
<1>5. RecoveryKept'
  BY DEF RecoveryKept, Opened, LockHeld, Held, Restoring, Complete, PathsOwned, Nothing
<1>6. Owed'
  BY DEF Owed, Backed, Stored, Complete, Opened, RecoveryKept
<1> QED BY <1>1, <1>2, <1>3, <1>4, <1>5, <1>6

LEMMA CleanupKeeps ==
  ASSUME IInv, NEW r \in Restore, Cleanup(r)
  PROVE  IInv'
<1> USE OperationsAssumption, PathsAssumption, BoundsAssumption
    DEF IInv, TypeOK, Cleanup, At, Operation, Backing,
        files, operations, history
<1>1. TypeOK'
  BY DEF Restoring, Ended, Content, State, Opened, Nothing, WalRemoved
<1>2. LockHeld'
  BY DEF LockHeld, Held, Restoring, WalRemoved
<1>3. PathsOwned'
  BY DEF PathsOwned, Nothing, Verified, WalRemoved
<1>4. SourceKept'
  BY DEF SourceKept, Complete, PathsOwned, Nothing, Verified, WalRemoved
<1>5. RecoveryKept'
  BY DEF RecoveryKept, Opened, LockHeld, Held, Restoring, Complete, PathsOwned, Nothing, WalRemoved
<1>6. Owed'
  <2>1. \A s : Backed(s) => Backed(s)'
    BY DEF Backed, Complete
  <2>2. \A s \in {current} \ {Torn} : Stored(s) => Stored(s)'
    BY DEF Stored, Opened, RecoveryKept, Complete, WalRemoved
  <2> QED BY <2>1, <2>2 DEF Owed
<1> QED BY <1>1, <1>2, <1>3, <1>4, <1>5, <1>6

LEMMA CleanupFailsKeeps ==
  ASSUME IInv, NEW r \in Restore, CleanupFails(r)
  PROVE  IInv'
<1> USE OperationsAssumption, PathsAssumption, BoundsAssumption
    DEF IInv, TypeOK, CleanupFails, Operation, Backing, Fault,
        files, operations, history
<1>1. TypeOK'
  BY DEF Restoring, Ended, Content, State, Opened, Nothing
<1>2. LockHeld'
  BY DEF LockHeld, Held, Restoring
<1>3. PathsOwned'
  BY DEF PathsOwned, Nothing, Verified
<1>4. SourceKept'
  BY DEF SourceKept, Complete, PathsOwned, Nothing, Verified
<1>5. RecoveryKept'
  BY DEF RecoveryKept, Opened, LockHeld, Held, Restoring, Complete, PathsOwned, Nothing
<1>6. Owed'
  BY DEF Owed, Backed, Stored, Complete, Opened, RecoveryKept
<1> QED BY <1>1, <1>2, <1>3, <1>4, <1>5, <1>6

LEMMA ReleaseKeeps ==
  ASSUME IInv, NEW r \in Restore, Release(r)
  PROVE  IInv'
<1> USE OperationsAssumption, PathsAssumption, BoundsAssumption
    DEF IInv, TypeOK, Release, At, Operation, Backing,
        files, operations, history
<1>1. TypeOK'
  <2>1. pc' \in [Operation -> {"idle"} \cup Backing \cup Restoring \cup Ended]
    BY DEF Restoring, Ended
  <2>2. lock' \in Restore \cup {Server, None} /\ faults' \in 0 .. MaxFaults
    BY DEF Fault
  <2> QED BY <2>1, <2>2
<1>2. LockHeld'
  <2>1. r \notin {Server, None} /\ lock = r /\ server # "open"
    BY DEF LockHeld, Held, Restoring
  <2>2. pc'[r] \notin Held /\ \A q \in Restore \ {r} : pc'[q] = pc[q]
    BY DEF Held, Restoring
  <2>3. \A q \in Restore \ {r} : pc[q] \notin Held
    BY <2>1 DEF LockHeld
  <2> HIDE DEF Release
  <2>4. UNCHANGED <<server, main>>
    BY DEF Release
  <2> QED BY <2>1, <2>2, <2>3, <2>4 DEF LockHeld
<1>3. PathsOwned'
  BY DEF PathsOwned, Nothing, Verified
<1>4. SourceKept'
  BY DEF SourceKept, Complete, PathsOwned, Nothing, Verified
<1>5. RecoveryKept'
  BY DEF RecoveryKept, Opened, LockHeld, Held, Restoring, Complete, PathsOwned, Nothing
<1>6. Owed'
  BY DEF Owed, Backed, Stored, Complete, Opened, RecoveryKept
<1> QED BY <1>1, <1>2, <1>3, <1>4, <1>5, <1>6

LEMMA StutterKeeps ==
  ASSUME IInv, UNCHANGED vars
  PROVE  IInv'
BY DEF IInv, vars, files, operations, history, TypeOK, LockHeld, PathsOwned, SourceKept,
       RecoveryKept, Owed, Held, Opened, Complete, Stored, Backed, Verified

LEMMA NextKeeps ==
  IInv /\ [Next]_vars => IInv'
<1> SUFFICES ASSUME IInv, [Next]_vars PROVE IInv'
  OBVIOUS
<1>1. CASE Start \/ Commit \/ Stop \/ ServerCrash
  BY <1>1, StartKeeps, CommitKeeps, StopKeeps, ServerCrashKeeps
<1>2. CASE \E o \in Operation : BackupStep(o) \/ Crash(o)
  BY <1>2, BeginKeeps, TakeSnapshotKeeps, VerifySnapshotKeeps, PublishDatabaseKeeps,
     PublishManifestKeeps, BackupFailsKeeps, CrashKeeps DEF BackupStep
<1>3. CASE \E r \in Restore : RestoreStep(r)
  BY <1>3, VerifySourceKeeps, LockKeeps, StatCurrentKeeps, CopySourceKeeps, RestoreFailsKeeps,
     MoveCurrentKeeps, ReplaceKeeps, ReplaceFailsKeeps, CleanupKeeps, CleanupFailsKeeps,
     ReleaseKeeps DEF RestoreStep
<1>4. CASE UNCHANGED vars
  BY <1>4, StutterKeeps
<1> QED BY <1>1, <1>2, <1>3, <1>4 DEF Next

LEMMA Invariance == Spec => []IInv
  BY InitEstablishes, NextKeeps, PTL DEF Spec

-----------------------------------------------------------------------------
(* The theorems.                                                           *)

\* Every variable stays in its domain, whatever crashes and fails.
THEOREM TypeCorrect == Spec => []TypeOK
<1>1. IInv => TypeOK
  BY DEF IInv
<1> QED BY <1>1, Invariance, PTL

\* The state the installation is in and every state a restore replaced stay in the
\* database or in a complete backup: the recovery backup precedes every removal.
THEOREM NoStateLost == Spec => []NothingLost
<1>1. IInv => NothingLost
  BY DEF IInv, Owed, Backed, Stored, NothingLost
<1> QED BY <1>1, Invariance, PTL

\* A backup that was reported is never written over, cleared or found torn.
THEOREM BackupsStayTrue == Spec => []BackupsTrue
<1>1. IInv => BackupsTrue
  BY DEF IInv, PathsOwned, Verified, BackupsTrue, Operation
<1> QED BY <1>1, Invariance, PTL

\* No restore, backup or crash changes the database a running server reads.
THEOREM ServerUndisturbed == Spec => RunningUndisturbed
<1>1. IInv /\ [Next]_vars =>
        [server = "open" /\ server' = "open" /\ latest' = latest => Opened' = Opened]_vars
  <2> SUFFICES ASSUME IInv, Next, server = "open", server' = "open", latest' = latest
               PROVE  Opened' = Opened
    OBVIOUS
  <2>1. \A r \in Restore : pc[r] \notin Held
    BY OperationsAssumption DEF IInv, LockHeld, Operation
  <2>2. CASE Start \/ Commit \/ Stop \/ ServerCrash
    BY <2>2, BoundsAssumption DEF Start, Commit, Stop, ServerCrash, files, IInv, TypeOK, State
  <2>3. CASE \E o \in Operation : BackupStep(o) \/ Crash(o)
    BY <2>3 DEF BackupStep, Crash, Begin, TakeSnapshot, VerifySnapshot, PublishDatabase,
         PublishManifest, BackupFails, Discard, files, Opened
  <2>4. CASE \E r \in Restore : RestoreStep(r)
    <3>1. UNCHANGED <<main, wal>>
      BY <2>1, <2>4 DEF RestoreStep, VerifySource, Lock, StatCurrent, CopySource, RestoreFails,
           MoveCurrent, Replace, ReplaceFails, Cleanup, CleanupFails, Release, At, Held,
           Restoring, files
    <3> QED BY <3>1 DEF Opened
  <2> QED BY <2>2, <2>3, <2>4 DEF Next
<1> QED BY <1>1, Invariance, PTL DEF Spec, RunningUndisturbed

-----------------------------------------------------------------------------
(* What the one who gets the lock finds.                                   *)

\* A restore puts nothing in place that it has not verified.
CopiesVerified ==
  \A r \in Restore : pc[r] \in {"move", "replace"} => Verified(copy[r])

Uninterrupted == faults = 0 /\ \A r \in Restore : pc[r] # "crashed"

\* Without a failing disk or a crashed restore the database is missing, or has
\* another's -wal file beside it, only in the hands of a restore.
Intact ==
  Uninterrupted =>
    /\ main # Torn /\ wal # Torn
    /\ main = None => \E r \in Restore : pc[r] = "replace"
    /\ wal = Foreign => \E r \in Restore : pc[r] = "cleanup"

\* A restore that has the lock keeps it from everyone else.
LEMMA HandsOff ==
  ASSUME IInv, NEW r \in Restore, pc[r] \in {"replace", "cleanup"}
  PROVE  server # "open" /\ ~Free /\ \A q \in Restore : pc[q] \in Held => q = r
<1>1. lock = r /\ \A q \in Restore : pc[q] \in Held => lock = q
  BY DEF IInv, LockHeld, Held, Restoring
<1>2. r # Server /\ r # None
  BY OperationsAssumption DEF Operation
<1> QED BY <1>1, <1>2 DEF Free, IInv, LockHeld, Held, Backing, Restoring, Ended

\* The steps that leave the database, its -wal file and a restore between the two
\* renames and the removal alone.
LEMMA ElsewhereKeeps ==
  ASSUME IInv, CopiesVerified, Intact,
         UNCHANGED <<main, wal>>, faults' \in Nat, faults' >= faults,
         \A r \in Restore :
           /\ pc'[r] # "crashed" =>
                /\ pc[r] # "crashed"
                /\ pc[r] \in {"replace", "cleanup"} => pc'[r] = pc[r]
           /\ pc'[r] \in {"move", "replace"} =>
                Verified(copy'[r]) \/ (pc[r] = pc'[r] /\ copy'[r] = copy[r])
  PROVE  CopiesVerified' /\ Intact'
<1>1. CopiesVerified'
  BY DEF CopiesVerified, Verified
<1>2. faults \in Nat
  BY BoundsAssumption DEF IInv, TypeOK
<1>3. Uninterrupted' => Uninterrupted
  BY <1>2 DEF Uninterrupted
<1>4. ASSUME Uninterrupted', NEW r \in Restore, pc[r] \in {"replace", "cleanup"}
      PROVE  pc'[r] = pc[r]
  BY <1>4 DEF Uninterrupted
<1>5. Intact'
  BY <1>3, <1>4 DEF Intact
<1> QED BY <1>1, <1>5

LEMMA IntactStep == IInv /\ CopiesVerified /\ Intact /\ [Next]_vars => CopiesVerified' /\ Intact'
<1> SUFFICES ASSUME IInv, CopiesVerified, Intact, [Next]_vars
             PROVE  CopiesVerified' /\ Intact'
  OBVIOUS
<1> USE OperationsAssumption, BoundsAssumption DEF Operation
<1>0. /\ TypeOK /\ faults \in Nat /\ State \subseteq Nat /\ Torn \notin State
      /\ Foreign \notin Content /\ None \notin Content
  BY DEF IInv, TypeOK, State, Content
<1>1. CASE Start
  <2>1. \A r \in Restore : pc[r] \notin {"replace", "cleanup"}
    BY <1>1, HandsOff DEF Start
  <2>2. /\ UNCHANGED <<pc, copy, faults>>
        /\ main' = IF main = None THEN 0 ELSE IF wal = Foreign THEN Torn ELSE main
        /\ wal' = IF main = None \/ wal = Foreign THEN None ELSE wal
    BY <1>1 DEF Start, operations
  <2>3. Uninterrupted => main # None /\ wal # Foreign
    BY <2>1 DEF Intact
  <2> QED BY <1>0, <2>2, <2>3 DEF CopiesVerified, Verified, Intact, Uninterrupted
<1>2. CASE Commit
  <2>1. \A r \in Restore : pc[r] \notin {"replace", "cleanup"}
    BY <1>2, HandsOff DEF Commit
  <2>2. /\ UNCHANGED <<main, pc, copy, faults>> /\ main # None
        /\ wal' \in Nat \cup {Torn} /\ (Opened # Torn => wal' \in Nat)
    BY <1>0, <1>2 DEF Commit, operations, IInv, LockHeld, State, TypeOK
  <2>3. Uninterrupted => Opened # Torn /\ main # Torn
    BY <1>0, <2>1 DEF Intact, Opened
  <2> QED BY <1>0, <2>2, <2>3 DEF CopiesVerified, Verified, Intact, Uninterrupted
<1>3. CASE Stop
  <2>1. \A r \in Restore : pc[r] \notin {"replace", "cleanup"}
    BY <1>3, HandsOff DEF Stop
  <2>2. /\ UNCHANGED <<pc, copy, faults>> /\ main # None
        /\ UNCHANGED <<main, wal>> \/ (main' = Opened /\ wal' = None)
    BY <1>3 DEF Stop, operations, IInv, LockHeld
  <2>3. Uninterrupted => main # Torn /\ wal \notin {Torn, Foreign}
    BY <2>1 DEF Intact
  <2>4. Uninterrupted => main' \notin {Torn, None} /\ wal' \notin {Torn, Foreign}
    BY <1>0, <2>2, <2>3 DEF Opened, TypeOK
  <2> QED BY <2>2, <2>4 DEF CopiesVerified, Verified, Intact, Uninterrupted
<1>4. CASE ServerCrash
  BY <1>0, <1>4, ElsewhereKeeps DEF ServerCrash, files, operations
<1>5. ASSUME NEW o \in Operation, BackupStep(o) PROVE CopiesVerified' /\ Intact'
  <2>1. /\ UNCHANGED <<main, wal>> /\ faults' \in Nat /\ faults' >= faults
        /\ copy' = copy \/ (pc[o] = "snapshot" /\ copy' = [copy EXCEPT ![o] = Opened])
    BY <1>0, <1>5 DEF BackupStep, Begin, TakeSnapshot, VerifySnapshot, PublishDatabase,
         PublishManifest, BackupFails, Discard, Fault, At, files
  <2>2. /\ pc[o] \in Backing
        /\ \E next \in {"snapshot", "verify", "publish", "seal", "done", "copy",
                         "failed", "aborting"} : pc' = [pc EXCEPT ![o] = next]
    BY <1>5 DEF BackupStep, Begin, TakeSnapshot, VerifySnapshot, PublishDatabase,
         PublishManifest, BackupFails, Discard, Fault, At, Failing, Backing
  <2>3. ASSUME NEW r \in Restore, r # o PROVE pc'[r] = pc[r] /\ copy'[r] = copy[r]
    BY <1>0, <2>1, <2>2, <2>3 DEF TypeOK
  <2>4. pc'[o] \notin {"crashed", "move", "replace"} /\ pc[o] \notin {"crashed", "replace", "cleanup"}
    BY <1>0, <2>2 DEF TypeOK, Backing
  <2> QED BY <2>1, <2>3, <2>4, ElsewhereKeeps
<1>6. ASSUME NEW o \in Operation, Crash(o) PROVE CopiesVerified' /\ Intact'
  <2>1. /\ UNCHANGED <<main, wal, copy, faults>>
        /\ \A r \in Restore : pc'[r] = pc[r] \/ pc'[r] = "crashed"
    BY <1>0, <1>6 DEF Crash, files, operations, TypeOK
  <2> QED BY <1>0, <2>1, ElsewhereKeeps
<1>7. ASSUME NEW r \in Restore, RestoreStep(r) PROVE CopiesVerified' /\ Intact'
  <2>1. CASE MoveCurrent(r)
    <3>1. /\ UNCHANGED <<wal, copy, faults>> /\ main' = None /\ pc[r] = "move"
          /\ pc' = [pc EXCEPT ![r] = "replace"]
      BY <2>1 DEF MoveCurrent, At
    <3>2. \A q \in Restore : pc[q] # "cleanup"
      BY <3>1, HandsOff DEF Held, Restoring
    <3>3. Uninterrupted' => Uninterrupted
      BY <1>0, <3>1 DEF Uninterrupted, TypeOK
    <3> QED BY <1>0, <3>1, <3>2, <3>3 DEF TypeOK, CopiesVerified, Verified, Intact
  <2>2. CASE Replace(r)
    <3>1. /\ copy' = copy /\ main' = copy[r] /\ pc[r] = "replace"
          /\ pc' = [pc EXCEPT ![r] = "cleanup"] /\ wal' \in {None, Foreign}
      BY <2>2 DEF Replace, At
    <3>2. main' \notin {Torn, None}
      BY <3>1 DEF CopiesVerified, Verified
    <3> QED BY <1>0, <3>1, <3>2 DEF TypeOK, CopiesVerified, Verified, Intact
  <2>3. CASE Cleanup(r)
    <3>1. /\ UNCHANGED <<main, copy, faults>> /\ wal' = None /\ pc[r] = "cleanup"
          /\ pc' = [pc EXCEPT ![r] = "succeeding"]
      BY <2>3 DEF Cleanup, At, WalRemoved
    <3>2. main # None
      BY <3>1 DEF IInv, RecoveryKept
    <3>3. Uninterrupted' => Uninterrupted
      BY <1>0, <3>1 DEF Uninterrupted, TypeOK
    <3> QED BY <1>0, <3>1, <3>2, <3>3 DEF TypeOK, CopiesVerified, Verified, Intact
  <2>4. CASE ReplaceFails(r) \/ CleanupFails(r)
    <3>1. faults' = faults + 1 /\ copy' = copy /\ pc' = [pc EXCEPT ![r] = "aborting"]
      BY <2>4 DEF ReplaceFails, CleanupFails, Fault
    <3> QED BY <1>0, <3>1 DEF TypeOK, CopiesVerified, Verified, Intact, Uninterrupted
  <2>5. CASE CopySource(r)
    <3>1. /\ UNCHANGED <<main, wal, faults>> /\ pc[r] = "copy"
          /\ \/ /\ pc' = [pc EXCEPT ![r] = "move"] /\ Verified(copy'[r])
                /\ \A q \in Restore \ {r} : copy'[q] = copy[q]
             \/ pc' = [pc EXCEPT ![r] = "aborting"] /\ copy' = copy
      BY <1>0, <2>5 DEF CopySource, At, files, TypeOK, Verified
    <3>2. \A q \in Restore \ {r} : pc'[q] = pc[q] /\ copy'[q] = copy[q]
      BY <1>0, <3>1 DEF TypeOK
    <3>3. \/ pc'[r] = "move" /\ Verified(copy'[r])
          \/ pc'[r] = "aborting"
      BY <1>0, <3>1 DEF TypeOK
    <3>4. UNCHANGED <<main, wal>> /\ faults' \in Nat /\ faults' >= faults /\ pc[r] = "copy"
      BY <1>0, <3>1
    <3>5. ASSUME NEW q \in Restore
          PROVE  /\ pc'[q] # "crashed" =>
                      /\ pc[q] # "crashed"
                      /\ pc[q] \in {"replace", "cleanup"} => pc'[q] = pc[q]
                 /\ pc'[q] \in {"move", "replace"} =>
                      Verified(copy'[q]) \/ (pc[q] = pc'[q] /\ copy'[q] = copy[q])
      <4>1. CASE q = r
        BY <3>3, <3>4, <4>1
      <4>2. CASE q # r
        BY <3>2, <4>2
      <4> QED BY <4>1, <4>2
    <3> HIDE DEF Operation
    <3> QED BY <3>4, <3>5, ElsewhereKeeps
  <2>6. CASE (\E p \in Path : VerifySource(r, p)) \/ Lock(r) \/ StatCurrent(r)
             \/ RestoreFails(r) \/ Release(r)
    <3> USE DEF At, files
    <3>1. UNCHANGED <<main, wal, copy>> /\ faults' \in Nat /\ faults' >= faults
      BY <1>0, <2>6 DEF VerifySource, Lock, StatCurrent, RestoreFails, Release, Fault
    <3>2. pc[r] \in {"idle", "lock", "stat", "copy", "move", "succeeding", "aborting"}
      BY <2>6 DEF VerifySource, Lock, StatCurrent, RestoreFails, Release
    <3>3. \E next \in {"lock", "stat", "refused", "begin", "copy", "aborting", "done", "failed"} :
             pc' = [pc EXCEPT ![r] = next]
      BY <2>6 DEF VerifySource, Lock, StatCurrent, AfterStat, RestoreFails, Release
    <3>4. \A q \in Restore \ {r} : pc'[q] = pc[q]
      BY <1>0, <3>3 DEF TypeOK
    <3>5. pc'[r] \notin {"crashed", "move", "replace"}
      BY <1>0, <3>3 DEF TypeOK
    <3> QED BY <3>1, <3>2, <3>4, <3>5, ElsewhereKeeps
  <2> QED BY <1>7, <2>1, <2>2, <2>3, <2>4, <2>5, <2>6 DEF RestoreStep
<1>8. CASE UNCHANGED vars
  BY <1>0, <1>8, ElsewhereKeeps DEF vars, files, operations
<1> QED BY <1>1, <1>2, <1>3, <1>4, <1>5, <1>6, <1>7, <1>8 DEF Next

\* Whoever gets the lock finds a whole database: a restore lets go of it only with
\* the old or the new one in place and the other's -wal file removed.
THEOREM WholeWhenFree == Spec => []WholeUnlessInterrupted
<1>1. Init => CopiesVerified /\ Intact
  BY OperationsAssumption DEF Init, CopiesVerified, Intact, Operation
<1>2. Spec => [](IInv /\ CopiesVerified /\ Intact)
  BY <1>1, InitEstablishes, NextKeeps, IntactStep, PTL DEF Spec
<1>3. IInv /\ Intact => WholeUnlessInterrupted
  <2> SUFFICES ASSUME IInv, Intact, Uninterrupted, Free PROVE Whole
    BY DEF WholeUnlessInterrupted, Uninterrupted
  <2>1. \A r \in Restore : pc[r] \notin {"replace", "cleanup"}
    BY HandsOff
  <2> QED BY <2>1 DEF Intact, Whole, Opened
<1> QED BY <1>2, <1>3, PTL
=============================================================================
