-------------------------- MODULE InstallationLock --------------------------
(***************************************************************************)
(* The lock file that keeps a second server, migration or restore off the  *)
(* database (acquireInstallationLock).  Processes run the function         *)
(* concurrently; each file operation is one step, because every one of     *)
(* them is awaited.                                                        *)
(*                                                                         *)
(* An instance is one run of a program.  It creates at most one lock file, *)
(* so the instance stands for the owner token and for the file's identity. *)
(* Instances may have the same process id, as the restarts of a container  *)
(* do, though never at the same time.  A file operation fails only where   *)
(* the code goes on afterwards, swallowing the error or throwing it.       *)
(***************************************************************************)
CONSTANTS
  Instance,     \* runs of the server, of migrate and of restore
  PidOf,        \* the process id of each instance
  ForeignPid,   \* process ids that programs other than Launch++ may hold
  None

ASSUME InstancesAssumption == None \notin Instance

VARIABLES
  file,     \* whose file lies at the lock path
  written,  \* the instances whose record is in their file
  pc,       \* where each instance is
  attempt,  \* of the loop of acquireInstallationLock
  seen,     \* the owner in the record an instance read
  hasty,    \* started within a second of the creation of a lock of its process id
  raced     \* history: a lock was created under a recovery about to unlink it

vars == <<file, written, pc, attempt, seen, hasty, raced>>

Acquiring == {"open", "write", "read", "check", "reread", "unlink"}
Owning == {"held", "closing", "removing"}
Locations == Acquiring \cup Owning
               \cup {"unborn", "refused", "failed", "released", "exited", "crashed"}

Alive(i) == pc[i] \in Acquiring \cup Owning \cup {"refused", "failed", "released"}

TypeOK ==
  /\ file \in Instance \cup {None}
  /\ written \subseteq Instance
  /\ pc \in [Instance -> Locations]
  /\ attempt \in [Instance -> {0, 1}]
  /\ seen \in [Instance -> Instance \cup {None}]
  /\ hasty \subseteq Instance
  /\ raced \in BOOLEAN

Init ==
  /\ file = None
  /\ written = {}
  /\ pc = [i \in Instance |-> "unborn"]
  /\ attempt = [i \in Instance |-> 0]
  /\ seen = [i \in Instance |-> None]
  /\ hasty = {}
  /\ raced = FALSE

\* The operating system gives no two running processes one id.
Launch(i) ==
  /\ pc[i] = "unborn"
  /\ \A j \in Instance : Alive(j) => PidOf[j] # PidOf[i]
  /\ pc' = [pc EXCEPT ![i] = "open"]
  /\ \/ UNCHANGED hasty
     \/ file # None /\ PidOf[file] = PidOf[i] /\ hasty' = hasty \cup {i}
  /\ UNCHANGED <<file, written, attempt, seen, raced>>

\* Between the second read of a recovery and its unlink.
Unlinking == {j \in Instance : pc[j] = "unlink"}

\* open(lockPath, "wx"): creates the file, or fails with EEXIST or otherwise.
Open(i) ==
  /\ pc[i] = "open"
  /\ \/ /\ file = None /\ file' = i
        /\ pc' = [pc EXCEPT ![i] = "write"]
        /\ raced' = (raced \/ Unlinking # {})
     \/ /\ file # None
        /\ pc' = [pc EXCEPT ![i] = "read"]
        /\ UNCHANGED <<file, raced>>
  /\ UNCHANGED <<written, attempt, seen, hasty>>

OpenFails(i) ==
  /\ pc[i] = "open"
  /\ pc' = [pc EXCEPT ![i] = "failed"]
  /\ UNCHANGED <<file, written, attempt, seen, hasty, raced>>

WriteRecord(i) ==
  /\ pc[i] = "write"
  /\ written' = written \cup {i}
  /\ pc' = [pc EXCEPT ![i] = "held"]
  /\ UNCHANGED <<file, attempt, seen, hasty, raced>>

\* An unlink whose failure nobody hears of.
Unlinked == file' \in {None, file}

\* The write fails: the path is unlinked and the error is thrown.
WriteFails(i) ==
  /\ pc[i] = "write"
  /\ Unlinked
  /\ pc' = [pc EXCEPT ![i] = "failed"]
  /\ UNCHANGED <<written, attempt, seen, hasty, raced>>

ReadableUnwritten == file  \* mutant

\* readLockRecord: undefined for a missing file and for one without a record.
Readable == IF file \in written THEN file ELSE None

ReadRecord(i) ==
  /\ pc[i] = "read"
  /\ seen' = [seen EXCEPT ![i] = Readable]
  /\ pc' = [pc EXCEPT ![i] = "check"]
  /\ UNCHANGED <<file, written, attempt, hasty, raced>>

LooksDeadByPid(owner, i) ==  \* mutant: only the process id counts
  \A j \in Instance : Alive(j) => PidOf[j] # PidOf[owner]

\* lockOwnerIsRunning.  A record with the reader's own process id is an earlier
\* instance's, unless it was created no more than a second before the start.
LooksDead(owner, i) ==
  IF PidOf[owner] = PidOf[i] THEN i \notin hasty
  ELSE \A j \in Instance : Alive(j) => PidOf[j] # PidOf[owner]

\* Another program may have the process id by now.
MayLookRunning(owner, i) ==
  ~LooksDead(owner, i) \/ (PidOf[owner] # PidOf[i] /\ PidOf[owner] \in ForeignPid)

CheckOwner(i) ==
  /\ pc[i] = "check"
  /\ \/ /\ attempt[i] = 0 /\ seen[i] # None /\ LooksDead(seen[i], i)
        /\ pc' = [pc EXCEPT ![i] = "reread"]
     \/ /\ attempt[i] = 0 /\ seen[i] # None => MayLookRunning(seen[i], i)
        /\ pc' = [pc EXCEPT ![i] = "refused"]
  /\ UNCHANGED <<file, written, attempt, seen, hasty, raced>>

SameOwnerUnchecked(i) == seen[i] # None  \* mutant

\* current?.owner === record.owner
SameOwner(i) == Readable = seen[i]

RereadRecord(i) ==
  /\ pc[i] = "reread"
  /\ \/ SameOwner(i) /\ pc' = [pc EXCEPT ![i] = "unlink"] /\ UNCHANGED attempt
     \/ /\ ~SameOwner(i)
        /\ attempt' = [attempt EXCEPT ![i] = 1]
        /\ pc' = [pc EXCEPT ![i] = "open"]
  /\ UNCHANGED <<file, written, seen, hasty, raced>>

\* unlink(lockPath) removes whatever lies at the path by now.
UnlinkStale(i) ==
  /\ pc[i] = "unlink"
  /\ Unlinked
  /\ attempt' = [attempt EXCEPT ![i] = 1]
  /\ pc' = [pc EXCEPT ![i] = "open"]
  /\ UNCHANGED <<written, seen, hasty, raced>>

\* release(): close the handle, which may throw, read the record, unlink the file
\* if it is one's own.
CloseHandle(i) ==
  /\ pc[i] = "held"
  /\ \E to \in {"closing", "failed"} : pc' = [pc EXCEPT ![i] = to]
  /\ UNCHANGED <<file, written, attempt, seen, hasty, raced>>

OwnRecord(i) == Readable = i

ReadOwnRecord(i) ==
  /\ pc[i] = "closing"
  /\ pc' = [pc EXCEPT ![i] = IF OwnRecord(i) THEN "removing" ELSE "released"]
  /\ UNCHANGED <<file, written, attempt, seen, hasty, raced>>

RemoveOwn(i) ==
  /\ pc[i] = "removing"
  /\ Unlinked
  /\ pc' = [pc EXCEPT ![i] = "released"]
  /\ UNCHANGED <<written, attempt, seen, hasty, raced>>

Exit(i) ==
  /\ pc[i] \in {"refused", "failed", "released"}
  /\ pc' = [pc EXCEPT ![i] = "exited"]
  /\ UNCHANGED <<file, written, attempt, seen, hasty, raced>>

Crash(i) ==
  /\ Alive(i)
  /\ pc' = [pc EXCEPT ![i] = "crashed"]
  /\ UNCHANGED <<file, written, attempt, seen, hasty, raced>>

Acquire(i) ==
  \/ Open(i) \/ WriteRecord(i) \/ ReadRecord(i)
  \/ CheckOwner(i) \/ RereadRecord(i) \/ UnlinkStale(i)

Release(i) == ReadOwnRecord(i) \/ RemoveOwn(i) \/ Exit(i)

Next ==
  \E i \in Instance :
    \/ Launch(i) \/ Acquire(i) \/ OpenFails(i) \/ WriteFails(i)
    \/ CloseHandle(i) \/ Release(i) \/ Crash(i)

Spec == Init /\ [][Next]_vars

-----------------------------------------------------------------------------
(* Properties.                                                             *)

\* A second server, migration or restore is rejected (local-operations.md:72):
\* no two instances hold the lock, through crashes, recoveries and releases.
AtMostOneWriter ==
  \A i, j \in Instance : pc[i] = "held" /\ pc[j] = "held" => i = j

\* The exclusion is lost in one way only, which the second read of the record
\* narrows down: a lock created between that read and the unlink of a recovery
\* (installation-lock.ts:104-105).  Without it no history of crashes, recoveries,
\* reused process ids and failing file operations has two holders.
ExclusiveUnlessRaced == ~raced => AtMostOneWriter

\* While an instance owns the lock its readable file lies at the path, so that
\* every instance started later finds the record of a running process.
OwnerIsVisible ==
  ~raced =>
    \A i \in Instance : pc[i] \in {"held", "closing"} => file = i /\ i \in written

\* A file without a record is treated as active rather than removed unsafely
\* (installation-lock.ts:59): it leaves the path only when its creator, whose
\* write has failed, takes it away, unless a lock was created under a recovery.
UnreadableKept ==
  [][~raced /\ file # None /\ file \notin written /\ file' # file =>
       pc[file] = "write" /\ pc'[file] = "failed"]_vars

\* A lock whose recorded process no longer exists is recovered automatically
\* (local-operations.md:72), also by a restart with the same process id: an
\* instance that starts alone on one gets the lock, unless it crashes, cannot
\* create or write its file, or could not remove the old one.
StartsOnDeadLock(i) ==
  /\ pc[i] = "open" /\ attempt[i] = 0
  /\ \A j \in Instance \ {i} : ~Alive(j)
  /\ file # None => /\ file \in written
                    /\ IF PidOf[file] = PidOf[i] THEN i \notin hasty
                       ELSE PidOf[file] \notin ForeignPid

NotRemoved(i) == pc[i] = "refused" /\ attempt[i] = 1 /\ file # None /\ file = seen[i]

DeadLockRecovered ==
  \A i \in Instance :
    StartsOnDeadLock(i) ~> \/ pc[i] \in {"held", "failed", "crashed"}
                           \/ NotRemoved(i)
                           \/ \E j \in Instance \ {i} : Alive(j)
=============================================================================
