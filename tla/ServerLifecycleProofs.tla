------------------------ MODULE ServerLifecycleProofs ------------------------
(***************************************************************************)
(* Proofs about the lock, for any number of instances and any assignment   *)
(* of process ids, until a lock is created under a recovery; then about    *)
(* ServerLifecycle, for any number of servers and other programs.  Its     *)
(* lock is that of InstallationLock, whose theorems hold here because      *)
(* every step is one of its steps or leaves it alone.                      *)
(***************************************************************************)
EXTENDS ServerLifecycle, TLAPS

-----------------------------------------------------------------------------
(* The lock.                                                               *)

\* The file at the path is that of an instance that has come to its creation.
FileHasCreator ==
  file # None => pc[file] \notin (Acquiring \ {"write"}) \cup {"unborn"}

AcquirerWroteNothing ==
  \A i \in Instance : pc[i] \in Acquiring \cup {"unborn"} => i \notin written

SeenWritten == \A i \in Instance : seen[i] # None => seen[i] \in written

PidsUnique ==
  \A i, j \in Instance : Alive(i) /\ Alive(j) /\ PidOf[i] = PidOf[j] => i = j

\* What an instance knows that has found an owner dead: it stays dead.
RecovererSawDead ==
  \A i \in Instance : pc[i] \in {"reread", "unlink"} =>
    seen[i] # None /\ ~Alive(seen[i])

\* What is at the path while it is written, owned or about to be unlinked.
WriterHasFile == \A i \in Instance : pc[i] = "write" => file = i

OwnerHasFile == \A i \in Instance : pc[i] \in Owning => file = i /\ i \in written

UnlinkerIsRight == \A i \in Instance : pc[i] = "unlink" => file \in {seen[i], None}

InOrder == ~raced => WriterHasFile /\ OwnerHasFile /\ UnlinkerIsRight

IInv ==
  /\ TypeOK
  /\ FileHasCreator
  /\ AcquirerWroteNothing
  /\ SeenWritten
  /\ PidsUnique
  /\ RecovererSawDead
  /\ InOrder

LEMMA InitEstablishes == Init => IInv
BY InstancesAssumption
   DEF Init, IInv, TypeOK, FileHasCreator, AcquirerWroteNothing, SeenWritten, PidsUnique,
       RecovererSawDead, InOrder, WriterHasFile, OwnerHasFile, UnlinkerIsRight, Locations,
       Acquiring, Owning, Alive

LEMMA LaunchKeeps ==
  ASSUME IInv, NEW i \in Instance, Launch(i)
  PROVE  IInv'
<1> USE InstancesAssumption DEF IInv, TypeOK, Launch, Acquiring, Owning
<1>1. TypeOK'
  BY DEF Locations
<1>2. FileHasCreator' /\ AcquirerWroteNothing' /\ SeenWritten'
  <2>1. FileHasCreator'
    BY DEF FileHasCreator
  <2>2. AcquirerWroteNothing'
    BY DEF AcquirerWroteNothing
  <2>3. SeenWritten'
    BY DEF SeenWritten
  <2> QED BY <2>1, <2>2, <2>3
<1>3. PidsUnique'
  BY DEF PidsUnique, Alive
<1>4. RecovererSawDead'
  BY DEF RecovererSawDead, PidsUnique, AcquirerWroteNothing, SeenWritten, Alive
<1>5. InOrder'
  BY DEF InOrder, WriterHasFile, OwnerHasFile, UnlinkerIsRight, RecovererSawDead, Alive
<1> QED BY <1>1, <1>2, <1>3, <1>4, <1>5

LEMMA OpenKeeps ==
  ASSUME IInv, NEW i \in Instance, Open(i)
  PROVE  IInv'
<1> USE InstancesAssumption DEF IInv, TypeOK, Open, Unlinking, Acquiring, Owning
<1>1. TypeOK'
  BY DEF Locations
<1>2. FileHasCreator' /\ AcquirerWroteNothing' /\ SeenWritten'
  BY DEF FileHasCreator, AcquirerWroteNothing, SeenWritten
<1>3. PidsUnique'
  BY DEF PidsUnique, Alive
<1>4. RecovererSawDead'
  BY DEF RecovererSawDead, PidsUnique, AcquirerWroteNothing, SeenWritten, Alive
<1>5. InOrder'
  <2>1. CASE file = None /\ file' = i
    BY <2>1 DEF InOrder, WriterHasFile, OwnerHasFile, UnlinkerIsRight
  <2>2. CASE UNCHANGED <<file, raced>>
    BY <2>2 DEF InOrder, WriterHasFile, OwnerHasFile, UnlinkerIsRight
  <2> QED BY <2>1, <2>2
<1> QED BY <1>1, <1>2, <1>3, <1>4, <1>5

LEMMA OpenFailsKeeps ==
  ASSUME IInv, NEW i \in Instance, OpenFails(i)
  PROVE  IInv'
<1> USE InstancesAssumption DEF IInv, TypeOK, OpenFails, Acquiring, Owning
<1>1. TypeOK'
  BY DEF Locations
<1>2. FileHasCreator' /\ AcquirerWroteNothing' /\ SeenWritten'
  BY DEF FileHasCreator, AcquirerWroteNothing, SeenWritten
<1>3. PidsUnique'
  BY DEF PidsUnique, Alive
<1>4. RecovererSawDead'
  BY DEF RecovererSawDead, PidsUnique, AcquirerWroteNothing, SeenWritten, Alive
<1>5. InOrder'
  BY DEF InOrder, WriterHasFile, OwnerHasFile, UnlinkerIsRight, RecovererSawDead, Alive
<1> QED BY <1>1, <1>2, <1>3, <1>4, <1>5

LEMMA WriteRecordKeeps ==
  ASSUME IInv, NEW i \in Instance, WriteRecord(i)
  PROVE  IInv'
<1> USE InstancesAssumption DEF IInv, TypeOK, WriteRecord, Acquiring, Owning
<1>1. TypeOK'
  BY DEF Locations
<1>2. FileHasCreator' /\ AcquirerWroteNothing' /\ SeenWritten'
  BY DEF FileHasCreator, AcquirerWroteNothing, SeenWritten
<1>3. PidsUnique'
  BY DEF PidsUnique, Alive
<1>4. RecovererSawDead'
  BY DEF RecovererSawDead, PidsUnique, AcquirerWroteNothing, SeenWritten, Alive
<1>5. InOrder'
  BY DEF InOrder, WriterHasFile, OwnerHasFile, UnlinkerIsRight, RecovererSawDead, Alive
<1> QED BY <1>1, <1>2, <1>3, <1>4, <1>5

LEMMA WriteFailsKeeps ==
  ASSUME IInv, NEW i \in Instance, WriteFails(i)
  PROVE  IInv'
<1> USE InstancesAssumption DEF IInv, TypeOK, WriteFails, Unlinked, Acquiring, Owning
<1>1. TypeOK'
  BY DEF Locations
<1>2. FileHasCreator' /\ AcquirerWroteNothing' /\ SeenWritten'
  BY DEF FileHasCreator, AcquirerWroteNothing, SeenWritten
<1>3. PidsUnique'
  BY DEF PidsUnique, Alive
<1>4. RecovererSawDead'
  BY DEF RecovererSawDead, PidsUnique, AcquirerWroteNothing, SeenWritten, Alive
<1>5. InOrder'
  BY DEF InOrder, WriterHasFile, OwnerHasFile, UnlinkerIsRight, RecovererSawDead, Alive
<1> QED BY <1>1, <1>2, <1>3, <1>4, <1>5

LEMMA ReadRecordKeeps ==
  ASSUME IInv, NEW i \in Instance, ReadRecord(i)
  PROVE  IInv'
<1> USE InstancesAssumption DEF IInv, TypeOK, ReadRecord, Readable, Acquiring, Owning
<1>1. TypeOK'
  BY DEF Locations
<1>2. FileHasCreator' /\ AcquirerWroteNothing' /\ SeenWritten'
  BY DEF FileHasCreator, AcquirerWroteNothing, SeenWritten
<1>3. PidsUnique'
  BY DEF PidsUnique, Alive
<1>4. RecovererSawDead'
  BY DEF RecovererSawDead, PidsUnique, AcquirerWroteNothing, SeenWritten, Alive
<1>5. InOrder'
  BY DEF InOrder, WriterHasFile, OwnerHasFile, UnlinkerIsRight, RecovererSawDead, Alive
<1> QED BY <1>1, <1>2, <1>3, <1>4, <1>5

LEMMA CheckOwnerKeeps ==
  ASSUME IInv, NEW i \in Instance, CheckOwner(i)
  PROVE  IInv'
<1> USE InstancesAssumption DEF IInv, TypeOK, CheckOwner, LooksDead, Acquiring, Owning
<1>1. TypeOK'
  BY DEF Locations
<1>2. FileHasCreator' /\ AcquirerWroteNothing' /\ SeenWritten'
  BY DEF FileHasCreator, AcquirerWroteNothing, SeenWritten
<1>3. PidsUnique'
  BY DEF PidsUnique, Alive
<1>4. RecovererSawDead'
  BY DEF RecovererSawDead, PidsUnique, AcquirerWroteNothing, SeenWritten, Alive
<1>5. InOrder'
  BY DEF InOrder, WriterHasFile, OwnerHasFile, UnlinkerIsRight, RecovererSawDead, Alive
<1> QED BY <1>1, <1>2, <1>3, <1>4, <1>5

LEMMA RereadRecordKeeps ==
  ASSUME IInv, NEW i \in Instance, RereadRecord(i)
  PROVE  IInv'
<1> USE InstancesAssumption DEF IInv, TypeOK, RereadRecord, SameOwner, Readable, Acquiring, Owning
<1>1. TypeOK'
  BY DEF Locations
<1>2. FileHasCreator' /\ AcquirerWroteNothing' /\ SeenWritten'
  BY DEF FileHasCreator, AcquirerWroteNothing, SeenWritten
<1>3. PidsUnique'
  BY DEF PidsUnique, Alive
<1>4. RecovererSawDead'
  BY DEF RecovererSawDead, PidsUnique, AcquirerWroteNothing, SeenWritten, Alive
<1>5. InOrder'
  BY DEF InOrder, WriterHasFile, OwnerHasFile, UnlinkerIsRight, RecovererSawDead, Alive
<1> QED BY <1>1, <1>2, <1>3, <1>4, <1>5

LEMMA UnlinkStaleKeeps ==
  ASSUME IInv, NEW i \in Instance, UnlinkStale(i)
  PROVE  IInv'
<1> USE InstancesAssumption DEF IInv, TypeOK, UnlinkStale, Unlinked, Acquiring, Owning
<1>1. TypeOK'
  BY DEF Locations
<1>2. FileHasCreator' /\ AcquirerWroteNothing' /\ SeenWritten'
  BY DEF FileHasCreator, AcquirerWroteNothing, SeenWritten
<1>3. PidsUnique'
  BY DEF PidsUnique, Alive
<1>4. RecovererSawDead'
  BY DEF RecovererSawDead, PidsUnique, AcquirerWroteNothing, SeenWritten, Alive
<1>5. InOrder'
  BY DEF InOrder, WriterHasFile, OwnerHasFile, UnlinkerIsRight, RecovererSawDead, Alive
<1> QED BY <1>1, <1>2, <1>3, <1>4, <1>5

LEMMA CloseHandleKeeps ==
  ASSUME IInv, NEW i \in Instance, CloseHandle(i)
  PROVE  IInv'
<1> USE InstancesAssumption DEF IInv, TypeOK, CloseHandle, Acquiring, Owning
<1>1. TypeOK'
  BY DEF Locations
<1>2. FileHasCreator' /\ AcquirerWroteNothing' /\ SeenWritten'
  BY DEF FileHasCreator, AcquirerWroteNothing, SeenWritten
<1>3. PidsUnique'
  BY DEF PidsUnique, Alive
<1>4. RecovererSawDead'
  BY DEF RecovererSawDead, PidsUnique, AcquirerWroteNothing, SeenWritten, Alive
<1>5. InOrder'
  BY DEF InOrder, WriterHasFile, OwnerHasFile, UnlinkerIsRight, RecovererSawDead, Alive
<1> QED BY <1>1, <1>2, <1>3, <1>4, <1>5

LEMMA ReadOwnRecordKeeps ==
  ASSUME IInv, NEW i \in Instance, ReadOwnRecord(i)
  PROVE  IInv'
<1> USE InstancesAssumption DEF IInv, TypeOK, ReadOwnRecord, OwnRecord, Readable, Acquiring, Owning
<1>1. TypeOK'
  BY DEF Locations
<1>2. FileHasCreator' /\ AcquirerWroteNothing' /\ SeenWritten'
  BY DEF FileHasCreator, AcquirerWroteNothing, SeenWritten
<1>3. PidsUnique'
  BY DEF PidsUnique, Alive
<1>4. RecovererSawDead'
  BY DEF RecovererSawDead, PidsUnique, AcquirerWroteNothing, SeenWritten, Alive
<1>5. InOrder'
  BY DEF InOrder, WriterHasFile, OwnerHasFile, UnlinkerIsRight, RecovererSawDead, Alive
<1> QED BY <1>1, <1>2, <1>3, <1>4, <1>5

LEMMA RemoveOwnKeeps ==
  ASSUME IInv, NEW i \in Instance, RemoveOwn(i)
  PROVE  IInv'
<1> USE InstancesAssumption DEF IInv, TypeOK, RemoveOwn, Unlinked, Acquiring, Owning
<1>1. TypeOK'
  BY DEF Locations
<1>2. FileHasCreator' /\ AcquirerWroteNothing' /\ SeenWritten'
  BY DEF FileHasCreator, AcquirerWroteNothing, SeenWritten
<1>3. PidsUnique'
  BY DEF PidsUnique, Alive
<1>4. RecovererSawDead'
  BY DEF RecovererSawDead, PidsUnique, AcquirerWroteNothing, SeenWritten, Alive
<1>5. InOrder'
  BY DEF InOrder, WriterHasFile, OwnerHasFile, UnlinkerIsRight, RecovererSawDead, Alive
<1> QED BY <1>1, <1>2, <1>3, <1>4, <1>5

LEMMA ExitKeeps ==
  ASSUME IInv, NEW i \in Instance, Exit(i)
  PROVE  IInv'
<1> USE InstancesAssumption DEF IInv, TypeOK, Exit, Acquiring, Owning
<1>1. TypeOK'
  BY DEF Locations
<1>2. FileHasCreator' /\ AcquirerWroteNothing' /\ SeenWritten'
  BY DEF FileHasCreator, AcquirerWroteNothing, SeenWritten
<1>3. PidsUnique'
  BY DEF PidsUnique, Alive
<1>4. RecovererSawDead'
  BY DEF RecovererSawDead, PidsUnique, AcquirerWroteNothing, SeenWritten, Alive
<1>5. InOrder'
  BY DEF InOrder, WriterHasFile, OwnerHasFile, UnlinkerIsRight, RecovererSawDead, Alive
<1> QED BY <1>1, <1>2, <1>3, <1>4, <1>5

LEMMA CrashKeeps ==
  ASSUME IInv, NEW i \in Instance, Crash(i)
  PROVE  IInv'
<1> USE InstancesAssumption DEF IInv, TypeOK, Crash, Acquiring, Owning
<1>1. TypeOK'
  BY DEF Locations
<1>2. FileHasCreator' /\ AcquirerWroteNothing' /\ SeenWritten'
  BY DEF FileHasCreator, AcquirerWroteNothing, SeenWritten
<1>3. PidsUnique'
  BY DEF PidsUnique, Alive
<1>4. RecovererSawDead'
  BY DEF RecovererSawDead, PidsUnique, AcquirerWroteNothing, SeenWritten, Alive
<1>5. InOrder'
  BY DEF InOrder, WriterHasFile, OwnerHasFile, UnlinkerIsRight, RecovererSawDead, Alive
<1> QED BY <1>1, <1>2, <1>3, <1>4, <1>5

LEMMA NextKeeps == IInv /\ [Next]_vars => IInv'
<1> SUFFICES ASSUME IInv, [Next]_vars PROVE IInv'
  OBVIOUS
<1>1. CASE UNCHANGED vars
  BY <1>1 DEF vars, IInv, TypeOK, FileHasCreator, AcquirerWroteNothing, SeenWritten,
              PidsUnique, RecovererSawDead, InOrder, WriterHasFile, OwnerHasFile,
              UnlinkerIsRight, Alive
<1>2. CASE Next
  BY <1>2, LaunchKeeps, OpenKeeps, OpenFailsKeeps, WriteRecordKeeps, WriteFailsKeeps,
     ReadRecordKeeps, CheckOwnerKeeps, RereadRecordKeeps, UnlinkStaleKeeps,
     CloseHandleKeeps, ReadOwnRecordKeeps, RemoveOwnKeeps, ExitKeeps, CrashKeeps
     DEF Next, Acquire, Release
<1> QED BY <1>1, <1>2

LEMMA LockInvariant == Spec => []IInv
BY InitEstablishes, NextKeeps, PTL DEF Spec

\* The file of a holder stays at the path, readable, as long as it holds the lock,
\* until a lock is created under a recovery.
THEOREM OwnerVisibleUnlessRaced == Spec => []OwnerIsVisible
<1>1. IInv => OwnerIsVisible
  BY DEF IInv, InOrder, OwnerHasFile, OwnerIsVisible, Owning
<1> QED BY <1>1, LockInvariant, PTL

\* No two instances hold the lock, whatever process ids they have, wherever they
\* crash and whichever file operations fail, until a lock is created between the
\* second read of a recovery and its unlink; AtMostOneWriter itself is not true.
THEOREM OneWriterUnlessRaced == Spec => []ExclusiveUnlessRaced
<1>1. IInv => ExclusiveUnlessRaced
  BY DEF IInv, InOrder, OwnerHasFile, ExclusiveUnlessRaced, AtMostOneWriter, Owning
<1> QED BY <1>1, LockInvariant, PTL

\* A file without a record leaves the path only when its creator, whose write has
\* failed, takes it away, until a lock is created under a recovery.
THEOREM UnreadableKeptUnlessRaced == Spec => UnreadableKept
<1>1. IInv /\ [Next]_vars =>
        (~raced /\ file # None /\ file \notin written /\ file' # file =>
           pc[file] = "write" /\ pc'[file] = "failed")
  <2> SUFFICES ASSUME IInv, [Next]_vars, ~raced, file # None, file \notin written,
                      file' # file
               PROVE  pc[file] = "write" /\ pc'[file] = "failed"
    OBVIOUS
  <2>1. PICK i \in Instance :
          \/ Launch(i) \/ Acquire(i) \/ OpenFails(i) \/ WriteFails(i)
          \/ CloseHandle(i) \/ Release(i) \/ Crash(i)
    BY DEF Next, vars
  <2>2. Open(i) \/ WriteFails(i) \/ UnlinkStale(i) \/ RemoveOwn(i)
    BY <2>1 DEF Launch, Acquire, OpenFails, WriteRecord, ReadRecord, CheckOwner,
                RereadRecord, CloseHandle, Release, ReadOwnRecord, Exit, Crash
  <2>3. CASE Open(i)
    BY <2>3 DEF Open
  <2>4. CASE WriteFails(i)
    BY <2>4 DEF WriteFails, IInv, TypeOK, InOrder, WriterHasFile
  <2>5. CASE UnlinkStale(i)
    BY <2>5 DEF UnlinkStale, IInv, InOrder, UnlinkerIsRight, SeenWritten
  <2>6. CASE RemoveOwn(i)
    BY <2>6 DEF RemoveOwn, IInv, InOrder, OwnerHasFile, Owning
  <2> QED BY <2>2, <2>3, <2>4, <2>5, <2>6
<1> QED BY <1>1, LockInvariant, PTL DEF Spec, UnreadableKept

-----------------------------------------------------------------------------
(* The servers.                                                            *)

\* A server that has begun to start, or has not released, holds the lock.
HeldWhileUp == \A i \in Server : phase[i] # "down" => pc[i] = "held"

\* Where a server's connections can be open.
DatabasePhases == \A i \in Server : database[i] => phase[i] \notin {"down", "releasing"}

IdentityPhases ==
  \A i \in Server : identity[i] =>
    /\ phase[i] \notin {"down", "database", "releasing"}
    /\ phase[i] = "closing_database" => failed[i]

ServerInv == ServersTyped /\ HeldWhileUp /\ DatabasePhases /\ IdentityPhases

-----------------------------------------------------------------------------

LEMMA InitServersEstablishes == InitServers => ServerInv
BY ServersAssumption
   DEF InitServers, ServerInv, ServersTyped, Phases, HeldWhileUp, DatabasePhases,
       IdentityPhases

\* The lock's own steps are taken by instances that do not hold it.
LEMMA LockStepsKeep ==
  ASSUME ServerInv, TypeOK, NEW i \in Instance, LockSteps(i)
  PROVE  ServerInv'
<1>1. pc[i] # "held" /\ \A j \in Instance \ {i} : pc'[j] = pc[j]
  BY DEF LockSteps, Launch, Acquire, Open, WriteRecord, ReadRecord, CheckOwner,
         RereadRecord, UnlinkStale, OpenFails, WriteFails, ReadOwnRecord, RemoveOwn,
         TypeOK
<1>2. UNCHANGED serverVars
  BY DEF LockSteps
<1>3. ServersTyped' /\ DatabasePhases' /\ IdentityPhases'
  BY <1>2 DEF ServerInv, ServersTyped, DatabasePhases, IdentityPhases, serverVars
<1>4. HeldWhileUp'
  BY <1>1, <1>2, ServersAssumption DEF ServerInv, HeldWhileUp, serverVars
<1> QED BY <1>3, <1>4 DEF ServerInv

LEMMA CallReleaseKeeps ==
  ASSUME ServerInv, TypeOK, NEW i \in Instance, CallRelease(i)
  PROVE  ServerInv'
<1> USE DEF ServerInv, CallRelease, CloseHandle, Go, TypeOK
<1>1. ServersTyped'
  BY DEF ServersTyped, Phases
<1>2. HeldWhileUp'
  BY ServersAssumption DEF ServersTyped, HeldWhileUp
<1>3. DatabasePhases' /\ IdentityPhases'
  BY DEF ServersTyped, DatabasePhases, IdentityPhases
<1> QED BY <1>1, <1>2, <1>3

LEMMA ProcessEndsKeeps ==
  ASSUME ServerInv, TypeOK, NEW i \in Instance, ProcessEnds(i)
  PROVE  ServerInv'
<1> USE DEF ServerInv, ProcessEnds, Without, ServersTyped
<1>1. \A j \in Instance \ {i} : pc'[j] = pc[j]
  BY DEF Exit, Crash, TypeOK
<1>2. ServersTyped'
  BY DEF Phases
<1>3. HeldWhileUp'
  BY <1>1, ServersAssumption DEF HeldWhileUp
<1>4. DatabasePhases' /\ IdentityPhases'
  BY DEF DatabasePhases, IdentityPhases
<1> QED BY <1>2, <1>3, <1>4

\* A server at work: only the steps of its start and its stop move its phase and
\* its connections.
LEMMA ServingKeeps ==
  ASSUME ServerInv, NEW i \in Server, Serving(i), UNCHANGED vars
  PROVE  ServerInv'
<1> USE DEF ServerInv, ServersTyped, Phases, Work, Go, HeldWhileUp, DatabasePhases,
            IdentityPhases, vars
<1>1. CASE OpenDatabase(i)
  <2> USE <1>1 DEF OpenDatabase
  <2>1. ServersTyped'
    OBVIOUS
  <2>2. HeldWhileUp'
    OBVIOUS
  <2>3. DatabasePhases'
    OBVIOUS
  <2>4. IdentityPhases'
    OBVIOUS
  <2> QED BY <2>1, <2>2, <2>3, <2>4
<1>2. CASE OpenIdentity(i)
  <2> USE <1>2 DEF OpenIdentity
  <2>1. ServersTyped'
    OBVIOUS
  <2>2. HeldWhileUp'
    OBVIOUS
  <2>3. DatabasePhases'
    OBVIOUS
  <2>4. IdentityPhases'
    OBVIOUS
  <2> QED BY <2>1, <2>2, <2>3, <2>4
<1>3. CASE Build(i) \/ Listen(i)
  BY <1>3 DEF Build, Listen
<1>4. CASE Accept(i) \/ Dispatch(i) \/ Leave(i)
  <2>1. UNCHANGED <<phase, database, identity, writes, grace, failed, lost, pc>>
    BY <1>4 DEF Accept, Dispatch, Leave
  <2>2. request' \in [Server -> {"none", "running", "stream", "cut"}]
    BY <1>4 DEF Accept, Dispatch, Leave
  <2>3. drain' \in [Server -> BOOLEAN]
    BY <1>4 DEF Accept, Dispatch, Leave
  <2> QED BY <2>1, <2>2, <2>3
<1>5. CASE \E w \in Work : Write(i, w) \/ WriteRefused(i, w) \/ WriteRuns(i, w) \/ Finish(i, w)
  <2>1. PICK w \in Work :
          Write(i, w) \/ WriteRefused(i, w) \/ WriteRuns(i, w) \/ Finish(i, w)
    BY <1>5
  <2>2. UNCHANGED <<phase, database, identity, failed, grace>>
    BY <2>1 DEF Write, WriteRefused, WriteRuns, Finish
  <2>3. request' \in [Server -> {"none", "running", "stream", "cut"}]
    BY <2>1 DEF Write, WriteRefused, WriteRuns, Finish, End
  <2>4. drain' \in [Server -> BOOLEAN]
    BY <2>1 DEF Write, WriteRefused, WriteRuns, Finish, End
  <2>5. writes' \in [Server -> SUBSET Work]
    BY <2>1 DEF Write, WriteRefused, WriteRuns, Finish
  <2>6. lost' \in [Server -> BOOLEAN]
    BY <2>1 DEF Write, WriteRefused, WriteRuns, Finish
  <2> QED BY <2>2, <2>3, <2>4, <2>5, <2>6
<1>6. CASE Stop(i)
  BY <1>6 DEF Stop
<1>7. CASE PreClose(i)
  BY <1>7 DEF PreClose
<1>8. CASE CutConnections(i)
  BY <1>8 DEF CutConnections
<1>9. CASE Drained(i)
  BY <1>9 DEF Drained
<1>10. CASE CloseIdentity(i)
  <2>1. CASE identity' = [identity EXCEPT ![i] = FALSE] /\ Go(i, "closing_database")
             /\ UNCHANGED failed
    BY <1>10, <2>1 DEF CloseIdentity
  <2>2. CASE /\ failed' = [failed EXCEPT ![i] = TRUE]
             /\ Go(i, IF phase[i] = "closing" THEN "closing_database" ELSE "stuck")
             /\ UNCHANGED identity
    BY <1>10, <2>2 DEF CloseIdentity
  <2> QED BY <1>10, <2>1, <2>2 DEF CloseIdentity
<1>11. CASE CloseDatabase(i)
  <2>1. CASE /\ database' = [database EXCEPT ![i] = FALSE]
             /\ Go(i, AfterClose(~failed[i]))
             /\ UNCHANGED failed
    <3>1. CASE failed[i]
      BY <1>11, <2>1, <3>1 DEF CloseDatabase, AfterClose
    <3>2. CASE ~failed[i]
      BY <1>11, <2>1, <3>2 DEF CloseDatabase, AfterClose
    <3> QED BY <3>1, <3>2
  <2>2. CASE /\ failed' = [failed EXCEPT ![i] = TRUE]
             /\ Go(i, AfterClose(FALSE))
             /\ UNCHANGED database
    BY <1>11, <2>2 DEF CloseDatabase, AfterClose
  <2> QED BY <1>11, <2>1, <2>2 DEF CloseDatabase
<1> QED
  BY <1>1, <1>2, <1>3, <1>4, <1>5, <1>6, <1>7, <1>8, <1>9, <1>10, <1>11 DEF Serving

LEMMA NextServersKeeps ==
  ASSUME ServerInv, TypeOK, [NextServers]_allVars
  PROVE  ServerInv'
<1>1. CASE UNCHANGED allVars
  BY <1>1 DEF ServerInv, ServersTyped, HeldWhileUp, DatabasePhases, IdentityPhases,
              allVars, vars, serverVars
<1>2. CASE NextServers
  BY <1>2, LockStepsKeep, CallReleaseKeeps, ProcessEndsKeeps, ServingKeeps
     DEF NextServers
<1> QED BY <1>1, <1>2

-----------------------------------------------------------------------------

\* A system of servers and other programs takes and gives up the lock as
\* InstallationLock says, whatever the servers do between the two.
THEOREM LockImplemented == SpecServers => Spec
<1>1. InitServers => Init
  BY DEF InitServers
<1>2. [NextServers]_allVars => [Next]_vars
  BY DEF NextServers, LockSteps, CallRelease, ProcessEnds, Next, Release, allVars
<1> QED BY <1>1, <1>2, PTL DEF SpecServers, Spec

\* No connection to the database is open without the lock file at its path, until a
\* lock is created under a recovery: through every failing start, failing close and
\* stop that runs into its grace period.
THEOREM LockOutlivesConnections == SpecServers => []ConnectionsUnderLock
<1>1. InitServers => ServerInv
  BY InitServersEstablishes
<1>2. ServerInv /\ TypeOK /\ [NextServers]_allVars => ServerInv'
  BY NextServersKeeps
<1>3. SpecServers => []IInv
  BY LockInvariant, LockImplemented, PTL
<1>4. IInv => TypeOK /\ OwnerIsVisible
  BY DEF IInv, InOrder, OwnerHasFile, OwnerIsVisible, Owning
<1>5. ServerInv /\ OwnerIsVisible => ConnectionsUnderLock
  BY ServersAssumption
     DEF ServerInv, HeldWhileUp, DatabasePhases, IdentityPhases, OwnerIsVisible,
         ConnectionsUnderLock
<1> QED BY <1>1, <1>2, <1>3, <1>4, <1>5, PTL DEF SpecServers

-----------------------------------------------------------------------------
(* The work.                                                               *)

OpenPhases ==
  {"database", "identity", "built", "serving", "stopping", "draining", "closing", "aborting"}

\* Between the start and the closes the database is open and accepts work, and a
\* close that failed is remembered until the process ends.
OpenWhileWorking ==
  \A i \in Server :
    /\ phase[i] \in OpenPhases => database[i]
    /\ failed[i] => phase[i] \in {"closing_database", "stuck"}

\* Who may still write, unless its connection was cut, and that what was accepted
\* keeps the database open.
WorkersInTime ==
  \A i \in Server :
    /\ drain[i] => phase[i] \in {"built", "serving", "stopping"}
    /\ request[i] = "running" => phase[i] \in {"serving", "stopping", "draining"}
    /\ writes[i] # {} => database[i]

WorkInv == OpenWhileWorking /\ WorkersInTime /\ WorkFinished

LEMMA InitServersWork == InitServers => WorkInv
BY DEF InitServers, WorkInv, OpenWhileWorking, WorkersInTime, WorkFinished, OpenPhases

LEMMA LockWork ==
  ASSUME ServerInv, WorkInv, NEW i \in Instance,
         LockSteps(i) \/ CallRelease(i) \/ ProcessEnds(i)
  PROVE  WorkInv'
<1> USE DEF WorkInv, OpenWhileWorking, WorkersInTime, WorkFinished, OpenPhases,
            ServerInv, ServersTyped
<1>1. CASE LockSteps(i)
  BY <1>1 DEF LockSteps, serverVars
<1>2. CASE CallRelease(i)
  BY <1>2 DEF CallRelease, Go
<1>3. CASE ProcessEnds(i)
  BY <1>3 DEF ProcessEnds, Without
<1> QED BY <1>1, <1>2, <1>3

LEMMA StartAndStopWork ==
  ASSUME ServerInv, WorkInv, NEW i \in Server,
         \/ OpenDatabase(i) \/ OpenIdentity(i) \/ Build(i) \/ Listen(i) \/ Stop(i)
         \/ PreClose(i) \/ CutConnections(i) \/ Drained(i)
         \/ CloseIdentity(i) \/ CloseDatabase(i)
  PROVE  WorkInv'
<1> USE DEF WorkInv, OpenWhileWorking, WorkersInTime, WorkFinished, OpenPhases,
            ServerInv, ServersTyped, Go
<1>1. CASE OpenDatabase(i)
  BY <1>1 DEF OpenDatabase
<1>2. CASE OpenIdentity(i)
  BY <1>2 DEF OpenIdentity
<1>3. CASE Build(i)
  BY <1>3 DEF Build
<1>4. CASE Listen(i)
  BY <1>4 DEF Listen
<1>5. CASE Stop(i)
  BY <1>5 DEF Stop
<1>6. CASE PreClose(i)
  BY <1>6 DEF PreClose, DrainOver
<1>7. CASE CutConnections(i)
  BY <1>7 DEF CutConnections
<1>8. CASE Drained(i)
  BY <1>8 DEF Drained
<1>9. CASE CloseIdentity(i)
  BY <1>9 DEF CloseIdentity
<1>10. CASE CloseDatabase(i)
  BY <1>10 DEF CloseDatabase, AfterClose
<1> QED
  BY <1>1, <1>2, <1>3, <1>4, <1>5, <1>6, <1>7, <1>8, <1>9, <1>10

LEMMA WorkersWork ==
  ASSUME ServerInv, WorkInv, NEW i \in Server,
         \/ Accept(i) \/ Dispatch(i) \/ Leave(i)
         \/ \E w \in Work :
              Write(i, w) \/ WriteRefused(i, w) \/ WriteRuns(i, w) \/ Finish(i, w)
  PROVE  WorkInv'
<1> USE DEF WorkInv, OpenWhileWorking, WorkersInTime, WorkFinished, OpenPhases,
            ServerInv, ServersTyped, Work
<1>1. CASE Accept(i) \/ Dispatch(i) \/ Leave(i)
  <2>1. CASE Accept(i)
    BY <2>1 DEF Accept
  <2>2. CASE Dispatch(i)
    BY <2>2 DEF Dispatch
  <2>3. CASE Leave(i)
    BY <2>3 DEF Leave
  <2> QED BY <1>1, <2>1, <2>2, <2>3
<1>2. ASSUME NEW w \in Work, Write(i, w)
      PROVE  WorkInv'
  BY <1>2 DEF Write, AcceptingWork
<1>3. ASSUME NEW w \in Work, WriteRefused(i, w)
      PROVE  WorkInv'
  <2>1. phase[i] = "closing_database" \/ ~database[i] \/ failed[i]
    BY <1>3 DEF WriteRefused, AcceptingWork
  <2>2. phase[i] \notin {"built", "serving", "stopping", "draining"}
    BY <2>1
  <2>3. ~drain[i] /\ request[i] # "running"
    BY <2>2
  <2>4. w = "request"
    BY <1>3, <2>3 DEF WriteRefused, Busy
  <2>5. UNCHANGED <<phase, database, writes, failed, drain>>
    BY <1>3, <2>4 DEF WriteRefused, End
  <2>6. request' = [request EXCEPT ![i] = "none"]
    BY <1>3, <2>4 DEF WriteRefused, End
  <2>7. lost' = [lost EXCEPT ![i] = FALSE]
    BY <1>3, <2>3, <2>4 DEF WriteRefused
  <2> QED BY <2>5, <2>6, <2>7
<1>4. ASSUME NEW w \in Work, WriteRuns(i, w)
      PROVE  WorkInv'
  BY <1>4 DEF WriteRuns
<1>5. ASSUME NEW w \in Work, Finish(i, w)
      PROVE  WorkInv'
  BY <1>5 DEF Finish, End
<1> QED BY <1>1, <1>2, <1>3, <1>4, <1>5

LEMMA NextServersWork ==
  ASSUME ServerInv, WorkInv, [NextServers]_allVars
  PROVE  WorkInv'
<1>1. CASE UNCHANGED allVars
  BY <1>1 DEF WorkInv, OpenWhileWorking, WorkersInTime, WorkFinished, allVars, serverVars
<1>2. CASE NextServers
  BY <1>2, LockWork, StartAndStopWork, WorkersWork DEF NextServers, Serving
<1> QED BY <1>1, <1>2

\* However a start fails and whenever a stop comes, only work whose connection was cut
\* finds the database closed, and no accepted write does.
THEOREM WorkAlwaysFinished == SpecServers => []WorkFinished
<1>1. InitServers => ServerInv /\ WorkInv
  BY InitServersEstablishes, InitServersWork
<1>2. ServerInv /\ WorkInv /\ TypeOK /\ [NextServers]_allVars => (ServerInv /\ WorkInv)'
  BY NextServersKeeps, NextServersWork
<1>3. SpecServers => []IInv
  BY LockInvariant, LockImplemented, PTL
<1>4. IInv => TypeOK
  BY DEF IInv
<1>5. WorkInv => WorkFinished
  BY DEF WorkInv
<1> QED BY <1>1, <1>2, <1>3, <1>4, <1>5, PTL DEF SpecServers
=============================================================================
