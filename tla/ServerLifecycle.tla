--------------------------- MODULE ServerLifecycle ---------------------------
(***************************************************************************)
(* The life of a server process between taking the installation lock and   *)
(* giving it up (application-server.ts, lifecycle.ts): what it opens, the  *)
(* work it does with it, and how a stop with its grace period, a failing   *)
(* start and failing closes take it apart again.  Other programs hold the  *)
(* lock as InstallationLock has it.                                        *)
(*                                                                         *)
(* A server is followed with one request and one drain of the outbox at a  *)
(* time.  Fastify closes as it documents: preClose hooks, then no new      *)
(* connection and the end of those there are, then onClose hooks.          *)
(***************************************************************************)
EXTENDS InstallationLock

CONSTANT Server   \* the instances that are servers

ASSUME ServersAssumption == Server \subseteq Instance

VARIABLES
  phase,     \* how far buildApplicationServer, or the stop, has come
  database,  \* whether the connections of SqliteDatabase are open
  identity,  \* whether the identity adapter's connection is open
  request,   \* the request being served
  drain,     \* whether the dispatcher's drain is running
  writes,    \* writes that have been accepted and have not run (writeQueue)
  grace,     \* the grace period of stop()
  failed,    \* did a close fail?
  lost       \* history: work met a closed database although nobody had cut it off

serverVars == <<phase, database, identity, request, drain, writes, grace, failed, lost>>
allVars == <<vars, serverVars>>

Work == {"request", "drain"}
Phases == {"down", "database", "identity", "built", "serving", "stopping", "draining",
           "closing", "closing_database", "aborting", "releasing", "stuck"}

ServersTyped ==
  /\ phase \in [Server -> Phases]
  /\ database \in [Server -> BOOLEAN] /\ identity \in [Server -> BOOLEAN]
  /\ request \in [Server -> {"none", "running", "stream", "cut"}]
  /\ drain \in [Server -> BOOLEAN]
  /\ writes \in [Server -> SUBSET Work]
  /\ grace \in [Server -> {"none", "running", "over"}]
  /\ failed \in [Server -> BOOLEAN]
  /\ lost \in [Server -> BOOLEAN]

InitServers ==
  /\ Init
  /\ phase = [i \in Server |-> "down"]
  /\ database = [i \in Server |-> FALSE] /\ identity = [i \in Server |-> FALSE]
  /\ request = [i \in Server |-> "none"]
  /\ drain = [i \in Server |-> FALSE]
  /\ writes = [i \in Server |-> {}]
  /\ grace = [i \in Server |-> "none"]
  /\ failed = [i \in Server |-> FALSE]
  /\ lost = [i \in Server |-> FALSE]

Go(i, to) == phase' = [phase EXCEPT ![i] = to]

-----------------------------------------------------------------------------
(* The start.                                                              *)

\* openSqliteDatabase, which migrates; it leaves nothing open when it fails.
OpenDatabase(i) ==
  /\ pc[i] = "held" /\ phase[i] = "down"
  /\ \/ Go(i, "database") /\ database' = [database EXCEPT ![i] = TRUE]
     \/ Go(i, "releasing") /\ UNCHANGED database
  /\ UNCHANGED <<identity, request, drain, writes, grace, failed, lost>>

\* Without an app the catch block closes what is open and releases.
OpenIdentity(i) ==
  /\ phase[i] = "database"
  /\ \/ Go(i, "identity") /\ identity' = [identity EXCEPT ![i] = TRUE]
     \/ Go(i, "closing_database") /\ UNCHANGED identity
  /\ UNCHANGED <<database, request, drain, writes, grace, failed, lost>>

\* buildServer, the hooks and routes, and the dispatcher's awaited start; an
\* app that exists is closed in the regular way.
Build(i) ==
  /\ phase[i] = "identity"
  /\ \E to \in {"built", "stopping", "aborting"} : Go(i, to)
  /\ UNCHANGED <<database, identity, request, drain, writes, grace, failed, lost>>

Listen(i) ==
  /\ phase[i] = "built"
  /\ \E to \in {"serving", "stopping"} : Go(i, to)
  /\ UNCHANGED <<database, identity, request, drain, writes, grace, failed, lost>>

-----------------------------------------------------------------------------
(* The work.                                                               *)

\* A connection is served; an event stream lasts until its client leaves.
Accept(i) ==
  /\ phase[i] = "serving" /\ request[i] = "none"
  /\ \E kind \in {"running", "stream"} : request' = [request EXCEPT ![i] = kind]
  /\ UNCHANGED <<phase, database, identity, drain, writes, grace, failed, lost>>

\* The dispatcher's timer, which is set before the server listens.
Dispatch(i) ==
  /\ phase[i] \in {"built", "serving"} /\ ~drain[i]
  /\ drain' = [drain EXCEPT ![i] = TRUE]
  /\ UNCHANGED <<phase, database, identity, request, writes, grace, failed, lost>>

Busy(i) == (IF drain[i] THEN {"drain"} ELSE {})
             \cup (IF request[i] \in {"running", "cut"} THEN {"request"} ELSE {})

\* write() queues its callback while the database accepts work, and rejects
\* after close() has been called.
AcceptingWork(i) == database[i] /\ phase[i] # "closing_database" /\ ~failed[i]

Write(i, w) ==
  /\ w \in Busy(i) /\ w \notin writes[i]
  /\ AcceptingWork(i)
  /\ writes' = [writes EXCEPT ![i] = @ \cup {w}]
  /\ UNCHANGED <<phase, database, identity, request, drain, grace, failed, lost>>

\* Work that is over, because it succeeded or because its write was refused.
End(i, w) ==
  /\ request' = IF w = "request" THEN [request EXCEPT ![i] = "none"] ELSE request
  /\ drain' = IF w = "drain" THEN [drain EXCEPT ![i] = FALSE] ELSE drain

WriteRefused(i, w) ==
  /\ w \in Busy(i) /\ w \notin writes[i]
  /\ ~AcceptingWork(i)
  /\ End(i, w)
  /\ lost' = [lost EXCEPT ![i] = @ \/ w = "drain" \/ request[i] = "running"]
  /\ UNCHANGED <<phase, database, identity, writes, grace, failed>>

\* The transaction, on a connection that may have been closed by then.
WriteRuns(i, w) ==
  /\ w \in writes[i]
  /\ writes' = [writes EXCEPT ![i] = @ \ {w}]
  /\ lost' = [lost EXCEPT ![i] = @ \/ ~database[i]]
  /\ UNCHANGED <<phase, database, identity, request, drain, grace, failed>>

\* The answer is sent, the handler of a cut connection comes to its end, or
\* the drain has gone through its batch.
Finish(i, w) ==
  /\ w \in Busy(i) /\ w \notin writes[i]
  /\ End(i, w)
  /\ UNCHANGED <<phase, database, identity, writes, grace, failed, lost>>

Leave(i) ==
  /\ request[i] = "stream"
  /\ request' = [request EXCEPT ![i] = "none"]
  /\ UNCHANGED <<phase, database, identity, drain, writes, grace, failed, lost>>

-----------------------------------------------------------------------------
(* The stop.                                                               *)

\* stop(): later calls return the same promise.
Stop(i) ==
  /\ phase[i] = "serving"
  /\ Go(i, "stopping")
  /\ grace' = [grace EXCEPT ![i] = "running"]
  /\ UNCHANGED <<database, identity, request, drain, writes, failed, lost>>

DrainUnawaited(i) == TRUE  \* mutant

\* dispatcher.stop() clears the timer and awaits the drain that is running.
DrainOver(i) == ~drain[i]

\* preClose: the dispatcher, then hub.close(), which ends the streams.
PreClose(i) ==
  /\ phase[i] = "stopping"
  /\ DrainOver(i)
  /\ Go(i, "draining")
  /\ request' = [request EXCEPT ![i] = IF @ = "stream" THEN "none" ELSE @]
  /\ UNCHANGED <<database, identity, drain, writes, grace, failed, lost>>

GraceUnlimited(i) == FALSE  \* mutant

\* The timer of closeWithin, as long as close() has not settled, or a second
\* signal, which cuts the connections too.
GraceOver(i) == grace[i] = "running"

\* closeAllConnections(); the handlers behind them go on.
CutConnections(i) ==
  /\ phase[i] \in {"stopping", "draining"}
  /\ GraceOver(i)
  /\ grace' = [grace EXCEPT ![i] = "over"]
  /\ request' = [request EXCEPT ![i] = CASE @ = "running" -> "cut"
                                         [] @ = "stream" -> "none"
                                         [] OTHER -> @]
  /\ UNCHANGED <<phase, database, identity, drain, writes, failed, lost>>

\* The HTTP server has closed: no connection is left.
Drained(i) ==
  /\ phase[i] = "draining"
  /\ request[i] \notin {"running", "stream"}
  /\ Go(i, "closing")
  /\ UNCHANGED <<database, identity, request, drain, writes, grace, failed, lost>>

\* identity.close(), in onClose, where a failure is kept for later, or in the
\* catch block of a start without an app, which a failure leaves.
CloseIdentity(i) ==
  /\ phase[i] \in {"closing", "aborting"}
  /\ \/ identity' = [identity EXCEPT ![i] = FALSE]
        /\ Go(i, "closing_database")
        /\ UNCHANGED failed
     \/ failed' = [failed EXCEPT ![i] = TRUE]
        /\ Go(i, IF phase[i] = "closing" THEN "closing_database" ELSE "stuck")
        /\ UNCHANGED identity
  /\ UNCHANGED <<database, request, drain, writes, grace, lost>>

ReleasedAnyway(closed) == "releasing"  \* mutant

\* if (closeFailure) throw closeFailure: the lock stays.
AfterClose(closed) == IF closed THEN "releasing" ELSE "stuck"

\* database.close() has awaited the writes it had accepted.
CloseDatabase(i) ==
  /\ phase[i] = "closing_database" /\ writes[i] = {}
  /\ \/ /\ database' = [database EXCEPT ![i] = FALSE]
        /\ Go(i, AfterClose(~failed[i]))
        /\ UNCHANGED failed
     \/ /\ failed' = [failed EXCEPT ![i] = TRUE]
        /\ Go(i, AfterClose(FALSE))
        /\ UNCHANGED database
  /\ UNCHANGED <<identity, request, drain, writes, grace, lost>>

-----------------------------------------------------------------------------
(* With the lock.                                                          *)

\* The server calls release(); other programs do when their work is done.
CallRelease(i) ==
  /\ CloseHandle(i)
  /\ IF i \in Server THEN phase[i] = "releasing" /\ Go(i, "down") ELSE UNCHANGED phase
  /\ UNCHANGED <<database, identity, request, drain, writes, grace, failed, lost>>

\* What the end of a process does to a function of it.
Without(f, i, end) == IF i \in Server THEN [f EXCEPT ![i] = end] ELSE f

\* The process ends: after a release, or with whatever it has, which is also
\* how a process ends whose closes have failed.
ProcessEnds(i) ==
  /\ Exit(i) \/ Crash(i)
  /\ phase' = Without(phase, i, "down")
  /\ database' = Without(database, i, FALSE) /\ identity' = Without(identity, i, FALSE)
  /\ request' = Without(request, i, "none") /\ drain' = Without(drain, i, FALSE)
  /\ writes' = Without(writes, i, {})
  /\ grace' = Without(grace, i, "none") /\ failed' = Without(failed, i, FALSE)
  /\ UNCHANGED lost

LockSteps(i) ==
  /\ \/ Launch(i) \/ Acquire(i) \/ OpenFails(i) \/ WriteFails(i)
     \/ ReadOwnRecord(i) \/ RemoveOwn(i)
  /\ UNCHANGED serverVars

Serving(i) ==
  \/ OpenDatabase(i) \/ OpenIdentity(i) \/ Build(i) \/ Listen(i)
  \/ Accept(i) \/ Dispatch(i) \/ Leave(i)
  \/ \E w \in Work : Write(i, w) \/ WriteRefused(i, w) \/ WriteRuns(i, w) \/ Finish(i, w)
  \/ Stop(i) \/ PreClose(i) \/ CutConnections(i) \/ Drained(i)
  \/ CloseIdentity(i) \/ CloseDatabase(i)

NextServers ==
  \/ \E i \in Instance : LockSteps(i) \/ CallRelease(i) \/ ProcessEnds(i)
  \/ \E i \in Server : Serving(i) /\ UNCHANGED vars

SpecServers == InitServers /\ [][NextServers]_allVars

Stopping(i) ==
  PreClose(i) \/ CutConnections(i) \/ Drained(i) \/ CloseIdentity(i) \/ CloseDatabase(i)

\* What a stop waits for comes: timers fire, hooks are called, queued writes
\* run, and a drain, which has a batch of fifty at most, finishes.  Nothing is
\* assumed of requests.
FairServers ==
  /\ SpecServers
  /\ \A i \in Instance : WF_allVars(Acquire(i) /\ UNCHANGED serverVars)
  /\ \A i \in Server :
       /\ WF_allVars(Stopping(i) /\ UNCHANGED vars)
       /\ WF_allVars(CallRelease(i))
       /\ \A w \in Work : WF_allVars(WriteRuns(i, w) /\ UNCHANGED vars)
       /\ SF_allVars((Finish(i, "drain") \/ WriteRefused(i, "drain")) /\ UNCHANGED vars)

-----------------------------------------------------------------------------
(* Properties.                                                             *)

\* A process that has the database open, through its own connections or the
\* identity adapter's, has its lock file at the path, where whoever starts next
\* finds it: through failing starts, failing closes and stops that take too long,
\* unless a lock was created under a recovery (ExclusiveUnlessRaced).
ConnectionsUnderLock ==
  ~raced => \A i \in Server : database[i] \/ identity[i] => file = i /\ i \in written

\* A stop takes nothing away from work that nobody has cut off: the drain, a
\* request within the grace period, and every write that was accepted find the
\* database open (docs/local-operations.md:15).
WorkFinished == \A i \in Server : ~lost[i]

\* A stop comes to its end however long requests take: the lock is given up, or
\* a close has failed, or the process has ended (docs/local-operations.md:75).
StopEnds ==
  \A i \in Server :
    phase[i] = "stopping" ~> phase[i] = "stuck" \/ pc[i] # "held"
=============================================================================
