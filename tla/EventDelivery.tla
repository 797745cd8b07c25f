--------------------------- MODULE EventDelivery ---------------------------
(***************************************************************************)
(* From a committed command to a browser that shows its effect.  Commands  *)
(* leave a fact in outbox_messages; the server's one dispatcher leases     *)
(* facts, projects each one (activity, search, invalidation_events) and    *)
(* completes it in a transaction, and then publishes it to the event       *)
(* streams; a stream replays what its browser has missed before it follows *)
(* the hub; the browser refetches every query on every event.              *)
(*                                                                         *)
(* The place of a fact in invalidation_events is its sequence number.      *)
(* lease_owner is left out: the installation lock admits one server, and a *)
(* message is in the batch only while that server's dispatcher leases it.  *)
(***************************************************************************)
EXTENDS Naturals, Sequences, FiniteSets, FiniteSetsExt, SequencesExt

CONSTANTS
  Fact, Client, Organization, None,
  Concerns,    \* the organization of each fact, None: the installation's own
  MemberOf,    \* the organizations of the user of each browser
  Limit,       \* facts leased at a time (50 in the code)
  MaxTroubles  \* bound: transactions and reads that throw, crashes, lost streams

ASSUME FactsAssumption ==
  /\ None \notin Organization \cup Fact
  /\ Concerns \in [Fact -> Organization \cup {None}]
  /\ MemberOf \in [Client -> SUBSET Organization]

ASSUME BoundsAssumption ==
  /\ Limit \in Nat \ {0}
  /\ MaxTroubles \in Nat

VARIABLES
  server,     \* "down", "starting", its first drain "catching_up", "serving"
  row,        \* the outbox row of each fact
  batch,      \* the leased facts the drain has still to handle
  current,    \* the fact the drain is at between two of its steps, if any
  step,       \* the step it takes next: "publish", or "retry" after a failure
  log,        \* invalidation_events, by sequence number
  connected,  \* whether the browser has a stream
  cursor,     \* the last sequence number written to that stream, 0 without one
  inbox,      \* events written to the stream and not handled yet
  dropped,    \* events the stream was not written, as reading the membership threw
  lastId,     \* the browser's last event id, 0: it has handled none
  queries,    \* whether what it shows is "fresh", "stale" or its refetch "failed"
  view,       \* the facts what it shows accounts for
  troubles    \* what has thrown, crashed and been lost so far

outbox == <<server, row, batch, current, step, log>>
browsers == <<connected, cursor, inbox, dropped, lastId, queries, view>>
vars == <<outbox, browsers, troubles>>

RowState == {"absent", "available", "waiting", "leased", "overdue", "processed"}

TypeOK ==
  /\ server \in {"down", "starting", "catching_up", "serving"}
  /\ row \in [Fact -> RowState]
  /\ batch \subseteq Fact
  /\ current \in Fact \cup {None}
  /\ step \in {"publish", "retry"}
  /\ log \in Seq(Fact)
  /\ connected \in [Client -> BOOLEAN]
  /\ cursor \in [Client -> Nat]
  /\ inbox \in [Client -> Seq(Nat)]
  /\ dropped \in [Client -> SUBSET Nat]
  /\ lastId \in [Client -> Nat]
  /\ queries \in [Client -> {"fresh", "stale", "failed"}]
  /\ view \in [Client -> SUBSET Fact]
  /\ troubles \in 0 .. MaxTroubles

Init ==
  /\ server = "down"
  /\ row = [f \in Fact |-> "absent"]
  /\ batch = {}
  /\ current = None
  /\ step = "publish"
  /\ log = <<>>
  /\ connected = [c \in Client |-> FALSE]
  /\ cursor = [c \in Client |-> 0]
  /\ inbox = [c \in Client |-> <<>>]
  /\ dropped = [c \in Client |-> {}]
  /\ lastId = [c \in Client |-> 0]
  /\ queries = [c \in Client |-> "stale"]
  /\ view = [c \in Client |-> {}]
  /\ troubles = 0

Committed == {f \in Fact : row[f] # "absent"}

Sees(c, f) == Concerns[f] \in MemberOf[c]

-----------------------------------------------------------------------------
(* The dispatcher.                                                         *)

\* A command commits; its transaction appends the fact to the outbox.
Commit(f) ==
  /\ server = "serving"
  /\ row[f] = "absent"
  /\ row' = [row EXCEPT ![f] = "available"]
  /\ UNCHANGED <<server, batch, current, step, log, browsers, troubles>>

LeaseableUnlessLeased == {f \in Fact : row[f] = "available"}  \* mutant

\* processed_at IS NULL AND available_at <= now AND
\* (leased_until IS NULL OR leased_until <= now)
Leaseable == {f \in Fact : row[f] \in {"available", "overdue"}}

\* The start of a drain: of the one every 250 ms, or of the first, which the
\* server awaits before it listens.  RETURNING gives the batch in no order.
Lease ==
  /\ server \in {"starting", "serving"}
  /\ batch = {} /\ current = None
  /\ \E leased \in SUBSET Leaseable :
       /\ Cardinality(leased) = (IF Cardinality(Leaseable) < Limit
                                   THEN Cardinality(Leaseable) ELSE Limit)
       /\ server = "serving" => leased # {}
       /\ batch' = leased
       /\ row' = [f \in Fact |-> IF f \in leased THEN "leased" ELSE row[f]]
  /\ server' = IF server = "starting" THEN "catching_up" ELSE server
  /\ UNCHANGED <<current, step, log, browsers, troubles>>

Serve ==
  /\ server = "catching_up"
  /\ batch = {} /\ current = None
  /\ server' = "serving"
  /\ UNCHANGED <<row, batch, current, step, log, browsers, troubles>>

\* INSERT OR IGNORE by outbox id; a fact without an organization has no event.
Projected(f) ==
  IF Concerns[f] = None \/ f \in ToSet(log) THEN log ELSE Append(log, f)

\* One transaction: the projection and the completion of the message.
Project(f) ==
  /\ f \in batch
  /\ current = None
  /\ log' = Projected(f)
  /\ row' = [row EXCEPT ![f] = "processed"]
  /\ batch' = batch \ {f}
  /\ current' = IF Concerns[f] = None THEN None ELSE f
  /\ UNCHANGED <<server, step, browsers, troubles>>

\* The transaction throws and is rolled back.
ProjectFails(f) ==
  /\ f \in batch
  /\ current = None
  /\ troubles < MaxTroubles
  /\ troubles' = troubles + 1
  /\ batch' = batch \ {f}
  /\ current' = f
  /\ step' = "retry"
  /\ UNCHANGED <<server, row, log, browsers>>

Retry ==
  /\ current # None /\ step = "retry"
  /\ row' = [row EXCEPT ![current] = "waiting"]
  /\ current' = None
  /\ step' = "publish"
  /\ UNCHANGED <<server, batch, log, browsers, troubles>>

\* The write of the retry throws and with it the drain; what the drain has not
\* handled stays leased.  The first drain takes the server down with it.
RetryFails ==
  /\ current # None /\ step = "retry"
  /\ troubles < MaxTroubles
  /\ troubles' = troubles + 1
  /\ batch' = {}
  /\ current' = None
  /\ step' = "publish"
  /\ server' = IF server = "catching_up" THEN "down" ELSE server
  /\ UNCHANGED <<row, log, browsers>>

WantedAlways(c, number) == TRUE  \* mutant

\* if (event.sequence <= cursor) return
Wanted(c, number) == number > cursor[c]

\* hub.publish, after the transaction has committed.  The listener of a stream
\* reads the membership of its user; the hub swallows what that read throws.
Publish ==
  /\ current # None /\ step = "publish"
  /\ LET number == CHOOSE i \in DOMAIN log : log[i] = current
         wanting == {c \in Client : connected[c] /\ Sees(c, current) /\ Wanted(c, number)}
     IN \E reached \in SUBSET wanting :
          /\ reached # wanting => troubles < MaxTroubles
          /\ troubles' = troubles + (IF reached = wanting THEN 0 ELSE 1)
          /\ inbox' = [c \in Client |->
                         IF c \in reached THEN Append(inbox[c], number) ELSE inbox[c]]
          /\ cursor' = [c \in Client |-> IF c \in reached THEN number ELSE cursor[c]]
          /\ dropped' = [c \in Client |-> IF c \in wanting \ reached
                                            THEN dropped[c] \cup {number} ELSE dropped[c]]
  /\ current' = None
  /\ UNCHANGED <<server, row, batch, step, log, connected, lastId, queries, view>>

\* available_at is reached.
Wake(f) ==
  /\ row[f] = "waiting"
  /\ row' = [row EXCEPT ![f] = "available"]
  /\ UNCHANGED <<server, batch, current, step, log, browsers, troubles>>

\* leased_until is reached, also while the drain still works on the batch.
LeaseEnds(f) ==
  /\ row[f] = "leased"
  /\ row' = [row EXCEPT ![f] = "overdue"]
  /\ UNCHANGED <<server, batch, current, step, log, browsers, troubles>>

Start ==
  /\ server = "down"
  /\ server' = "starting"
  /\ UNCHANGED <<row, batch, current, step, log, browsers, troubles>>

\* A crash between any two steps; a shutdown, which lets the drain finish
\* first, is the crash at a moment without one.
Crash ==
  /\ server # "down"
  /\ troubles < MaxTroubles
  /\ troubles' = troubles + 1
  /\ server' = "down"
  /\ batch' = {}
  /\ current' = None
  /\ step' = "publish"
  /\ connected' = [c \in Client |-> FALSE]
  /\ cursor' = [c \in Client |-> 0]
  /\ inbox' = [c \in Client |-> <<>>]
  /\ dropped' = [c \in Client |-> {}]
  /\ UNCHANGED <<row, log, lastId, queries, view>>

-----------------------------------------------------------------------------
(* The streams and the browsers.                                           *)

Seen(c) == {i \in DOMAIN log : Sees(c, log[i])}

Latest(c) == IF Seen(c) = {} THEN 0 ELSE Max(Seen(c))

FromLatest(c) == Latest(c)  \* mutant

\* The cursor the browser asks to resume from, if it has one.
FirstCursor(c) ==
  IF lastId[c] = 0 \/ lastId[c] > Latest(c) THEN Latest(c) ELSE lastId[c]

\* ORDER BY sequence: at k the one of them that k of them do not exceed.
InOrder(numbers) ==
  [k \in 1 .. Cardinality(numbers) |->
     CHOOSE i \in numbers : Cardinality({j \in numbers : j <= i}) = k]

\* The handler subscribes and replays without yielding in between.
Connect(c) ==
  /\ server = "serving"
  /\ ~connected[c]
  /\ connected' = [connected EXCEPT ![c] = TRUE]
  /\ LET missed == {i \in Seen(c) : i > FirstCursor(c)}
     IN /\ inbox' = [inbox EXCEPT ![c] = InOrder(missed)]
        /\ cursor' = [cursor EXCEPT ![c] = IF missed = {} THEN FirstCursor(c)
                                                          ELSE Latest(c)]
  /\ UNCHANGED <<outbox, dropped, lastId, queries, view, troubles>>

Disconnect(c) ==
  /\ connected[c]
  /\ troubles < MaxTroubles
  /\ troubles' = troubles + 1
  /\ connected' = [connected EXCEPT ![c] = FALSE]
  /\ cursor' = [cursor EXCEPT ![c] = 0]
  /\ inbox' = [inbox EXCEPT ![c] = <<>>]
  /\ dropped' = [dropped EXCEPT ![c] = {}]
  /\ UNCHANGED <<outbox, lastId, queries, view>>

QueriesKept(c) == queries[c]  \* mutant

\* invalidateQueries: also for a query whose last refetch failed.
Invalidated(c) == "stale"

\* The browser stores the event's id and invalidates every query.
Handle(c) ==
  /\ inbox[c] # <<>>
  /\ lastId' = [lastId EXCEPT ![c] = Head(inbox[c])]
  /\ queries' = [queries EXCEPT ![c] = Invalidated(c)]
  /\ inbox' = [inbox EXCEPT ![c] = Tail(@)]
  /\ UNCHANGED <<outbox, connected, cursor, dropped, view, troubles>>

Refetch(c) ==
  /\ queries[c] = "stale"
  /\ server = "serving"
  /\ queries' = [queries EXCEPT ![c] = "fresh"]
  /\ view' = [view EXCEPT ![c] = {f \in Committed : Sees(c, f)}]
  /\ UNCHANGED <<outbox, connected, cursor, inbox, dropped, lastId, troubles>>

\* With its one retry; nothing but an event or a visit starts another.
RefetchFails(c) ==
  /\ queries[c] = "stale"
  /\ server # "serving"
  /\ queries' = [queries EXCEPT ![c] = "failed"]
  /\ UNCHANGED <<outbox, connected, cursor, inbox, dropped, lastId, view, troubles>>

-----------------------------------------------------------------------------
Next ==
  \/ \E f \in Fact : \/ Commit(f) \/ Project(f) \/ ProjectFails(f)
                     \/ Wake(f) \/ LeaseEnds(f)
  \/ Lease \/ Serve \/ Retry \/ RetryFails \/ Publish
  \/ Start \/ Crash
  \/ \E c \in Client : \/ Connect(c) \/ Disconnect(c) \/ Handle(c)
                       \/ Refetch(c) \/ RefetchFails(c)

Spec == Init /\ [][Next]_vars

\* The dispatcher's timer and the clock go on, the operator starts the server
\* again, and an EventSource reconnects.
Fairness ==
  /\ WF_vars(Start) /\ WF_vars(Lease) /\ WF_vars(Serve)
  /\ WF_vars(Retry) /\ WF_vars(Publish)
  /\ WF_vars(\E f \in Fact : Project(f))
  /\ \A f \in Fact : WF_vars(Wake(f)) /\ WF_vars(LeaseEnds(f))
  /\ \A c \in Client : WF_vars(Connect(c)) /\ WF_vars(Handle(c)) /\ WF_vars(Refetch(c))

FairSpec == Spec /\ Fairness

-----------------------------------------------------------------------------
(* Properties.                                                             *)

Abstract == INSTANCE EventLog WITH
  committed <- Committed, Logged <- {f \in Fact : Concerns[f] # None}

\* The outbox implements the event log: through failed projections, failed
\* retries, expired leases and crashes between any two steps each fact gets one
\* event, after its commit, and every fact of an organization gets its event.
EventsRecorded == Abstract!Spec

\* A stream that resumed from an event loses none but to a membership read that
\* threw: every later event the browser's user may see is on its way, or is the
\* one the dispatcher is about to publish.
NothingSkipped ==
  \A c \in Client : connected[c] /\ lastId[c] > 0 =>
    \A i \in Seen(c) : i > lastId[c] =>
      i \in ToSet(inbox[c]) \cup dropped[c] \/ (log[i] = current /\ step = "publish")

\* A browser never goes back: the events on its way are later than the one it
\* handled last and in order, none twice, also when its stream starts between the
\* commit of an event and its publication.
NoEventTwice ==
  \A c \in Client : \A i, j \in 0 .. Len(inbox[c]) :
    LET id(k) == IF k = 0 THEN lastId[c] ELSE inbox[c][k]
    IN i < j => id(i) < id(j)

\* A browser that has handled an event ends up showing every committed fact of its
\* organizations, unless its last refetch met a stopped server or its stream was
\* not written an event that no later one has made up for.
ShowsEverything ==
  \A c \in Client :
    <>[](lastId[c] > 0 /\ queries[c] = "fresh" /\ Max(dropped[c] \cup {0}) <= lastId[c] =>
           view[c] = {f \in Committed : Sees(c, f)})
=============================================================================
