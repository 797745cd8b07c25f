------------------------ MODULE EventDeliveryProofs ------------------------
(* Proof that the steps of EventDelivery are steps of EventLog, and that a *)
(* stream neither skips nor repeats an event, for any facts, browsers,     *)
(* batch size and number of troubles.                                      *)
EXTENDS EventDelivery, FiniteSetTheorems, TLAPS

\* What the drain has in hand has been leased, so it was committed.
Held(f) == row[f] \in {"leased", "overdue"}

LeasesHeld ==
  /\ row \in [Fact -> RowState]
  /\ batch \subseteq Fact
  /\ \A f \in batch : Held(f)
  /\ current # None => current \in Fact
  /\ current = None => step = "publish"
  /\ current # None /\ step = "retry" => Held(current) /\ current \notin batch

-----------------------------------------------------------------------------
\* The drain has nothing in hand at first.
LEMMA InitHeld == Init => LeasesHeld
  BY DEF Init, LeasesHeld, RowState

\* Every step keeps what the drain has in hand leased.
LEMMA NextHeld == LeasesHeld /\ [Next]_vars => LeasesHeld'
<1> SUFFICES ASSUME LeasesHeld, [Next]_vars PROVE LeasesHeld'
  OBVIOUS
<1> USE FactsAssumption DEF LeasesHeld, Held, RowState, browsers, outbox
<1>1. ASSUME NEW f \in Fact, Commit(f) PROVE LeasesHeld'
  <2>1. row' = [row EXCEPT ![f] = "available"] /\ row[f] = "absent"
    BY <1>1 DEF Commit
  <2>2. row' \in [Fact -> RowState] /\ \A g \in Fact : Held(g) => Held(g)'
    BY <2>1
  <2>3. batch' = batch /\ current' = current /\ step' = step
    BY <1>1 DEF Commit
  <2> QED
    BY <2>2, <2>3
<1>2. ASSUME NEW f \in Fact, Project(f) PROVE LeasesHeld'
  BY <1>2 DEF Project
<1>3. ASSUME NEW f \in Fact, ProjectFails(f) PROVE LeasesHeld'
  BY <1>3 DEF ProjectFails
<1>4. ASSUME NEW f \in Fact, Wake(f) \/ LeaseEnds(f) PROVE LeasesHeld'
  BY <1>4 DEF Wake, LeaseEnds
<1>5. CASE Lease
  BY <1>5 DEF Lease, Leaseable
<1>6. CASE Retry
  BY <1>6 DEF Retry
<1>7. CASE Serve \/ RetryFails \/ Publish \/ Start \/ Crash
  BY <1>7 DEF Serve, RetryFails, Publish, Start, Crash
<1>8. ASSUME NEW c \in Client,
             Connect(c) \/ Disconnect(c) \/ Handle(c) \/ Refetch(c) \/ RefetchFails(c)
      PROVE LeasesHeld'
  BY <1>8 DEF Connect, Disconnect, Handle, Refetch, RefetchFails
<1>9. CASE UNCHANGED vars
  BY <1>9 DEF vars
<1> QED
  BY <1>1, <1>2, <1>3, <1>4, <1>5, <1>6, <1>7, <1>8, <1>9 DEF Next

-----------------------------------------------------------------------------
(* The refinement.                                                         *)

\* Every step commits one new fact, records one committed fact that was not
\* recorded yet, or leaves both the facts and the log as they are.
LEMMA StepRefines == LeasesHeld /\ [Next]_vars => [Abstract!Next]_(Abstract!vars)
<1> SUFFICES ASSUME LeasesHeld, [Next]_vars PROVE [Abstract!Next]_(Abstract!vars)
  OBVIOUS
<1> DEFINE Stutter == Committed' = Committed /\ log' = log
<1>0. Stutter => UNCHANGED Abstract!vars
  BY DEF Abstract!vars
<1>1. ASSUME NEW f \in Fact, Commit(f) PROVE Abstract!Accept(f)
  <2>1. f \notin Committed /\ Committed' = Committed \cup {f}
    BY <1>1 DEF Commit, Committed, LeasesHeld
  <2>2. UNCHANGED log
    BY <1>1 DEF Commit
  <2> QED
    BY <2>1, <2>2 DEF Abstract!Accept
<1>2. ASSUME NEW f \in Fact, Project(f) PROVE Abstract!Record(f) \/ Stutter
  <2>1. Committed' = Committed /\ f \in Committed
    BY <1>2 DEF Project, Committed, LeasesHeld, Held
  <2>2. CASE Concerns[f] = None \/ f \in ToSet(log)
    BY <1>2, <2>1, <2>2 DEF Project, Projected
  <2>3. CASE Concerns[f] # None /\ f \notin ToSet(log)
    <3>1. f \in (Committed \cap {g \in Fact : Concerns[g] # None}) \ ToSet(log)
      BY <2>1, <2>3
    <3>2. log' = Append(log, f)
      BY <1>2, <2>3 DEF Project, Projected
    <3> QED
      BY <2>1, <3>1, <3>2 DEF Abstract!Record, Abstract!ToSet, ToSet
  <2> QED
    BY <2>2, <2>3
<1>3. ASSUME NEW f \in Fact, ProjectFails(f) \/ Wake(f) \/ LeaseEnds(f) PROVE Stutter
  BY <1>3 DEF ProjectFails, Wake, LeaseEnds, Committed, LeasesHeld
<1>4. CASE Lease
  <2>1. Committed' = Committed
    BY <1>4 DEF Lease, Leaseable, Committed
  <2> QED
    BY <1>0, <1>4, <2>1 DEF Lease
<1>5. CASE Retry
  BY <1>0, <1>5 DEF Retry, Committed, LeasesHeld, Held
<1>6. CASE Serve \/ RetryFails \/ Publish \/ Start \/ Crash
  BY <1>0, <1>6 DEF Serve, RetryFails, Publish, Start, Crash, Committed
<1>7. ASSUME NEW c \in Client,
             Connect(c) \/ Disconnect(c) \/ Handle(c) \/ Refetch(c) \/ RefetchFails(c)
      PROVE Stutter
  BY <1>7 DEF Connect, Disconnect, Handle, Refetch, RefetchFails, outbox, Committed
<1>8. CASE UNCHANGED vars
  BY <1>0, <1>8 DEF vars, outbox, Committed
<1> QED
  BY <1>0, <1>1, <1>2, <1>3, <1>4, <1>5, <1>6, <1>7, <1>8 DEF Next, Abstract!Next

\* The drain only ever works on facts it has leased.
THEOREM LeasesAlwaysHeld == Spec => []LeasesHeld
  BY InitHeld, NextHeld, PTL DEF Spec

\* The outbox implements the safety of the event log: through failures, expired
\* leases and crashes a fact gets at most one event, and only after its commit.
THEOREM RecordedOnce == Spec => Abstract!Safety
<1>1. Init => Abstract!Init
  BY DEF Init, Abstract!Init, Committed
<1> QED
  BY <1>1, StepRefines, LeasesAlwaysHeld, PTL DEF Spec, Abstract!Safety

-----------------------------------------------------------------------------
(* The replay and the latest sequence number.                              *)

\* InOrder lists a finite set of naturals completely and in ascending order:
\* ranks are distinct, and there are as many ranks as numbers.
LEMMA InOrderLists ==
  ASSUME NEW numbers \in SUBSET Nat, IsFiniteSet(numbers)
  PROVE  /\ InOrder(numbers) \in Seq(numbers)
         /\ Len(InOrder(numbers)) = Cardinality(numbers)
         /\ ToSet(InOrder(numbers)) = numbers
         /\ \A k, m \in DOMAIN InOrder(numbers) :
              k < m => InOrder(numbers)[k] < InOrder(numbers)[m]
<1> DEFINE n == Cardinality(numbers)
           UpTo(i) == {j \in numbers : j <= i}
           rank == [i \in numbers |-> Cardinality(UpTo(i))]
           listed == InOrder(numbers)
<1>0. \A i \in numbers : i \in Nat
  OBVIOUS
<1>1. n \in Nat
  BY FS_CardinalityType
<1>2. ASSUME NEW i \in numbers PROVE IsFiniteSet(UpTo(i)) /\ rank[i] \in 1 .. n
  <2>1. UpTo(i) \in SUBSET numbers /\ i \in UpTo(i)
    OBVIOUS
  <2>2. IsFiniteSet(UpTo(i)) /\ Cardinality(UpTo(i)) <= n
    BY <2>1, FS_Subset
  <2>3. Cardinality(UpTo(i)) \in Nat /\ Cardinality(UpTo(i)) # 0
    BY <2>1, <2>2, FS_CardinalityType, FS_EmptySet
  <2> QED
    BY <1>1, <2>2, <2>3
<1>3. ASSUME NEW i \in numbers, NEW j \in numbers, i < j PROVE rank[i] < rank[j]
  <2>0. i \in Nat /\ j \in Nat /\ \A x \in numbers : x <= i => x <= j
    BY <1>0, <1>3
  <2>1. UpTo(i) \in SUBSET UpTo(j) /\ j \in UpTo(j) /\ j \notin UpTo(i)
    <3>1. j <= j /\ ~(j <= i)
      BY <1>3, <2>0
    <3> QED
      BY <2>0, <3>1
  <2>2. Cardinality(UpTo(i)) <= Cardinality(UpTo(j)) /\ UpTo(i) # UpTo(j)
    BY <1>2, <2>1, FS_Subset
  <2>3. Cardinality(UpTo(i)) # Cardinality(UpTo(j))
    BY <1>2, <2>1, <2>2, FS_Subset
  <2> QED
    BY <1>1, <1>2, <2>2, <2>3
<1>4. rank \in Injection(numbers, 1 .. n)
  <2>1. rank \in [numbers -> 1 .. n]
    BY <1>2
  <2>2. ASSUME NEW i \in numbers, NEW j \in numbers, rank[i] = rank[j] PROVE i = j
    <3>1. ~(i < j) /\ ~(j < i)
      BY <1>1, <1>2, <1>3, <2>2
    <3> QED
      BY <3>1
  <2> HIDE DEF rank
  <2> QED
    BY <2>1, <2>2 DEF Injection, IsInjective
<1>5. rank \in Surjection(numbers, 1 .. n)
  <2>1. IsFiniteSet(1 .. n) /\ Cardinality(1 .. n) = n
    BY <1>1, FS_Interval
  <2> HIDE DEF rank
  <2> QED
    BY <1>4, <2>1, FS_Injection
<1>6. ASSUME NEW k \in 1 .. n PROVE listed[k] \in numbers /\ rank[listed[k]] = k
  <2>1. \E i \in numbers : rank[i] = k
    <3> HIDE DEF rank
    <3> QED
      BY <1>5 DEF Surjection
  <2>2. \E i \in numbers : Cardinality({j \in numbers : j <= i}) = k
    BY <2>1
  <2>3. listed[k] = CHOOSE i \in numbers : Cardinality({j \in numbers : j <= i}) = k
    BY DEF InOrder
  <2>4. listed[k] \in numbers /\ Cardinality({j \in numbers : j <= listed[k]}) = k
    BY <2>2, <2>3
  <2> QED
    BY <2>4
<1>7. DOMAIN listed = 1 .. n
  BY DEF InOrder
<1> HIDE DEF rank
<1>8. listed \in Seq(numbers) /\ Len(listed) = n
  <2>1. listed = [k \in 1 .. n |-> listed[k]]
    BY DEF InOrder
  <2> HIDE DEF listed
  <2>2. listed \in [1 .. n -> numbers]
    BY <1>6, <2>1
  <2> QED
    BY <1>1, <2>2
<1> HIDE DEF listed
<1>9. \A i \in numbers : i = listed[rank[i]]
  BY <1>2, <1>4, <1>6 DEF Injection, IsInjective
<1>10. ToSet(listed) = numbers
  BY <1>2, <1>6, <1>7, <1>9 DEF ToSet
<1>11. ASSUME NEW k \in 1 .. n, NEW m \in 1 .. n, k < m PROVE listed[k] < listed[m]
  <2>1. listed[k] \in Nat /\ listed[m] \in Nat /\ k \in Nat /\ m \in Nat
    <3>1. listed[k] \in numbers /\ listed[m] \in numbers
      BY <1>6
    <3>2. listed[k] \in Nat /\ listed[m] \in Nat
      BY <1>0, <3>1
    <3> QED
      BY <1>1, <3>2
  <2>2. rank[listed[k]] = k /\ rank[listed[m]] = m
    BY <1>6
  <2>3. listed[k] # listed[m]
    BY <1>11, <2>1, <2>2
  <2>4. ~(listed[m] < listed[k])
    BY <1>3, <1>6, <1>11, <2>1, <2>2
  <2> QED
    BY <2>1, <2>3, <2>4
<1> QED
  BY <1>7, <1>8, <1>10, <1>11 DEF listed

\* Latest is the greatest sequence number the user may see.
LEMMA LatestIsGreatest ==
  ASSUME log \in Seq(Fact), NEW c \in Client
  PROVE  /\ Seen(c) \in SUBSET Nat /\ IsFiniteSet(Seen(c))
         /\ Latest(c) \in 0 .. Len(log)
         /\ Seen(c) # {} => Latest(c) \in Seen(c)
         /\ \A i \in Seen(c) : i <= Latest(c)
<1>1. Len(log) \in Nat /\ Seen(c) \in SUBSET (1 .. Len(log))
  BY DEF Seen
<1>2. IsFiniteSet(Seen(c))
  <2>1. IsFiniteSet(1 .. Len(log))
    BY <1>1, FS_Interval
  <2> QED
    BY <1>1, <2>1, FS_Subset
<1>3. CASE Seen(c) = {}
  BY <1>1, <1>2, <1>3 DEF Latest
<1>4. CASE Seen(c) # {}
  <2> DEFINE listed == InOrder(Seen(c))
             n == Cardinality(Seen(c))
  <2>1. n \in Nat /\ n # 0
    BY <1>2, <1>4, FS_CardinalityType, FS_EmptySet
  <2>2. Seen(c) \in SUBSET Nat
    BY <1>1
  <2>3. /\ listed \in Seq(Seen(c)) /\ Len(listed) = n /\ ToSet(listed) = Seen(c)
        /\ \A k, m \in DOMAIN listed : k < m => listed[k] < listed[m]
    BY <1>2, <2>2, InOrderLists
  <2> HIDE DEF listed, n
  <2>4. DOMAIN listed = 1 .. n /\ listed[n] \in Seen(c)
    BY <2>1, <2>3
  <2>5. ASSUME NEW i \in Seen(c) PROVE listed[n] >= i
    <3>1. PICK k \in 1 .. n : listed[k] = i
      BY <2>3, <2>4 DEF ToSet
    <3>2. k = n \/ (k < n /\ listed[k] < listed[n])
      BY <2>1, <2>3, <2>4
    <3> QED
      BY <1>1, <2>4, <3>1, <3>2
  <2>6. Max(Seen(c)) \in Seen(c) /\ \A i \in Seen(c) : Max(Seen(c)) >= i
    BY <2>4, <2>5 DEF Max
  <2>7. Latest(c) = Max(Seen(c))
    BY <1>4 DEF Latest
  <2> HIDE DEF Max
  <2> QED
    BY <1>1, <1>2, <2>6, <2>7
<1> QED
  BY <1>3, <1>4

-----------------------------------------------------------------------------
(* The streams.                                                            *)

\* No fact is logged twice; each logged fact is processed and has an event.
LogIsHistory ==
  /\ \A i, j \in DOMAIN log : log[i] = log[j] => i = j
  /\ \A i \in DOMAIN log : row[log[i]] = "processed" /\ Concerns[log[i]] # None

\* Between projection and publication the drain records nothing else.
PublishesLast ==
  current # None /\ step = "publish" => log # <<>> /\ current = log[Len(log)]

\* The events on their way to browser c are its user's, in order, after the one
\* it handled last and not after the cursor of its stream.
InStreamOrder(c) ==
  /\ ~connected[c] => inbox[c] = <<>>
  /\ cursor[c] \in 0 .. Len(log)
  /\ lastId[c] = 0 \/ lastId[c] \in Seen(c)
  /\ connected[c] => lastId[c] <= cursor[c]
  /\ \A k \in DOMAIN inbox[c] :
       /\ inbox[c][k] \in Seen(c)
       /\ lastId[c] < inbox[c][k] /\ inbox[c][k] <= cursor[c]
  /\ \A k, m \in DOMAIN inbox[c] : k < m => inbox[c][k] < inbox[c][m]

\* What lies beyond the cursor has been dropped, or is the one event that is about
\* to be published.
AtCursor(c) ==
  connected[c] => \A i \in Seen(c) : i > cursor[c] =>
    i \in dropped[c] \/ (i = Len(log) /\ current = log[i] /\ step = "publish")

\* The events of the stream that the browser has handled last or will handle.
Received(c) == {lastId[c]} \cup ToSet(inbox[c])

\* From any of them on, the stream holds every event up to its cursor that has not
\* been dropped.
NoGap(c) ==
  connected[c] => \A i \in Seen(c), n \in Received(c) :
    0 < n /\ n < i /\ i <= cursor[c] => i \in ToSet(inbox[c]) \cup dropped[c]

StreamOK(c) == InStreamOrder(c) /\ AtCursor(c) /\ NoGap(c)

IInv ==
  /\ TypeOK
  /\ LeasesHeld
  /\ LogIsHistory
  /\ PublishesLast
  /\ \A c \in Client : StreamOK(c)

\* Nothing is logged and no browser has a stream at first.
LEMMA InitInv == Init => IInv
  BY InitHeld, FactsAssumption, BoundsAssumption
  DEF Init, IInv, TypeOK, RowState, LogIsHistory, PublishesLast, StreamOK, InStreamOrder,
      AtCursor, NoGap, Received, Seen, ToSet

\* Appending an event that is not logged yet, and nothing else, changes the log.
LEMMA NextLog == IInv /\ [Next]_vars => LogIsHistory' /\ PublishesLast'
<1> SUFFICES ASSUME IInv, [Next]_vars PROVE LogIsHistory' /\ PublishesLast'
  OBVIOUS
<1> USE FactsAssumption DEF IInv, TypeOK, LogIsHistory, PublishesLast
<1>1. ASSUME NEW f \in Fact, Project(f) PROVE LogIsHistory' /\ PublishesLast'
  <2>1. row[f] \in {"leased", "overdue"} /\ \A i \in DOMAIN log : log[i] # f
    BY <1>1 DEF Project, LeasesHeld, Held
  <2>2. row' = [row EXCEPT ![f] = "processed"] /\ row'[f] = "processed"
    BY <1>1 DEF Project
  <2>3. CASE Concerns[f] = None
    BY <1>1, <2>1, <2>2, <2>3 DEF Project, Projected
  <2>4. CASE Concerns[f] # None
    <3>1. log' = Append(log, f) /\ current' = f /\ step' = step
      BY <1>1, <2>1, <2>4 DEF Project, Projected, ToSet
    <3>2. /\ Len(log') = Len(log) + 1 /\ log'[Len(log) + 1] = f
          /\ DOMAIN log' = DOMAIN log \cup {Len(log) + 1}
          /\ \A i \in DOMAIN log : log'[i] = log[i]
      BY <3>1
    <3>3. PublishesLast'
      BY <3>1, <3>2
    <3>4. LogIsHistory'
      BY <2>1, <2>2, <2>4, <3>2
    <3> QED
      BY <3>3, <3>4
  <2> QED
    BY <2>3, <2>4
<1>2. ASSUME NEW f \in Fact, Commit(f) \/ ProjectFails(f) \/ Wake(f) \/ LeaseEnds(f)
      PROVE LogIsHistory' /\ PublishesLast'
  <2>1. CASE ProjectFails(f)
    BY <2>1 DEF ProjectFails
  <2>2. CASE Commit(f) \/ Wake(f) \/ LeaseEnds(f)
    <3>1. UNCHANGED <<log, current, step>> /\ row[f] # "processed"
      BY <2>2 DEF Commit, Wake, LeaseEnds
    <3>2. \A g \in Fact : g # f => row'[g] = row[g]
      BY <2>2 DEF Commit, Wake, LeaseEnds
    <3> QED
      BY <3>1, <3>2
  <2> QED
    BY <1>2, <2>1, <2>2
<1>3. CASE Lease
  <2>1. UNCHANGED <<log, current, step>>
    BY <1>3 DEF Lease
  <2>2. PICK leased \in SUBSET Leaseable :
               row' = [f \in Fact |-> IF f \in leased THEN "leased" ELSE row[f]]
    BY <1>3 DEF Lease
  <2>3. \A g \in Fact : row[g] = "processed" => row'[g] = "processed"
    BY <2>2 DEF Leaseable
  <2> QED
    BY <2>1, <2>3
<1>4. CASE Retry
  BY <1>4 DEF Retry, LeasesHeld, Held
<1>5. CASE Serve \/ RetryFails \/ Publish \/ Start \/ Crash
  BY <1>5 DEF Serve, RetryFails, Publish, Start, Crash
<1>6. ASSUME NEW c \in Client,
             Connect(c) \/ Disconnect(c) \/ Handle(c) \/ Refetch(c) \/ RefetchFails(c)
      PROVE LogIsHistory' /\ PublishesLast'
  BY <1>6 DEF Connect, Disconnect, Handle, Refetch, RefetchFails, outbox
<1>7. CASE UNCHANGED vars
  BY <1>7 DEF vars, outbox
<1> QED
  BY <1>1, <1>2, <1>3, <1>4, <1>5, <1>6, <1>7 DEF Next

\* Steps that leave the log and the streams alone, and that forget the fact to
\* publish only where there is none.
LEMMA Quiet ==
  ASSUME IInv, UNCHANGED <<log, connected, cursor, inbox, dropped, lastId>>,
         UNCHANGED <<current, step>> \/ current = None \/ step = "retry"
  PROVE  \A c \in Client : StreamOK(c)'
<1> SUFFICES ASSUME NEW c \in Client PROVE StreamOK(c)'
  OBVIOUS
<1>1. Seen(c)' = Seen(c) /\ Received(c)' = Received(c)
  BY DEF Seen, Received
<1>2. StreamOK(c)
  BY DEF IInv
<1>3. InStreamOrder(c)' /\ NoGap(c)'
  BY <1>1, <1>2 DEF StreamOK, InStreamOrder, NoGap
<1>4. ASSUME NEW i \in Seen(c) PROVE i \in DOMAIN log /\ log[i] # None
  BY FactsAssumption DEF Seen, IInv, TypeOK
<1>5. AtCursor(c)'
  BY <1>1, <1>2, <1>4 DEF StreamOK, AtCursor
<1> QED
  BY <1>3, <1>5 DEF StreamOK

\* A new event is beyond every cursor, and it is the one to publish next.
LEMMA ProjectStreams ==
  ASSUME IInv, NEW f \in Fact, Project(f)
  PROVE  \A c \in Client : StreamOK(c)'
<1> SUFFICES ASSUME NEW c \in Client PROVE StreamOK(c)'
  OBVIOUS
<1>1. UNCHANGED <<connected, cursor, inbox, dropped, lastId, step>> /\ current = None
  BY DEF Project, browsers
<1>2. CASE log' = log
  BY <1>1, <1>2, Quiet
<1>3. CASE log' # log
  <2> DEFINE n == Len(log) + 1
  <2>1. log' = Append(log, f) /\ current' = f /\ step' = "publish"
    BY <1>3 DEF Project, Projected, IInv, LeasesHeld
  <2>2. /\ n \in Nat /\ Len(log') = n /\ DOMAIN log = 1 .. Len(log)
        /\ log'[n] = f /\ DOMAIN log' = DOMAIN log \cup {n}
        /\ \A i \in DOMAIN log : log'[i] = log[i]
    BY <2>1 DEF IInv, TypeOK
  <2>3. Seen(c) \subseteq Seen(c)' /\ Seen(c)' \subseteq Seen(c) \cup {n}
    BY <2>2 DEF Seen, Sees
  <2>4. Received(c)' = Received(c)
    BY <1>1 DEF Received
  <2>5. /\ StreamOK(c) /\ cursor[c] \in 0 .. Len(log)
        /\ \A i \in Seen(c) : log[i] # None
    BY FactsAssumption DEF IInv, StreamOK, InStreamOrder, Seen, TypeOK
  <2>6. InStreamOrder(c)'
    BY <1>1, <2>2, <2>3, <2>5 DEF StreamOK, InStreamOrder
  <2>7. AtCursor(c)'
    BY <1>1, <2>1, <2>2, <2>3, <2>5 DEF StreamOK, AtCursor
  <2>8. NoGap(c)'
    BY <1>1, <2>2, <2>3, <2>4, <2>5 DEF StreamOK, NoGap
  <2> QED
    BY <2>6, <2>7, <2>8 DEF StreamOK
<1> QED
  BY <1>2, <1>3

\* The fact to publish is the last of the log, at its own number only.
LEMMA PublishedNumber ==
  ASSUME IInv, current # None, step = "publish"
  PROVE  /\ Len(log) \in DOMAIN log /\ log[Len(log)] = current
         /\ (CHOOSE i \in DOMAIN log : log[i] = current) = Len(log)
<1>1. Len(log) \in DOMAIN log /\ log[Len(log)] = current
  BY DEF IInv, TypeOK, PublishesLast
<1> QED
  BY <1>1 DEF IInv, LogIsHistory

\* Publish appends that number to the streams it reaches.
LEMMA PublishedTo ==
  ASSUME IInv, Publish
  PROVE  LET wanting == {d \in Client : /\ connected[d] /\ Sees(d, current)
                                       /\ Len(log) > cursor[d]}
         IN \E reached \in SUBSET wanting :
              /\ reached # wanting => troubles < MaxTroubles
              /\ troubles' = troubles + (IF reached = wanting THEN 0 ELSE 1)
              /\ inbox' = [d \in Client |-> IF d \in reached THEN Append(inbox[d], Len(log))
                                                         ELSE inbox[d]]
              /\ cursor' = [d \in Client |-> IF d \in reached THEN Len(log) ELSE cursor[d]]
              /\ dropped' = [d \in Client |-> IF d \in wanting \ reached
                                               THEN dropped[d] \cup {Len(log)}
                                               ELSE dropped[d]]
<1> DEFINE number == CHOOSE i \in DOMAIN log : log[i] = current
           wanting == {d \in Client : connected[d] /\ Sees(d, current) /\ number > cursor[d]}
<1>1. number = Len(log)
  BY PublishedNumber DEF Publish
<1>2. PICK reached \in SUBSET wanting :
        /\ reached # wanting => troubles < MaxTroubles
        /\ troubles' = troubles + (IF reached = wanting THEN 0 ELSE 1)
        /\ inbox' = [d \in Client |-> IF d \in reached THEN Append(inbox[d], number)
                                                   ELSE inbox[d]]
        /\ cursor' = [d \in Client |-> IF d \in reached THEN number ELSE cursor[d]]
        /\ dropped' = [d \in Client |-> IF d \in wanting \ reached
                                         THEN dropped[d] \cup {number} ELSE dropped[d]]
  BY DEF Publish, Wanted
<1> HIDE DEF number
<1> QED
  BY <1>1, <1>2

\* The event goes to the end of the streams it reaches; for those that want it and
\* that it does not reach it counts as dropped.
LEMMA PublishStreams ==
  ASSUME IInv, Publish
  PROVE  \A c \in Client : StreamOK(c)'
<1> SUFFICES ASSUME NEW c \in Client PROVE StreamOK(c)'
  OBVIOUS
<1> DEFINE n == Len(log)
           wanting == connected[c] /\ Sees(c, current) /\ n > cursor[c]
           all == {d \in Client : connected[d] /\ Sees(d, current) /\ n > cursor[d]}
<1>1. n \in DOMAIN log /\ log[n] = current /\ current # None
  BY PublishedNumber DEF Publish
<1>0. PICK some \in SUBSET all :
        /\ inbox' = [d \in Client |-> IF d \in some THEN Append(inbox[d], n) ELSE inbox[d]]
        /\ cursor' = [d \in Client |-> IF d \in some THEN n ELSE cursor[d]]
        /\ dropped' = [d \in Client |-> IF d \in all \ some THEN dropped[d] \cup {n}
                                                          ELSE dropped[d]]
  BY PublishedTo
<1> DEFINE reached == c \in some
<1>2. /\ reached => wanting
      /\ inbox'[c] = IF reached THEN Append(inbox[c], n) ELSE inbox[c]
      /\ cursor'[c] = IF reached THEN n ELSE cursor[c]
      /\ reached => dropped'[c] = dropped[c]
      /\ wanting /\ ~reached => dropped'[c] = dropped[c] \cup {n}
      /\ dropped[c] \subseteq dropped'[c]
  BY <1>0
<1> HIDE DEF reached, all
<1>3. UNCHANGED <<log, connected, lastId>>
  BY DEF Publish
<1>4. /\ Seen(c)' = Seen(c) /\ n \in Nat /\ DOMAIN log = 1 .. n
      /\ \A i \in Seen(c) : i \in 1 .. n
  BY <1>3 DEF Seen, Sees, IInv, TypeOK
<1>5. /\ StreamOK(c) /\ cursor[c] \in 0 .. n /\ lastId[c] \in Nat
      /\ inbox[c] \in Seq(Nat)
  BY DEF IInv, StreamOK, InStreamOrder, TypeOK
<1>6. CASE reached
  <2>1. n \in Seen(c) /\ connected[c] /\ n > cursor[c] /\ dropped'[c] = dropped[c]
    BY <1>1, <1>2, <1>6 DEF Seen
  <2>2. /\ DOMAIN inbox'[c] = DOMAIN inbox[c] \cup {Len(inbox[c]) + 1}
        /\ DOMAIN inbox[c] = 1 .. Len(inbox[c])
        /\ inbox'[c][Len(inbox[c]) + 1] = n
        /\ \A k \in DOMAIN inbox[c] : inbox'[c][k] = inbox[c][k]
    BY <1>2, <1>5, <1>6
  <2>3. ToSet(inbox'[c]) = ToSet(inbox[c]) \cup {n}
    BY <2>2 DEF ToSet
  <2>4. InStreamOrder(c)'
    <3>1. cursor'[c] = n /\ connected[c] /\ cursor[c] < n
      BY <1>2, <1>5, <1>6, <2>1
    <3>2. \A k \in DOMAIN inbox[c] :
            /\ inbox[c][k] \in Seen(c) /\ inbox[c][k] \in Nat
            /\ lastId[c] < inbox[c][k] /\ inbox[c][k] <= cursor[c]
      BY <1>4, <1>5 DEF StreamOK, InStreamOrder
    <3>3. lastId[c] < n
      BY <1>5, <3>1 DEF StreamOK, InStreamOrder
    <3>4. ASSUME NEW k \in DOMAIN inbox'[c]
          PROVE  /\ inbox'[c][k] \in Seen(c)
                 /\ lastId[c] < inbox'[c][k] /\ inbox'[c][k] <= n
      <4>1. CASE k \in DOMAIN inbox[c]
        <5>1. inbox'[c][k] = inbox[c][k]
          BY <2>2, <4>1
        <5> QED
          BY <1>4, <1>5, <3>1, <3>2, <4>1, <5>1
      <4>2. CASE k = Len(inbox[c]) + 1
        BY <1>4, <2>1, <2>2, <3>3, <4>2
      <4> QED
        BY <2>2, <4>1, <4>2
    <3>5. ASSUME NEW k \in DOMAIN inbox'[c], NEW m \in DOMAIN inbox'[c], k < m
          PROVE  inbox'[c][k] < inbox'[c][m]
      <4>1. k \in DOMAIN inbox[c] /\ inbox'[c][k] = inbox[c][k]
        BY <1>5, <2>2, <3>5
      <4>2. CASE m \in DOMAIN inbox[c]
        <5>1. inbox'[c][m] = inbox[c][m]
          BY <2>2, <4>2
        <5> QED
          BY <1>5, <3>5, <4>1, <4>2, <5>1 DEF StreamOK, InStreamOrder
      <4>3. CASE m = Len(inbox[c]) + 1
        <5>1. inbox'[c][m] = n
          BY <2>2, <4>3
        <5> QED
          BY <1>4, <1>5, <3>1, <3>2, <4>1, <5>1
      <4> QED
        BY <2>2, <4>2, <4>3
    <3> QED
      BY <1>3, <1>4, <1>5, <3>1, <3>3, <3>4, <3>5 DEF StreamOK, InStreamOrder
  <2>5. AtCursor(c)'
    BY <1>2, <1>4, <1>6 DEF AtCursor
  <2>6. NoGap(c)'
    <3> SUFFICES ASSUME NEW i \in Seen(c), NEW m \in Received(c)',
                        0 < m, m < i, i <= n
                 PROVE  i \in ToSet(inbox'[c]) \cup dropped'[c]
      BY <1>2, <1>3, <1>4, <1>6 DEF NoGap
    <3>1. m \in Received(c)
      BY <1>3, <1>4, <2>3 DEF Received
    <3>2. CASE i <= cursor[c]
      <4>1. i \in ToSet(inbox[c]) \cup dropped[c]
        BY <1>5, <2>1, <3>1, <3>2 DEF StreamOK, NoGap
      <4> QED
        BY <2>1, <2>3, <4>1
    <3>3. CASE i > cursor[c]
      <4>1. i = n \/ i \in dropped[c]
        BY <1>5, <2>1, <3>3 DEF StreamOK, AtCursor
      <4> QED
        BY <2>1, <2>3, <4>1
    <3> QED
      BY <1>4, <1>5, <3>2, <3>3
  <2> QED
    BY <2>4, <2>5, <2>6 DEF StreamOK
<1>7. CASE ~reached
  <2>1. inbox'[c] = inbox[c] /\ cursor'[c] = cursor[c]
    BY <1>2, <1>7
  <2>2. Received(c)' = Received(c) /\ connected'[c] = connected[c]
    BY <1>3, <2>1 DEF Received
  <2>3. InStreamOrder(c)'
    BY <1>3, <1>4, <1>5, <2>1 DEF StreamOK, InStreamOrder
  <2>4. NoGap(c)'
    BY <1>2, <1>4, <1>5, <2>1, <2>2 DEF StreamOK, NoGap
  <2>5. ASSUME connected[c], NEW i \in Seen(c), i > cursor[c] PROVE i \in dropped'[c]
    <3>1. CASE i \in dropped[c]
      BY <1>2, <3>1
    <3>2. CASE i = n
      BY <1>1, <1>2, <1>7, <2>5, <3>2 DEF Seen
    <3> QED
      BY <1>5, <2>5, <3>1, <3>2 DEF StreamOK, AtCursor
  <2>6. AtCursor(c)'
    BY <1>4, <2>1, <2>2, <2>5 DEF AtCursor
  <2> QED
    BY <2>3, <2>4, <2>6 DEF StreamOK
<1> QED
  BY <1>6, <1>7

\* A replay: everything later than the first cursor, which is the browser's last
\* event or, without one, the latest.
LEMMA ConnectStreams ==
  ASSUME IInv, NEW c \in Client, Connect(c)
  PROVE  StreamOK(c)'
<1> DEFINE first == FirstCursor(c)
           missed == {i \in Seen(c) : i > first}
           listed == InOrder(missed)
<1>1. /\ UNCHANGED <<log, lastId, current, step>> /\ connected'[c] = TRUE
      /\ inbox'[c] = listed
      /\ cursor'[c] = IF missed = {} THEN first ELSE Latest(c)
  BY DEF Connect, outbox, IInv, TypeOK
<1>2. /\ Seen(c) \in SUBSET Nat /\ IsFiniteSet(Seen(c))
      /\ Latest(c) \in 0 .. Len(log)
      /\ Seen(c) # {} => Latest(c) \in Seen(c)
      /\ \A i \in Seen(c) : i <= Latest(c)
  BY LatestIsGreatest DEF IInv, TypeOK
<1>3. Seen(c)' = Seen(c) /\ lastId[c] \in Nat /\ (lastId[c] = 0 \/ lastId[c] \in Seen(c))
  BY <1>1 DEF Seen, Sees, IInv, StreamOK, InStreamOrder, TypeOK
<1>4. first = IF lastId[c] = 0 THEN Latest(c) ELSE lastId[c]
  BY <1>2, <1>3 DEF FirstCursor
<1>5. first \in Nat /\ lastId[c] <= first /\ first <= Latest(c)
  BY <1>2, <1>3, <1>4
<1>6. missed \in SUBSET Nat /\ IsFiniteSet(missed)
  BY <1>2, FS_Subset
<1> HIDE DEF first, missed, listed
<1>7. /\ ToSet(listed) = missed
      /\ \A k, m \in DOMAIN listed : k < m => listed[k] < listed[m]
  BY <1>6, InOrderLists DEF listed
<1>8. \A i : i \in missed <=> i \in Seen(c) /\ i > first
  BY DEF missed
<1>9. cursor'[c] \in 0 .. Len(log) /\ first <= cursor'[c]
  BY <1>1, <1>2, <1>5
<1>10. \A i \in Seen(c) : i <= cursor'[c]
  BY <1>1, <1>2, <1>5, <1>8
<1>11. \A k \in DOMAIN listed : listed[k] \in missed
  BY <1>7 DEF ToSet
<1>12. InStreamOrder(c)'
  <2>1. \A k \in DOMAIN listed : /\ listed[k] \in Seen(c)
                                 /\ lastId[c] < listed[k] /\ listed[k] <= cursor'[c]
    BY <1>2, <1>3, <1>5, <1>8, <1>10, <1>11
  <2>2. lastId[c] <= cursor'[c]
    BY <1>2, <1>3, <1>5, <1>9
  <2> QED
    BY <1>1, <1>3, <1>7, <1>9, <2>1, <2>2 DEF InStreamOrder
<1>13. AtCursor(c)'
  BY <1>2, <1>3, <1>9, <1>10 DEF AtCursor
<1>14. NoGap(c)'
  <2> SUFFICES ASSUME NEW i \in Seen(c), NEW n \in Received(c)', 0 < n, n < i
               PROVE  i \in missed
    BY <1>1, <1>3, <1>7 DEF NoGap
  <2>1. n = lastId[c] \/ n \in missed
    BY <1>1, <1>7 DEF Received
  <2>2. n \in Nat /\ n >= first
    BY <1>2, <1>3, <1>4, <1>5, <1>8, <2>1
  <2> QED
    BY <1>2, <1>5, <1>8, <2>2
<1> QED
  BY <1>12, <1>13, <1>14 DEF StreamOK

\* The first event of the stream becomes the one handled last.
LEMMA HandleStreams ==
  ASSUME IInv, NEW c \in Client, Handle(c)
  PROVE  StreamOK(c)'
<1> DEFINE rest == Tail(inbox[c])
           first == inbox[c][1]
<1>1. /\ UNCHANGED <<log, connected, cursor, current, step>>
      /\ inbox'[c] = rest /\ lastId'[c] = Head(inbox[c]) /\ inbox[c] # <<>>
      /\ dropped' = dropped
  BY DEF Handle, outbox, IInv, TypeOK
<1>2. /\ StreamOK(c) /\ cursor[c] \in Nat /\ lastId[c] \in Nat
      /\ inbox[c] \in Seq(Nat) /\ connected[c]
  BY <1>1 DEF IInv, TypeOK, StreamOK, InStreamOrder
<1>3. /\ Len(inbox[c]) \in Nat \ {0} /\ Len(rest) = Len(inbox[c]) - 1
      /\ DOMAIN inbox[c] = 1 .. Len(inbox[c])
      /\ DOMAIN rest = 1 .. (Len(inbox[c]) - 1)
      /\ \A k \in DOMAIN rest : k + 1 \in DOMAIN inbox[c] /\ rest[k] = inbox[c][k + 1]
      /\ lastId'[c] = first
  BY <1>1, <1>2
<1> HIDE DEF rest
<1>4. /\ 1 \in DOMAIN inbox[c] /\ first \in Seen(c) /\ first \in Nat
      /\ lastId[c] < first /\ first <= cursor[c]
  BY <1>2, <1>3 DEF StreamOK, InStreamOrder
<1>5. Seen(c)' = Seen(c) /\ \A i \in Seen(c) : i \in Nat
  BY <1>1 DEF Seen, Sees, IInv, TypeOK
<1>6. ASSUME NEW k \in DOMAIN rest
      PROVE  first < rest[k] /\ rest[k] \in Seen(c) /\ rest[k] <= cursor[c]
  <2>1. k + 1 \in DOMAIN inbox[c] /\ 1 < k + 1 /\ rest[k] = inbox[c][k + 1]
    BY <1>3
  <2> QED
    BY <1>2, <1>4, <2>1 DEF StreamOK, InStreamOrder
<1>7. ASSUME NEW k \in DOMAIN rest, NEW m \in DOMAIN rest, k < m
      PROVE  rest[k] < rest[m]
  <2>1. /\ k + 1 \in DOMAIN inbox[c] /\ m + 1 \in DOMAIN inbox[c] /\ k + 1 < m + 1
        /\ rest[k] = inbox[c][k + 1] /\ rest[m] = inbox[c][m + 1]
    BY <1>3, <1>7
  <2> QED
    BY <1>2, <2>1 DEF StreamOK, InStreamOrder
<1>8. InStreamOrder(c)'
  BY <1>1, <1>2, <1>3, <1>4, <1>5, <1>6, <1>7 DEF StreamOK, InStreamOrder
<1>9. ASSUME NEW i \in ToSet(inbox[c]), i # first PROVE i \in ToSet(rest)
  <2>1. PICK k \in DOMAIN inbox[c] : inbox[c][k] = i
    BY DEF ToSet
  <2>2. k - 1 \in DOMAIN rest /\ rest[k - 1] = i
    BY <1>3, <1>9, <2>1
  <2> QED
    BY <2>2 DEF ToSet
<1>10. Received(c)' \subseteq ToSet(inbox[c]) /\ \A n \in Received(c)' : n >= first
  <2>1. ASSUME NEW n \in Received(c)'
        PROVE  n = first \/ \E k \in DOMAIN rest : n = rest[k]
    BY <1>1, <1>3 DEF Received, ToSet
  <2>2. first \in ToSet(inbox[c]) /\ \A k \in DOMAIN rest : rest[k] \in ToSet(inbox[c])
    BY <1>3, <1>4 DEF ToSet
  <2>3. first >= first /\ \A k \in DOMAIN rest : rest[k] >= first
    BY <1>4, <1>5, <1>6
  <2> QED
    BY <2>1, <2>2, <2>3
<1>11. NoGap(c)'
  <2> SUFFICES ASSUME NEW i \in Seen(c), NEW n \in Received(c)',
                      0 < n, n < i, i <= cursor[c]
               PROVE  i \in ToSet(rest) \cup dropped[c]
    BY <1>1, <1>5 DEF NoGap
  <2>1. n \in Received(c) /\ n >= first
    BY <1>10 DEF Received
  <2>2. i \in ToSet(inbox[c]) \cup dropped[c]
    BY <1>2, <2>1 DEF StreamOK, NoGap
  <2>3. n \in Nat /\ i # first
    BY <1>2, <1>4, <1>5, <1>10, <2>1 DEF ToSet
  <2> QED
    BY <1>9, <2>2, <2>3
<1>12. AtCursor(c)'
  BY <1>1, <1>2, <1>5 DEF StreamOK, AtCursor
<1> QED
  BY <1>8, <1>11, <1>12 DEF StreamOK

\* Every step keeps the streams in order and complete.
LEMMA NextStreams == IInv /\ [Next]_vars => \A c \in Client : StreamOK(c)'
<1> SUFFICES ASSUME IInv, [Next]_vars PROVE \A c \in Client : StreamOK(c)'
  OBVIOUS
<1>1. ASSUME NEW f \in Fact, Project(f) PROVE \A c \in Client : StreamOK(c)'
  BY <1>1, ProjectStreams
<1>2. ASSUME NEW f \in Fact, Commit(f) \/ ProjectFails(f) \/ Wake(f) \/ LeaseEnds(f)
      PROVE \A c \in Client : StreamOK(c)'
  BY <1>2, Quiet DEF Commit, ProjectFails, Wake, LeaseEnds, browsers
<1>3. CASE Lease \/ Serve \/ Retry \/ RetryFails \/ Start
  BY <1>3, Quiet DEF Lease, Serve, Retry, RetryFails, Start, browsers
<1>4. CASE Publish
  BY <1>4, PublishStreams
<1>5. CASE Crash
  <2> SUFFICES ASSUME NEW c \in Client PROVE StreamOK(c)'
    OBVIOUS
  <2>1. /\ UNCHANGED <<log, lastId>> /\ Seen(c)' = Seen(c)
        /\ connected'[c] = FALSE /\ cursor'[c] = 0 /\ inbox'[c] = <<>>
    BY <1>5 DEF Crash, Seen, Sees
  <2>2. Len(log) \in Nat /\ (lastId[c] = 0 \/ lastId[c] \in Seen(c))
    BY DEF IInv, TypeOK, StreamOK, InStreamOrder
  <2> QED
    BY <2>1, <2>2 DEF StreamOK, InStreamOrder, AtCursor, NoGap
<1>6. ASSUME NEW d \in Client,
             Connect(d) \/ Disconnect(d) \/ Handle(d) \/ Refetch(d) \/ RefetchFails(d)
      PROVE \A c \in Client : StreamOK(c)'
  <2> SUFFICES ASSUME NEW c \in Client PROVE StreamOK(c)'
    OBVIOUS
  <2>1. /\ StreamOK(c) /\ UNCHANGED <<log, current, step>> /\ Seen(c)' = Seen(c)
    BY <1>6 DEF IInv, Connect, Disconnect, Handle, Refetch, RefetchFails, outbox, Seen, Sees
  <2>2. CASE Refetch(d) \/ RefetchFails(d)
    BY <2>2, Quiet DEF Refetch, RefetchFails, outbox
  <2>3. CASE c # d /\ (Connect(d) \/ Disconnect(d) \/ Handle(d))
    <3>1. /\ connected'[c] = connected[c] /\ cursor'[c] = cursor[c]
          /\ inbox'[c] = inbox[c] /\ lastId'[c] = lastId[c] /\ dropped'[c] = dropped[c]
      BY <2>3 DEF Connect, Disconnect, Handle, IInv, TypeOK
    <3> QED
      BY <2>1, <3>1 DEF StreamOK, InStreamOrder, AtCursor, NoGap, Received
  <2>4. CASE c = d /\ Connect(d)
    BY <2>4, ConnectStreams
  <2>5. CASE c = d /\ Handle(d)
    BY <2>5, HandleStreams
  <2>6. CASE c = d /\ Disconnect(d)
    <3>1. /\ connected'[c] = FALSE /\ cursor'[c] = 0 /\ inbox'[c] = <<>>
          /\ lastId' = lastId /\ Len(log) \in Nat
      BY <2>6 DEF Disconnect, IInv, TypeOK
    <3> QED
      BY <2>1, <3>1 DEF StreamOK, InStreamOrder, AtCursor, NoGap
  <2> QED
    BY <1>6, <2>2, <2>3, <2>4, <2>5, <2>6
<1>7. CASE UNCHANGED vars
  BY <1>7, Quiet DEF vars, outbox, browsers
<1> QED
  BY <1>1, <1>2, <1>3, <1>4, <1>5, <1>6, <1>7 DEF Next

\* Every step keeps the types.
LEMMA NextType == IInv /\ [Next]_vars => TypeOK'
<1> SUFFICES ASSUME IInv, [Next]_vars PROVE TypeOK'
  OBVIOUS
<1> USE FactsAssumption, BoundsAssumption DEF TypeOK, RowState, outbox, browsers
<1>0. TypeOK
  BY DEF IInv
<1>1. ASSUME NEW f \in Fact, Commit(f) PROVE TypeOK'
  BY <1>0, <1>1 DEF Commit
<1>2. ASSUME NEW f \in Fact, Project(f) PROVE TypeOK'
  BY <1>0, <1>2 DEF Project, Projected
<1>3. ASSUME NEW f \in Fact, ProjectFails(f) PROVE TypeOK'
  BY <1>0, <1>3 DEF ProjectFails
<1>4. ASSUME NEW f \in Fact, Wake(f) \/ LeaseEnds(f) PROVE TypeOK'
  <2>1. CASE Wake(f)
    BY <1>0, <2>1 DEF Wake
  <2>2. CASE LeaseEnds(f)
    BY <1>0, <2>2 DEF LeaseEnds
  <2> QED
    BY <1>4, <2>1, <2>2
<1>5. CASE Lease
  <2>1. PICK leased \in SUBSET Leaseable :
               batch' = leased
               /\ row' = [f \in Fact |-> IF f \in leased THEN "leased" ELSE row[f]]
    BY <1>5 DEF Lease
  <2>2. batch' \subseteq Fact /\ row' \in [Fact -> RowState]
    BY <1>0, <2>1 DEF Leaseable
  <2>3. server' \in {"down", "starting", "catching_up", "serving"}
    BY <1>0, <1>5 DEF Lease
  <2> QED
    BY <1>0, <1>5, <2>2, <2>3 DEF Lease
<1>6. CASE Serve \/ Start
  BY <1>0, <1>6 DEF Serve, Start
<1>7. CASE Retry \/ RetryFails
  <2>1. CASE Retry
    BY <1>0, <2>1 DEF Retry
  <2>2. CASE RetryFails
    BY <1>0, <2>2 DEF RetryFails
  <2> QED
    BY <1>7, <2>1, <2>2
<1>8. CASE Crash
  BY <1>0, <1>8 DEF Crash
<1>9. CASE Publish
  <2> DEFINE n == Len(log)
             all == {d \in Client : connected[d] /\ Sees(d, current) /\ n > cursor[d]}
  <2>1. n \in Nat
    BY <1>0
  <2>2. PICK some \in SUBSET all :
          /\ some # all => troubles < MaxTroubles
          /\ troubles' = troubles + (IF some = all THEN 0 ELSE 1)
          /\ inbox' = [c \in Client |-> IF c \in some THEN Append(inbox[c], n) ELSE inbox[c]]
          /\ cursor' = [c \in Client |-> IF c \in some THEN n ELSE cursor[c]]
          /\ dropped' = [c \in Client |-> IF c \in all \ some THEN dropped[c] \cup {n}
                                                            ELSE dropped[c]]
    BY <1>9, PublishedTo
  <2> HIDE DEF n, all
  <2>5. troubles' \in 0 .. MaxTroubles
    BY <1>0, <2>2
  <2>6. dropped' \in [Client -> SUBSET Nat]
    BY <1>0, <2>1, <2>2
  <2>3. \A c \in Client : Append(inbox[c], n) \in Seq(Nat)
    BY <1>0, <2>1
  <2>4. inbox' \in [Client -> Seq(Nat)] /\ cursor' \in [Client -> Nat]
    BY <1>0, <2>1, <2>2, <2>3
  <2> QED
    BY <1>0, <1>9, <2>4, <2>5, <2>6 DEF Publish
<1>10. ASSUME NEW c \in Client, Connect(c) PROVE TypeOK'
  <2>1. /\ Seen(c) \in SUBSET Nat /\ IsFiniteSet(Seen(c)) /\ Latest(c) \in Nat
    BY <1>0, LatestIsGreatest
  <2>2. FirstCursor(c) \in Nat
    BY <1>0, <2>1 DEF FirstCursor
  <2> DEFINE missed == {i \in Seen(c) : i > FirstCursor(c)}
  <2>3. missed \in SUBSET Nat /\ IsFiniteSet(missed)
    BY <2>1, FS_Subset
  <2>4. InOrder(missed) \in Seq(Nat)
    BY <2>3, InOrderLists
  <2>5. inbox' \in [Client -> Seq(Nat)] /\ cursor' \in [Client -> Nat]
    BY <1>0, <1>10, <2>1, <2>2, <2>4 DEF Connect
  <2> QED
    BY <1>0, <1>10, <2>5 DEF Connect
<1>11. ASSUME NEW c \in Client, Disconnect(c) PROVE TypeOK'
  BY <1>0, <1>11 DEF Disconnect
<1>12. ASSUME NEW c \in Client, Handle(c) PROVE TypeOK'
  <2>1. Head(inbox[c]) \in Nat /\ Tail(inbox[c]) \in Seq(Nat)
    BY <1>0, <1>12 DEF Handle
  <2> QED
    BY <1>0, <1>12, <2>1 DEF Handle, Invalidated
<1>13. ASSUME NEW c \in Client, Refetch(c) \/ RefetchFails(c) PROVE TypeOK'
  <2>1. CASE Refetch(c)
    <3>1. {f \in Committed : Sees(c, f)} \in SUBSET Fact
      BY DEF Committed
    <3>2. view' \in [Client -> SUBSET Fact]
      BY <1>0, <2>1, <3>1 DEF Refetch
    <3>3. queries' \in [Client -> {"fresh", "stale", "failed"}]
      BY <1>0, <2>1 DEF Refetch
    <3> QED
      BY <1>0, <2>1, <3>2, <3>3 DEF Refetch
  <2>2. CASE RefetchFails(c)
    BY <1>0, <2>2 DEF RefetchFails
  <2> QED
    BY <1>13, <2>1, <2>2
<1>14. CASE UNCHANGED vars
  BY <1>0, <1>14 DEF vars
<1> QED
  BY <1>1, <1>2, <1>3, <1>4, <1>5, <1>6, <1>7, <1>8, <1>9, <1>10, <1>11, <1>12, <1>13,
     <1>14 DEF Next

\* The order and completeness of the streams is an inductive invariant.
THEOREM Invariance == Spec => []IInv
<1>1. IInv /\ [Next]_vars => IInv'
  BY NextHeld, NextLog, NextStreams, NextType DEF IInv
<1> QED
  BY InitInv, <1>1, PTL DEF Spec

\* The variables keep their types.
THEOREM TypeCorrect == Spec => []TypeOK
<1>1. IInv => TypeOK
  BY DEF IInv
<1> QED
  BY Invariance, <1>1, PTL

\* A stream that resumed from an event loses none but to a read that threw.
THEOREM StreamsLoseNothing == Spec => []NothingSkipped
<1>1. IInv => NothingSkipped
  <2> SUFFICES ASSUME IInv, NEW c \in Client, connected[c], lastId[c] > 0,
                      NEW i \in Seen(c), i > lastId[c]
               PROVE  \/ i \in ToSet(inbox[c]) \cup dropped[c]
                      \/ log[i] = current /\ step = "publish"
    BY DEF NothingSkipped
  <2>1. StreamOK(c) /\ cursor[c] \in Nat /\ i \in Nat /\ lastId[c] \in Nat
    BY DEF IInv, TypeOK, Seen
  <2>2. lastId[c] \in Received(c)
    BY DEF Received
  <2>3. CASE i > cursor[c]
    BY <2>1, <2>3 DEF StreamOK, AtCursor
  <2>4. CASE i <= cursor[c]
    BY <2>1, <2>2, <2>4 DEF StreamOK, NoGap
  <2> QED
    BY <2>1, <2>3, <2>4
<1> QED
  BY Invariance, <1>1, PTL

\* A browser never goes back and is sent no event twice.
THEOREM StreamsRepeatNothing == Spec => []NoEventTwice
<1>1. IInv => NoEventTwice
  <2> SUFFICES ASSUME IInv, NEW c \in Client,
                      NEW i \in 0 .. Len(inbox[c]), NEW j \in 0 .. Len(inbox[c]), i < j
               PROVE  (IF i = 0 THEN lastId[c] ELSE inbox[c][i]) < inbox[c][j]
    BY DEF NoEventTwice, IInv, TypeOK
  <2>1. StreamOK(c) /\ DOMAIN inbox[c] = 1 .. Len(inbox[c]) /\ Len(inbox[c]) \in Nat
    BY DEF IInv, TypeOK
  <2> QED
    BY <2>1 DEF StreamOK, InStreamOrder
<1> QED
  BY Invariance, <1>1, PTL
=============================================================================
