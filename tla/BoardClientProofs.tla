------------------------- MODULE BoardClientProofs -------------------------
(***************************************************************************)
(* Theorems about the board in the browser, for any number of tasks,       *)
(* columns, lists under way and changes of other people.                   *)
(***************************************************************************)
EXTENDS BoardClient, FiniteSetTheorems, SequenceTheorems, TLAPS

-----------------------------------------------------------------------------
(* Lists, layouts and positions.                                           *)

Cards(r, c) == {t \in DOMAIN r : r[t].column = c}

LEMMA CardFacts ==
  ASSUME NEW r, IsRows(r), NEW c
  PROVE  /\ IsFiniteSet(Cards(r, c))
         /\ \A t \in DOMAIN r : t \in Task /\ t \in Nat /\ r[t] \in Row
         /\ \A t \in Cards(r, c) : t \in Nat /\ r[t].position \in Nat
<1>1. \A t \in DOMAIN r : t \in Task /\ t \in Nat /\ r[t] \in Row
  BY TasksAssumption DEF IsRows
<1>2. Cards(r, c) \in SUBSET Task
  BY <1>1 DEF Cards
<1>3. IsFiniteSet(Cards(r, c))
  BY <1>2, TasksAssumption, FS_Subset
<1>4. \A t \in Cards(r, c) : t \in Nat /\ r[t].position \in Nat
  BY <1>1 DEF Cards, Row
<1> QED
  BY <1>1, <1>3, <1>4

\* The cards of a column are listed without a gap: each place has the card with
\* as many before it.
LEMMA OrderedLists ==
  ASSUME NEW r, IsRows(r), NEW c
  PROVE  Ordered(r, c) \in Seq(Cards(r, c))
<1> DEFINE S == Cards(r, c)
           n == Cardinality(S)
           Lower(t) == {u \in S : Before(r, u, t)}
           rank == [t \in S |-> Cardinality(Lower(t)) + 1]
           listed == Ordered(r, c)
<1>0. IsFiniteSet(S) /\ n \in Nat /\ \A t \in S : t \in Nat /\ r[t].position \in Nat
  BY CardFacts, FS_CardinalityType
<1>1. ASSUME NEW t \in S PROVE ~Before(r, t, t)
  BY <1>0 DEF Before
<1>2. ASSUME NEW t \in S, NEW u \in S, NEW v \in S, Before(r, t, u), Before(r, u, v)
      PROVE  Before(r, t, v)
  BY <1>0, <1>2 DEF Before
<1>3. ASSUME NEW t \in S, NEW u \in S, t # u PROVE Before(r, t, u) \/ Before(r, u, t)
  BY <1>0, <1>3 DEF Before
<1> HIDE DEF S
<1>4. ASSUME NEW t \in S PROVE IsFiniteSet(Lower(t)) /\ rank[t] \in 1 .. n /\ Cardinality(Lower(t)) \in Nat
  <2>1. Lower(t) \in SUBSET S /\ t \notin Lower(t)
    BY <1>1
  <2>2. IsFiniteSet(Lower(t)) /\ Cardinality(Lower(t)) <= n /\ Lower(t) # S
    BY <1>0, <2>1, FS_Subset
  <2>3. Cardinality(Lower(t)) # n
    BY <1>0, <2>1, <2>2, FS_Subset
  <2>4. Cardinality(Lower(t)) \in Nat
    BY <2>2, FS_CardinalityType
  <2> QED
    BY <1>0, <2>2, <2>3, <2>4
<1>5. ASSUME NEW t \in S, NEW u \in S, Before(r, t, u) PROVE rank[t] < rank[u]
  <2>1. Lower(t) \in SUBSET Lower(u) /\ t \in Lower(u) /\ t \notin Lower(t)
    BY <1>1, <1>2, <1>5
  <2>2. Cardinality(Lower(t)) <= Cardinality(Lower(u)) /\ Lower(t) # Lower(u)
    BY <1>4, <2>1, FS_Subset
  <2>3. Cardinality(Lower(t)) # Cardinality(Lower(u))
    BY <1>4, <2>1, <2>2, FS_Subset
  <2> QED
    BY <1>4, <2>2, <2>3
<1>6. rank \in Injection(S, 1 .. n)
  <2>1. rank \in [S -> 1 .. n]
    BY <1>4
  <2>2. ASSUME NEW t \in S, NEW u \in S, rank[t] = rank[u] PROVE t = u
    <3>1. rank[t] \in 1 .. n /\ rank[u] \in 1 .. n
      BY <1>4
    <3>2. ~(rank[t] < rank[u]) /\ ~(rank[u] < rank[t])
      BY <1>0, <2>2, <3>1
    <3>3. ~Before(r, t, u) /\ ~Before(r, u, t)
      BY <1>5, <3>2
    <3> QED
      BY <1>3, <3>3
  <2> HIDE DEF rank
  <2> QED
    BY <2>1, <2>2 DEF Injection, IsInjective
<1>7. rank \in Surjection(S, 1 .. n)
  <2>1. IsFiniteSet(1 .. n) /\ Cardinality(1 .. n) = n
    BY <1>0, FS_Interval
  <2> HIDE DEF rank
  <2> QED
    BY <1>0, <1>6, <2>1, FS_Injection
<1>8. ASSUME NEW k \in 1 .. n PROVE listed[k] \in S
  <2>1. \E t \in S : rank[t] = k
    <3> HIDE DEF rank
    <3> QED
      BY <1>7 DEF Surjection
  <2>2. \E t \in S : Cardinality({u \in S : Before(r, u, t)}) = k - 1
    <3>1. PICK t \in S : rank[t] = k
      BY <2>1
    <3>2. rank[t] = Cardinality(Lower(t)) + 1 /\ Cardinality(Lower(t)) \in Nat
      BY <1>4
    <3>3. Cardinality(Lower(t)) = k - 1
      <4> HIDE DEF rank, Lower
      <4> QED
        BY <3>1, <3>2
    <3> QED
      BY <3>3
  <2>3. listed[k] = CHOOSE t \in S : Cardinality({u \in S : Before(r, u, t)}) = k - 1
    BY DEF Ordered, Cards, S
  <2> QED
    BY <2>2, <2>3
<1> DEFINE place(k) == CHOOSE t \in S : Cardinality({u \in S : Before(r, u, t)}) = k - 1
<1>9. listed = [k \in 1 .. n |-> listed[k]]
  <2>1. listed = [k \in 1 .. n |-> place(k)]
    BY DEF Ordered, Cards, S
  <2> HIDE DEF place, listed
  <2> QED
    BY <2>1
<1> HIDE DEF listed
<1>10. listed \in [1 .. n -> S]
  BY <1>8, <1>9
<1> QED
  BY <1>0, <1>10 DEF listed, S

LEMMA LayoutTyped ==
  ASSUME NEW r, IsRows(r)
  PROVE  CreateTaskLayout(r) \in Layouts
<1>1. ASSUME NEW c \in Column PROVE Ordered(r, c) \in Seq(Task)
  <2>1. Cards(r, c) \in SUBSET Task
    BY CardFacts DEF Cards
  <2>2. Ordered(r, c) \in Seq(Cards(r, c))
    BY OrderedLists
  <2> QED
    BY <2>1, <2>2
<1> QED
  BY <1>1 DEF CreateTaskLayout, Layouts

LEMMA InsertedAt ==
  ASSUME NEW S, NEW s \in Seq(S), NEW e \in S, NEW i \in 1 .. (Len(s) + 1)
  PROVE  /\ InsertAt(s, i, e) \in Seq(S)
         /\ i \in DOMAIN InsertAt(s, i, e) /\ InsertAt(s, i, e)[i] = e
<1> DEFINE head == SubSeq(s, 1, i - 1)
           tail == SubSeq(s, i, Len(s))
<1>1. Len(s) \in Nat /\ i \in Int /\ \A j \in 1 .. Len(s) : s[j] \in S
  BY ElementOfSeq
<1>2. head \in Seq(S) /\ Len(head) = i - 1
  <2>1. \A j \in 1 .. (i - 1) : s[j] \in S
    BY <1>1
  <2>2. 1 \in Int /\ i - 1 \in Int /\ (i - 1) - 1 + 1 = i - 1
    BY <1>1
  <2>3. head \in Seq(S) /\ Len(head) = IF 1 <= i - 1 THEN (i - 1) - 1 + 1 ELSE 0
    BY <2>1, <2>2, SubSeqProperties
  <2> QED
    BY <1>1, <2>3
<1>3. tail \in Seq(S)
  <2>1. \A j \in i .. Len(s) : s[j] \in S
    BY <1>1
  <2> QED
    BY <1>1, <2>1, SubSeqProperties
<1>4. <<e>> \in Seq(S) /\ Len(<<e>>) = 1 /\ <<e>>[1] = e
  OBVIOUS
<1> HIDE DEF head, tail
<1>5. /\ head \o <<e>> \in Seq(S) /\ Len(head \o <<e>>) = i
      /\ (head \o <<e>>)[i] = e
  <2>1. /\ head \o <<e>> \in Seq(S) /\ Len(head \o <<e>>) = Len(head) + Len(<<e>>)
        /\ \A j \in 1 .. Len(head) + Len(<<e>>) :
             (head \o <<e>>)[j] = IF j <= Len(head) THEN head[j] ELSE <<e>>[j - Len(head)]
    BY <1>2, <1>4, ConcatProperties
  <2>2. i \in 1 .. Len(head) + Len(<<e>>) /\ ~(i <= Len(head)) /\ i - Len(head) = 1
    BY <1>1, <1>2, <1>4
  <2> QED
    <3>1. Len(head \o <<e>>) = i
      BY <1>1, <1>2, <1>4, <2>1
    <3>2. (head \o <<e>>)[i] = <<e>>[i - Len(head)]
      BY <2>1, <2>2
    <3>3. (head \o <<e>>)[i] = e
      BY <1>4, <2>2, <3>2
    <3> QED
      BY <2>1, <3>1, <3>3
<1> DEFINE front == head \o <<e>>
<1> HIDE DEF front
<1>6. /\ front \o tail \in Seq(S) /\ Len(front \o tail) = Len(front) + Len(tail)
      /\ \A j \in 1 .. Len(front) + Len(tail) :
             (front \o tail)[j] = IF j <= Len(front) THEN front[j] ELSE tail[j - Len(front)]
  BY <1>3, <1>5, ConcatProperties DEF front
<1>7. Len(tail) \in Nat /\ i \in 1 .. Len(front) + Len(tail) /\ i <= Len(front)
  BY <1>1, <1>3, <1>5 DEF front
<1>8. InsertAt(s, i, e) = front \o tail
  BY DEF InsertAt, front, head, tail
<1> QED
  BY <1>5, <1>6, <1>7, <1>8 DEF front

LEMMA WithoutKeeps ==
  ASSUME NEW S, NEW s \in Seq(S), NEW t
  PROVE  Without(s, t) \in Seq(S)
<1>1. Len(s) \in Nat /\ \A j \in 1 .. Len(s) : s[j] \in S
  BY ElementOfSeq
<1>2. CASE t \notin Range(s)
  BY <1>2 DEF Without
<1>3. CASE t \in Range(s)
  <2> DEFINE i == CHOOSE j \in DOMAIN s : s[j] = t
  <2>1. i \in 1 .. Len(s)
    BY <1>3 DEF Range
  <2> HIDE DEF i
  <2>2. SubSeq(s, 1, i - 1) \in Seq(S)
    <3>1. i - 1 \in Int /\ \A j \in 1 .. (i - 1) : s[j] \in S
      BY <1>1, <2>1
    <3> QED
      BY <3>1, SubSeqProperties
  <2>3. SubSeq(s, i + 1, Len(s)) \in Seq(S)
    <3>1. i + 1 \in Int /\ Len(s) \in Int /\ \A j \in (i + 1) .. Len(s) : s[j] \in S
      BY <1>1, <2>1
    <3> QED
      BY <3>1, SubSeqProperties
  <2>4. Without(s, t) = SubSeq(s, 1, i - 1) \o SubSeq(s, i + 1, Len(s))
    BY <1>3 DEF Without, RemoveAt, i
  <2> QED
    BY <2>2, <2>3, <2>4, ConcatProperties
<1> QED
  BY <1>2, <1>3

\* The list of the target column, with the card in it.
LEMMA InsertedLists ==
  ASSUME NEW r, IsRows(r), NEW t \in DOMAIN r, NEW c, NEW anchor
  PROVE  /\ Inserted(r, t, c, anchor) \in Seq({u \in DOMAIN r : u = t \/ r[u].column = c})
         /\ t \in Range(Inserted(r, t, c, anchor))
<1> DEFINE S == {u \in DOMAIN r : u = t \/ r[u].column = c}
           left == Restrict(r, DOMAIN r \ {t})
           others == Ordered(left, c)
           index == IF anchor = None THEN Len(others) + 1
                    ELSE IF anchor \in Range(others)
                           THEN CHOOSE i \in DOMAIN others : others[i] = anchor
                           ELSE 1
<1>1. IsRows(left) /\ Cards(left, c) \in SUBSET S
  BY DEF IsRows, Restrict, Cards
<1>2. others \in Seq(Cards(left, c))
  <2> HIDE DEF left
  <2> QED
    BY <1>1, OrderedLists
<1> HIDE DEF left
<1>3. others \in Seq(S) /\ Len(others) \in Nat /\ DOMAIN others = 1 .. Len(others)
  BY <1>1, <1>2
<1> HIDE DEF others
<1>4. index \in 1 .. (Len(others) + 1)
  <2>1. CASE anchor = None
    BY <1>3, <2>1
  <2>2. CASE anchor # None /\ anchor \in Range(others)
    <3>1. index \in DOMAIN others
      BY <2>2 DEF Range
    <3> QED
      BY <1>3, <3>1
  <2>3. CASE anchor # None /\ anchor \notin Range(others)
    BY <1>3, <2>3
  <2> QED
    BY <2>1, <2>2, <2>3
<1>5. t \in S
  OBVIOUS
<1>6. Inserted(r, t, c, anchor) = InsertAt(others, index, t)
  BY DEF Inserted, others, left
<1> HIDE DEF index, S
<1>7. InsertAt(others, index, t) \in Seq(S) /\ t \in Range(InsertAt(others, index, t))
  BY <1>3, <1>4, <1>5, InsertedAt DEF Range
<1> QED
  BY <1>6, <1>7 DEF S

\* An optimistic move takes one card to its column and changes places of others.
LEMMA OptimisticRows ==
  ASSUME NEW r, IsRows(r), NEW t \in DOMAIN r, NEW c \in Column, NEW anchor,
         NEW placed, placed = OptimisticallyMove(r, t, c, anchor)
  PROVE  /\ IsRows(placed) /\ DOMAIN placed = DOMAIN r
         /\ placed[t].column = c
         /\ \A u \in DOMAIN r : /\ placed[u].revision = r[u].revision
                                /\ u # t => placed[u].column = r[u].column
<1> DEFINE order == Inserted(r, t, c, anchor)
           place(u) == CHOOSE i \in DOMAIN order : order[i] = u
<1>1. order \in Seq({u \in DOMAIN r : u = t \/ r[u].column = c}) /\ t \in Range(order)
  BY InsertedLists
<1>2. placed = [u \in DOMAIN r |->
                  IF u \in Range(order)
                    THEN [r[u] EXCEPT !.column = c, !.position = place(u) - 1]
                    ELSE r[u]]
  BY DEF OptimisticallyMove
<1> HIDE DEF order
<1>3. ASSUME NEW u \in Range(order)
      PROVE  u \in DOMAIN r /\ (u = t \/ r[u].column = c) /\ place(u) - 1 \in Nat
  <2>1. Len(order) \in Nat /\ DOMAIN order = 1 .. Len(order)
    BY <1>1
  <2>2. PICK i \in DOMAIN order : order[i] = u
    BY DEF Range
  <2>3. place(u) \in DOMAIN order
    BY <2>2
  <2>4. u \in {v \in DOMAIN r : v = t \/ r[v].column = c}
    BY <1>1, <2>1, <2>2, ElementOfSeq
  <2> HIDE DEF place
  <2> QED
    BY <2>1, <2>3, <2>4
<1> HIDE DEF place
<1>4. ASSUME NEW u \in DOMAIN r
      PROVE  /\ placed[u] \in Row /\ placed[u].revision = r[u].revision
             /\ u \in Range(order) => placed[u].column = c
             /\ u \notin Range(order) => placed[u] = r[u]
  <2>1. r[u] \in Row
    BY DEF IsRows
  <2>2. CASE u \in Range(order)
    <3>1. placed[u] = [r[u] EXCEPT !.column = c, !.position = place(u) - 1]
      BY <1>2, <2>2
    <3> QED
      BY <1>3, <2>1, <2>2, <3>1 DEF Row
  <2>3. CASE u \notin Range(order)
    BY <1>2, <2>1, <2>3
  <2> QED
    BY <2>2, <2>3
<1>5. DOMAIN placed = DOMAIN r /\ placed = [u \in DOMAIN r |-> placed[u]]
  BY <1>2
<1>6. IsRows(placed)
  BY <1>4, <1>5 DEF IsRows
<1> QED
  BY <1>1, <1>3, <1>4, <1>5, <1>6

\* What the server does with a move: the card is in its column, and in another
\* one than before only with another revision.
LEMMA MovedRows ==
  ASSUME IsRows(rows), NEW t \in DOMAIN rows, NEW c \in Column, NEW anchor,
         NEW moved, moved = Moved(t, c, anchor)
  PROVE  /\ IsRows(moved) /\ DOMAIN moved = DOMAIN rows
         /\ \A u \in DOMAIN rows :
              /\ rows[u].revision \in Nat /\ rows[u].revision <= moved[u].revision
              /\ moved[u].revision \in Nat
              /\ moved[u].revision = rows[u].revision => moved[u] = rows[u]
         /\ moved[t].column = c
<1>0. PICK placed : placed = OptimisticallyMove(rows, t, c, anchor)
  OBVIOUS
<1>1. /\ IsRows(placed) /\ DOMAIN placed = DOMAIN rows /\ placed[t].column = c
      /\ \A u \in DOMAIN rows : /\ placed[u].revision = rows[u].revision
                                /\ u # t => placed[u].column = rows[u].column
  BY <1>0, OptimisticRows
<1>2. moved = [u \in DOMAIN rows |-> IF placed[u] = rows[u] THEN rows[u]
                                     ELSE [placed[u] EXCEPT !.revision = @ + 1]]
  BY <1>0 DEF Moved
<1>3. ASSUME NEW u \in DOMAIN rows
      PROVE  /\ moved[u] \in Row
             /\ rows[u].revision \in Nat /\ rows[u].revision <= moved[u].revision
             /\ moved[u].revision \in Nat
             /\ moved[u].revision = rows[u].revision => moved[u] = rows[u]
             /\ moved[u].column = placed[u].column
  <2>0. IsRows(placed) /\ u \in DOMAIN placed
    BY <1>1
  <2>1. rows[u] \in Row /\ placed[u] \in Row /\ placed[u].revision = rows[u].revision
    <3>1. rows[u] \in Row
      BY DEF IsRows
    <3>2. placed[u] \in Row
      BY <2>0 DEF IsRows
    <3> QED
      BY <1>1, <3>1, <3>2
  <2>2. rows[u].revision \in Nat
    BY <2>1 DEF Row
  <2>3. CASE placed[u] = rows[u]
    BY <1>2, <2>1, <2>2, <2>3
  <2>4. CASE placed[u] # rows[u]
    <3>1. moved[u] = [placed[u] EXCEPT !.revision = rows[u].revision + 1]
      BY <1>2, <2>1, <2>4
    <3>2. moved[u] \in Row /\ moved[u].revision = rows[u].revision + 1
          /\ moved[u].column = placed[u].column
      BY <2>1, <2>2, <3>1 DEF Row
    <3> QED
      BY <2>2, <3>2
  <2> QED
    BY <2>3, <2>4
<1>4. DOMAIN moved = DOMAIN rows /\ moved = [u \in DOMAIN rows |-> moved[u]]
  BY <1>2
<1>5. IsRows(moved)
  BY <1>3, <1>4 DEF IsRows
<1> QED
  BY <1>1, <1>3, <1>4, <1>5

\* A nonempty finite set of naturals has a greatest element: a minimal
\* counterexample would stay one without one of its elements.
LEMMA GreatestOf ==
  ASSUME NEW S \in SUBSET Nat, IsFiniteSet(S), S # {}
  PROVE  \E m \in S : \A x \in S : x =< m
<1> DEFINE HasGreatest(T) == \E m \in T : \A x \in T : x =< m
           Bad == {T \in FiniteSubsetsOf(S) : T # {} /\ ~HasGreatest(T)}
<1>1. S \in FiniteSubsetsOf(S)
  BY DEF FiniteSubsetsOf
<1>2. SUFFICES ASSUME Bad # {} PROVE FALSE
  BY <1>1
<1>3. PICK T \in Bad : \A U \in Bad : <<U, T>> \notin StrictSubsetOrdering(S)
  <2>1. Bad \subseteq FiniteSubsetsOf(S)
    OBVIOUS
  <2>2. IsWellFoundedOn(StrictSubsetOrdering(S), FiniteSubsetsOf(S))
    BY FS_StrictSubsetOrderingWellFounded
  <2> HIDE DEF Bad
  <2> QED BY <1>2, <2>1, <2>2, WFMin
<1>4. T \in SUBSET S /\ IsFiniteSet(T) /\ T # {} /\ ~HasGreatest(T)
  BY DEF FiniteSubsetsOf
<1>5. PICK a \in T : TRUE
  BY <1>4
<1> DEFINE U == T \ {a}
<1>6. U \in SUBSET S /\ IsFiniteSet(U)
  BY <1>4, FS_RemoveElement
<1>7. U # {}
  BY <1>4, <1>5
<1>8. <<U, T>> \in StrictSubsetOrdering(S)
  BY <1>4, <1>5, <1>6 DEF StrictSubsetOrdering
<1>9. U \notin Bad
  BY <1>3, <1>8
<1>10. PICK m \in U : \A x \in U : x =< m
  BY <1>6, <1>7, <1>9 DEF FiniteSubsetsOf
<1>11. a \in Nat /\ m \in Nat /\ T \subseteq Nat
  BY <1>4, <1>5
<1>12. CASE a =< m
  BY <1>4, <1>10, <1>11, <1>12
<1>13. CASE m =< a
  BY <1>4, <1>10, <1>11, <1>13
<1> QED BY <1>11, <1>12, <1>13

LEMMA NextPositionTyped ==
  ASSUME IsRows(rows), NEW c
  PROVE  NextPosition(c) \in Nat
<1> DEFINE S == Cards(rows, c)
           position == [t \in S |-> rows[t].position]
           taken == {rows[t].position : t \in S}
<1>1. IsFiniteSet(S) /\ \A t \in S : rows[t].position \in Nat
  BY CardFacts
<1>2. NextPosition(c) = IF taken = {} THEN 0 ELSE Max(taken) + 1
  BY DEF NextPosition, Cards
<1> HIDE DEF S
<1>3. taken \in SUBSET Nat /\ IsFiniteSet(taken)
  <2>1. position \in Surjection(S, taken)
    BY DEF Surjection
  <2>2. taken \in SUBSET Nat
    BY <1>1
  <2> HIDE DEF position, taken
  <2> QED
    BY <1>1, <2>1, <2>2, FS_Surjection
<1> HIDE DEF taken
<1>4. CASE taken = {}
  BY <1>2, <1>4
<1>5. CASE taken # {}
  <2>1. \E m \in taken : \A x \in taken : x <= m
    BY <1>3, <1>5, GreatestOf
  <2>2. \E m \in taken : \A x \in taken : m >= x
    BY <1>3, <2>1
  <2>3. Max(taken) \in taken
    BY <2>2 DEF Max
  <2> QED
    <3>1. NextPosition(c) = Max(taken) + 1
      BY <1>2, <1>5
    <3>2. Max(taken) \in Nat
      BY <1>3, <2>3
    <3> QED
      BY <3>1, <3>2
<1> QED
  BY <1>4, <1>5

\* Dragging keeps the layout's shape and the card in it.
LEMMA OverLayout ==
  ASSUME layout \in Layouts, NEW t \in Task, NEW c \in Column,
         NEW i \in 1 .. (Len(Without(layout[c], t)) + 1)
  PROVE  Over(t, c, i) \in Layouts /\ t \in Range(Over(t, c, i)[c])
<1>1. ASSUME NEW d \in Column PROVE Without(layout[d], t) \in Seq(Task)
  BY WithoutKeeps DEF Layouts
<1>2. /\ InsertAt(Without(layout[c], t), i, t) \in Seq(Task)
      /\ t \in Range(InsertAt(Without(layout[c], t), i, t))
  BY <1>1, InsertedAt DEF Range
<1> QED
  BY <1>1, <1>2 DEF Over, Layouts

-----------------------------------------------------------------------------
(* The inductive invariant.                                                *)

\* Only a move that has been answered awaits the load of its own.
OwnAwaited == load[Own].state # "free" => mover.state = "loading"

\* The request of a dialog, and what its answer brings.
InFlight ==
  /\ dialog.state # "none" => dialog.task \in Task /\ dialog.version \in 1 .. version
  /\ dialog.state \in {"created", "saving"} => dialog.row \in Row
  /\ dialog.state = "saving" /\ dialog.version = version =>
       dialog.task \in DOMAIN rows /\ dialog.row = rows[dialog.task]
  /\ dialog.state = "deleted" => dialog.task \in used \ DOMAIN rows
  /\ DOMAIN rows \subseteq used

\* Something is on its way that brings the latest list, or says that it failed.
Ahead ==
  \/ unheard > 0 \/ loadError
  \/ \E s \in Loads : load[s].state = "asked"
  \/ \E s \in Loads : load[s].state = "answered" /\ load[s].version = version

\* An answer that has the latest version has the latest rows.
LoadsTrue == \A s \in Loads : load[s].state = "answered" =>
  /\ load[s].version <= version
  /\ load[s].version = version => load[s].rows = rows

\* With nothing ahead the board has been given the latest version, and shows it
\* unless a move is under way or an older answer came after it.
UpToDate ==
  \/ Ahead
  \/ /\ newest = version
     /\ mover.state # "none" \/ overtaken \/ tasks = rows

\* What is drawn, and what a drag puts back, is the list the board holds.
Drawn == ~frozen =>
  /\ seen = tasks
  /\ drag.task = None => layout = CreateTaskLayout(seen)
  /\ drag.task # None => drag.from = CreateTaskLayout(seen) /\ drag.task \in DOMAIN tasks

\* The card in the air is drawn in a column.
InAir == drag.task # None => \E d \in Column : drag.task \in Range(layout[d])

\* A row as it is or was: with the revision of today it is in today's column.
Earlier(row, truth) ==
  /\ row.revision <= truth.revision
  /\ row.revision = truth.revision => row.column = truth.column

EarlierRows(r, truth, ids) ==
  DOMAIN r \subseteq ids /\ \A t \in DOMAIN r \cap DOMAIN truth : Earlier(r[t], truth[t])

\* The card of a move, as the board shows it before the server has answered.
Placed(t) ==
  /\ mover.state \in {"sent", "refused"} /\ t = mover.task
  /\ tasks[t].column = mover.to /\ tasks[t].revision = mover.expected

ListEarlier ==
  /\ DOMAIN tasks \subseteq used
  /\ \A t \in DOMAIN tasks \cap DOMAIN rows : Earlier(tasks[t], rows[t]) \/ Placed(t)

LoadsEarlier == \A s \in Loads : EarlierRows(load[s].rows, rows, used)

CreatedEarlier ==
  dialog.state \in {"created", "saving"} =>
    /\ dialog.task \in used
    /\ dialog.task \in DOMAIN rows => Earlier(dialog.row, rows[dialog.task])

\* A move remembers the list of its drop, of which it has the revision.
MoveRemembers ==
  /\ mover.state # "none" => EarlierRows(mover.rollback, rows, used)
  /\ mover.state = "sent" =>
       /\ mover.task \in DOMAIN mover.rollback
       /\ mover.expected = mover.rollback[mover.task].revision
       /\ ~mover.frozen => mover.seen = mover.rollback

Trust == ListEarlier /\ LoadsEarlier /\ CreatedEarlier /\ MoveRemembers

IInv == TypeOK /\ OwnAwaited /\ InFlight /\ LoadsTrue /\ UpToDate /\ Drawn /\ InAir /\ Trust

USE DEF vars, server, board, history

-----------------------------------------------------------------------------
(* What the pieces of an action do.                                        *)

LoadTyped == load = [s \in Loads |-> load[s]] /\ \A s \in Loads : IsLoad(load[s])

LEMMA RowsFacts ==
  /\ IsRows(NoRows)
  /\ \A r, D : IsRows(r) => IsRows(Restrict(r, DOMAIN r \ D))
<1>1. IsRows(NoRows)
  BY DEF NoRows, IsRows
<1>2. ASSUME NEW r, NEW D, IsRows(r) PROVE IsRows(Restrict(r, DOMAIN r \ D))
  BY <1>2 DEF IsRows, Restrict
<1> QED
  BY <1>1, <1>2

LEMMA AddedRow ==
  ASSUME NEW r, IsRows(r), NEW t \in Task, NEW row \in Row, NEW more,
         more = WithRow(r, t, row)
  PROVE  /\ IsRows(more) /\ DOMAIN more = DOMAIN r \cup {t} /\ more[t] = row
         /\ \A u \in DOMAIN r : u # t => more[u] = r[u]
<1>1. DOMAIN r \subseteq Task /\ \A u \in DOMAIN r : r[u] \in Row
  BY DEF IsRows
<1>2. more = [u \in DOMAIN r \cup {t} |-> IF u = t THEN row ELSE r[u]]
  BY DEF WithRow
<1> QED
  BY <1>1, <1>2 DEF IsRows

LEMMA LoadSet ==
  ASSUME LoadTyped, NEW s \in Loads, NEW l, IsLoad(l), load' = [load EXCEPT ![s] = l]
  PROVE  /\ LoadTyped' /\ load'[s] = l
         /\ \A q \in Loads : q # s => load'[q] = load[q]
<1>1. load' = [q \in Loads |-> IF q = s THEN l ELSE load[q]]
  BY DEF LoadTyped
<1> QED
  BY <1>1 DEF LoadTyped

LEMMA AskDoes ==
  ASSUME TypeOK, NEW s \in Loads, Ask(s)
  PROVE  /\ LoadTyped' /\ loadError' = FALSE
         /\ load'[s].state = "asked" /\ load'[s].rows = load[s].rows
         /\ \A q \in Loads : q # s => load'[q] = load[q]
<1> DEFINE l == [load[s] EXCEPT !.state = "asked"]
<1>1. LoadTyped /\ IsLoad(load[s])
  BY DEF TypeOK, LoadTyped
<1>2. IsLoad(l) /\ l.state = "asked" /\ l.rows = load[s].rows
  BY <1>1 DEF IsLoad
<1>3. load' = [load EXCEPT ![s] = l] /\ loadError' = FALSE
  BY DEF Ask
<1> HIDE DEF l
<1> QED
  BY <1>1, <1>2, <1>3, LoadSet

LEMMA FreedDoes ==
  ASSUME TypeOK, NEW s \in Loads, load' = [load EXCEPT ![s] = FreeLoad]
  PROVE  /\ LoadTyped' /\ load'[s].state = "free" /\ load'[s].rows = NoRows
         /\ \A q \in Loads : q # s => load'[q] = load[q]
<1>1. LoadTyped
  BY DEF TypeOK, LoadTyped
<1>2. IsLoad(FreeLoad) /\ FreeLoad.state = "free" /\ FreeLoad.rows = NoRows
  BY RowsFacts DEF IsLoad, FreeLoad
<1> QED
  BY <1>1, <1>2, LoadSet

LEMMA ServedDoes ==
  ASSUME TypeOK, NEW s \in Loads, LoadServed(s)
  PROVE  /\ LoadTyped'
         /\ load'[s] = [state |-> "answered", version |-> version, rows |-> rows]
         /\ \A q \in Loads : q # s => load'[q] = load[q]
<1> DEFINE l == [state |-> "answered", version |-> version, rows |-> rows]
<1>1. LoadTyped /\ version \in Nat /\ IsRows(rows)
  BY BoundAssumption DEF TypeOK, LoadTyped
<1>2. IsLoad(l)
  BY <1>1 DEF IsLoad
<1>3. load' = [load EXCEPT ![s] = l]
  BY DEF LoadServed
<1> HIDE DEF l
<1>4. LoadTyped' /\ load'[s] = l /\ \A q \in Loads : q # s => load'[q] = load[q]
  BY <1>1, <1>2, <1>3, LoadSet
<1> QED
  BY <1>4 DEF l

LEMMA CommittedDoes ==
  ASSUME TypeOK, NEW r, Committed(r)
  PROVE  /\ rows' = r /\ version \in Nat /\ version' = version + 1
         /\ version' \in 0 .. MaxChanges
         /\ unheard' \in Nat /\ unheard' > 0
BY BoundAssumption DEF TypeOK, Committed

LEMMA SetTasksTyped ==
  ASSUME TypeOK, NEW r, IsRows(r), SetTasks(r)
  PROVE  tasks' = r /\ layout' \in Layouts /\ IsRows(seen') /\ frozen' \in BOOLEAN
<1>1. CreateTaskLayout(r) \in Layouts
  BY LayoutTyped
<1> QED
  BY <1>1 DEF TypeOK, SetTasks, LayoutEffect

LEMMA HistoryTyped ==
  ASSUME TypeOK, NEW number \in 0 .. version, NEW stale \in BOOLEAN
  PROVE  /\ Replaced(number) => newest' \in 0 .. version /\ overtaken' \in BOOLEAN
         /\ Patched(number, stale) => newest' \in 0 .. version /\ overtaken' \in BOOLEAN
<1>1. version \in Nat /\ newest \in 0 .. version
  BY BoundAssumption DEF TypeOK
<1>2. (IF number > newest THEN number ELSE newest) \in 0 .. version
  BY <1>1
<1>3. overtaken \in BOOLEAN
  BY DEF TypeOK
<1>4. Replaced(number) => newest' \in 0 .. version /\ overtaken' \in BOOLEAN
  BY <1>2 DEF Replaced
<1>5. Patched(number, stale) => newest' \in 0 .. version /\ overtaken' \in BOOLEAN
  BY <1>2, <1>3 DEF Patched
<1> QED
  BY <1>4, <1>5

LEMMA NoMoveTyped == IsMove(NoMove) /\ NoMove.state = "none"
BY RowsFacts DEF IsMove, NoMove

LEMMA ReloadingTyped == IsMove(Reloading) /\ Reloading.state = "loading"
BY RowsFacts DEF IsMove, Reloading, NoMove

Placing == Drop \/ \E t \in Task, c \in Column : MenuMove(t, c)

\* A move puts its card somewhere on the board, and remembers the list it found.
Dropped(t, c, anchor, moved) ==
  /\ moved = OptimisticallyMove(tasks, t, c, anchor)
  /\ mover.state = "none"
  /\ mover' = [state |-> "sent", task |-> t, to |-> c, anchor |-> anchor,
               expected |-> tasks[t].revision, rollback |-> tasks, twice |-> twice,
               seen |-> seen, frozen |-> frozen]
  /\ tasks' = moved
  /\ layout' = CreateTaskLayout(moved) /\ seen' = moved /\ frozen' = FALSE
  /\ drag' = NoDrag
  /\ UNCHANGED <<server, twice, load, loadError, dialog, history>>

LEMMA MenuDoes ==
  ASSUME NEW t \in Task, NEW c \in Column, MenuMove(t, c)
  PROVE  t \in DOMAIN tasks /\ \E moved : Dropped(t, c, None, moved)
BY DEF MenuMove, MoveTask, Dropped

\* What a move leaves alone.
LEMMA PlacingQuiet ==
  ASSUME Placing
  PROVE  /\ mover.state = "none" /\ mover'.state = "sent" /\ drag' = NoDrag
         /\ UNCHANGED <<server, twice, load, loadError, dialog, history>>
<1>1. CASE Drop
  <2>1. \E t, c, anchor : MoveTask(t, c, anchor)
    BY <1>1 DEF Drop
  <2> QED
    BY <2>1 DEF MoveTask
<1>2. CASE \E t \in Task, c \in Column : MenuMove(t, c)
  <2>1. \E t, c, anchor : MoveTask(t, c, anchor)
    BY <1>2 DEF MenuMove
  <2> QED
    BY <2>1 DEF MoveTask
<1> QED
  BY <1>1, <1>2 DEF Placing

LEMMA DropDoes ==
  ASSUME TypeOK, InAir, Placing
  PROVE  \E t \in DOMAIN tasks, c \in Column, anchor \in Task \cup {None} :
           \E moved : Dropped(t, c, anchor, moved)
<1>m. CASE \E t \in Task, c \in Column : MenuMove(t, c)
  BY <1>m, MenuDoes
<1> SUFFICES ASSUME Drop PROVE \E t \in DOMAIN tasks, c \in Column, anchor \in Task \cup {None} :
                                 \E moved : Dropped(t, c, anchor, moved)
  BY <1>m DEF Placing
<1> DEFINE t == drag.task
           c == CHOOSE d \in Column : t \in Range(layout[d])
           i == CHOOSE j \in DOMAIN layout[c] : layout[c][j] = t
           anchor == IF i = Len(layout[c]) THEN None ELSE layout[c][i + 1]
           moved == OptimisticallyMove(tasks, t, c, anchor)
<1>1. t # None /\ t \in DOMAIN tasks
  BY DEF Drop, MoveTask
<1>2. Dropped(t, c, anchor, moved)
  BY DEF Drop, MoveTask, Dropped
<1>3. t \in Task /\ c \in Column /\ t \in Range(layout[c])
  BY <1>1 DEF TypeOK, InAir
<1>4. layout[c] \in Seq(Task)
  <2> HIDE DEF c
  <2> QED
    BY <1>3 DEF TypeOK, Layouts
<1>5. i \in DOMAIN layout[c]
  <2> HIDE DEF c, t
  <2> QED
    BY <1>3 DEF Range
<1> HIDE DEF c, t, i, moved
<1>6. Len(layout[c]) \in Nat /\ i \in 1 .. Len(layout[c])
  BY <1>4, <1>5
<1>7. ASSUME i # Len(layout[c]) PROVE layout[c][i + 1] \in Task
  <2>1. i + 1 \in 1 .. Len(layout[c])
    <3>1. \A n \in Nat : \A k \in 1 .. n : k # n => k + 1 \in 1 .. n
      OBVIOUS
    <3> QED
      BY <1>6, <1>7, <3>1
  <2> QED
    BY <1>4, <2>1, ElementOfSeq
<1>8. anchor \in Task \cup {None}
  BY <1>7
<1> HIDE DEF anchor
<1> QED
  BY <1>1, <1>2, <1>3, <1>8

-----------------------------------------------------------------------------
(* Types.                                                                  *)

ServerTyped == /\ IsRows(rows) /\ used \subseteq Task
               /\ version \in 0 .. MaxChanges /\ unheard \in Nat
BoardTyped == /\ IsRows(tasks) /\ twice \subseteq DOMAIN tasks
              /\ layout \in Layouts /\ IsRows(seen) /\ frozen \in BOOLEAN
DragTyped == drag \in [task : Task \cup {None}, from : Layouts]
DialogTyped == dialog \in [state : {"none", "created", "deleted", "saving"},
                           task : Task \cup {None}, version : Nat, row : Row \cup {None}]
HistoryOK == newest \in 0 .. version /\ overtaken \in BOOLEAN

LEMMA Pieces ==
  TypeOK <=> /\ ServerTyped /\ BoardTyped /\ DragTyped /\ LoadTyped /\ loadError \in BOOLEAN
             /\ IsMove(mover) /\ DialogTyped /\ HistoryOK
BY DEF TypeOK, ServerTyped, BoardTyped, DragTyped, LoadTyped, DialogTyped, HistoryOK

LEMMA InitTyped == Init => TypeOK
<1> SUFFICES ASSUME Init PROVE TypeOK
  OBVIOUS
<1>1. IsRows(Start) /\ CreateTaskLayout(Start) \in Layouts
  BY StartAssumption, LayoutTyped
<1>2. ServerTyped /\ BoardTyped
  <2>1. DOMAIN Start \subseteq Task /\ 0 \in 0 .. MaxChanges
    BY <1>1, BoundAssumption DEF IsRows
  <2> QED
    BY <1>1, <2>1 DEF Init, ServerTyped, BoardTyped
<1>3. DragTyped
  BY DEF Init, DragTyped, NoDrag, Nowhere, Layouts
<1>4. LoadTyped /\ loadError \in BOOLEAN
  BY RowsFacts DEF Init, LoadTyped, IsLoad, FreeLoad
<1>5. IsMove(mover)
  BY NoMoveTyped DEF Init
<1>6. DialogTyped /\ HistoryOK
  <2>1. NoDialog \in [state : {"none", "created", "deleted", "saving"},
                      task : Task \cup {None}, version : Nat, row : Row \cup {None}]
    BY DEF NoDialog
  <2>2. newest = 0 /\ version = 0 /\ overtaken = FALSE /\ dialog = NoDialog
    BY DEF Init
  <2>3. DialogTyped
    BY <2>1, <2>2 DEF DialogTyped
  <2>4. HistoryOK
    <3>1. 0 \in 0 .. 0
      OBVIOUS
    <3> QED
      BY <2>2, <3>1 DEF HistoryOK
  <2> QED
    BY <2>3, <2>4
<1> QED
  BY <1>2, <1>3, <1>4, <1>5, <1>6, Pieces

\* A row of the server's or the board's has a task and a revision.
LEMMA RowTyped ==
  ASSUME NEW r, IsRows(r), NEW t \in DOMAIN r
  PROVE  t \in Task /\ r[t] \in Row /\ r[t].revision \in Nat /\ r[t].column \in Column
BY DEF IsRows, Row

\* The server's steps for a dialog leave the rest of the browser alone.
DialogServes ==
  \E t \in Task : \/ DeleteServed(t) \/ PanelServed(t)
                  \/ \E c \in Column : CreateServed(t, c)

LEMMA DialogQuiet == DialogServes => UNCHANGED <<board, drag, load, loadError, mover, history>>
BY DEF DialogServes, DeleteServed, PanelServed, CreateServed

LEMMA PanelDoes ==
  ASSUME TypeOK, NEW t \in Task, PanelServed(t)
  PROVE  \E changed :
           /\ t \in DOMAIN rows /\ IsRows(changed) /\ DOMAIN changed = DOMAIN rows
           /\ \A u \in DOMAIN rows : Earlier(rows[u], changed[u])
           /\ Committed(changed) /\ UNCHANGED used
           /\ dialog' = [state |-> "saving", task |-> t, version |-> version + 1,
                         row |-> changed[t]]
<1>r. IsRows(rows) /\ t \in DOMAIN rows
  BY DEF TypeOK, PanelServed
<1>1. PICK changed :
        /\ changed = Revised(t) \/ \E c \in Column : changed = Moved(t, c, None)
        /\ Committed(changed) /\ UNCHANGED used
        /\ dialog' = [state |-> "saving", task |-> t, version |-> version + 1,
                      row |-> changed[t]]
  <2>1. \E changed : /\ changed = Revised(t) \/ \E c \in Column : changed = Moved(t, c, None)
                     /\ Committed(changed)
    BY DEF PanelServed
  <2>2. \A changed : Committed(changed) => rows' = changed
    BY CommittedDoes
  <2> QED
    BY <2>1, <2>2 DEF PanelServed
<1>2. CASE changed = Revised(t)
  <2>1. \A u \in DOMAIN rows : rows[u] \in Row /\ u \in Task
    BY <1>r, RowTyped
  <2>2. /\ DOMAIN changed = DOMAIN rows
        /\ \A u \in DOMAIN rows : u # t => changed[u] = rows[u]
        /\ changed[t] = [rows[t] EXCEPT !.revision = @ + 1]
    BY <1>r, <1>2 DEF Revised
  <2>3. changed[t] \in Row /\ Earlier(rows[t], changed[t])
    BY <1>r, <2>1, <2>2 DEF Row, Earlier
  <2>4. \A u \in DOMAIN rows : u # t => changed[u] \in Row /\ Earlier(rows[u], changed[u])
    BY <2>1, <2>2 DEF Row, Earlier
  <2>5. changed = [u \in DOMAIN rows |-> changed[u]]
    BY <1>2 DEF Revised
  <2>6. IsRows(changed)
    BY <1>r, <2>2, <2>3, <2>4, <2>5 DEF IsRows
  <2> QED
    BY <1>1, <1>r, <2>2, <2>3, <2>4, <2>6
<1>3. ASSUME NEW c \in Column, changed = Moved(t, c, None) PROVE
        /\ IsRows(changed) /\ DOMAIN changed = DOMAIN rows
        /\ \A u \in DOMAIN rows : Earlier(rows[u], changed[u])
  <2>1. /\ IsRows(changed) /\ DOMAIN changed = DOMAIN rows
        /\ \A u \in DOMAIN rows :
             /\ rows[u].revision <= changed[u].revision
             /\ changed[u].revision = rows[u].revision => changed[u] = rows[u]
    BY <1>r, <1>3, MovedRows
  <2> QED
    BY <2>1 DEF Earlier
<1> QED
  BY <1>1, <1>r, <1>2, <1>3

\* The panel's answer puts its row in the place of the one the list holds.
LEMMA PanelHeardDoes ==
  ASSUME TypeOK, InFlight, PanelHeard
  PROVE  \E r :
           /\ SetTasks(r) /\ IsRows(r) /\ DOMAIN r = DOMAIN tasks
           /\ \A u \in DOMAIN tasks : u # dialog.task => r[u] = tasks[u]
           /\ dialog.task \in DOMAIN tasks =>
                /\ r[dialog.task] = dialog.row
                /\ Patched(dialog.version, dialog.version < newest
                                            /\ tasks[dialog.task] # dialog.row)
           /\ dialog.task \notin DOMAIN tasks => UNCHANGED history
<1> DEFINE t == dialog.task
           given == [tasks EXCEPT ![t] = dialog.row]
<1>1. IsRows(tasks) /\ t \in Task /\ dialog.row \in Row
  BY DEF TypeOK, InFlight, PanelHeard
<1>2. CASE t \in DOMAIN tasks
  <2>1. SetTasks(given) /\ Patched(dialog.version, dialog.version < newest /\ tasks[t] # dialog.row)
    BY <1>2 DEF PanelHeard
  <2>2. /\ DOMAIN given = DOMAIN tasks /\ given[t] = dialog.row
        /\ \A u \in DOMAIN tasks : u # t => given[u] = tasks[u]
    BY <1>2
  <2>3. \A u \in DOMAIN tasks : given[u] \in Row /\ u \in Task
    BY <1>1, <2>2, RowTyped
  <2>4. given = [u \in DOMAIN tasks |-> given[u]]
    OBVIOUS
  <2>5. IsRows(given)
    BY <1>1, <2>2, <2>3, <2>4 DEF IsRows
  <2> QED
    BY <1>2, <2>1, <2>2, <2>5
<1>3. CASE t \notin DOMAIN tasks
  BY <1>1, <1>3 DEF PanelHeard
<1> QED
  BY <1>2, <1>3

LEMMA NextTyped == TypeOK /\ InFlight /\ LoadsTrue /\ InAir /\ [Next]_vars => TypeOK'
<1> SUFFICES ASSUME TypeOK, InFlight, LoadsTrue, InAir, [Next]_vars PROVE TypeOK'
  OBVIOUS
<1> USE DEF Others
<1>0. /\ ServerTyped /\ BoardTyped /\ DragTyped /\ LoadTyped /\ loadError \in BOOLEAN
      /\ IsMove(mover) /\ DialogTyped /\ HistoryOK
  BY Pieces
<1>p. ASSUME ServerTyped', BoardTyped', DragTyped', LoadTyped', loadError' \in BOOLEAN,
             IsMove(mover'), DialogTyped', HistoryOK'
      PROVE  TypeOK'
  BY <1>p DEF TypeOK, ServerTyped, BoardTyped, DragTyped, LoadTyped, DialogTyped, HistoryOK
<1>s. ASSUME UNCHANGED server PROVE ServerTyped'
  BY <1>0, <1>s DEF ServerTyped
<1>b. ASSUME UNCHANGED board PROVE BoardTyped'
  BY <1>0, <1>b DEF BoardTyped
<1>g. ASSUME UNCHANGED drag PROVE DragTyped'
  BY <1>0, <1>g DEF DragTyped
<1>l. ASSUME UNCHANGED load PROVE LoadTyped'
  BY <1>0, <1>l DEF LoadTyped
<1>d. ASSUME UNCHANGED dialog PROVE DialogTyped'
  BY <1>0, <1>d DEF DialogTyped
<1>h. ASSUME UNCHANGED <<version, history>> PROVE HistoryOK'
  BY <1>0, <1>h DEF HistoryOK
<1>c. ASSUME NEW r, IsRows(r), Committed(r) PROVE IsRows(rows') /\ version' \in 0 .. MaxChanges /\ unheard' \in Nat /\ (UNCHANGED history => HistoryOK')
  <2>1. /\ rows' = r /\ version \in Nat /\ version' = version + 1
        /\ version' \in 0 .. MaxChanges /\ unheard' \in Nat
    BY <1>c, CommittedDoes
  <2> QED
    BY <1>0, <1>c, <2>1 DEF HistoryOK
<1>r. IsRows(rows) /\ IsRows(tasks)
  BY <1>0 DEF ServerTyped, BoardTyped
<1>x. \A s \in Slot : s \in Loads
  BY DEF Loads
<1>o. Own \in Loads
  BY DEF Loads
<1>1. ASSUME NEW t \in Task, NEW c \in Column, NEW a \in Task \cup {None}, OtherMoves(t, c, a)
      PROVE  TypeOK'
  <2>1. IsRows(Moved(t, c, a))
    BY <1>r, <1>1, MovedRows DEF OtherMoves
  <2>2. ServerTyped' /\ HistoryOK'
    BY <1>0, <1>1, <1>c, <2>1 DEF OtherMoves, ServerTyped
  <2> QED
    BY <1>0, <1>1, <1>b, <1>g, <1>l, <1>d, <2>2, <1>p DEF OtherMoves
<1>2. ASSUME NEW t \in Task, OtherArchives(t) PROVE TypeOK'
  <2>1. IsRows(Restrict(rows, DOMAIN rows \ {t}))
    BY <1>r, RowsFacts
  <2>2. ServerTyped' /\ HistoryOK'
    BY <1>0, <1>2, <1>c, <2>1 DEF OtherArchives, ServerTyped
  <2> QED
    BY <1>0, <1>2, <1>b, <1>g, <1>l, <1>d, <2>2, <1>p DEF OtherArchives
<1>3. ASSUME NEW t \in Task, DragStart(t) PROVE TypeOK'
  <2>1. DragTyped'
    BY <1>0, <1>3 DEF DragStart, DragTyped, BoardTyped
  <2> QED
    BY <1>0, <1>3, <1>s, <1>b, <1>l, <1>d, <1>h, <2>1, <1>p DEF DragStart
<1>6. ASSUME NEW s \in Loads, LoadServed(s) PROVE TypeOK'
  <2>1. LoadTyped'
    BY <1>6, ServedDoes
  <2> QED
    BY <1>0, <1>6, <1>s, <1>b, <1>g, <1>d, <1>h, <2>1, <1>p DEF LoadServed
<1>m. ASSUME NEW s \in Loads, mover' = MoverAfter(s) PROVE IsMove(mover')
  BY <1>0, <1>m, NoMoveTyped DEF MoverAfter
<1>7. ASSUME NEW s \in Loads, LoadHeard(s) PROVE TypeOK'
  <2>1. IsRows(load[s].rows)
    BY <1>0 DEF LoadTyped, IsLoad
  <2>2. BoardTyped'
    BY <1>7, <2>1, SetTasksTyped DEF LoadHeard, BoardTyped
  <2>3. LoadTyped' /\ IsMove(mover')
    BY <1>7, <1>m, FreedDoes DEF LoadHeard
  <2>4. HistoryOK'
    <3>1. load[s].version \in 0 .. version
      <4>1. load[s].version \in Nat
        BY <1>0 DEF LoadTyped, IsLoad
      <4>2. load[s].version <= version
        BY <1>7 DEF LoadsTrue, LoadHeard
      <4>3. version \in Nat
        BY <1>0, BoundAssumption DEF ServerTyped
      <4> QED
        BY <4>1, <4>2, <4>3
    <3>2. newest' \in 0 .. version /\ overtaken' \in BOOLEAN
      BY <1>7, <3>1, HistoryTyped DEF LoadHeard
    <3> QED
      BY <1>7, <3>2 DEF LoadHeard, HistoryOK
  <2> QED
    BY <1>0, <1>7, <1>s, <1>g, <1>d, <2>2, <2>3, <2>4, <1>p DEF LoadHeard
<1>8. ASSUME NEW s \in Loads, LoadFails(s) PROVE TypeOK'
  <2>1. LoadTyped' /\ IsMove(mover')
    BY <1>8, <1>m, FreedDoes DEF LoadFails
  <2> QED
    BY <1>0, <1>8, <1>s, <1>b, <1>g, <1>d, <1>h, <2>1, <1>p DEF LoadFails
<1>9. ASSUME NEW s \in Slot, EventHeard(s) PROVE TypeOK'
  <2>1. LoadTyped' /\ loadError' = FALSE
    BY <1>9, <1>x, AskDoes DEF EventHeard
  <2>2. ServerTyped'
    BY <1>0, <1>9 DEF EventHeard, ServerTyped
  <2> QED
    BY <1>0, <1>9, <1>b, <1>g, <1>d, <1>h, <2>1, <2>2, <1>p DEF EventHeard
<1>10. ASSUME NEW s \in Slot, Retry(s) PROVE TypeOK'
  <2>1. LoadTyped' /\ loadError' = FALSE
    BY <1>10, <1>x, AskDoes DEF Retry
  <2> QED
    BY <1>0, <1>10, <1>s, <1>b, <1>g, <1>d, <1>h, <2>1, <1>p DEF Retry
<1>11. ASSUME NEW c \in Column, NEW i \in 1 .. Cardinality(Task), DragOver(c, i) PROVE TypeOK'
  <2>1. drag.task \in Task /\ layout \in Layouts
    BY <1>0, <1>11 DEF DragOver, DragTyped, BoardTyped
  <2>2. layout' \in Layouts
    BY <1>11, <2>1, OverLayout DEF DragOver
  <2>3. BoardTyped'
    BY <1>0, <1>11, <2>2 DEF DragOver, BoardTyped
  <2> QED
    BY <1>0, <1>11, <1>s, <1>g, <1>l, <1>d, <1>h, <2>3, <1>p DEF DragOver
<1>n. drag' = NoDrag => DragTyped'
  BY DEF DragTyped, NoDrag, Nowhere, Layouts
<1>12. ASSUME DragCancel PROVE TypeOK'
  <2>1. BoardTyped'
    BY <1>0, <1>12 DEF DragCancel, LayoutRestored, BoardTyped, DragTyped
  <2> QED
    BY <1>0, <1>12, <1>s, <1>n, <1>l, <1>d, <1>h, <2>1, <1>p DEF DragCancel
<1>13. ASSUME DropIgnored PROVE TypeOK'
  BY <1>0, <1>13, <1>s, <1>b, <1>n, <1>l, <1>d, <1>h, <1>p DEF DropIgnored
<1>14. ASSUME Placing PROVE TypeOK'
  <2>0. PICK t \in DOMAIN tasks, c \in Column, anchor \in Task \cup {None} :
          \E moved : Dropped(t, c, anchor, moved)
    BY <1>14, DropDoes
  <2>1. PICK moved : Dropped(t, c, anchor, moved)
    BY <2>0
  <2>2. t \in Task
    BY <1>r, RowTyped
  <2>3. IsRows(moved) /\ DOMAIN moved = DOMAIN tasks
    <3>1. /\ IsRows(moved) /\ DOMAIN moved = DOMAIN tasks
          /\ moved[t].column = c
          /\ \A u \in DOMAIN tasks : /\ moved[u].revision = tasks[u].revision
                                     /\ u # t => moved[u].column = tasks[u].column
      BY <1>r, <2>1, OptimisticRows DEF Dropped
    <3> QED
      BY <3>1
  <2>4. CreateTaskLayout(moved) \in Layouts
    BY <2>3, LayoutTyped
  <2>5. BoardTyped'
    BY <1>0, <2>1, <2>3, <2>4 DEF BoardTyped, Dropped
  <2>6. tasks[t].revision \in Nat
    BY <1>r, RowTyped
  <2>7. IsMove(mover')
    BY <1>0, <2>1, <2>2, <2>6 DEF IsMove, BoardTyped, Dropped
  <2> QED
    BY <1>0, <1>s, <1>n, <1>l, <1>d, <1>h, <2>1, <2>5, <2>7, <1>p DEF Dropped
<1>15. ASSUME MoveServed PROVE TypeOK'
  <2>1. mover.state = "sent" /\ mover' \in {[mover EXCEPT !.state = "accepted"], [mover EXCEPT !.state = "refused"]}
    BY <1>15 DEF MoveServed
  <2>2. IsMove(mover') /\ mover.task \in Task /\ mover.to \in Column
    BY <1>0, <2>1 DEF IsMove
  <2>3. ServerTyped' /\ HistoryOK'
    <3>1. CASE UNCHANGED server
      BY <1>0, <1>15, <1>s, <1>h, <3>1 DEF MoveServed
    <3>2. CASE ~UNCHANGED server
      <4>1. /\ mover.task \in DOMAIN rows
            /\ Committed(Moved(mover.task, mover.to, mover.anchor)) /\ UNCHANGED used
        BY <1>15, <3>2 DEF MoveServed, Editable
      <4>2. IsRows(Moved(mover.task, mover.to, mover.anchor))
        BY <1>r, <2>2, <4>1, MovedRows
      <4> QED
        BY <1>0, <1>15, <1>c, <4>1, <4>2 DEF MoveServed, ServerTyped
    <3> QED
      BY <3>1, <3>2
  <2> QED
    BY <1>0, <1>15, <1>b, <1>g, <1>l, <1>d, <2>2, <2>3, <1>p DEF MoveServed
<1>16. ASSUME MoveFails PROVE TypeOK'
  <2>1. IsMove(mover')
    BY <1>0, <1>16 DEF MoveFails, IsMove
  <2> QED
    BY <1>0, <1>16, <1>s, <1>b, <1>g, <1>l, <1>d, <1>h, <2>1, <1>p DEF MoveFails
<1>17. ASSUME MoveHeard PROVE TypeOK'
  <2>1. IsMove(mover')
    BY <1>17, ReloadingTyped DEF MoveHeard
  <2>2. LoadTyped' /\ loadError' = FALSE
    BY <1>17, <1>o, AskDoes DEF MoveHeard
  <2> QED
    BY <1>0, <1>17, <1>s, <1>b, <1>g, <1>d, <1>h, <2>1, <2>2, <1>p DEF MoveHeard
<1>18. ASSUME MoveRolledBack PROVE TypeOK'
  <2>1. IsMove(mover')
    BY <1>18, ReloadingTyped DEF MoveRolledBack, ReloadAfterRollback
  <2>2. LoadTyped' /\ loadError' = FALSE
    BY <1>18, <1>o, AskDoes DEF MoveRolledBack, ReloadAfterRollback
  <2>3. IsRows(mover.rollback) /\ mover.twice \subseteq DOMAIN mover.rollback
    BY <1>0 DEF IsMove
  <2>4. BoardTyped'
    BY <1>18, <2>3, SetTasksTyped DEF MoveRolledBack, BoardTyped
  <2> QED
    BY <1>0, <1>18, <1>s, <1>g, <1>d, <1>h, <2>1, <2>2, <2>4, <1>p DEF MoveRolledBack
<1>i. version + 1 \in Nat
  BY <1>0, BoundAssumption DEF ServerTyped
<1>19. ASSUME NEW t \in Task, NEW c \in Column, CreateServed(t, c) PROVE TypeOK'
  <2>0. PICK row : row = [column |-> c, position |-> NextPosition(c), revision |-> 1]
    OBVIOUS
  <2>1. /\ used' = used \cup {t} /\ Committed(WithRow(rows, t, row))
        /\ dialog' = [state |-> "created", task |-> t, version |-> version + 1, row |-> row]
        /\ UNCHANGED <<board, drag, load, loadError, mover, history>>
    BY <1>19, <2>0 DEF CreateServed
  <2>2. row \in Row
    BY <1>r, <2>0, NextPositionTyped DEF Row
  <2>3. IsRows(WithRow(rows, t, row))
    BY <1>r, <2>2, AddedRow
  <2>4. ServerTyped' /\ HistoryOK'
    BY <1>0, <1>c, <2>1, <2>3 DEF ServerTyped
  <2>5. DialogTyped'
    BY <1>i, <2>1, <2>2 DEF DialogTyped
  <2> QED
    BY <1>0, <1>b, <1>g, <1>l, <2>1, <2>4, <2>5, <1>p
<1>e. dialog' = NoDialog => DialogTyped'
  BY DEF DialogTyped, NoDialog
<1>v. ASSUME dialog.state # "none" PROVE dialog.version \in 0 .. version
  BY <1>v DEF InFlight
<1>20. ASSUME CreateHeard PROVE TypeOK'
  <2>1. BoardTyped'
    <3>1. CASE dialog.task \in DOMAIN tasks
      <4>1. twice' = twice \cup {dialog.task} /\ SetTasks(tasks)
        BY <1>20, <3>1 DEF CreateHeard
      <4> QED
        BY <1>0, <1>r, <3>1, <4>1, SetTasksTyped DEF BoardTyped
    <3>2. CASE dialog.task \notin DOMAIN tasks
      <4>1. twice' = twice /\ SetTasks(WithRow(tasks, dialog.task, dialog.row))
        BY <1>20, <3>2 DEF CreateHeard
      <4>2. /\ IsRows(WithRow(tasks, dialog.task, dialog.row))
            /\ DOMAIN WithRow(tasks, dialog.task, dialog.row) = DOMAIN tasks \cup {dialog.task}
        <5>1. dialog.task \in Task /\ dialog.row \in Row
          BY <1>20 DEF CreateHeard, InFlight
        <5>2. PICK more : more = WithRow(tasks, dialog.task, dialog.row)
          OBVIOUS
        <5>3. /\ IsRows(more) /\ DOMAIN more = DOMAIN tasks \cup {dialog.task}
              /\ more[dialog.task] = dialog.row
              /\ \A u \in DOMAIN tasks : u # dialog.task => more[u] = tasks[u]
          BY <1>r, <5>1, <5>2, AddedRow
        <5> QED
          BY <5>2, <5>3
      <4> QED
        BY <1>0, <4>1, <4>2, SetTasksTyped DEF BoardTyped
    <3> QED
      BY <3>1, <3>2
  <2>2. (dialog.version <= newest) \in BOOLEAN /\ dialog.version \in 0 .. version
    BY <1>20, <1>v DEF CreateHeard
  <2>3. newest' \in 0 .. version /\ overtaken' \in BOOLEAN
    <3>1. CASE UNCHANGED history
      BY <1>0, <3>1 DEF HistoryOK
    <3>2. CASE Patched(dialog.version, dialog.version <= newest)
      BY <2>2, <3>2, HistoryTyped
    <3> QED
      BY <1>20, <3>1, <3>2 DEF CreateHeard
  <2>4. HistoryOK'
    BY <1>20, <2>3 DEF CreateHeard, HistoryOK
  <2> QED
    BY <1>0, <1>20, <1>s, <1>g, <1>l, <1>e, <2>1, <2>4, <1>p DEF CreateHeard
<1>21. ASSUME NEW t \in Task, DeleteServed(t) PROVE TypeOK'
  <2>1. IsRows(Restrict(rows, DOMAIN rows \ {t}))
    BY <1>r, RowsFacts
  <2>2. ServerTyped' /\ HistoryOK'
    BY <1>0, <1>21, <1>c, <2>1 DEF DeleteServed, ServerTyped
  <2>3. DialogTyped'
    BY <1>21, <1>i DEF DeleteServed, DialogTyped
  <2> QED
    BY <1>0, <1>21, <1>b, <1>g, <1>l, <2>2, <2>3, <1>p DEF DeleteServed
<1>4. ASSUME NEW t \in Task, PanelServed(t) PROVE TypeOK'
  <2>1. PICK changed :
          /\ t \in DOMAIN rows /\ IsRows(changed) /\ DOMAIN changed = DOMAIN rows
          /\ Committed(changed) /\ UNCHANGED used
          /\ dialog' = [state |-> "saving", task |-> t, version |-> version + 1,
                        row |-> changed[t]]
    BY <1>4, PanelDoes
  <2>2. UNCHANGED <<board, drag, load, loadError, mover, history>>
    BY <1>4 DEF PanelServed
  <2>3. ServerTyped' /\ HistoryOK'
    BY <1>0, <1>c, <2>1, <2>2 DEF ServerTyped
  <2>4. changed[t] \in Row
    BY <2>1, RowTyped
  <2>5. DialogTyped'
    BY <1>i, <2>1, <2>4 DEF DialogTyped
  <2> QED
    BY <1>0, <1>b, <1>g, <1>l, <2>2, <2>3, <2>5, <1>p
<1>5. ASSUME PanelHeard PROVE TypeOK'
  <2>1. PICK r :
          /\ SetTasks(r) /\ IsRows(r) /\ DOMAIN r = DOMAIN tasks
          /\ dialog.task \in DOMAIN tasks =>
               Patched(dialog.version, dialog.version < newest /\ tasks[dialog.task] # dialog.row)
          /\ dialog.task \notin DOMAIN tasks => UNCHANGED history
    BY <1>5, PanelHeardDoes
  <2>2. BoardTyped'
    BY <1>0, <1>5, <2>1, SetTasksTyped DEF PanelHeard, BoardTyped
  <2>3. HistoryOK'
    <3>1. /\ dialog.version \in 0 .. version /\ UNCHANGED version
          /\ (dialog.version < newest /\ tasks[dialog.task] # dialog.row) \in BOOLEAN
      BY <1>5, <1>v DEF PanelHeard
    <3>2. CASE dialog.task \in DOMAIN tasks
      BY <2>1, <3>1, <3>2, HistoryTyped DEF HistoryOK
    <3>3. CASE dialog.task \notin DOMAIN tasks
      BY <1>0, <2>1, <3>1, <3>3 DEF HistoryOK
    <3> QED
      BY <3>2, <3>3
  <2> QED
    BY <1>0, <1>5, <1>s, <1>g, <1>l, <1>e, <2>2, <2>3, <1>p DEF PanelHeard
<1>22. ASSUME DeleteHeard PROVE TypeOK'
  <2>1. /\ IsRows(Restrict(tasks, DOMAIN tasks \ {dialog.task}))
        /\ DOMAIN Restrict(tasks, DOMAIN tasks \ {dialog.task}) = DOMAIN tasks \ {dialog.task}
    BY <1>r, RowsFacts DEF Restrict
  <2>2. BoardTyped'
    BY <1>0, <1>22, <2>1, SetTasksTyped DEF DeleteHeard, TwiceWithoutDeleted, BoardTyped
  <2>3. newest' \in 0 .. version /\ overtaken' \in BOOLEAN
    BY <1>22, <1>v, HistoryTyped DEF DeleteHeard
  <2>4. HistoryOK'
    BY <1>22, <2>3 DEF DeleteHeard, HistoryOK
  <2> QED
    BY <1>0, <1>22, <1>s, <1>g, <1>l, <1>e, <2>2, <2>4, <1>p DEF DeleteHeard
<1>23. ASSUME DialogFails PROVE TypeOK'
  BY <1>0, <1>23, <1>s, <1>b, <1>g, <1>l, <1>h, <1>e, <1>p DEF DialogFails
<1>24. ASSUME UNCHANGED vars PROVE TypeOK'
  BY <1>0, <1>24, <1>s, <1>b, <1>g, <1>l, <1>d, <1>h, <1>p
<1> QED
  BY <1>1, <1>2, <1>3, <1>4, <1>5, <1>6, <1>7, <1>8, <1>9, <1>10, <1>11, <1>12, <1>13,
     <1>14, <1>15, <1>16, <1>17, <1>18, <1>19, <1>20, <1>21, <1>22, <1>23, <1>24 DEF Next, Placing

-----------------------------------------------------------------------------
(* What a step does to the server's rows.                                  *)

\* A commit, of the browser's or of somebody else's.
Change ==
  /\ version' = version + 1 /\ unheard' > 0
  /\ used \subseteq used' /\ DOMAIN rows' \subseteq DOMAIN rows \cup (used' \ used)
  /\ \A t \in DOMAIN rows \cap DOMAIN rows' : Earlier(rows[t], rows'[t])
  /\ UNCHANGED <<board, drag, load, loadError, history>>

Same == UNCHANGED <<rows, used, version>>

LEMMA EarlierSelf ==
  ASSUME NEW r, IsRows(r), NEW t \in DOMAIN r
  PROVE  Earlier(r[t], r[t])
BY RowTyped DEF Earlier

LEMMA EarlierThen ==
  ASSUME NEW a, NEW b, NEW c, a.revision \in Nat, b.revision \in Nat, c.revision \in Nat,
         Earlier(a, b), Earlier(b, c)
  PROVE  Earlier(a, c)
BY DEF Earlier

LEMMA MovedEarlier ==
  ASSUME IsRows(rows), NEW t \in DOMAIN rows, NEW c \in Column, NEW anchor
  PROVE  /\ DOMAIN Moved(t, c, anchor) = DOMAIN rows
         /\ \A u \in DOMAIN rows : Earlier(rows[u], Moved(t, c, anchor)[u])
<1>0. PICK moved : moved = Moved(t, c, anchor)
  OBVIOUS
<1>1. /\ IsRows(moved) /\ DOMAIN moved = DOMAIN rows
      /\ \A u \in DOMAIN rows :
           /\ rows[u].revision \in Nat /\ rows[u].revision <= moved[u].revision
           /\ moved[u].revision \in Nat
           /\ moved[u].revision = rows[u].revision => moved[u] = rows[u]
      /\ moved[t].column = c
  BY <1>0, MovedRows
<1>2. \A u \in DOMAIN rows : Earlier(rows[u], moved[u])
  BY <1>1 DEF Earlier
<1> QED
  BY <1>0, <1>1, <1>2

LEMMA ServerStep == TypeOK /\ InFlight /\ [Next]_vars => Same \/ Change
<1> SUFFICES ASSUME TypeOK, InFlight, [Next]_vars PROVE Same \/ Change
  OBVIOUS
<1>r. IsRows(rows)
  BY DEF TypeOK
<1>e. ASSUME NEW D PROVE \A t \in DOMAIN rows \cap DOMAIN Restrict(rows, DOMAIN rows \ D) :
                            Earlier(rows[t], Restrict(rows, DOMAIN rows \ D)[t])
  BY <1>r, EarlierSelf DEF Restrict
<1>f. ASSUME NEW D PROVE DOMAIN Restrict(rows, DOMAIN rows \ D) \subseteq DOMAIN rows
  BY DEF Restrict
<1>c. ASSUME NEW r, Committed(r)
      PROVE  rows' = r /\ version' = version + 1 /\ unheard' > 0
  BY <1>c, CommittedDoes
<1>1. ASSUME NEW t \in Task, NEW c \in Column, NEW a \in Task \cup {None}, OtherMoves(t, c, a)
      PROVE  Change
  BY <1>1, <1>c, <1>r, MovedEarlier DEF OtherMoves, Others, Change
<1>2. ASSUME NEW t \in Task, OtherArchives(t) PROVE Change
  BY <1>2, <1>c, <1>e, <1>f DEF OtherArchives, Others, Change
<1>3. ASSUME MoveServed, ~UNCHANGED server PROVE Change
  <2>1. /\ mover.task \in DOMAIN rows /\ mover.state = "sent"
        /\ Committed(Moved(mover.task, mover.to, mover.anchor)) /\ UNCHANGED used
        /\ UNCHANGED <<board, drag, load, loadError, history>>
    BY <1>3 DEF MoveServed, Editable
  <2>2. mover.to \in Column
    BY <2>1 DEF TypeOK, IsMove
  <2> QED
    BY <1>c, <1>r, <2>1, <2>2, MovedEarlier DEF Change
<1>4. ASSUME NEW t \in Task, NEW c \in Column, CreateServed(t, c) PROVE Change
  <2>0. PICK row : row = [column |-> c, position |-> NextPosition(c), revision |-> 1]
    OBVIOUS
  <2>1. /\ t \notin used /\ used' = used \cup {t}
        /\ Committed(WithRow(rows, t, row))
        /\ UNCHANGED <<board, drag, load, loadError, history>>
    BY <1>4, <2>0 DEF CreateServed
  <2>2. t \notin DOMAIN rows
    BY <2>1 DEF InFlight
  <2>3. /\ rows' = WithRow(rows, t, row)
        /\ version' = version + 1 /\ unheard' > 0
    BY <1>c, <2>1
  <2>4. DOMAIN rows' = DOMAIN rows \cup {t} /\ \A u \in DOMAIN rows : rows'[u] = rows[u]
    BY <2>2, <2>3 DEF WithRow
  <2>5. \A u \in DOMAIN rows : Earlier(rows[u], rows'[u])
    BY <1>r, <2>4, EarlierSelf
  <2> QED
    BY <2>1, <2>3, <2>4, <2>5 DEF Change
<1>5. ASSUME NEW t \in Task, DeleteServed(t) PROVE Change
  BY <1>5, <1>c, <1>e, <1>f DEF DeleteServed, Change
<1>8. ASSUME NEW t \in Task, PanelServed(t) PROVE Change
  <2>1. PICK changed :
          /\ DOMAIN changed = DOMAIN rows
          /\ \A u \in DOMAIN rows : Earlier(rows[u], changed[u])
          /\ Committed(changed) /\ UNCHANGED used
    BY <1>8, PanelDoes
  <2>2. UNCHANGED <<board, drag, load, loadError, history>>
    BY <1>8 DEF PanelServed
  <2> QED
    BY <1>c, <2>1, <2>2 DEF Change
<1>6. CASE \E s \in Loads : LoadServed(s) \/ LoadHeard(s) \/ LoadFails(s)
  BY <1>6 DEF LoadServed, LoadHeard, LoadFails, Same
<1>7. CASE \E s \in Slot : EventHeard(s) \/ Retry(s)
  BY <1>7 DEF EventHeard, Retry, Same
<1>13. CASE \E t \in Task : DragStart(t)
  BY <1>13 DEF DragStart, Same
<1>9. CASE \/ \E c \in Column, i \in 1 .. Cardinality(Task) : DragOver(c, i)
           \/ DragCancel \/ DropIgnored \/ MoveFails \/ MoveHeard \/ MoveRolledBack
           \/ CreateHeard \/ DeleteHeard \/ PanelHeard \/ DialogFails
  BY <1>9 DEF DragOver, DragCancel, DropIgnored, MoveFails, MoveHeard, MoveRolledBack,
              CreateHeard, DeleteHeard, PanelHeard, DialogFails, Same
<1>10. CASE Placing
  BY <1>10, PlacingQuiet DEF Same
<1>11. CASE MoveServed /\ UNCHANGED server
  BY <1>11 DEF Same
<1>12. CASE UNCHANGED vars
  BY <1>12 DEF Same
<1> QED
  BY <1>1, <1>2, <1>3, <1>4, <1>5, <1>6, <1>7, <1>8, <1>9, <1>10, <1>11, <1>12,
     <1>13 DEF Next, Placing

LEMMA NextOwn == TypeOK /\ OwnAwaited /\ [Next]_vars => OwnAwaited'
<1> SUFFICES ASSUME TypeOK, OwnAwaited, [Next]_vars PROVE OwnAwaited'
  OBVIOUS
<1>o. Own \in Loads /\ \A s \in Slot : s \in Loads /\ s # Own
  BY SlotAssumption DEF Loads
<1>u. ASSUME UNCHANGED <<load, mover>> PROVE OwnAwaited'
  BY <1>u DEF OwnAwaited
<1>1. ASSUME NEW s \in Loads, LoadServed(s) PROVE OwnAwaited'
  <2>1. load'[Own].state # "free" => load[Own].state # "free"
    BY <1>1, <1>o, ServedDoes DEF LoadServed
  <2> QED
    BY <1>1, <2>1 DEF LoadServed, OwnAwaited
<1>2. ASSUME NEW s \in Loads, load' = [load EXCEPT ![s] = FreeLoad], mover' = MoverAfter(s)
      PROVE  OwnAwaited'
  <2>1. load'[s].state = "free" /\ (s # Own => load'[Own] = load[Own])
    BY <1>2, <1>o, FreedDoes
  <2> QED
    BY <1>2, <2>1 DEF OwnAwaited, MoverAfter
<1>3. ASSUME NEW s \in Slot, Ask(s), UNCHANGED mover PROVE OwnAwaited'
  <2>1. load'[Own] = load[Own]
    BY <1>3, <1>o, AskDoes
  <2> QED
    BY <1>3, <2>1 DEF OwnAwaited
<1>4. ASSUME mover' = Reloading PROVE OwnAwaited'
  BY <1>4, ReloadingTyped DEF OwnAwaited
<1>5. ASSUME mover.state # "loading", UNCHANGED load PROVE OwnAwaited'
  BY <1>5 DEF OwnAwaited
<1>6. CASE \E s \in Loads : LoadServed(s) \/ LoadHeard(s) \/ LoadFails(s)
  BY <1>6, <1>1, <1>2 DEF LoadHeard, LoadFails
<1>7. CASE \E s \in Slot : EventHeard(s) \/ Retry(s)
  BY <1>7, <1>3 DEF EventHeard, Retry
<1>8. CASE \/ \E t \in Task, c \in Column, a \in Task \cup {None} : OtherMoves(t, c, a)
           \/ \E t \in Task : OtherArchives(t) \/ DragStart(t)
  BY <1>8, <1>u DEF OtherMoves, OtherArchives, Others, DragStart
<1>9. CASE \/ \E c \in Column, i \in 1 .. Cardinality(Task) : DragOver(c, i)
           \/ DragCancel \/ DropIgnored
           \/ DialogServes
           \/ CreateHeard \/ DeleteHeard \/ PanelHeard \/ DialogFails
  BY <1>9, <1>u, DialogQuiet DEF DragOver, DragCancel, DropIgnored, CreateHeard, DeleteHeard,
                                 PanelHeard, DialogFails
<1>10. CASE Placing \/ MoveServed \/ MoveFails
  <2>1. mover.state # "loading" /\ UNCHANGED load
    BY <1>10, PlacingQuiet DEF MoveServed, MoveFails
  <2> QED
    BY <1>5, <2>1
<1>11. CASE MoveHeard \/ MoveRolledBack
  BY <1>11, <1>4 DEF MoveHeard, MoveRolledBack, ReloadAfterRollback
<1>12. CASE UNCHANGED vars
  BY <1>12, <1>u
<1> QED
  BY <1>6, <1>7, <1>8, <1>9, <1>10, <1>11, <1>12 DEF Next, Placing, DialogServes

LEMMA NextInFlight == TypeOK /\ InFlight /\ [Next]_vars => InFlight'
<1> SUFFICES ASSUME TypeOK, InFlight, [Next]_vars PROVE InFlight'
  OBVIOUS
<1>r. IsRows(rows) /\ version \in Nat /\ \A n \in 1 .. version : n \in 1 .. (version + 1)
  BY BoundAssumption DEF TypeOK
<1>s. Same \/ Change
  BY ServerStep
<1>v. \A n \in 1 .. version : n \in 1 .. version' /\ (n = version' => Same)
  BY <1>r, <1>s DEF Same, Change
<1>d. DOMAIN rows' \subseteq used' /\ \A t \in used \ DOMAIN rows : t \in used' \ DOMAIN rows'
  BY <1>s DEF Same, Change, InFlight
<1>i. ASSUME NEW r, Committed(r)
      PROVE  rows' = r /\ version' = version + 1 /\ version + 1 \in 1 .. (version + 1)
  BY <1>i, <1>r, CommittedDoes
<1>1. ASSUME UNCHANGED dialog \/ dialog' = NoDialog PROVE InFlight'
  <2>1. CASE UNCHANGED dialog
    <3>1. dialog.state # "none" => dialog.task \in Task /\ dialog.version \in 1 .. version'
      BY <1>v DEF InFlight
    <3>2. ASSUME dialog.state = "saving", dialog.version = version'
          PROVE  dialog.task \in DOMAIN rows' /\ dialog.row = rows'[dialog.task]
      <4>1. Same
        BY <1>v, <3>2 DEF InFlight
      <4> QED
        BY <3>2, <4>1 DEF InFlight, Same
    <3> QED
      BY <1>d, <2>1, <3>1, <3>2 DEF InFlight
  <2>2. CASE dialog' = NoDialog
    BY <1>d, <2>2 DEF InFlight, NoDialog
  <2> QED
    BY <1>1, <2>1, <2>2
<1>2. ASSUME NEW t \in Task, PanelServed(t) PROVE InFlight'
  <2>1. PICK changed :
          /\ t \in DOMAIN rows /\ IsRows(changed) /\ DOMAIN changed = DOMAIN rows
          /\ Committed(changed)
          /\ dialog' = [state |-> "saving", task |-> t, version |-> version + 1,
                        row |-> changed[t]]
    BY <1>2, PanelDoes
  <2>2. changed[t] \in Row
    BY <2>1, RowTyped
  <2>3. /\ dialog'.state = "saving" /\ dialog'.task = t /\ dialog'.version = version + 1
        /\ dialog'.row = changed[t]
    BY <2>1
  <2>4. rows' = changed /\ version' = version + 1 /\ version + 1 \in 1 .. (version + 1)
    BY <1>i, <2>1
  <2> QED
    BY <1>d, <2>1, <2>2, <2>3, <2>4 DEF InFlight
<1>3. ASSUME NEW t \in Task, NEW c \in Column, CreateServed(t, c) PROVE InFlight'
  <2>0. PICK row : row = [column |-> c, position |-> NextPosition(c), revision |-> 1]
    OBVIOUS
  <2>1. /\ Committed(WithRow(rows, t, row))
        /\ dialog' = [state |-> "created", task |-> t, version |-> version + 1, row |-> row]
    BY <1>3, <2>0 DEF CreateServed
  <2>2. row \in Row
    BY <1>r, <2>0, NextPositionTyped DEF Row
  <2>3. /\ dialog'.state = "created" /\ dialog'.task = t
        /\ dialog'.version = version + 1 /\ dialog'.row = row
    BY <2>1
  <2>4. version' = version + 1 /\ version + 1 \in 1 .. (version + 1)
    BY <1>i, <2>1
  <2> QED
    BY <1>d, <2>2, <2>3, <2>4 DEF InFlight
<1>4. ASSUME NEW t \in Task, DeleteServed(t) PROVE InFlight'
  <2>1. /\ t \in DOMAIN rows
        /\ Committed(Restrict(rows, DOMAIN rows \ {t})) /\ UNCHANGED used
        /\ dialog' = [state |-> "deleted", task |-> t, version |-> version + 1, row |-> None]
    BY <1>4 DEF DeleteServed
  <2>2. /\ dialog'.state = "deleted" /\ dialog'.task = t
        /\ dialog'.version = version + 1
    BY <2>1
  <2>3. /\ version' = version + 1 /\ version + 1 \in 1 .. (version + 1)
        /\ rows' = Restrict(rows, DOMAIN rows \ {t})
    BY <1>i, <2>1
  <2>4. t \in used /\ t \notin DOMAIN rows'
    BY <2>1, <2>3 DEF InFlight, Restrict
  <2> QED
    BY <1>d, <2>1, <2>2, <2>3, <2>4 DEF InFlight
<1>5. CASE \/ \E t \in Task, c \in Column, a \in Task \cup {None} : OtherMoves(t, c, a)
           \/ \E t \in Task : OtherArchives(t) \/ DragStart(t)
           \/ \E s \in Loads : LoadServed(s) \/ LoadHeard(s) \/ LoadFails(s)
           \/ \E s \in Slot : EventHeard(s) \/ Retry(s)
  BY <1>5, <1>1 DEF OtherMoves, OtherArchives, Others, DragStart, LoadServed, LoadHeard, LoadFails,
                    EventHeard, Retry
<1>6. CASE \/ \E c \in Column, i \in 1 .. Cardinality(Task) : DragOver(c, i)
           \/ DragCancel \/ DropIgnored \/ Placing
           \/ MoveServed \/ MoveFails \/ MoveHeard \/ MoveRolledBack
           \/ CreateHeard \/ DeleteHeard \/ PanelHeard \/ DialogFails \/ UNCHANGED vars
  BY <1>6, <1>1, PlacingQuiet DEF DragOver, DragCancel, DropIgnored,
                    MoveServed, MoveFails, MoveHeard,
                    MoveRolledBack, CreateHeard, DeleteHeard, PanelHeard, DialogFails
<1> QED
  BY <1>2, <1>3, <1>4, <1>5, <1>6 DEF Next, Placing

-----------------------------------------------------------------------------
(* The list becomes the server's.                                          *)

LEMMA NextLoadsTrue == TypeOK /\ InFlight /\ LoadsTrue /\ [Next]_vars => LoadsTrue'
<1> SUFFICES ASSUME TypeOK, InFlight, LoadsTrue, [Next]_vars PROVE LoadsTrue'
  OBVIOUS
<1>r. version \in Nat /\ \A s \in Loads : load[s].version \in Nat
  BY BoundAssumption DEF TypeOK, IsLoad
<1>x. \A s \in Slot \cup {Own} : s \in Loads
  BY DEF Loads
<1>1. CASE Change
  BY <1>1, <1>r DEF Change, LoadsTrue
<1>u. ASSUME Same, UNCHANGED load PROVE LoadsTrue'
  BY <1>u DEF Same, LoadsTrue
<1>o. ASSUME Same, NEW s \in Loads,
             \/ load'[s].state # "answered"
             \/ load'[s].version = version /\ load'[s].rows = rows,
             \A q \in Loads : q # s => load'[q] = load[q]
      PROVE  LoadsTrue'
  BY <1>o, <1>r DEF Same, LoadsTrue
<1>2. ASSUME Same, NEW s \in Loads, LoadServed(s) PROVE LoadsTrue'
  BY <1>2, <1>o, ServedDoes
<1>3. ASSUME Same, NEW s \in Loads, load' = [load EXCEPT ![s] = FreeLoad] PROVE LoadsTrue'
  BY <1>3, <1>o, FreedDoes
<1>4. ASSUME Same, NEW s \in Loads, Ask(s) PROVE LoadsTrue'
  BY <1>4, <1>o, AskDoes
<1>5. CASE Same
  <2>1. CASE \E s \in Loads : LoadServed(s) \/ LoadHeard(s) \/ LoadFails(s)
    BY <1>2, <1>3, <1>5, <2>1 DEF LoadHeard, LoadFails
  <2>2. CASE \/ \E s \in Slot : EventHeard(s) \/ Retry(s)
             \/ MoveHeard \/ MoveRolledBack
    BY <1>4, <1>5, <1>x, <2>2 DEF EventHeard, Retry, MoveHeard, MoveRolledBack, ReloadAfterRollback
  <2>3. CASE \/ \E t \in Task, c \in Column, a \in Task \cup {None} : OtherMoves(t, c, a)
             \/ \E t \in Task : OtherArchives(t) \/ DragStart(t)
    BY <1>5, <1>u, <2>3 DEF OtherMoves, OtherArchives, Others, DragStart
  <2>4. CASE \/ \E c \in Column, i \in 1 .. Cardinality(Task) : DragOver(c, i)
             \/ DragCancel \/ DropIgnored \/ Placing \/ MoveServed \/ MoveFails
             \/ DialogServes
             \/ CreateHeard \/ DeleteHeard \/ PanelHeard \/ DialogFails \/ UNCHANGED vars
    BY <1>5, <1>u, <2>4, DialogQuiet, PlacingQuiet
       DEF DragOver, DragCancel, DropIgnored, MoveServed,
           MoveFails, CreateHeard, DeleteHeard, PanelHeard, DialogFails
  <2> QED
    BY <2>1, <2>2, <2>3, <2>4 DEF Next, Placing, DialogServes
<1> QED
  BY <1>1, <1>5, ServerStep

LEMMA NextUpToDate ==
  TypeOK /\ InFlight /\ LoadsTrue /\ UpToDate /\ [Next]_vars => UpToDate'
<1> SUFFICES ASSUME TypeOK, InFlight, LoadsTrue, UpToDate, [Next]_vars PROVE UpToDate'
  OBVIOUS
<1>r. version \in Nat /\ newest \in 0 .. version
  BY BoundAssumption DEF TypeOK
<1>x. \A s \in Slot \cup {Own} : s \in Loads
  BY DEF Loads
<1>1. CASE Change
  BY <1>1 DEF Change, UpToDate, Ahead
<1>a. ASSUME NEW s \in Loads, Ask(s) PROVE UpToDate'
  BY <1>a, AskDoes DEF UpToDate, Ahead
<1>b. ASSUME Same, UNCHANGED <<load, loadError, unheard>> PROVE Ahead' = Ahead
  BY <1>b DEF Same, Ahead
<1>u. ASSUME Same, UNCHANGED <<load, loadError, unheard, history>>,
             \/ mover'.state # "none"
             \/ UNCHANGED <<tasks, mover>>
      PROVE  UpToDate'
  BY <1>b, <1>u DEF Same, UpToDate
<1>2. ASSUME Same, NEW s \in Loads, LoadServed(s) PROVE UpToDate'
  BY <1>2, ServedDoes DEF Same, UpToDate, Ahead
<1>3. ASSUME Same, NEW s \in Loads, LoadFails(s) PROVE UpToDate'
  BY <1>3 DEF LoadFails, UpToDate, Ahead
<1>4. ASSUME Same, NEW s \in Loads, LoadHeard(s) PROVE UpToDate'
  <2>1. /\ load[s].state = "answered" /\ tasks' = load[s].rows
        /\ newest' = IF load[s].version > newest THEN load[s].version ELSE newest
        /\ overtaken' = (load[s].version < newest)
        /\ UNCHANGED <<server, loadError>>
    BY <1>4 DEF LoadHeard, SetTasks, Replaced
  <2>2. /\ load[s].version \in Nat /\ load[s].version <= version
        /\ load[s].version = version => load[s].rows = rows
    BY <2>1 DEF TypeOK, IsLoad, LoadsTrue
  <2>3. CASE load[s].version = version
    <3>1. newest' = version /\ tasks' = rows
      BY <1>r, <2>1, <2>2, <2>3
    <3> QED
      BY <2>1, <3>1 DEF UpToDate
  <2>4. CASE load[s].version # version
    <3>1. \A q \in Loads : q # s => load'[q] = load[q]
      BY <1>4, FreedDoes DEF LoadHeard
    <3>2. Ahead => Ahead'
      BY <2>1, <2>4, <3>1 DEF Ahead
    <3>3. CASE Ahead
      BY <3>2, <3>3 DEF UpToDate
    <3>4. CASE ~Ahead
      <4>1. newest = version
        BY <3>4 DEF UpToDate
      <4>2. newest' = version /\ overtaken'
        <5>1. load[s].version < newest /\ ~(load[s].version > newest)
          BY <1>r, <2>2, <2>4, <4>1
        <5> QED
          BY <2>1, <4>1, <5>1
      <4> QED
        BY <2>1, <4>2 DEF UpToDate
    <3> QED
      BY <3>3, <3>4
  <2> QED
    BY <2>3, <2>4
<1>5. ASSUME CreateHeard PROVE UpToDate'
  <2>0. CASE dialog.task \in DOMAIN tasks
    BY <1>5, <1>u, <2>0 DEF CreateHeard, SetTasks, Same
  <2> SUFFICES ASSUME dialog.task \notin DOMAIN tasks PROVE UpToDate'
    BY <2>0
  <2>1. /\ dialog.version \in 1 .. version
        /\ newest' = IF dialog.version > newest THEN dialog.version ELSE newest
        /\ overtaken' = (overtaken \/ dialog.version <= newest)
        /\ UNCHANGED <<server, load, loadError, mover>>
    BY <1>5 DEF CreateHeard, Patched, InFlight
  <2>2. Ahead' = Ahead
    BY <1>b, <2>1 DEF Same
  <2>3. CASE Ahead
    BY <2>2, <2>3 DEF UpToDate
  <2>4. CASE ~Ahead
    <3>1. newest = version
      BY <2>4 DEF UpToDate
    <3>2. newest' = version /\ overtaken'
      <4>1. dialog.version <= newest /\ ~(dialog.version > newest)
        BY <1>r, <2>1, <3>1
      <4> QED
        BY <2>1, <3>1, <4>1
    <3> QED
      BY <2>1, <3>2 DEF UpToDate
  <2> QED
    BY <2>3, <2>4
<1>6. ASSUME DeleteHeard PROVE UpToDate'
  <2>1. /\ dialog.version \in 1 .. version /\ dialog.task \notin DOMAIN rows
        /\ newest' = IF dialog.version > newest THEN dialog.version ELSE newest
        /\ overtaken' = (overtaken \/ FALSE)
        /\ tasks' = Restrict(tasks, DOMAIN tasks \ {dialog.task})
        /\ UNCHANGED <<server, load, loadError, mover>>
    BY <1>6 DEF DeleteHeard, Patched, InFlight, SetTasks
  <2>2. Ahead' = Ahead
    BY <1>b, <2>1 DEF Same
  <2>3. CASE Ahead
    BY <2>2, <2>3 DEF UpToDate
  <2>4. CASE ~Ahead
    <3>1. /\ newest = version
          /\ mover.state # "none" \/ overtaken \/ tasks = rows
      BY <2>4 DEF UpToDate
    <3>2. newest' = version
      BY <1>r, <2>1, <3>1
    <3>3. ASSUME tasks = rows PROVE tasks' = rows
      BY <2>1, <3>3 DEF Restrict, TypeOK, IsRows
    <3> QED
      BY <2>1, <3>1, <3>2, <3>3 DEF UpToDate
  <2> QED
    BY <2>3, <2>4
<1>7. ASSUME MoveServed \/ MoveFails PROVE mover'.state # "none"
  BY <1>7 DEF MoveServed, MoveFails, TypeOK, IsMove
<1>9. ASSUME PanelHeard PROVE UpToDate'
  <2>1. PICK r :
          /\ SetTasks(r) /\ IsRows(r) /\ DOMAIN r = DOMAIN tasks
          /\ \A u \in DOMAIN tasks : u # dialog.task => r[u] = tasks[u]
          /\ dialog.task \in DOMAIN tasks =>
               /\ r[dialog.task] = dialog.row
               /\ Patched(dialog.version, dialog.version < newest
                                           /\ tasks[dialog.task] # dialog.row)
          /\ dialog.task \notin DOMAIN tasks => UNCHANGED history
    BY <1>9, PanelHeardDoes
  <2>2. /\ tasks' = r /\ UNCHANGED <<server, load, loadError, mover>>
        /\ dialog.state = "saving" /\ dialog.version \in 1 .. version
    BY <1>9, <2>1 DEF PanelHeard, SetTasks, InFlight
  <2>3. ASSUME \A u \in DOMAIN tasks : r[u] = tasks[u] PROVE tasks' = tasks
    <3>1. IsRows(tasks)
      BY DEF TypeOK
    <3> QED
      BY <2>1, <2>2, <2>3, <3>1 DEF IsRows
  <2>4. CASE dialog.task \notin DOMAIN tasks
    <3>1. tasks' = tasks
      BY <2>1, <2>3, <2>4
    <3> QED
      BY <1>u, <2>1, <2>2, <2>4, <3>1 DEF Same
  <2>5. CASE dialog.task \in DOMAIN tasks
    <3>1. /\ newest' = IF dialog.version > newest THEN dialog.version ELSE newest
          /\ overtaken' = (overtaken \/ (dialog.version < newest
                                          /\ tasks[dialog.task] # dialog.row))
      BY <2>1, <2>5 DEF Patched
    <3>2. Ahead' = Ahead
      BY <1>b, <2>2 DEF Same
    <3>3. CASE Ahead
      BY <3>2, <3>3 DEF UpToDate
    <3>4. CASE ~Ahead
      <4>1. newest = version /\ (mover.state # "none" \/ overtaken \/ tasks = rows)
        BY <3>4 DEF UpToDate
      <4>2. newest' = version /\ (dialog.version # version => dialog.version < newest)
        BY <1>r, <2>2, <3>1, <4>1
      <4>3. CASE mover.state # "none" \/ overtaken
        BY <2>2, <3>1, <4>2, <4>3 DEF UpToDate
      <4>4. CASE tasks = rows
        <5>1. dialog.version = version => dialog.row = tasks[dialog.task]
          BY <2>2, <4>4 DEF InFlight
        <5>2. CASE dialog.row = tasks[dialog.task]
          <6>1. tasks' = tasks
            BY <2>1, <2>3, <2>5, <5>2
          <6> QED
            BY <2>2, <4>2, <4>4, <6>1 DEF UpToDate
        <5>3. CASE dialog.row # tasks[dialog.task]
          <6>1. overtaken'
            BY <3>1, <4>2, <5>1, <5>3
          <6> QED
            BY <2>2, <4>2, <6>1 DEF UpToDate
        <5> QED
          BY <5>2, <5>3
      <4> QED
        BY <4>1, <4>3, <4>4
    <3> QED
      BY <3>3, <3>4
  <2> QED
    BY <2>4, <2>5
<1>8. CASE Same
  <2>1. CASE \E s \in Loads : LoadServed(s) \/ LoadHeard(s) \/ LoadFails(s)
    BY <1>2, <1>3, <1>4, <1>8, <2>1
  <2>2. CASE \/ \E s \in Slot : EventHeard(s) \/ Retry(s)
             \/ MoveHeard \/ MoveRolledBack
    BY <1>a, <1>x, <2>2 DEF EventHeard, Retry, MoveHeard, MoveRolledBack, ReloadAfterRollback
  <2>3. CASE \/ \E t \in Task, c \in Column, a \in Task \cup {None} : OtherMoves(t, c, a)
             \/ \E t \in Task : OtherArchives(t)
             \/ DialogServes
    <3>1. \E r : Committed(r)
      BY <2>3 DEF OtherMoves, OtherArchives, DialogServes, CreateServed, DeleteServed, PanelServed
    <3> QED
      BY <1>r, <1>8, <3>1, CommittedDoes DEF Same
  <2>4. CASE \/ \E t \in Task : DragStart(t)
             \/ \E c \in Column, i \in 1 .. Cardinality(Task) : DragOver(c, i)
             \/ DragCancel \/ DropIgnored \/ DialogFails \/ UNCHANGED vars
    BY <1>8, <1>u, <2>4 DEF DragStart, DragOver, DragCancel, DropIgnored,
                            DialogFails
  <2>5. CASE Placing
    <3>1. mover'.state # "none" /\ UNCHANGED <<load, loadError, unheard, history>>
      BY <2>5, PlacingQuiet
    <3> QED
      BY <1>8, <1>u, <3>1
  <2>6. CASE MoveServed \/ MoveFails
    <3>1. UNCHANGED <<load, loadError, history>>
      BY <2>6 DEF MoveServed, MoveFails
    <3>2. UNCHANGED unheard
      BY <1>r, <1>8, <2>6, CommittedDoes DEF MoveServed, MoveFails, Same
    <3> QED
      BY <1>7, <1>8, <1>u, <2>6, <3>1, <3>2
  <2> QED
    BY <1>5, <1>6, <1>9, <2>1, <2>2, <2>3, <2>4, <2>5, <2>6 DEF Next, Placing, DialogServes
<1> QED
  BY <1>1, <1>8, ServerStep

-----------------------------------------------------------------------------
(* What is drawn.                                                          *)

LEMMA NextDrawn == TypeOK /\ Drawn /\ [Next]_vars => Drawn'
<1> SUFFICES ASSUME TypeOK, Drawn, [Next]_vars PROVE Drawn'
  OBVIOUS
<1>n. None \notin Task
  BY TasksAssumption
<1>s. ASSUME NEW r, SetTasks(r), UNCHANGED drag PROVE Drawn'
  BY <1>s DEF SetTasks, LayoutEffect, Drawn
<1>u. ASSUME UNCHANGED <<board, drag>> PROVE Drawn'
  BY <1>u DEF Drawn
<1>1. CASE \E s \in Loads : LoadServed(s) \/ LoadHeard(s) \/ LoadFails(s)
  BY <1>1, <1>s, <1>u DEF LoadServed, LoadHeard, LoadFails
<1>2. CASE \/ \E t \in Task, c \in Column, a \in Task \cup {None} : OtherMoves(t, c, a)
           \/ \E t \in Task : OtherArchives(t)
           \/ \E s \in Slot : EventHeard(s) \/ Retry(s)
           \/ DialogServes
  BY <1>2, <1>u, DialogQuiet DEF OtherMoves, OtherArchives, Others, EventHeard, Retry
<1>3. CASE MoveServed \/ MoveFails \/ MoveHeard \/ DialogFails \/ UNCHANGED vars
  BY <1>3, <1>u DEF MoveServed, MoveFails, MoveHeard, DialogFails
<1>4. CASE MoveRolledBack \/ CreateHeard \/ DeleteHeard \/ PanelHeard
  BY <1>4, <1>s DEF MoveRolledBack, CreateHeard, DeleteHeard, PanelHeard
<1>5. ASSUME NEW t \in Task, DragStart(t) PROVE Drawn'
  BY <1>5, <1>n DEF DragStart, Uncovered, Drawn
<1>6. ASSUME NEW c \in Column, NEW i \in 1 .. Cardinality(Task), DragOver(c, i) PROVE Drawn'
  BY <1>6 DEF DragOver, Drawn
<1>7. CASE DragCancel
  BY <1>7 DEF DragCancel, LayoutRestored, NoDrag, Drawn
<1>8. CASE DropIgnored
  BY <1>8 DEF DropIgnored, NoDrag, Drawn
<1>9. CASE Placing
  <2>1. \E t, c, anchor : MoveTask(t, c, anchor)
    BY <1>9 DEF Placing, Drop, MenuMove
  <2>2. /\ seen' = tasks' /\ layout' = CreateTaskLayout(seen') /\ ~frozen'
        /\ drag' = NoDrag
    BY <2>1 DEF MoveTask
  <2>3. drag'.task = None
    BY <2>2 DEF NoDrag
  <2> QED
    BY <2>2, <2>3 DEF Drawn
<1> QED
  BY <1>1, <1>2, <1>3, <1>4, <1>5, <1>6, <1>7, <1>8, <1>9 DEF Next, Placing, DialogServes

LEMMA NextInAir == TypeOK /\ InAir /\ [Next]_vars => InAir'
<1> SUFFICES ASSUME TypeOK, InAir, [Next]_vars PROVE InAir'
  OBVIOUS
<1>s. ASSUME NEW r, SetTasks(r), UNCHANGED drag PROVE InAir'
  BY <1>s DEF SetTasks, LayoutEffect, InAir
<1>u. ASSUME UNCHANGED <<layout, drag>> PROVE InAir'
  BY <1>u DEF InAir
<1>n. ASSUME drag' = NoDrag PROVE InAir'
  BY <1>n DEF InAir, NoDrag
<1>1. CASE \E s \in Loads : LoadServed(s) \/ LoadHeard(s) \/ LoadFails(s)
  BY <1>1, <1>s, <1>u DEF LoadServed, LoadHeard, LoadFails
<1>2. CASE \/ \E t \in Task, c \in Column, a \in Task \cup {None} : OtherMoves(t, c, a)
           \/ \E t \in Task : OtherArchives(t)
           \/ \E s \in Slot : EventHeard(s) \/ Retry(s)
           \/ DialogServes
  BY <1>2, <1>u, DialogQuiet DEF OtherMoves, OtherArchives, Others, EventHeard, Retry
<1>3. CASE MoveServed \/ MoveFails \/ MoveHeard \/ DialogFails \/ UNCHANGED vars
  BY <1>3, <1>u DEF MoveServed, MoveFails, MoveHeard, DialogFails
<1>4. CASE MoveRolledBack \/ CreateHeard \/ DeleteHeard \/ PanelHeard
  BY <1>4, <1>s DEF MoveRolledBack, CreateHeard, DeleteHeard, PanelHeard
<1>5. ASSUME NEW t \in Task, DragStart(t) PROVE InAir'
  BY <1>5 DEF DragStart, InAir
<1>6. ASSUME NEW c \in Column, NEW i \in 1 .. Cardinality(Task), DragOver(c, i) PROVE InAir'
  <2>1. drag.task \in Task /\ layout \in Layouts
    BY <1>6 DEF DragOver, TypeOK
  <2>2. drag.task \in Range(layout'[c])
    BY <1>6, <2>1, OverLayout DEF DragOver
  <2> QED
    BY <1>6, <2>2 DEF DragOver, InAir
<1>7. CASE DragCancel \/ DropIgnored \/ Placing
  BY <1>7, <1>n, PlacingQuiet DEF DragCancel, DropIgnored
<1> QED
  BY <1>1, <1>2, <1>3, <1>4, <1>5, <1>6, <1>7 DEF Next, Placing, DialogServes

-----------------------------------------------------------------------------
(* What the browser holds is the server's, of today or of an earlier day.  *)

LEMMA EarlierRowsKept ==
  ASSUME TypeOK, TypeOK', Same \/ Change, NEW r, IsRows(r), EarlierRows(r, rows, used)
  PROVE  EarlierRows(r, rows', used')
<1>1. CASE Same
  BY <1>1 DEF Same
<1>2. CASE Change
  <2>1. DOMAIN r \subseteq used'
    BY <1>2 DEF Change, EarlierRows
  <2>2. ASSUME NEW t \in DOMAIN r \cap DOMAIN rows' PROVE Earlier(r[t], rows'[t])
    <3>1. t \in DOMAIN rows
      BY <1>2, <2>2 DEF Change, EarlierRows
    <3>2. Earlier(r[t], rows[t]) /\ Earlier(rows[t], rows'[t])
      BY <1>2, <2>2, <3>1 DEF Change, EarlierRows
    <3>3. IsRows(rows) /\ IsRows(rows')
      BY DEF TypeOK
    <3>4. r[t].revision \in Nat /\ rows[t].revision \in Nat /\ rows'[t].revision \in Nat
      BY <2>2, <3>1, <3>3, RowTyped
    <3> QED
      BY <3>2, <3>4, EarlierThen
  <2> QED
    BY <2>1, <2>2 DEF EarlierRows
<1> QED
  BY <1>1, <1>2

LEMMA RowsEarlier ==
  ASSUME TypeOK, InFlight
  PROVE  EarlierRows(rows, rows, used) /\ EarlierRows(NoRows, rows, used)
<1>1. IsRows(rows)
  BY DEF TypeOK
<1>2. EarlierRows(rows, rows, used)
  BY <1>1, EarlierSelf DEF InFlight, EarlierRows
<1>3. EarlierRows(NoRows, rows, used)
  BY DEF NoRows, EarlierRows
<1> QED
  BY <1>2, <1>3

LEMMA NextLoadsEarlier ==
  TypeOK /\ TypeOK' /\ InFlight /\ LoadsEarlier /\ [Next]_vars => LoadsEarlier'
<1> SUFFICES ASSUME TypeOK, TypeOK', InFlight, LoadsEarlier, [Next]_vars PROVE LoadsEarlier'
  OBVIOUS
<1>s. Same \/ Change
  BY ServerStep
<1>k. ASSUME NEW s \in Loads, load'[s].rows \in {load[s].rows, NoRows, rows}
      PROVE  EarlierRows(load'[s].rows, rows', used')
  <2>1. PICK r : r = load'[s].rows
    OBVIOUS
  <2>2. IsRows(r)
    BY <2>1 DEF TypeOK, IsLoad
  <2>3. EarlierRows(r, rows, used)
    BY <1>k, <2>1, RowsEarlier DEF LoadsEarlier
  <2>4. EarlierRows(r, rows', used')
    BY <1>s, <2>2, <2>3, EarlierRowsKept
  <2> QED
    BY <2>1, <2>4
<1>x. \A s \in Slot \cup {Own} : s \in Loads
  BY DEF Loads
<1>u. ASSUME UNCHANGED load PROVE LoadsEarlier'
  BY <1>u, <1>k DEF LoadsEarlier
<1>o. ASSUME NEW s \in Loads, load'[s].rows \in {load[s].rows, NoRows, rows},
             \A q \in Loads : q # s => load'[q] = load[q]
      PROVE  LoadsEarlier'
  BY <1>o, <1>k DEF LoadsEarlier
<1>2. ASSUME NEW s \in Loads, LoadServed(s) PROVE LoadsEarlier'
  BY <1>2, <1>o, ServedDoes
<1>3. ASSUME NEW s \in Loads, load' = [load EXCEPT ![s] = FreeLoad] PROVE LoadsEarlier'
  BY <1>3, <1>o, FreedDoes
<1>4. ASSUME NEW s \in Loads, Ask(s) PROVE LoadsEarlier'
  BY <1>4, <1>o, AskDoes
<1>5. CASE \E s \in Loads : LoadServed(s) \/ LoadHeard(s) \/ LoadFails(s)
  BY <1>2, <1>3, <1>5 DEF LoadHeard, LoadFails
<1>6. CASE \/ \E s \in Slot : EventHeard(s) \/ Retry(s)
           \/ MoveHeard \/ MoveRolledBack
  BY <1>4, <1>x, <1>6 DEF EventHeard, Retry, MoveHeard, MoveRolledBack, ReloadAfterRollback
<1>7. CASE \/ \E t \in Task, c \in Column, a \in Task \cup {None} : OtherMoves(t, c, a)
           \/ \E t \in Task : OtherArchives(t) \/ DragStart(t)
  BY <1>u, <1>7 DEF OtherMoves, OtherArchives, Others, DragStart
<1>8. CASE \/ \E c \in Column, i \in 1 .. Cardinality(Task) : DragOver(c, i)
           \/ DragCancel \/ DropIgnored \/ Placing \/ MoveServed \/ MoveFails
           \/ DialogServes
           \/ CreateHeard \/ DeleteHeard \/ PanelHeard \/ DialogFails \/ UNCHANGED vars
  BY <1>u, <1>8, DialogQuiet, PlacingQuiet
     DEF DragOver, DragCancel, DropIgnored, MoveServed,
         MoveFails, CreateHeard, DeleteHeard, PanelHeard, DialogFails
<1> QED
  BY <1>5, <1>6, <1>7, <1>8 DEF Next, Placing, DialogServes

LEMMA NextCreated ==
  TypeOK /\ TypeOK' /\ InFlight /\ CreatedEarlier /\ [Next]_vars => CreatedEarlier'
<1> SUFFICES ASSUME TypeOK, TypeOK', InFlight, CreatedEarlier, [Next]_vars PROVE CreatedEarlier'
  OBVIOUS
<1>s. Same \/ Change
  BY ServerStep
<1>r. IsRows(rows) /\ IsRows(rows')
  BY DEF TypeOK
<1>u. ASSUME UNCHANGED dialog PROVE CreatedEarlier'
  <2> SUFFICES ASSUME dialog.state \in {"created", "saving"}
               PROVE  /\ dialog.task \in used'
                      /\ dialog.task \in DOMAIN rows' => Earlier(dialog.row, rows'[dialog.task])
    BY <1>u DEF CreatedEarlier
  <2>1. dialog.task \in used /\ used \subseteq used'
    BY <1>s DEF CreatedEarlier, Same, Change
  <2>2. ASSUME dialog.task \in DOMAIN rows' PROVE Earlier(dialog.row, rows'[dialog.task])
    <3>1. dialog.task \in DOMAIN rows
      BY <1>s, <2>1, <2>2 DEF Same, Change
    <3>2. Earlier(dialog.row, rows[dialog.task])
      BY <3>1 DEF CreatedEarlier
    <3>3. CASE Same
      BY <3>2, <3>3 DEF Same
    <3>4. CASE Change
      <4>1. Earlier(rows[dialog.task], rows'[dialog.task])
        BY <2>2, <3>1, <3>4 DEF Change
      <4>2. dialog.row.revision \in Nat
        BY DEF InFlight, Row
      <4>3. rows[dialog.task].revision \in Nat /\ rows'[dialog.task].revision \in Nat
        BY <1>r, <2>2, <3>1, RowTyped
      <4> QED
        BY <3>2, <4>1, <4>2, <4>3, EarlierThen
    <3> QED
      BY <1>s, <3>3, <3>4
  <2> QED
    BY <2>1, <2>2
<1>n. ASSUME dialog'.state \notin {"created", "saving"} PROVE CreatedEarlier'
  BY <1>n DEF CreatedEarlier
<1>1. ASSUME NEW t \in Task, NEW c \in Column, CreateServed(t, c) PROVE CreatedEarlier'
  <2>0. PICK row : row = [column |-> c, position |-> NextPosition(c), revision |-> 1]
    OBVIOUS
  <2>1. /\ used' = used \cup {t} /\ Committed(WithRow(rows, t, row))
        /\ dialog' = [state |-> "created", task |-> t, version |-> version + 1, row |-> row]
    BY <1>1, <2>0 DEF CreateServed
  <2>2. dialog'.task = t /\ dialog'.row = row
    BY <2>1
  <2>3. rows'[t] = row /\ t \in DOMAIN rows'
    BY <2>1, CommittedDoes DEF WithRow
  <2>4. Earlier(row, row)
    BY <1>r, <2>3, EarlierSelf
  <2> QED
    BY <2>1, <2>2, <2>3, <2>4 DEF CreatedEarlier
<1>2. ASSUME NEW t \in Task, PanelServed(t) PROVE CreatedEarlier'
  <2>1. PICK changed :
          /\ t \in DOMAIN rows /\ IsRows(changed) /\ DOMAIN changed = DOMAIN rows
          /\ Committed(changed) /\ UNCHANGED used
          /\ dialog' = [state |-> "saving", task |-> t, version |-> version + 1,
                        row |-> changed[t]]
    BY <1>2, PanelDoes
  <2>2. dialog'.task = t /\ dialog'.row = changed[t] /\ rows' = changed
    BY <2>1, CommittedDoes
  <2>3. t \in used' /\ Earlier(changed[t], changed[t])
    BY <2>1, EarlierSelf DEF InFlight
  <2> QED
    BY <2>2, <2>3 DEF CreatedEarlier
<1>5. ASSUME CreateHeard \/ DeleteHeard \/ PanelHeard \/ DialogFails PROVE CreatedEarlier'
  <2>1. dialog' = NoDialog /\ NoDialog.state = "none"
    BY <1>5 DEF CreateHeard, DeleteHeard, PanelHeard, DialogFails, NoDialog
  <2> QED
    BY <1>n, <2>1
<1>6. ASSUME NEW t \in Task, DeleteServed(t) PROVE CreatedEarlier'
  <2>1. dialog'.state = "deleted"
    BY <1>6 DEF DeleteServed
  <2> QED
    BY <1>n, <2>1
<1>3. CASE \/ \E t \in Task, c \in Column, a \in Task \cup {None} : OtherMoves(t, c, a)
           \/ \E t \in Task : OtherArchives(t) \/ DragStart(t)
           \/ \E s \in Loads : LoadServed(s) \/ LoadHeard(s) \/ LoadFails(s)
           \/ \E s \in Slot : EventHeard(s) \/ Retry(s)
  BY <1>3, <1>u DEF OtherMoves, OtherArchives, Others, DragStart, LoadServed, LoadHeard, LoadFails,
                    EventHeard, Retry
<1>4. CASE \/ \E c \in Column, i \in 1 .. Cardinality(Task) : DragOver(c, i)
           \/ DragCancel \/ DropIgnored \/ Placing
           \/ MoveServed \/ MoveFails \/ MoveHeard \/ MoveRolledBack \/ UNCHANGED vars
  BY <1>4, <1>u, PlacingQuiet DEF DragOver, DragCancel, DropIgnored,
                    MoveServed, MoveFails, MoveHeard, MoveRolledBack
<1> QED
  BY <1>1, <1>2, <1>3, <1>4, <1>5, <1>6 DEF Next, Placing

LEMMA NextRemembers ==
  TypeOK /\ TypeOK' /\ InFlight /\ Drawn /\ InAir /\ ListEarlier /\ MoveRemembers /\ [Next]_vars
    => MoveRemembers'
<1> SUFFICES ASSUME TypeOK, TypeOK', InFlight, Drawn, InAir, ListEarlier, MoveRemembers, [Next]_vars
             PROVE  MoveRemembers'
  OBVIOUS
<1>s. Same \/ Change
  BY ServerStep
<1>k. ASSUME NEW r, IsRows(r), EarlierRows(r, rows, used) PROVE EarlierRows(r, rows', used')
  BY <1>s, <1>k, EarlierRowsKept
<1>m. IsMove(mover) /\ IsRows(mover.rollback)
  BY DEF TypeOK, IsMove
<1>u. ASSUME UNCHANGED mover PROVE MoveRemembers'
  <2>1. mover.state # "none" => EarlierRows(mover.rollback, rows', used')
    BY <1>k, <1>m DEF MoveRemembers
  <2> QED
    BY <1>u, <2>1 DEF MoveRemembers
<1>n. ASSUME mover' = NoMove PROVE MoveRemembers'
  BY <1>n DEF MoveRemembers, NoMove
<1>l. ASSUME mover' = Reloading PROVE MoveRemembers'
  BY <1>l DEF MoveRemembers, Reloading, NoMove, EarlierRows, NoRows
<1>e. ASSUME NEW p \in {"accepted", "refused"}, mover.state # "none",
             mover' = [mover EXCEPT !.state = p]
      PROVE  MoveRemembers'
  <2>1. EarlierRows(mover.rollback, rows', used')
    BY <1>e, <1>k, <1>m DEF MoveRemembers
  <2>2. mover'.state # "sent" /\ mover'.rollback = mover.rollback
    BY <1>e, <1>m DEF IsMove
  <2> QED
    BY <2>1, <2>2 DEF MoveRemembers
<1>1. ASSUME NEW s \in Loads, mover' = MoverAfter(s) PROVE MoveRemembers'
  BY <1>1, <1>u, <1>n DEF MoverAfter
<1>2. CASE Placing
  <2>1. PICK t \in DOMAIN tasks, c \in Column, anchor \in Task \cup {None} :
          \E moved : Dropped(t, c, anchor, moved)
    BY <1>2, DropDoes
  <2>2. PICK moved : Dropped(t, c, anchor, moved)
    BY <2>1
  <2>3. /\ mover.state = "none" /\ mover'.state = "sent" /\ mover'.task = t
        /\ mover'.expected = tasks[t].revision /\ mover'.rollback = tasks
        /\ mover'.seen = seen /\ mover'.frozen = frozen
    BY <2>2 DEF Dropped
  <2>4. IsRows(tasks) /\ EarlierRows(tasks, rows, used)
    BY <2>3 DEF TypeOK, ListEarlier, Placed, EarlierRows
  <2>5. EarlierRows(tasks, rows', used')
    BY <1>k, <2>4
  <2>6. ~frozen => seen = tasks
    BY DEF Drawn
  <2> QED
    BY <2>3, <2>5, <2>6 DEF MoveRemembers
<1>3. CASE MoveServed
  BY <1>3, <1>e DEF MoveServed
<1>4. CASE MoveFails
  BY <1>4, <1>e DEF MoveFails
<1>5. CASE MoveHeard
  BY <1>5, <1>l DEF MoveHeard
<1>6. CASE MoveRolledBack
  BY <1>6, <1>l DEF MoveRolledBack, ReloadAfterRollback
<1>7. CASE \E s \in Loads : LoadHeard(s) \/ LoadFails(s)
  BY <1>1, <1>7 DEF LoadHeard, LoadFails
<1>8. CASE \/ \E t \in Task, c \in Column, a \in Task \cup {None} : OtherMoves(t, c, a)
           \/ \E t \in Task : OtherArchives(t) \/ DragStart(t)
           \/ \E s \in Loads : LoadServed(s)
           \/ \E s \in Slot : EventHeard(s) \/ Retry(s)
  BY <1>8, <1>u DEF OtherMoves, OtherArchives, Others, DragStart,
                    LoadServed, EventHeard, Retry
<1>9. CASE \/ \E c \in Column, i \in 1 .. Cardinality(Task) : DragOver(c, i)
           \/ DragCancel \/ DropIgnored
           \/ DialogServes
           \/ CreateHeard \/ DeleteHeard \/ PanelHeard \/ DialogFails \/ UNCHANGED vars
  BY <1>9, <1>u, DialogQuiet DEF DragOver, DragCancel, DropIgnored, CreateHeard, DeleteHeard,
                                 PanelHeard, DialogFails
<1> QED
  BY <1>2, <1>3, <1>4, <1>5, <1>6, <1>7, <1>8, <1>9 DEF Next, Placing, DialogServes

LEMMA NextListEarlier ==
  TypeOK /\ TypeOK' /\ OwnAwaited /\ InFlight /\ InAir /\ Trust /\ [Next]_vars => ListEarlier'
<1> SUFFICES ASSUME TypeOK, TypeOK', OwnAwaited, InFlight, InAir, Trust, [Next]_vars
             PROVE  ListEarlier'
  OBVIOUS
<1>s. Same \/ Change
  BY ServerStep
<1>r. IsRows(rows) /\ IsRows(rows') /\ IsRows(tasks)
  BY DEF TypeOK
<1>l. ListEarlier
  BY DEF Trust
<1>e. ASSUME NEW t \in DOMAIN tasks \cap DOMAIN rows'
      PROVE  t \in DOMAIN rows /\ (Earlier(tasks[t], rows[t]) => Earlier(tasks[t], rows'[t]))
  <2>1. t \in DOMAIN rows
    BY <1>s, <1>l DEF Same, Change, ListEarlier
  <2>2. ASSUME Earlier(tasks[t], rows[t]) PROVE Earlier(tasks[t], rows'[t])
    <3>1. CASE Same
      BY <2>2, <3>1 DEF Same
    <3>2. CASE Change
      <4>1. Earlier(rows[t], rows'[t])
        BY <2>1, <3>2 DEF Change
      <4>2. tasks[t].revision \in Nat /\ rows[t].revision \in Nat /\ rows'[t].revision \in Nat
        BY <1>r, <2>1, RowTyped
      <4> QED
        BY <2>2, <4>1, <4>2, EarlierThen
    <3> QED
      BY <1>s, <3>1, <3>2
  <2> QED
    BY <2>1, <2>2
<1>d. DOMAIN tasks \subseteq used'
  BY <1>s, <1>l DEF Same, Change, ListEarlier
\* A list that only lost rows, while the move keeps the card it has placed.
<1>k. ASSUME DOMAIN tasks' \subseteq DOMAIN tasks, \A t \in DOMAIN tasks' : tasks'[t] = tasks[t],
             \A t \in DOMAIN tasks' : Placed(t) => Placed(t)'
      PROVE  ListEarlier'
  <2>1. ASSUME NEW t \in DOMAIN tasks' \cap DOMAIN rows' PROVE Earlier(tasks'[t], rows'[t]) \/ Placed(t)'
    <3>1. t \in DOMAIN tasks \cap DOMAIN rows' /\ tasks'[t] = tasks[t]
      BY <1>k, <2>1
    <3>2. Earlier(tasks[t], rows[t]) \/ Placed(t)
      BY <1>e, <1>l, <3>1 DEF ListEarlier
    <3> QED
      BY <1>e, <1>k, <2>1, <3>1, <3>2
  <2> QED
    BY <1>d, <1>k, <2>1 DEF ListEarlier
<1>u. ASSUME UNCHANGED <<tasks, mover>> PROVE ListEarlier'
  BY <1>u, <1>k DEF Placed
<1>n. ASSUME UNCHANGED tasks, mover.state \notin {"sent", "refused"} PROVE ListEarlier'
  BY <1>n, <1>k DEF Placed
\* A list that comes from the server or from before the drop.
<1>w. ASSUME Same, NEW r, tasks' = r, EarlierRows(r, rows, used) PROVE ListEarlier'
  BY <1>w DEF Same, ListEarlier, EarlierRows
<1>1. ASSUME NEW s \in Loads, LoadHeard(s) PROVE ListEarlier'
  <2>1. tasks' = load[s].rows /\ Same
    BY <1>1 DEF LoadHeard, SetTasks, Same
  <2>2. EarlierRows(load[s].rows, rows, used)
    BY DEF Trust, LoadsEarlier
  <2> QED
    BY <1>w, <2>1, <2>2
<1>2. ASSUME NEW s \in Loads, LoadFails(s) PROVE ListEarlier'
  <2>1. load[s].state = "asked" /\ mover' = MoverAfter(s) /\ UNCHANGED tasks
    BY <1>2 DEF LoadFails
  <2>2. CASE s = Own
    BY <1>n, <2>1, <2>2 DEF OwnAwaited
  <2>3. CASE s # Own
    BY <1>u, <2>1, <2>3 DEF MoverAfter
  <2> QED
    BY <2>2, <2>3
<1>3. CASE Placing
  <2>1. PICK t \in DOMAIN tasks, c \in Column, anchor \in Task \cup {None} :
          \E moved : Dropped(t, c, anchor, moved)
    BY <1>3, DropDoes
  <2>2. PICK moved : Dropped(t, c, anchor, moved)
    BY <2>1
  <2>3. /\ mover.state = "none" /\ mover'.state = "sent" /\ mover'.task = t
        /\ mover'.to = c /\ mover'.expected = tasks[t].revision
        /\ tasks' = moved /\ Same
    BY <2>2 DEF Dropped, Same
  <2>4. /\ IsRows(moved) /\ DOMAIN moved = DOMAIN tasks
        /\ moved[t].column = c
        /\ \A u \in DOMAIN tasks : /\ moved[u].revision = tasks[u].revision
                                   /\ u # t => moved[u].column = tasks[u].column
    BY <1>r, <2>2, OptimisticRows DEF Dropped
  <2>5. Placed(t)'
    BY <2>3, <2>4 DEF Placed
  <2>6. ASSUME NEW u \in DOMAIN tasks \cap DOMAIN rows, u # t PROVE Earlier(moved[u], rows[u])
    <3>1. Earlier(tasks[u], rows[u])
      BY <1>l, <2>3 DEF ListEarlier, Placed
    <3> QED
      BY <2>4, <2>6, <3>1 DEF Earlier
  <2> QED
    BY <1>d, <2>3, <2>4, <2>5, <2>6 DEF ListEarlier, Same
<1>4. CASE MoveServed
  <2>1. UNCHANGED tasks /\ mover.state = "sent"
    BY <1>4 DEF MoveServed
  <2>2. CASE ~(Editable(mover.task, mover.expected) /\ AnchorHolds(mover.task, mover.to, mover.anchor))
    <3>1. mover' = [mover EXCEPT !.state = "refused"]
      BY <1>4, <2>2 DEF MoveServed
    <3>2. /\ mover'.state = "refused" /\ mover'.task = mover.task
          /\ mover'.to = mover.to /\ mover'.expected = mover.expected
      BY <3>1 DEF TypeOK, IsMove
    <3> QED
      BY <1>k, <2>1, <3>2 DEF Placed
  <2>3. CASE Editable(mover.task, mover.expected) /\ AnchorHolds(mover.task, mover.to, mover.anchor)
    <3>0. PICK moved : moved = Moved(mover.task, mover.to, mover.anchor)
      OBVIOUS
    <3>1. /\ mover.task \in DOMAIN rows /\ rows[mover.task].revision = mover.expected
          /\ mover.to \in Column
      BY <2>1, <2>3 DEF Editable, TypeOK, IsMove
    <3>2. rows' = moved
      <4>1. moved = rows \/ Committed(moved)
        BY <1>4, <2>3, <3>0 DEF MoveServed
      <4>2. moved = rows => rows' = rows
        BY <1>4, <2>3, <3>0 DEF MoveServed
      <4> QED
        BY <4>1, <4>2, CommittedDoes
    <3>3. /\ IsRows(moved) /\ DOMAIN moved = DOMAIN rows
          /\ \A u \in DOMAIN rows :
               /\ rows[u].revision \in Nat /\ rows[u].revision <= moved[u].revision
               /\ moved[u].revision \in Nat
               /\ moved[u].revision = rows[u].revision => moved[u] = rows[u]
          /\ moved[mover.task].column = mover.to
      BY <1>r, <3>0, <3>1, MovedRows
    <3>4. ASSUME NEW t \in DOMAIN tasks \cap DOMAIN rows', Placed(t) PROVE Earlier(tasks[t], rows'[t])
      <4>1. /\ t = mover.task /\ tasks[t].column = mover.to
            /\ tasks[t].revision = rows[t].revision
        BY <3>1, <3>4 DEF Placed
      <4>2. tasks[t].revision <= moved[t].revision /\ moved[t].column = tasks[t].column
        BY <3>1, <3>3, <4>1
      <4> QED
        BY <3>2, <4>2 DEF Earlier
    <3>5. ASSUME NEW t \in DOMAIN tasks \cap DOMAIN rows' PROVE Earlier(tasks[t], rows'[t])
      BY <1>e, <1>l, <3>4, <3>5 DEF ListEarlier
    <3> QED
      BY <1>d, <2>1, <3>5 DEF ListEarlier
  <2> QED
    BY <2>2, <2>3
<1>5. CASE MoveFails
  <2>1. UNCHANGED tasks /\ mover' = [mover EXCEPT !.state = "refused"]
    BY <1>5 DEF MoveFails
  <2>2. /\ mover'.state = "refused" /\ mover'.task = mover.task
        /\ mover'.to = mover.to /\ mover'.expected = mover.expected
    BY <2>1 DEF TypeOK, IsMove
  <2> QED
    BY <1>k, <2>1, <2>2 DEF Placed
<1>6. CASE MoveHeard
  BY <1>6, <1>n DEF MoveHeard
<1>7. CASE MoveRolledBack
  <2>1. tasks' = mover.rollback /\ Same /\ mover.state = "refused"
    BY <1>7 DEF MoveRolledBack, SetTasks, Same
  <2>2. EarlierRows(mover.rollback, rows, used)
    BY <2>1 DEF Trust, MoveRemembers
  <2> QED
    BY <1>w, <2>1, <2>2
<1>8. CASE CreateHeard
  <2>1. /\ dialog.state = "created" /\ Same /\ UNCHANGED mover
        /\ IF dialog.task \in DOMAIN tasks THEN tasks' = tasks
           ELSE tasks' = WithRow(tasks, dialog.task, dialog.row)
    BY <1>8 DEF CreateHeard, SetTasks, Same
  <2>2. CASE dialog.task \in DOMAIN tasks
    BY <1>u, <2>1, <2>2
  <2>3. CASE dialog.task \notin DOMAIN tasks
    <3>1. /\ DOMAIN tasks' = DOMAIN tasks \cup {dialog.task}
          /\ tasks'[dialog.task] = dialog.row
          /\ \A u \in DOMAIN tasks : tasks'[u] = tasks[u]
      BY <2>1, <2>3 DEF WithRow
    <3>2. /\ dialog.task \in used
          /\ dialog.task \in DOMAIN rows => Earlier(dialog.row, rows[dialog.task])
      BY <2>1 DEF Trust, CreatedEarlier
    <3>3. ASSUME NEW t \in DOMAIN tasks \cap DOMAIN rows PROVE Earlier(tasks'[t], rows[t]) \/ Placed(t)'
      BY <1>l, <2>1, <3>1, <3>3 DEF ListEarlier, Placed
    <3> QED
      BY <1>d, <2>1, <3>1, <3>2, <3>3 DEF ListEarlier, Same
  <2> QED
    BY <2>2, <2>3
<1>9. CASE DeleteHeard
  <2>1. tasks' = Restrict(tasks, DOMAIN tasks \ {dialog.task}) /\ UNCHANGED mover
    BY <1>9 DEF DeleteHeard, SetTasks
  <2>2. DOMAIN tasks' \subseteq DOMAIN tasks /\ \A t \in DOMAIN tasks' : tasks'[t] = tasks[t]
    BY <2>1 DEF Restrict
  <2> QED
    BY <1>k, <2>1, <2>2 DEF Placed
<1>10. CASE \/ \E t \in Task, c \in Column, a \in Task \cup {None} : OtherMoves(t, c, a)
            \/ \E t \in Task : OtherArchives(t) \/ DragStart(t)
            \/ \E s \in Loads : LoadServed(s)
            \/ \E s \in Slot : EventHeard(s) \/ Retry(s)
  BY <1>10, <1>u DEF OtherMoves, OtherArchives, Others, DragStart,
                     LoadServed, EventHeard, Retry
<1>11. CASE \/ \E c \in Column, i \in 1 .. Cardinality(Task) : DragOver(c, i)
            \/ DragCancel \/ DropIgnored
            \/ DialogServes \/ DialogFails \/ UNCHANGED vars
  BY <1>11, <1>u, DialogQuiet DEF DragOver, DragCancel, DropIgnored, DialogFails
<1>12. CASE PanelHeard
  <2>1. PICK r :
          /\ SetTasks(r) /\ DOMAIN r = DOMAIN tasks
          /\ \A u \in DOMAIN tasks : u # dialog.task => r[u] = tasks[u]
          /\ dialog.task \in DOMAIN tasks => r[dialog.task] = dialog.row
    BY <1>12, PanelHeardDoes
  <2>2. tasks' = r /\ Same /\ UNCHANGED mover /\ dialog.state = "saving"
    BY <1>12, <2>1 DEF PanelHeard, SetTasks, Same
  <2>3. dialog.task \in DOMAIN rows => Earlier(dialog.row, rows[dialog.task])
    BY <2>2 DEF Trust, CreatedEarlier
  <2>4. ASSUME NEW t \in DOMAIN tasks \cap DOMAIN rows PROVE Earlier(r[t], rows[t]) \/ Placed(t)'
    <3>1. CASE t = dialog.task
      BY <2>1, <2>3, <2>4, <3>1
    <3>2. CASE t # dialog.task
      BY <1>l, <2>1, <2>2, <2>4, <3>2 DEF ListEarlier, Placed
    <3> QED
      BY <3>1, <3>2
  <2> QED
    BY <1>d, <2>1, <2>2, <2>4 DEF ListEarlier, Same
<1> QED
  BY <1>1, <1>2, <1>3, <1>4, <1>5, <1>6, <1>7, <1>8, <1>9, <1>10, <1>11, <1>12
  DEF Next, Placing, DialogServes

-----------------------------------------------------------------------------
(* The theorems.                                                           *)

LEMMA InitInv == Init => IInv
<1> SUFFICES ASSUME Init PROVE IInv
  OBVIOUS
<1>1. TypeOK
  BY InitTyped
<1>2. Own \in Loads /\ \A s \in Loads : load[s] = FreeLoad
  BY DEF Init, Loads
<1>3. FreeLoad.state = "free" /\ FreeLoad.rows = NoRows
  BY DEF FreeLoad
<1>4. OwnAwaited /\ LoadsTrue
  BY <1>2, <1>3 DEF OwnAwaited, LoadsTrue
<1>5. InFlight
  BY DEF Init, NoDialog, InFlight
<1>6. UpToDate
  BY DEF Init, UpToDate
<1>7. Drawn /\ InAir
  BY DEF Init, NoDrag, Drawn, InAir
<1>8. EarlierRows(rows, rows, used) /\ EarlierRows(NoRows, rows, used)
  BY <1>1, <1>5, RowsEarlier
<1>9. ListEarlier
  BY <1>8 DEF Init, ListEarlier, EarlierRows
<1>10. LoadsEarlier
  BY <1>2, <1>3, <1>8 DEF LoadsEarlier
<1>11. mover.state = "none" /\ dialog.state = "none"
  BY DEF Init, NoMove, NoDialog
<1>12. CreatedEarlier /\ MoveRemembers
  BY <1>11 DEF CreatedEarlier, MoveRemembers
<1> QED
  BY <1>1, <1>4, <1>5, <1>6, <1>7, <1>9, <1>10, <1>12 DEF IInv, Trust

LEMMA NextInv == IInv /\ [Next]_vars => IInv'
<1> SUFFICES ASSUME IInv, [Next]_vars PROVE IInv'
  OBVIOUS
<1>1. TypeOK'
  BY NextTyped DEF IInv
<1>2. OwnAwaited' /\ InFlight' /\ LoadsTrue' /\ UpToDate'
  BY NextOwn, NextInFlight, NextLoadsTrue, NextUpToDate DEF IInv
<1>3. Drawn' /\ InAir'
  BY NextDrawn, NextInAir DEF IInv
<1>4. Trust'
  BY <1>1, NextListEarlier, NextLoadsEarlier, NextCreated, NextRemembers DEF IInv, Trust
<1> QED
  BY <1>1, <1>2, <1>3, <1>4 DEF IInv

\* The inductive invariant of the board.
THEOREM Invariance == Spec => []IInv
<1>1. Init => IInv
  BY InitInv
<1>2. IInv /\ [Next]_vars => IInv'
  BY NextInv
<1> QED
  BY <1>1, <1>2, PTL DEF Spec

\* The board's hooks and requests keep their domains.
THEOREM TypeCorrect == Spec => []TypeOK
<1>1. IInv => TypeOK
  BY DEF IInv
<1> QED
  BY <1>1, Invariance, PTL

\* When every request has been answered and every event heard, the list is the
\* server's, and drawn as it is.
THEOREM BoardSettles == Spec => []Settled
<1>1. ASSUME IInv PROVE Settled
  <2> SUFFICES ASSUME Quiet, ~loadError, ~overtaken
               PROVE  /\ tasks = rows
                      /\ layout = CreateTaskLayout(rows) \/ frozen
    BY DEF Settled
  <2>1. ~Ahead
    <3>1. unheard = 0 /\ \A s \in Loads : load[s].state = "free"
      BY DEF Quiet
    <3> QED
      BY <3>1 DEF Ahead
  <2>2. tasks = rows
    BY <1>1, <2>1 DEF IInv, UpToDate, Quiet
  <2>3. ~frozen => layout = CreateTaskLayout(rows)
    BY <1>1, <2>2 DEF IInv, Drawn, Quiet
  <2> QED
    BY <2>2, <2>3
<1> QED
  BY <1>1, Invariance, PTL

\* A move that the server accepts takes the card from the column where its user
\* saw it: with the revision of the drop, the row is in the column of the drop.
THEOREM MovesFromSeen == Spec => MoveFromSeen
<1>1. ASSUME IInv, [Next]_vars, mover.state = "sent", mover'.state = "accepted", ~mover.frozen
      PROVE  rows[mover.task].column = mover.seen[mover.task].column
  <2>1. MoveServed
    <3>1. ASSUME NEW s \in Loads, LoadHeard(s) \/ LoadFails(s) PROVE mover'.state # "accepted"
      BY <1>1, <3>1 DEF LoadHeard, LoadFails, MoverAfter, NoMove
    <3>2. CASE UNCHANGED mover
      BY <1>1, <3>2
    <3>3. IsMove(mover)
      BY <1>1 DEF IInv, TypeOK
    <3>4. CASE MoveFails \/ MoveHeard \/ MoveRolledBack
      BY <1>1, <3>3, <3>4 DEF MoveFails, MoveHeard, MoveRolledBack, ReloadAfterRollback, IsMove
    <3>5. CASE Placing
      BY <1>1, <3>5, PlacingQuiet
    <3>6. CASE \/ \E t \in Task, c \in Column, a \in Task \cup {None} : OtherMoves(t, c, a)
               \/ \E t \in Task : OtherArchives(t) \/ DragStart(t)
               \/ \E s \in Loads : LoadServed(s)
               \/ \E s \in Slot : EventHeard(s) \/ Retry(s)
      BY <3>2, <3>6 DEF OtherMoves, OtherArchives, Others, DragStart,
                        LoadServed, EventHeard, Retry
    <3>7. CASE \/ \E c \in Column, i \in 1 .. Cardinality(Task) : DragOver(c, i)
               \/ DragCancel \/ DropIgnored
               \/ DialogServes
               \/ CreateHeard \/ DeleteHeard \/ PanelHeard \/ DialogFails \/ UNCHANGED vars
      BY <3>2, <3>7, DialogQuiet DEF DragOver, DragCancel, DropIgnored, CreateHeard, DeleteHeard,
                                     PanelHeard, DialogFails
    <3> QED
      BY <1>1, <3>1, <3>4, <3>5, <3>6, <3>7 DEF Next, Placing, DialogServes
  <2>2. mover.task \in DOMAIN rows /\ rows[mover.task].revision = mover.expected
    <3>1. ~Editable(mover.task, mover.expected) => mover' = [mover EXCEPT !.state = "refused"]
      BY <2>1 DEF MoveServed
    <3>2. IsMove(mover)
      BY <1>1 DEF IInv, TypeOK
    <3> QED
      BY <1>1, <3>1, <3>2 DEF Editable, IsMove
  <2>3. /\ EarlierRows(mover.rollback, rows, used)
        /\ mover.task \in DOMAIN mover.rollback
        /\ mover.expected = mover.rollback[mover.task].revision
        /\ mover.seen = mover.rollback
    BY <1>1 DEF IInv, Trust, MoveRemembers
  <2>4. Earlier(mover.rollback[mover.task], rows[mover.task])
    BY <2>2, <2>3 DEF EarlierRows
  <2> QED
    BY <2>2, <2>3, <2>4 DEF Earlier
<1>2. IInv /\ [Next]_vars =>
        [mover.state = "sent" /\ mover'.state = "accepted" /\ ~mover.frozen
           => rows[mover.task].column = mover.seen[mover.task].column]_vars
  BY <1>1
<1>3. Spec => [][Next]_vars
  BY DEF Spec
<1> QED
  BY <1>2, <1>3, Invariance, PTL DEF MoveFromSeen
=============================================================================
