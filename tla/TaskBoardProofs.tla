-------------------------- MODULE TaskBoardProofs --------------------------
(***************************************************************************)
(* Proofs about the commands of the board and the key they are sent with.  *)
(* TaskBoard: for every number of tasks and columns and every bound on the *)
(* revisions; the inductive invariant IInv is the conjunction of TypeOK    *)
(* and the state properties of the module.  Idempotency: in the last part. *)
(***************************************************************************)
EXTENDS TaskBoard, Idempotency, FiniteSetTheorems, TLAPS

-----------------------------------------------------------------------------
(* Positions and ranks.                                                    *)

\* A nonempty finite set of naturals has a greatest element: a minimal
\* counterexample would stay one without one of its elements.
LEMMA GreatestExists ==
  ASSUME NEW S \in SUBSET Nat, IsFiniteSet(S), S # {}
  PROVE  \E m \in S : \A x \in S : x =< m
<1> DEFINE HasGreatest(T) == \E m \in T : \A x \in T : x =< m
           Bad == {T \in FiniteSubsetsOf(S) : T # {} /\ ~HasGreatest(T)}
<1>1. S \in FiniteSubsetsOf(S)
  BY DEF FiniteSubsetsOf
<1>2. SUFFICES ASSUME Bad # {} PROVE FALSE
  BY <1>1
<1>3. PICK T \in Bad : \A U \in Bad : <<U, T>> \notin StrictSubsetOrdering(S)
  <2>1. Bad \subseteq FiniteSubsetsOf(S)
    OBVIOUS
  <2>2. IsWellFoundedOn(StrictSubsetOrdering(S), FiniteSubsetsOf(S))
    BY FS_StrictSubsetOrderingWellFounded
  <2> HIDE DEF Bad
  <2> QED BY <1>2, <2>1, <2>2, WFMin
<1>4. T \in SUBSET S /\ IsFiniteSet(T) /\ T # {} /\ ~HasGreatest(T)
  BY DEF FiniteSubsetsOf
<1>5. PICK a \in T : TRUE
  BY <1>4
<1> DEFINE U == T \ {a}
<1>6. U \in SUBSET S /\ IsFiniteSet(U)
  BY <1>4, FS_RemoveElement
<1>7. U # {}
  BY <1>4, <1>5
<1>8. <<U, T>> \in StrictSubsetOrdering(S)
  BY <1>4, <1>5, <1>6 DEF StrictSubsetOrdering
<1>9. U \notin Bad
  BY <1>3, <1>8
<1>10. PICK m \in U : \A x \in U : x =< m
  BY <1>6, <1>7, <1>9 DEF FiniteSubsetsOf
<1>11. a \in Nat /\ m \in Nat /\ T \subseteq Nat
  BY <1>4, <1>5
<1>12. CASE a =< m
  BY <1>4, <1>10, <1>11, <1>12
<1>13. CASE m =< a
  BY <1>4, <1>10, <1>11, <1>13
<1> QED BY <1>11, <1>12, <1>13

\* What SELECT coalesce(max(position), -1) + 1 returns: a position after all.
LEMMA NextAfterAbove ==
  ASSUME NEW S \in SUBSET Nat, IsFiniteSet(S)
  PROVE  NextAfter(S) \in Nat /\ \A x \in S : x < NextAfter(S)
<1>1. CASE S = {}
  BY <1>1 DEF NextAfter
<1>2. CASE S # {}
  <2>1. PICK m \in S : \A x \in S : m >= x
    BY <1>2, GreatestExists
  <2>2. Max(S) \in S /\ \A x \in S : Max(S) >= x
    BY <2>1 DEF Max
  <2>3. NextAfter(S) = Max(S) + 1
    BY <1>2 DEF NextAfter
  <2>4. Max(S) \in Nat
    BY <2>2
  <2> HIDE DEF Max
  <2>5. \A x \in S : x < Max(S) + 1
    BY <2>2, <2>4
  <2> QED BY <2>3, <2>4, <2>5
<1> QED BY <1>1, <1>2

\* The positions of finitely many tasks are finitely many naturals.
LEMMA TaskPositions ==
  ASSUME TypeOK, NEW S \in SUBSET Task
  PROVE  LET P == {task[t].position : t \in S} IN P \in SUBSET Nat /\ IsFiniteSet(P)
<1> DEFINE P == {task[t].position : t \in S}
           f == [t \in S |-> task[t].position]
<1>1. P \in SUBSET Nat
  BY DEF TypeOK, TaskRow
<1>2. IsFiniteSet(S)
  BY IdsAssumption, FS_Subset
<1>3. f \in Surjection(S, P)
  BY DEF Surjection
<1>4. IsFiniteSet(P)
  BY <1>2, <1>3, FS_Surjection
<1> QED BY <1>1, <1>4

LEMMA ColumnPositions ==
  ASSUME TypeOK
  PROVE  LET P == {status[s].position : s \in ActiveStatuses}
         IN  P \in SUBSET Nat /\ IsFiniteSet(P)
<1> DEFINE P == {status[s].position : s \in ActiveStatuses}
           f == [s \in ActiveStatuses |-> status[s].position]
<1>1. P \in SUBSET Nat
  BY DEF TypeOK, StatusRow, ActiveStatuses
<1>2. IsFiniteSet(ActiveStatuses)
  BY IdsAssumption, FS_Subset DEF ActiveStatuses
<1>3. f \in Surjection(ActiveStatuses, P)
  BY DEF Surjection
<1>4. IsFiniteSet(P)
  BY <1>2, <1>3, FS_Surjection
<1> QED BY <1>1, <1>4

LEMMA NextPositionAbove ==
  ASSUME TypeOK, NEW s, NEW p
  PROVE  /\ NextPosition(s, p) \in Nat
         /\ \A t \in Scope(s, p) : task[t].position < NextPosition(s, p)
<1> DEFINE P == {task[t].position : t \in Scope(s, p)}
<1>1. P \in SUBSET Nat /\ IsFiniteSet(P)
  BY TaskPositions DEF Scope
<1>2. NextAfter(P) \in Nat /\ \A x \in P : x < NextAfter(P)
  BY <1>1, NextAfterAbove
<1> QED BY <1>2 DEF NextPosition

LEMMA NextColumnPositionAbove ==
  ASSUME TypeOK
  PROVE  /\ NextColumnPosition \in Nat
         /\ \A s \in ActiveStatuses : status[s].position < NextColumnPosition
<1> DEFINE P == {status[s].position : s \in ActiveStatuses}
<1>1. P \in SUBSET Nat /\ IsFiniteSet(P)
  BY ColumnPositions
<1>2. NextAfter(P) \in Nat /\ \A x \in P : x < NextAfter(P)
  BY <1>1, NextAfterAbove
<1> QED BY <1>2 DEF NextColumnPosition

\* How many tasks of T lie before task u.
Rank(T, u) == Cardinality({v \in T : task[v].position < task[u].position})

LEMMA RankType ==
  ASSUME TypeOK, NEW T \in SUBSET Task, NEW u
  PROVE  /\ Cardinality(T) \in Nat
         /\ Rank(T, u) \in Nat /\ Rank(T, u) =< Cardinality(T)
<1> DEFINE B == {v \in T : task[v].position < task[u].position}
<1>1. IsFiniteSet(T)
  BY IdsAssumption, FS_Subset
<1>2. IsFiniteSet(B) /\ Cardinality(B) =< Cardinality(T)
  BY <1>1, FS_Subset
<1> QED BY <1>1, <1>2, FS_CardinalityType DEF Rank

\* A task of T has fewer tasks before it than a task that lies after it has, and
\* fewer than there are in T.
LEMMA RankMonotone ==
  ASSUME TypeOK, NEW T \in SUBSET Task, NEW u \in T, NEW w \in T,
         task[u].position < task[w].position
  PROVE  Rank(T, u) < Rank(T, w)
<1> DEFINE B(x) == {v \in T : task[v].position < task[x].position}
<1>1. \A v \in T : task[v].position \in Nat
  BY DEF TypeOK, TaskRow
<1>2. B(u) \subseteq B(w)
  BY <1>1
<1>3. u \in B(w) /\ u \notin B(u)
  BY <1>1
<1>4. IsFiniteSet(B(w))
  BY IdsAssumption, FS_Subset
<1>5. Cardinality(B(u)) =< Cardinality(B(w)) /\ Cardinality(B(u)) # Cardinality(B(w))
  BY <1>2, <1>3, <1>4, FS_Subset
<1>6. Rank(T, u) = Cardinality(B(u)) /\ Rank(T, w) = Cardinality(B(w))
  BY DEF Rank
<1>7. Rank(T, u) \in Nat /\ Rank(T, w) \in Nat
  BY RankType
<1> HIDE DEF B
<1> QED BY <1>5, <1>6, <1>7

LEMMA RankBound ==
  ASSUME TypeOK, NEW T \in SUBSET Task, NEW u \in T
  PROVE  Rank(T, u) < Cardinality(T)
<1> DEFINE B == {v \in T : task[v].position < task[u].position}
<1>1. u \notin B
  BY DEF TypeOK, TaskRow
<1>2. IsFiniteSet(T)
  BY IdsAssumption, FS_Subset
<1>3. Cardinality(B) =< Cardinality(T) /\ Cardinality(B) # Cardinality(T)
  BY <1>1, <1>2, FS_Subset
<1>4. Rank(T, u) = Cardinality(B)
  BY DEF Rank
<1>5. Rank(T, u) \in Nat /\ Cardinality(T) \in Nat
  BY RankType
<1> HIDE DEF B
<1> QED BY <1>3, <1>4, <1>5

-----------------------------------------------------------------------------
(* The dense order moveTask saves.                                         *)

LEMMA TargetInScope ==
  ASSUME NEW t, NEW s
  PROVE  /\ Target(t, s) \subseteq Scope(s, task[t].parent)
         /\ Target(t, s) \subseteq Task
         /\ t \notin Target(t, s)
BY DEF Target, Scope

\* Every listed task gets a place below the number of listed tasks, no two get
\* the same, and tasks other than the moved one keep their relative order.
LEMMA ReorderedDense ==
  ASSUME TypeOK, PositionsUnique, NEW t \in Task, NEW s,
         NEW anchor \in Target(t, s) \cup {None}
  PROVE  LET order == Reordered(t, s, anchor)
             listed == Target(t, s) \cup {t}
             n == Cardinality(listed)
         IN  /\ n \in Nat
             /\ DOMAIN order = listed
             /\ \A u \in listed : order[u] \in Nat /\ order[u] < n
             /\ \A u, w \in listed : u # w => order[u] # order[w]
             /\ \A u, w \in Target(t, s) :
                  task[u].position < task[w].position => order[u] < order[w]
<1> DEFINE T == Target(t, s)
           order == Reordered(t, s, anchor)
           listed == T \cup {t}
           n == Cardinality(listed)
<1>1. T \in SUBSET Task /\ t \notin T /\ None \notin T
  BY TargetInScope, IdsAssumption
<1>2. Cardinality(T) \in Nat /\ n = Cardinality(T) + 1
  <2>1. IsFiniteSet(T)
    BY <1>1, IdsAssumption, FS_Subset
  <2> QED BY <1>1, <2>1, FS_AddElement, FS_CardinalityType
<1>3. DOMAIN order = listed
  BY DEF Reordered
<1>4. \A u \in T : order[u] = IF anchor # None /\ task[u].position >= task[anchor].position
                                THEN Rank(T, u) + 1 ELSE Rank(T, u)
  BY <1>1 DEF Reordered, Rank
<1>5. order[t] = IF anchor = None THEN Cardinality(T) ELSE Rank(T, anchor)
  BY DEF Reordered, Rank
<1>6. \A u \in T : Rank(T, u) \in Nat /\ Rank(T, u) < Cardinality(T)
  BY <1>1, RankType, RankBound
<1>7. \A u, w \in T : task[u].position < task[w].position => Rank(T, u) < Rank(T, w)
  BY <1>1, RankMonotone
<1>8. \A u, w \in T : u # w => task[u].position # task[w].position
  BY <1>1 DEF PositionsUnique, Target, Scope
<1>9. \A u \in T : task[u].position \in Nat
  BY <1>1 DEF TypeOK, TaskRow
<1> HIDE DEF T, order
<1>10. \A u \in listed : order[u] \in Nat /\ order[u] < n
  <2>1. order[t] \in Nat /\ order[t] < n
    BY <1>2, <1>5, <1>6 DEF T
  <2>2. \A u \in T : order[u] \in Nat /\ order[u] < n
    BY <1>2, <1>4, <1>6
  <2> QED BY <2>1, <2>2
<1>11. \A u, w \in T : task[u].position < task[w].position => order[u] < order[w]
  <2> SUFFICES ASSUME NEW u \in T, NEW w \in T, task[u].position < task[w].position
               PROVE  order[u] < order[w]
    OBVIOUS
  <2>1. Rank(T, u) \in Nat /\ Rank(T, w) \in Nat /\ Rank(T, u) < Rank(T, w)
    BY <1>6, <1>7
  <2>2. CASE anchor = None
    BY <1>4, <2>1, <2>2
  <2>3. CASE anchor \in T
    <3>1. task[u].position \in Nat /\ task[w].position \in Nat /\ task[anchor].position \in Nat
      BY <1>9, <2>3
    <3> QED BY <1>1, <1>4, <2>1, <2>3, <3>1
  <2> QED BY <2>2, <2>3 DEF T
<1>12. \A u \in T : order[u] # order[t]
  <2> SUFFICES ASSUME NEW u \in T PROVE order[u] # order[t]
    OBVIOUS
  <2>1. CASE anchor = None
    BY <1>2, <1>4, <1>5, <1>6, <2>1
  <2>2. CASE anchor \in T
    <3>1. order[t] = Rank(T, anchor) /\ Rank(T, anchor) \in Nat /\ Rank(T, u) \in Nat
      BY <1>1, <1>5, <1>6, <2>2
    <3>2. task[u].position \in Nat /\ task[anchor].position \in Nat
      BY <1>9, <2>2
    <3>3. CASE task[u].position < task[anchor].position
      <4>1. Rank(T, u) < Rank(T, anchor)
        BY <1>7, <2>2, <3>3
      <4> QED BY <1>4, <3>1, <3>2, <3>3, <4>1
    <3>4. CASE task[u].position >= task[anchor].position
      <4>1. u = anchor \/ task[anchor].position < task[u].position
        BY <1>8, <2>2, <3>2, <3>4
      <4>2. Rank(T, anchor) =< Rank(T, u)
        BY <1>7, <2>2, <3>1, <4>1
      <4>3. order[u] = Rank(T, u) + 1
        BY <1>1, <1>4, <2>2, <3>4
      <4> QED BY <3>1, <4>2, <4>3
    <3> QED BY <3>2, <3>3, <3>4
  <2> QED BY <2>1, <2>2 DEF T
<1>13. \A u, w \in T : u # w => order[u] # order[w]
  <2> SUFFICES ASSUME NEW u \in T, NEW w \in T, u # w PROVE order[u] # order[w]
    OBVIOUS
  <2>1. order[u] \in Nat /\ order[w] \in Nat
    BY <1>10
  <2>2. task[u].position < task[w].position \/ task[w].position < task[u].position
    BY <1>8, <1>9
  <2> QED BY <1>11, <2>1, <2>2
<1>14. \A u, w \in listed : u # w => order[u] # order[w]
  BY <1>12, <1>13
<1> QED BY <1>2, <1>3, <1>10, <1>11, <1>14 DEF T, order

-----------------------------------------------------------------------------
(* What a move does to each row.                                           *)

LEMMA ScopePositions ==
  ASSUME TypeOK, NEW t \in Task, NEW s,
         NEW n \in Nat
  PROVE  LET parent == task[t].parent
             scope == Scope(s, parent)
             offset == MoveOffset(s, parent, n)
         IN  /\ offset \in Nat /\ offset > n
             /\ \A u \in scope : task[u].position \in Nat /\ task[u].position < offset
<1>1. \A u \in Scope(s, task[t].parent) : task[u].position \in Nat
  BY DEF TypeOK, TaskRow, Scope
<1> QED BY <1>1, NextPositionAbove DEF MoveOffset

\* The shift of reorderTasks never meets a row it did not shift: a valid move
\* commits.
LEMMA MoveShiftClears ==
  ASSUME TypeOK, NEW t \in Task, NEW s, NEW n \in Nat
  PROVE  LET scope == Scope(s, task[t].parent)
         IN  ~ShiftCollides([u \in scope |-> task[u].position],
                            MoveOffset(s, task[t].parent, n), n)
<1> DEFINE offset == MoveOffset(s, task[t].parent, n)
<1>1. /\ offset \in Nat /\ offset > n
      /\ \A u \in Scope(s, task[t].parent) :
           task[u].position \in Nat /\ task[u].position < offset
  BY ScopePositions
<1> HIDE DEF offset
<1>2. \A u, v \in Scope(s, task[t].parent) :
        task[u].position + offset # task[v].position /\ ~(task[u].position + offset < n)
  BY <1>1
<1> QED BY <1>2 DEF ShiftCollides, offset

\* The rows of a move: a listed task is as it was, in its place already, or saved
\* at its new place; an unlisted row of the scope is shifted; no other row changes.
MoveWrites(t, s, anchor) ==
  LET scope == Scope(s, task[t].parent)
      order == Reordered(t, s, anchor)
      listed == Target(t, s) \cup {t}
      offset == MoveOffset(s, task[t].parent, Cardinality(listed))
  IN  /\ task' = [u \in Task |-> task'[u]]
      /\ \A u \in listed :
           \/ /\ task[u].position = order[u] /\ task[u].status = s
              /\ task'[u] = task[u]
           \/ task'[u] = Saved(u, s, order[u])
      /\ \A u \in scope \ listed :
           task'[u] = [task[u] EXCEPT !.position = @ + offset]
      /\ \A u \in Task \ (scope \cup listed) : task'[u] = task[u]

LEMMA MoveEffect ==
  ASSUME TypeOK, PositionsUnique, NEW t \in Task, NEW r, NEW s \in Status,
         NEW anchor \in Task \cup {None}, MoveTask(t, r, s, anchor)
  PROVE  /\ anchor \in Target(t, s) \cup {None} /\ Editable(t, r)
         /\ aborted' = "none" /\ recorded' = TRUE
         /\ project' = project /\ status' = status
         /\ MoveWrites(t, s, anchor)
<1> DEFINE parent == task[t].parent
           scope == Scope(s, parent)
           order == Reordered(t, s, anchor)
           listed == Target(t, s) \cup {t}
           offset == MoveOffset(s, parent, Cardinality(listed))
           moved == {u \in listed : task[u].position # order[u] \/ task[u].status # s}
<1>1. anchor \in Target(t, s) \cup {None} /\ Editable(t, r)
  BY DEF MoveTask
<1>2. DOMAIN order = listed /\ Cardinality(listed) \in Nat
  BY <1>1, ReorderedDense
<1>3. ~ShiftCollides([u \in scope |-> task[u].position], offset, Cardinality(listed))
  BY <1>2, MoveShiftClears
<1>4. /\ task' = [u \in Task |->
             IF u \in moved
               THEN Saved(u, s, order[u])
               ELSE IF u \in scope \ listed
                 THEN [task[u] EXCEPT !.position = @ + offset]
                 ELSE task[u]]
      /\ Committed(TRUE)
      /\ UNCHANGED <<project, status>>
  <2> HIDE DEF order, offset
  <2> QED BY <1>2, <1>3 DEF MoveTask, order, offset
<1>5. listed \subseteq Task /\ scope \subseteq Task
  BY TargetInScope DEF Scope
<1> HIDE DEF order, listed, offset, scope
<1>6. \A u \in listed :
        \/ /\ task[u].position = order[u] /\ task[u].status = s
           /\ task'[u] = task[u]
        \/ task'[u] = Saved(u, s, order[u])
  BY <1>4, <1>5
<1>7. \A u \in scope \ listed : task'[u] = [task[u] EXCEPT !.position = @ + offset]
  BY <1>4, <1>5
<1>8. \A u \in Task \ (scope \cup listed) : task'[u] = task[u]
  BY <1>4
<1>9. task' = [u \in Task |-> task'[u]]
  BY <1>4
<1> QED
  BY <1>1, <1>4, <1>6, <1>7, <1>8, <1>9
     DEF MoveWrites, Committed, order, listed, offset, scope

-----------------------------------------------------------------------------
(* The inductive invariant, and one lemma per command.                     *)

IInv ==
  /\ TypeOK
  /\ PositionsUnique
  /\ NumbersUnique
  /\ ColumnsUnique
  /\ ColumnKept
  /\ MovesCommit

\* Commands on tasks leave what is said about columns alone.
LEMMA ColumnsUntouched ==
  ASSUME IInv, status' = status
  PROVE  ColumnsUnique' /\ ColumnKept'
BY DEF IInv, ColumnsUnique, ColumnKept, ActiveStatuses

\* Commands on columns and on the lifecycle of the project leave what is said
\* about tasks alone.
LEMMA TasksUntouched ==
  ASSUME IInv, task' = task, project'.nextTaskNumber = project.nextTaskNumber
  PROVE  PositionsUnique' /\ NumbersUnique'
BY DEF IInv, PositionsUnique, NumbersUnique

LEMMA CreateTaskKeeps ==
  ASSUME IInv, NEW t \in Task, NEW s \in Status, NEW p \in Task \cup {None},
         NEW x \in Text, CreateTask(t, s, p, x)
  PROVE  IInv'
<1> USE DEF IInv
<1> DEFINE place == NextPosition(s, p)
           new == [state |-> "active", number |-> project.nextTaskNumber, parent |-> p,
                   status |-> s, position |-> place, revision |-> 1, text |-> x]
<1>1. /\ place \in Nat
      /\ \A u \in Scope(s, p) : task[u].position < place /\ task[u].position \in Nat
  BY NextPositionAbove DEF TypeOK, TaskRow, Scope
<1> HIDE DEF place
<1>2. /\ task' = [task EXCEPT ![t] = new]
      /\ project' = [project EXCEPT !.nextTaskNumber = project.nextTaskNumber + 1]
      /\ status' = status /\ recorded' = TRUE /\ aborted' = "none"
      /\ task[t].state = "absent" /\ (p # None => CanBeParent(p))
  BY DEF CreateTask, Committed, NumberAfterCreate, place
<1>3. \A u \in Task \ {t} : task'[u] = task[u]
  BY <1>2 DEF TypeOK
<1>4. task'[t] = new
  BY <1>2 DEF TypeOK
<1>5. TypeOK'
  <2>1. project' \in ProjectRow
    BY <1>2 DEF TypeOK, ProjectRow
  <2>2. new \in TaskRow
    BY <1>1 DEF TypeOK, ProjectRow, TaskRow, Lifecycle
  <2> QED BY <1>2, <2>1, <2>2 DEF TypeOK
<1>6. PositionsUnique'
  <2> SUFFICES ASSUME NEW u \in Task, NEW v \in Task, u # v,
                      task'[u].state = "active", task'[v].state = "active",
                      task'[u].status = task'[v].status, task'[u].parent = task'[v].parent
               PROVE  task'[u].position # task'[v].position
    BY DEF PositionsUnique
  <2>1. CASE u # t /\ v # t
    BY <1>3, <2>1 DEF PositionsUnique
  <2>2. CASE u = t
    <3>1. v \in Scope(s, p)
      BY <1>3, <1>4, <2>2 DEF Scope
    <3> QED BY <1>1, <1>3, <1>4, <2>2, <3>1
  <2>3. CASE v = t
    <3>1. u \in Scope(s, p)
      BY <1>3, <1>4, <2>3 DEF Scope
    <3> QED BY <1>1, <1>3, <1>4, <2>3, <3>1
  <2> QED BY <2>1, <2>2, <2>3
<1>7. NumbersUnique'
  <2>1. /\ project.nextTaskNumber \in Nat
        /\ project'.nextTaskNumber = project.nextTaskNumber + 1
        /\ \A u \in Task : task[u].number \in Nat
    BY <1>2 DEF TypeOK, ProjectRow, TaskRow
  <2> QED BY <1>3, <1>4, <2>1 DEF NumbersUnique
<1>8. MovesCommit'
  BY <1>2 DEF MovesCommit
<1> QED BY <1>2, <1>5, <1>6, <1>7, <1>8, ColumnsUntouched

\* Every other command on tasks leaves the numbers as they are.
LEMMA NumbersUntouched ==
  ASSUME IInv, project' = project,
         \A u \in Task : /\ task'[u].number = task[u].number
                         /\ task'[u].state = "absent" <=> task[u].state = "absent"
  PROVE  NumbersUnique'
BY DEF IInv, NumbersUnique

LEMMA UpdateTaskKeeps ==
  ASSUME IInv, NEW t \in Task, NEW r \in 1 .. MaxRevision, NEW x \in Text,
         UpdateTask(t, r, x)
  PROVE  IInv'
<1> USE DEF IInv
<1> DEFINE revised == task[t].revision + 1
<1>0. task[t] \in TaskRow /\ revised \in Nat
  BY DEF TypeOK, TaskRow
<1> HIDE DEF revised
<1>1. /\ task' = [task EXCEPT ![t].text = x, ![t].revision = revised]
      /\ project' = project /\ status' = status
      /\ recorded' \in BOOLEAN /\ aborted' = "none"
  BY DEF UpdateTask, Committed, revised
<1>2. task'[t] = [task[t] EXCEPT !.text = x, !.revision = revised]
  BY <1>1 DEF TypeOK
<1>3. \A u \in Task \ {t} : task'[u] = task[u]
  BY <1>1 DEF TypeOK
<1>5. TypeOK'
  <2>1. task'[t] \in TaskRow
    BY <1>0, <1>2 DEF TaskRow
  <2>2. task' \in [Task -> TaskRow]
    BY <1>1, <1>3, <2>1 DEF TypeOK
  <2> QED BY <1>1, <2>2 DEF TypeOK
<1>6. \A u \in Task : /\ task'[u].number = task[u].number
                      /\ task'[u].parent = task[u].parent
                      /\ task'[u].status = task[u].status
                      /\ task'[u].position = task[u].position
                      /\ task'[u].state = task[u].state
  <2>1. /\ task'[t].number = task[t].number /\ task'[t].parent = task[t].parent
        /\ task'[t].status = task[t].status /\ task'[t].position = task[t].position
        /\ task'[t].state = task[t].state
    BY <1>0, <1>2 DEF TaskRow
  <2> QED BY <1>3, <2>1
<1>7. PositionsUnique'
  BY <1>6 DEF PositionsUnique
<1>8. NumbersUnique'
  BY <1>1, <1>6, NumbersUntouched
<1>9. MovesCommit'
  BY <1>1 DEF MovesCommit
<1> QED BY <1>1, <1>5, <1>7, <1>8, <1>9, ColumnsUntouched

LEMMA ArchiveTaskKeeps ==
  ASSUME IInv, NEW t \in Task, NEW r \in 1 .. MaxRevision, ArchiveTask(t, r)
  PROVE  IInv'
<1> USE DEF IInv
<1> DEFINE revised == task[t].revision + 1
<1>0. task[t] \in TaskRow /\ revised \in Nat
  BY DEF TypeOK, TaskRow
<1> HIDE DEF revised
<1>1. /\ task' = [task EXCEPT ![t].state = "archived", ![t].revision = revised]
      /\ project' = project /\ status' = status
      /\ recorded' = TRUE /\ aborted' = "none" /\ task[t].state = "active"
  BY DEF ArchiveTask, Committed, Editable, revised
<1>2. task'[t] = [task[t] EXCEPT !.state = "archived", !.revision = revised]
  BY <1>1 DEF TypeOK
<1>3. \A u \in Task \ {t} : task'[u] = task[u]
  BY <1>1 DEF TypeOK
<1>5. TypeOK'
  <2>1. task'[t] \in TaskRow
    BY <1>0, <1>2 DEF TaskRow, Lifecycle
  <2>2. task' \in [Task -> TaskRow]
    BY <1>1, <1>3, <2>1 DEF TypeOK
  <2> QED BY <1>1, <2>2 DEF TypeOK
<1>6. task'[t].state = "archived" /\ task'[t].number = task[t].number
      /\ task'[t].parent = task[t].parent
  BY <1>0, <1>2 DEF TaskRow
<1>7. PositionsUnique'
  BY <1>3, <1>6 DEF PositionsUnique
<1>8. NumbersUnique'
  BY <1>1, <1>3, <1>6, NumbersUntouched
<1>9. MovesCommit'
  BY <1>1 DEF MovesCommit
<1> QED BY <1>1, <1>5, <1>7, <1>8, <1>9, ColumnsUntouched

LEMMA RestoreTaskKeeps ==
  ASSUME IInv, NEW t \in Task, NEW r \in 1 .. MaxRevision, RestoreTask(t, r)
  PROVE  IInv'
<1> USE DEF IInv
<1> DEFINE revised == task[t].revision + 1
<1>0. task[t] \in TaskRow /\ revised \in Nat
  BY DEF TypeOK, TaskRow
<1> HIDE DEF revised
<1> DEFINE place == NextPosition(task[t].status, task[t].parent)
<1>1. /\ place \in Nat
      /\ \A u \in Scope(task[t].status, task[t].parent) :
           task[u].position < place /\ task[u].position \in Nat
  BY NextPositionAbove DEF TypeOK, TaskRow, Scope
<1> HIDE DEF place
<1>2. /\ task' = [task EXCEPT ![t].state = "active", ![t].position = place,
                              ![t].revision = revised]
      /\ project' = project /\ status' = status
      /\ recorded' = TRUE /\ aborted' = "none" /\ task[t].state = "archived"
  BY DEF RestoreTask, Committed, RestoredPosition, place, revised
<1>3. task'[t] = [task[t] EXCEPT !.state = "active", !.position = place,
                                 !.revision = revised]
  BY <1>2 DEF TypeOK
<1>4. \A u \in Task \ {t} : task'[u] = task[u]
  BY <1>2 DEF TypeOK
<1>6. TypeOK'
  <2>1. task'[t] \in TaskRow
    BY <1>0, <1>1, <1>3 DEF TaskRow, Lifecycle
  <2>2. task' \in [Task -> TaskRow]
    BY <1>2, <1>4, <2>1 DEF TypeOK
  <2> QED BY <1>2, <2>2 DEF TypeOK
<1>7. /\ task'[t].state = "active" /\ task'[t].position = place
      /\ task'[t].status = task[t].status /\ task'[t].parent = task[t].parent
      /\ task'[t].number = task[t].number
  BY <1>0, <1>3 DEF TaskRow
<1>8. PositionsUnique'
  <2> SUFFICES ASSUME NEW u \in Task, NEW v \in Task, u # v,
                      task'[u].state = "active", task'[v].state = "active",
                      task'[u].status = task'[v].status, task'[u].parent = task'[v].parent
               PROVE  task'[u].position # task'[v].position
    BY DEF PositionsUnique
  <2>1. CASE u # t /\ v # t
    BY <1>4, <2>1 DEF PositionsUnique
  <2>2. CASE u = t
    <3>1. v \in Scope(task[t].status, task[t].parent)
      BY <1>4, <1>7, <2>2 DEF Scope
    <3> QED BY <1>1, <1>4, <1>7, <2>2, <3>1
  <2>3. CASE v = t
    <3>1. u \in Scope(task[t].status, task[t].parent)
      BY <1>4, <1>7, <2>3 DEF Scope
    <3> QED BY <1>1, <1>4, <1>7, <2>3, <3>1
  <2> QED BY <2>1, <2>2, <2>3
<1>9. NumbersUnique'
  BY <1>2, <1>4, <1>7, NumbersUntouched
<1>10. MovesCommit'
  BY <1>2 DEF MovesCommit
<1> QED BY <1>2, <1>6, <1>8, <1>9, <1>10, ColumnsUntouched

LEMMA SavedRow ==
  ASSUME TypeOK, NEW u \in Task, NEW s \in Status, NEW place \in Nat
  PROVE  LET new == Saved(u, s, place)
         IN  /\ new \in TaskRow
             /\ new.state = task[u].state /\ new.number = task[u].number
             /\ new.parent = task[u].parent /\ new.status = s /\ new.position = place
             /\ new.revision = task[u].revision + 1
<1> DEFINE revised == task[u].revision + 1
<1>1. task[u] \in TaskRow /\ revised \in Nat
  BY DEF TypeOK, TaskRow
<1>2. Saved(u, s, place) =
        [task[u] EXCEPT !.status = s, !.position = place, !.revision = revised]
  BY DEF Saved
<1>3. revised = task[u].revision + 1
  OBVIOUS
<1> HIDE DEF revised
<1> QED BY <1>1, <1>2, <1>3 DEF TaskRow

LEMMA ShiftedRow ==
  ASSUME NEW row \in TaskRow, NEW offset \in Nat
  PROVE  LET new == [row EXCEPT !.position = @ + offset]
         IN  /\ new \in TaskRow
             /\ new.state = row.state /\ new.number = row.number
             /\ new.parent = row.parent /\ new.status = row.status
             /\ new.position = row.position + offset
<1> DEFINE place == row.position + offset
<1>1. place \in Nat /\ place = row.position + offset
  BY DEF TaskRow
<1> HIDE DEF place
<1>2. /\ [row EXCEPT !.position = place] \in TaskRow
      /\ [row EXCEPT !.position = place].state = row.state
      /\ [row EXCEPT !.position = place].number = row.number
      /\ [row EXCEPT !.position = place].parent = row.parent
      /\ [row EXCEPT !.position = place].status = row.status
      /\ [row EXCEPT !.position = place].position = place
  BY <1>1 DEF TaskRow
<1> QED BY <1>1, <1>2

\* What a committed move leaves in the columns, told by the three kinds of rows:
\* the listed ones lie densely in column s, rows of that scope that are not
\* listed lie beyond them, and the others are as they were.
RowsMoved(t, s, anchor) ==
  LET scope == Scope(s, task[t].parent)
      order == Reordered(t, s, anchor)
      listed == Target(t, s) \cup {t}
      n == Cardinality(listed)
      offset == MoveOffset(s, task[t].parent, n)
  IN  /\ n \in Nat /\ task' \in [Task -> TaskRow]
      /\ \A u \in Task : /\ task'[u].number = task[u].number
                         /\ task'[u].parent = task[u].parent
                         /\ task'[u].state = task[u].state
      /\ \A u \in listed : /\ task'[u].state = "active"
                           /\ task'[u].parent = task[t].parent
                           /\ task'[u].status = s
                           /\ task'[u].position = order[u]
                           /\ order[u] \in Nat /\ order[u] < n
                           /\ \/ task'[u] = task[u]
                              \/ task'[u].revision = task[u].revision + 1
      /\ offset \in Nat
      /\ \A u \in scope \ listed :
           /\ task'[u].status = s
           /\ task'[u].position = task[u].position + offset
           /\ task[u].position \in Nat /\ task'[u].position > n
      /\ \A u \in Task \ (scope \cup listed) : task'[u] = task[u]

LEMMA MovedRows ==
  ASSUME TypeOK, PositionsUnique, NEW t \in Task, NEW r, NEW s \in Status,
         NEW anchor \in Task \cup {None}, MoveTask(t, r, s, anchor)
  PROVE  RowsMoved(t, s, anchor)
<1> DEFINE parent == task[t].parent
           scope == Scope(s, parent)
           order == Reordered(t, s, anchor)
           listed == Target(t, s) \cup {t}
           n == Cardinality(listed)
           offset == MoveOffset(s, parent, n)
<1>1. /\ anchor \in Target(t, s) \cup {None} /\ Editable(t, r)
      /\ task' = [u \in Task |-> task'[u]]
      /\ \A u \in listed :
           \/ /\ task[u].position = order[u] /\ task[u].status = s
              /\ task'[u] = task[u]
           \/ task'[u] = Saved(u, s, order[u])
      /\ \A u \in scope \ listed :
           task'[u] = [task[u] EXCEPT !.position = @ + offset]
      /\ \A u \in Task \ (scope \cup listed) : task'[u] = task[u]
  <2>1. MoveWrites(t, s, anchor) /\ anchor \in Target(t, s) \cup {None} /\ Editable(t, r)
    BY MoveEffect
  <2> QED BY <2>1 DEF MoveWrites
<1>2. n \in Nat /\ \A u \in listed : order[u] \in Nat /\ order[u] < n
  BY <1>1, ReorderedDense
<1>3. /\ offset \in Nat /\ offset > n
      /\ \A u \in scope : task[u].position \in Nat
  BY <1>2, ScopePositions
<1>4. /\ listed \subseteq Task /\ scope \subseteq Task
      /\ \A u \in scope : task[u].state = "active" /\ task[u].status = s
      /\ \A u \in listed : task[u].state = "active" /\ task[u].parent = parent
  BY <1>1, TargetInScope DEF Scope, Editable
<1>5. \A u \in Task : task[u] \in TaskRow
  BY DEF TypeOK
<1> HIDE DEF scope, order, listed, n, offset
<1>6. \A u \in listed :
        /\ task'[u] \in TaskRow
        /\ task'[u].state = "active" /\ task'[u].number = task[u].number
        /\ task'[u].parent = parent
        /\ task'[u].status = s /\ task'[u].position = order[u]
        /\ task'[u] = task[u] \/ task'[u].revision = task[u].revision + 1
  <2> SUFFICES ASSUME NEW u \in listed
               PROVE  /\ task'[u] \in TaskRow
                      /\ task'[u].state = "active" /\ task'[u].number = task[u].number
                      /\ task'[u].parent = parent
                      /\ task'[u].status = s /\ task'[u].position = order[u]
                      /\ task'[u] = task[u] \/ task'[u].revision = task[u].revision + 1
    OBVIOUS
  <2>1. CASE /\ task[u].position = order[u] /\ task[u].status = s
             /\ task'[u] = task[u]
    BY <1>4, <1>5, <2>1
  <2>2. CASE task'[u] = Saved(u, s, order[u])
    BY <1>2, <1>4, <2>2, SavedRow
  <2> QED BY <1>1, <2>1, <2>2
<1>7. \A u \in scope \ listed :
        /\ task'[u] \in TaskRow
        /\ task'[u].state = task[u].state /\ task'[u].number = task[u].number
        /\ task'[u].parent = task[u].parent /\ task'[u].status = s
        /\ task'[u].position = task[u].position + offset
  <2> TAKE u \in scope \ listed
  <2>1. task[u] \in TaskRow /\ task[u].status = s
    BY <1>4, <1>5
  <2>2. task'[u] = [task[u] EXCEPT !.position = @ + offset]
    BY <1>1
  <2> QED BY <1>3, <2>1, <2>2, ShiftedRow
<1>8. \A u \in scope \ listed : task[u].position \in Nat /\ task'[u].position > n
  BY <1>2, <1>3, <1>7
<1>9. task' \in [Task -> TaskRow]
  <2>1. \A u \in Task : task'[u] \in TaskRow
    BY <1>1, <1>5, <1>6, <1>7
  <2> QED BY <1>1, <2>1
<1>10. \A u \in Task : /\ task'[u].number = task[u].number
                       /\ task'[u].parent = task[u].parent
                       /\ task'[u].state = task[u].state
  BY <1>1, <1>4, <1>6, <1>7
<1> QED
  BY <1>1, <1>2, <1>3, <1>4, <1>6, <1>7, <1>8, <1>9, <1>10
     DEF RowsMoved, scope, order, listed, n, offset

LEMMA MoveTaskKeeps ==
  ASSUME IInv, NEW t \in Task, NEW r \in 1 .. MaxRevision, NEW s \in Status,
         NEW anchor \in Task \cup {None}, MoveTask(t, r, s, anchor)
  PROVE  IInv'
<1> USE DEF IInv
<1> DEFINE parent == task[t].parent
           scope == Scope(s, parent)
           order == Reordered(t, s, anchor)
           listed == Target(t, s) \cup {t}
           n == Cardinality(listed)
           offset == MoveOffset(s, parent, n)
<1>0. RowsMoved(t, s, anchor)
  BY MovedRows
<1>1. /\ aborted' = "none" /\ recorded' = TRUE
      /\ project' = project /\ status' = status
      /\ anchor \in Target(t, s) \cup {None}
  BY MoveEffect
<1>2. /\ n \in Nat /\ task' \in [Task -> TaskRow]
      /\ \A u \in Task : /\ task'[u].number = task[u].number
                         /\ task'[u].parent = task[u].parent
                         /\ task'[u].state = task[u].state
      /\ \A u \in listed : /\ task'[u].state = "active"
                           /\ task'[u].parent = parent
                           /\ task'[u].status = s
                           /\ task'[u].position = order[u]
                           /\ order[u] \in Nat /\ order[u] < n
      /\ \A u \in Task \ (scope \cup listed) : task'[u] = task[u]
  BY <1>0 DEF RowsMoved
<1>3. /\ offset \in Nat
      /\ \A u \in scope \ listed :
           /\ task'[u].status = s
           /\ task'[u].position = task[u].position + offset
           /\ task[u].position \in Nat /\ task'[u].position > n
  BY <1>0 DEF RowsMoved
<1>4. \A u, v \in listed : u # v => order[u] # order[v]
  BY <1>1, ReorderedDense
<1>5. \A u \in Task : task[u].position \in Nat
  BY DEF TypeOK, TaskRow
<1>6. /\ listed \subseteq Task
      /\ \A u \in Task : u \in scope <=>
           task[u].state = "active" /\ task[u].status = s /\ task[u].parent = parent
  BY TargetInScope DEF Scope
<1> HIDE DEF scope, order, listed, n, offset
<1>7. TypeOK'
  BY <1>1, <1>2 DEF TypeOK
<1>8. PositionsUnique'
  <2> SUFFICES ASSUME NEW u \in Task, NEW v \in Task, u # v,
                      task'[u].state = "active", task'[v].state = "active",
                      task'[u].status = task'[v].status, task'[u].parent = task'[v].parent
               PROVE  task'[u].position # task'[v].position
    BY DEF PositionsUnique
  <2>1. CASE u \notin scope \cup listed /\ v \notin scope \cup listed
    BY <1>2, <2>1 DEF PositionsUnique
  <2>2. CASE u \in scope \cup listed /\ v \in scope \cup listed
    <3>1. CASE u \in listed /\ v \in listed
      BY <1>2, <1>4, <3>1
    <3>2. CASE u \in listed /\ v \notin listed
      BY <1>2, <1>3, <2>2, <3>2
    <3>3. CASE u \notin listed /\ v \in listed
      BY <1>2, <1>3, <2>2, <3>3
    <3>4. CASE u \notin listed /\ v \notin listed
      <4>1. task[u].position # task[v].position
        BY <1>6, <2>2, <3>4 DEF PositionsUnique
      <4> QED BY <1>3, <2>2, <3>4, <4>1
    <3> QED BY <3>1, <3>2, <3>3, <3>4
  <2>3. \A w \in Task : w \in scope \cup listed <=>
          task'[w].state = "active" /\ task'[w].status = s /\ task'[w].parent = parent
    BY <1>2, <1>3, <1>6
  <2> QED BY <2>1, <2>2, <2>3
<1>9. NumbersUnique'
  BY <1>1, <1>2, NumbersUntouched
<1>10. MovesCommit'
  BY <1>1 DEF MovesCommit
<1> QED BY <1>1, <1>7, <1>8, <1>9, <1>10, ColumnsUntouched

-----------------------------------------------------------------------------
(* Commands on columns and on the project.                                 *)

LEMMA RolledBackKeeps ==
  ASSUME IInv, NEW command \in Commands \ {"move_task"}, RolledBack(command)
  PROVE  IInv'
<1> USE DEF IInv
<1>1. /\ project' = project /\ status' = status /\ task' = task
      /\ aborted' = command /\ recorded' = FALSE
  BY DEF RolledBack
<1>2. TypeOK'
  BY <1>1 DEF TypeOK
<1>3. MovesCommit'
  BY <1>1 DEF MovesCommit
<1> QED BY <1>1, <1>2, <1>3, TasksUntouched, ColumnsUntouched

LEMMA CreateStatusKeeps ==
  ASSUME IInv, NEW s \in Status, NEW n \in Name, CreateStatus(s, n)
  PROVE  IInv'
<1> USE DEF IInv
<1>1. CASE NameStored(n)
  BY <1>1, RolledBackKeeps DEF CreateStatus, Commands
<1>2. CASE ~NameStored(n)
  <2> DEFINE place == NextColumnPosition
  <2>1. /\ place \in Nat
        /\ \A r \in ActiveStatuses :
             status[r].position < place /\ status[r].position \in Nat
    BY NextColumnPositionAbove DEF TypeOK, StatusRow, ActiveStatuses
  <2> HIDE DEF place
  <2>2. /\ status' = [status EXCEPT ![s] =
             [state |-> "active", name |-> n, position |-> place]]
        /\ project' = project /\ task' = task /\ recorded' = TRUE /\ aborted' = "none"
    BY <1>2 DEF CreateStatus, Committed, place
  <2>3. /\ status'[s] = [state |-> "active", name |-> n, position |-> place]
        /\ \A r \in Status \ {s} : status'[r] = status[r]
    BY <2>2 DEF TypeOK
  <2>4. TypeOK'
    BY <2>1, <2>2 DEF TypeOK, StatusRow, Lifecycle
  <2>5. ColumnsUnique'
    <3>1. \A r \in Status \ {s} : status[r].state = "active" => status[r].position # place
      BY <2>1 DEF ActiveStatuses
    <3>2. \A r \in Status \ {s} : status[r].state # "absent" => status[r].name # n
      BY <1>2 DEF NameStored
    <3> QED BY <2>3, <3>1, <3>2 DEF ColumnsUnique
  <2>6. ColumnKept'
    BY <2>3 DEF ColumnKept, ActiveStatuses
  <2>7. MovesCommit'
    BY <2>2 DEF MovesCommit
  <2> QED BY <2>2, <2>4, <2>5, <2>6, <2>7, TasksUntouched
<1> QED BY <1>1, <1>2

LEMMA RenameStatusKeeps ==
  ASSUME IInv, NEW s \in Status, NEW n \in Name, RenameStatus(s, n)
  PROVE  IInv'
<1> USE DEF IInv
<1>1. CASE NameStored(n)
  BY <1>1, RolledBackKeeps DEF RenameStatus, Commands
<1>2. CASE ~NameStored(n)
  <2>1. /\ status' = [status EXCEPT ![s].name = n]
        /\ project' = project /\ task' = task /\ recorded' = TRUE /\ aborted' = "none"
    BY <1>2 DEF RenameStatus, Committed
  <2>2. /\ status'[s] = [status[s] EXCEPT !.name = n]
        /\ \A r \in Status \ {s} : status'[r] = status[r]
        /\ status[s] \in StatusRow
    BY <2>1 DEF TypeOK
  <2>3. /\ status'[s] \in StatusRow /\ status'[s].name = n
        /\ status'[s].state = status[s].state /\ status'[s].position = status[s].position
    BY <2>2 DEF StatusRow
  <2>4. TypeOK'
    BY <2>1, <2>3 DEF TypeOK
  <2>5. ColumnsUnique'
    <3>1. \A r \in Status \ {s} : status[r].state # "absent" => status[r].name # n
      BY <1>2 DEF NameStored
    <3>2. \A r \in Status :
            /\ status'[r].state = status[r].state
            /\ status'[r].position = status[r].position
            /\ r # s => status'[r].name = status[r].name
      BY <2>2, <2>3
    <3>3. \A q, r \in Status : q # r /\ status[q].state # "absent" /\ status[r].state # "absent"
            => status'[q].name # status'[r].name
      BY <2>3, <3>1, <3>2 DEF ColumnsUnique
    <3> QED BY <3>2, <3>3 DEF ColumnsUnique
  <2>6. ColumnKept'
    BY <2>2, <2>3 DEF ColumnKept, ActiveStatuses
  <2>7. MovesCommit'
    BY <2>1 DEF MovesCommit
  <2> QED BY <2>1, <2>4, <2>5, <2>6, <2>7, TasksUntouched
<1> QED BY <1>1, <1>2

LEMMA DeleteStatusKeeps ==
  ASSUME IInv, NEW s \in Status, DeleteStatus(s)
  PROVE  IInv'
<1> USE DEF IInv
<1>1. /\ status' = [status EXCEPT ![s].state = "archived"]
      /\ project' = project /\ task' = task /\ recorded' = TRUE /\ aborted' = "none"
      /\ s \in ActiveStatuses /\ ActiveStatuses # {s}
  BY DEF DeleteStatus, Committed, OtherColumnStays
<1>2. /\ status'[s] = [status[s] EXCEPT !.state = "archived"]
      /\ \A r \in Status \ {s} : status'[r] = status[r]
      /\ status[s] \in StatusRow
  BY <1>1 DEF TypeOK
<1>3. /\ status'[s] \in StatusRow /\ status'[s].state = "archived"
      /\ status'[s].name = status[s].name
  BY <1>2 DEF StatusRow, Lifecycle
<1>4. TypeOK'
  BY <1>1, <1>3 DEF TypeOK
<1>5. ColumnsUnique'
  <2>1. status[s].state # "absent"
    BY <1>1 DEF ActiveStatuses
  <2>2. \A r \in Status :
          /\ status'[r].name = status[r].name
          /\ status'[r].state # "absent" => status[r].state # "absent"
          /\ status'[r].state = "active" =>
               status[r].state = "active" /\ status'[r].position = status[r].position
    BY <1>2, <1>3, <2>1
  <2> QED BY <2>2 DEF ColumnsUnique
<1>6. ColumnKept'
  BY <1>1, <1>2 DEF ColumnKept, ActiveStatuses
<1>7. MovesCommit'
  BY <1>1 DEF MovesCommit
<1> QED BY <1>1, <1>4, <1>5, <1>6, <1>7, TasksUntouched

LEMMA ReorderStatusesKeeps ==
  ASSUME IInv, NEW order \in ColumnOrders, ReorderStatuses(order)
  PROVE  IInv'
<1> USE DEF IInv
<1>1. CASE RolledBack("reorder_statuses")
  BY <1>1, RolledBackKeeps DEF Commands
<1>2. CASE ~RolledBack("reorder_statuses")
  <2>1. /\ status' = [s \in Status |->
             IF s \in ActiveStatuses THEN [status[s] EXCEPT !.position = order[s]]
                                     ELSE status[s]]
        /\ project' = project /\ task' = task /\ recorded' = TRUE /\ aborted' = "none"
    BY <1>2 DEF ReorderStatuses, Committed
  <2>2. /\ \A s \in ActiveStatuses : order[s] \in Nat
        /\ \A s, r \in ActiveStatuses : s # r => order[s] # order[r]
    <3>1. order \in Injection(ActiveStatuses, 0 .. Cardinality(ActiveStatuses) - 1)
      BY DEF ColumnOrders
    <3>2. 0 .. Cardinality(ActiveStatuses) - 1 \subseteq Nat
      <4>1. Cardinality(ActiveStatuses) \in Nat
        BY IdsAssumption, FS_Subset, FS_CardinalityType DEF ActiveStatuses
      <4> QED BY <4>1
    <3> QED BY <3>1, <3>2 DEF Injection, IsInjective
  <2>3. \A s \in Status :
          /\ status'[s] \in StatusRow
          /\ status'[s].state = status[s].state /\ status'[s].name = status[s].name
          /\ s \in ActiveStatuses => status'[s].position = order[s]
    <3> TAKE s \in Status
    <3>1. status[s] \in StatusRow
      BY DEF TypeOK
    <3>2. CASE s \in ActiveStatuses
      <4>1. status'[s] = [status[s] EXCEPT !.position = order[s]] /\ order[s] \in Nat
        BY <2>1, <2>2, <3>2
      <4> QED BY <3>1, <4>1 DEF StatusRow
    <3>3. CASE s \notin ActiveStatuses
      BY <2>1, <3>1, <3>3
    <3> QED BY <3>2, <3>3
  <2>4. TypeOK'
    BY <2>1, <2>3 DEF TypeOK
  <2>5. ColumnsUnique'
    BY <2>2, <2>3 DEF ColumnsUnique, ActiveStatuses
  <2>6. ColumnKept'
    BY <2>3 DEF ColumnKept, ActiveStatuses
  <2>7. MovesCommit'
    BY <2>1 DEF MovesCommit
  <2> QED BY <2>1, <2>4, <2>5, <2>6, <2>7, TasksUntouched
<1> QED BY <1>1, <1>2

LEMMA ProjectCommandKeeps ==
  ASSUME IInv, ProjectCommand
  PROVE  IInv'
<1> USE DEF IInv
<1>1. /\ status' = status /\ task' = task /\ recorded' = TRUE /\ aborted' = "none"
      /\ \/ project' = [project EXCEPT !.archived = TRUE]
         \/ project' = [project EXCEPT !.archived = FALSE]
         \/ project' = [project EXCEPT !.deleted = TRUE]
  BY DEF ProjectCommand, ArchiveProject, RestoreProject, DeleteProject, Committed
<1>2. project' \in ProjectRow /\ project'.nextTaskNumber = project.nextTaskNumber
  BY <1>1 DEF TypeOK, ProjectRow
<1>3. TypeOK'
  BY <1>1, <1>2 DEF TypeOK
<1>4. MovesCommit'
  BY <1>1 DEF MovesCommit
<1> QED BY <1>1, <1>2, <1>3, <1>4, TasksUntouched, ColumnsUntouched

-----------------------------------------------------------------------------
(* The theorems.                                                           *)

LEMMA InitEstablishes == Init => IInv
<1> SUFFICES ASSUME Init PROVE IInv
  OBVIOUS
<1> USE DEF Init
<1>1. TypeOK
  <2>1. \A s \in DefaultColumns : DefaultName[s] \in Name /\ DefaultPosition[s] \in Nat
    BY DefaultsAssumption DEF Injection
  <2> QED BY <2>1 DEF TypeOK, ProjectRow, StatusRow, TaskRow, Lifecycle, AbsentStatus,
                      AbsentTask
<1>2. \A t \in Task : task[t].state = "absent" /\ task[t].parent = None
  BY DEF AbsentTask
<1>3. PositionsUnique /\ NumbersUnique
  BY <1>2 DEF PositionsUnique, NumbersUnique
<1>4. ColumnsUnique
  <2>1. \A s, r \in DefaultColumns : s # r =>
          DefaultName[s] # DefaultName[r] /\ DefaultPosition[s] # DefaultPosition[r]
    BY DefaultsAssumption DEF Injection, IsInjective
  <2>2. \A s \in Status : status[s].state # "absent" =>
          /\ s \in DefaultColumns
          /\ status[s].name = DefaultName[s] /\ status[s].position = DefaultPosition[s]
    BY DEF AbsentStatus
  <2>3. \A s \in Status : status[s].state = "active" => status[s].state # "absent"
    OBVIOUS
  <2> HIDE DEF Init
  <2> QED BY <2>1, <2>2, <2>3 DEF ColumnsUnique
<1>5. ColumnKept
  <2>1. PICK s \in DefaultColumns : s \in Status
    BY DefaultsAssumption
  <2>2. status[s].state = "active"
    BY <2>1
  <2> QED BY <2>1, <2>2 DEF ColumnKept, ActiveStatuses
<1>6. MovesCommit
  BY DEF MovesCommit
<1> QED BY <1>1, <1>3, <1>4, <1>5, <1>6 DEF IInv

LEMMA NextKeeps == IInv /\ [Next]_vars => IInv'
<1> SUFFICES ASSUME IInv, [Next]_vars PROVE IInv'
  OBVIOUS
<1>1. CASE UNCHANGED vars
  BY <1>1 DEF vars, IInv, TypeOK, PositionsUnique, NumbersUnique, ColumnsUnique,
             ColumnKept, ActiveStatuses, MovesCommit
<1>2. CASE TaskCommand
  BY <1>2, CreateTaskKeeps, UpdateTaskKeeps, MoveTaskKeeps, ArchiveTaskKeeps,
     RestoreTaskKeeps DEF TaskCommand
<1>3. CASE ColumnCommand
  BY <1>3, CreateStatusKeeps, RenameStatusKeeps, DeleteStatusKeeps,
     ReorderStatusesKeeps DEF ColumnCommand
<1>4. CASE ProjectCommand
  BY <1>4, ProjectCommandKeeps
<1> QED BY <1>1, <1>2, <1>3, <1>4 DEF Next

\* Every reachable board satisfies the inductive invariant.
THEOREM BoardInvariant == Spec => []IInv
<1>1. Init => IInv
  BY InitEstablishes
<1>2. IInv /\ [Next]_vars => IInv'
  BY NextKeeps
<1> QED BY <1>1, <1>2, PTL DEF Spec

\* Type correctness of the board.
THEOREM TypeCorrect == Spec => []TypeOK
BY BoardInvariant, PTL DEF IInv

\* Two active tasks never share a place of a column, however creates, moves,
\* archives and restores interleave.
THEOREM PositionsAlwaysUnique == Spec => []PositionsUnique
BY BoardInvariant, PTL DEF IInv

\* A task number is never given twice.
THEOREM NumbersAlwaysUnique == Spec => []NumbersUnique
BY BoardInvariant, PTL DEF IInv

\* Active columns never share a place, and columns, deleted ones included, never
\* share a name.
THEOREM ColumnsAlwaysUnique == Spec => []ColumnsUnique
BY BoardInvariant, PTL DEF IInv

\* Deletions, in whatever order, leave a project with a column.
THEOREM ColumnAlwaysKept == Spec => []ColumnKept
BY BoardInvariant, PTL DEF IInv

\* The UNIQUE index never refuses a valid move.
THEOREM MovesAlwaysCommit == Spec => []MovesCommit
BY BoardInvariant, PTL DEF IInv

-----------------------------------------------------------------------------
(* What no step does.                                                      *)

\* Commands on columns and on the project's lifecycle never write a task row.
LEMMA OthersKeepTasks ==
  ASSUME ColumnCommand \/ ProjectCommand
  PROVE  task' = task
BY DEF ColumnCommand, ProjectCommand, CreateStatus, RenameStatus, DeleteStatus,
       ReorderStatuses, ArchiveProject, RestoreProject, DeleteProject, RolledBack

\* No command writes a task of an archived or deleted project.
THEOREM ProjectFrozen == Spec => FrozenProject
<1>1. [Next]_vars => (project.archived \/ project.deleted => task' = task)
  <2> SUFFICES ASSUME [Next]_vars, project.archived \/ project.deleted PROVE task' = task
    OBVIOUS
  <2>1. CASE UNCHANGED vars
    BY <2>1 DEF vars
  <2>2. ~TaskCommand
    <3>1. ~Mutable /\ \A t, r : ~Editable(t, r)
      BY DEF Mutable, Editable
    <3>2. \A t, s, p, x : ~CreateTask(t, s, p, x)
      BY <3>1 DEF CreateTask
    <3>3. \A t, r, x : ~UpdateTask(t, r, x)
      BY <3>1 DEF UpdateTask
    <3>4. \A t, r, s, anchor : ~MoveTask(t, r, s, anchor)
      <4> SUFFICES ASSUME NEW t, NEW r, NEW s, NEW anchor, MoveTask(t, r, s, anchor)
                   PROVE  FALSE
        OBVIOUS
      <4>1. Editable(t, r)
        BY DEF MoveTask
      <4> QED BY <3>1, <4>1
    <3>5. \A t, r : ~ArchiveTask(t, r) /\ ~RestoreTask(t, r)
      BY <3>1 DEF ArchiveTask, RestoreTask
    <3> QED BY <3>2, <3>3, <3>4, <3>5 DEF TaskCommand
  <2>3. CASE ColumnCommand \/ ProjectCommand
    BY <2>3, OthersKeepTasks
  <2> QED BY <2>1, <2>2, <2>3 DEF Next
<1> QED BY <1>1, PTL DEF Spec, FrozenProject

\* A row that a move shifts without a new revision is hidden: it shares its
\* parent with a task of the scope that no list shows.
LEMMA ShiftedIsHidden ==
  ASSUME NEW t \in Task, NEW s,
         NEW u \in Scope(s, task[t].parent) \ (Target(t, s) \cup {t})
  PROVE  Hidden(u)
BY DEF Scope, Target, Hidden

LEMMA StepRevises ==
  ASSUME IInv, [Next]_vars, NEW u \in Task
  PROVE  \/ task[u].state = "absent"
         \/ Hidden(u)
         \/ task'[u] = task[u]
         \/ task'[u].revision = task[u].revision + 1
<1> USE DEF IInv
<1>0. task[u] \in TaskRow /\ task[u].revision + 1 \in Nat
  BY DEF TypeOK, TaskRow
<1>1. CASE UNCHANGED vars
  BY <1>1 DEF vars
<1>2. CASE ColumnCommand \/ ProjectCommand
  BY <1>2, OthersKeepTasks
<1>3. ASSUME NEW t \in Task, NEW s \in Status, NEW p \in Task \cup {None}, NEW x \in Text,
             CreateTask(t, s, p, x)
      PROVE  task[u].state = "absent" \/ task'[u] = task[u]
  BY <1>3 DEF CreateTask, TypeOK
<1>4. ASSUME NEW t \in Task, NEW r \in 1 .. MaxRevision, NEW x \in Text, UpdateTask(t, r, x)
      PROVE  task'[u] = task[u] \/ task'[u].revision = task[u].revision + 1
  <2>1. CASE u = t
    <3>1. task'[u] = [task[u] EXCEPT !.text = x, !.revision = task[u].revision + 1]
      BY <1>4, <2>1 DEF UpdateTask, TypeOK
    <3> QED BY <1>0, <3>1 DEF TaskRow
  <2>2. CASE u # t
    BY <1>4, <2>2 DEF UpdateTask, TypeOK
  <2> QED BY <2>1, <2>2
<1>5. ASSUME NEW t \in Task, NEW r \in 1 .. MaxRevision, NEW s \in Status,
             NEW anchor \in Task \cup {None}, MoveTask(t, r, s, anchor)
      PROVE  Hidden(u) \/ task'[u] = task[u] \/ task'[u].revision = task[u].revision + 1
  <2>1. RowsMoved(t, s, anchor)
    BY <1>5, MovedRows
  <2>2. CASE u \in Target(t, s) \cup {t}
    BY <2>1, <2>2 DEF RowsMoved
  <2>3. CASE u \in Scope(s, task[t].parent) \ (Target(t, s) \cup {t})
    BY <2>3, ShiftedIsHidden
  <2>4. CASE u \notin Scope(s, task[t].parent) \cup (Target(t, s) \cup {t})
    BY <2>1, <2>4 DEF RowsMoved
  <2> QED BY <2>2, <2>3, <2>4
<1>6. ASSUME NEW t \in Task, NEW r \in 1 .. MaxRevision, ArchiveTask(t, r)
      PROVE  task'[u] = task[u] \/ task'[u].revision = task[u].revision + 1
  <2>1. CASE u = t
    <3>1. task'[u] = [task[u] EXCEPT !.state = "archived",
                                     !.revision = task[u].revision + 1]
      BY <1>6, <2>1 DEF ArchiveTask, TypeOK
    <3> QED BY <1>0, <3>1 DEF TaskRow
  <2>2. CASE u # t
    BY <1>6, <2>2 DEF ArchiveTask, TypeOK
  <2> QED BY <2>1, <2>2
<1>7. ASSUME NEW t \in Task, NEW r \in 1 .. MaxRevision, RestoreTask(t, r)
      PROVE  task'[u] = task[u] \/ task'[u].revision = task[u].revision + 1
  <2>1. CASE u = t
    <3>1. task'[u] = [task[u] EXCEPT !.state = "active",
                                     !.position = RestoredPosition(task[u]),
                                     !.revision = task[u].revision + 1]
      BY <1>7, <2>1 DEF RestoreTask, TypeOK
    <3> QED BY <1>0, <3>1 DEF TaskRow
  <2>2. CASE u # t
    BY <1>7, <2>2 DEF RestoreTask, TypeOK
  <2> QED BY <2>1, <2>2
<1>8. CASE TaskCommand
  BY <1>3, <1>4, <1>5, <1>6, <1>7, <1>8 DEF TaskCommand
<1> QED BY <1>1, <1>2, <1>8 DEF Next

\* A stored task that a list shows never changes under an unchanged revision.
THEOREM AlwaysRevisedTogether == Spec => RevisedTogether
<1>1. IInv /\ [Next]_vars =>
        \A t \in Task : \/ task[t].state = "absent"
                        \/ Hidden(t)
                        \/ task'[t] = task[t]
                        \/ task'[t].revision = task[t].revision + 1
  BY StepRevises
<1>2. Spec => []IInv
  BY BoardInvariant
<1> QED BY <1>1, <1>2, PTL DEF Spec, RevisedTogether

LEMMA SamePlacesKeepOrder ==
  ASSUME NEW m, \A u \in Task \ {m} : task'[u].position = task[u].position
  PROVE  \A u, v \in Task \ {m} : OrderKept(u, v)
BY DEF OrderKept

LEMMA MoveKeepsOrder ==
  ASSUME IInv, NEW t \in Task, NEW r, NEW s \in Status, NEW anchor \in Task \cup {None},
         MoveTask(t, r, s, anchor), NEW u \in Task \ {t}, NEW v \in Task \ {t}
  PROVE  OrderKept(u, v)
<1> USE DEF IInv
<1> DEFINE scope == Scope(s, task[t].parent)
           order == Reordered(t, s, anchor)
           T == Target(t, s)
           offset == MoveOffset(s, task[t].parent, Cardinality(T \cup {t}))
<1> SUFFICES ASSUME SameScope(u, v)
             PROVE  task[u].position < task[v].position
                      <=> task'[u].position < task'[v].position
  BY DEF OrderKept
<1>1. RowsMoved(t, s, anchor) /\ anchor \in T \cup {None}
  BY MoveEffect, MovedRows
<1>2. /\ \A w \in T : task'[w].position = order[w] /\ order[w] \in Nat
      /\ offset \in Nat
      /\ \A w \in scope \ (T \cup {t}) : task'[w].position = task[w].position + offset
      /\ \A w \in Task \ (scope \cup T \cup {t}) : task'[w] = task[w]
  BY <1>1 DEF RowsMoved
<1>3. \A w, x \in T : task[w].position < task[x].position => order[w] < order[x]
  BY <1>1, ReorderedDense
<1>4. /\ T \subseteq scope
      /\ \A w \in scope \ {t} : w \in T <=> Listed(w)
  BY TargetInScope DEF Scope, Target
<1>5. task[u].position \in Nat /\ task[v].position \in Nat
  BY DEF TypeOK, TaskRow
<1>6. (u \in scope <=> v \in scope) /\ (Listed(u) <=> Listed(v))
  BY DEF SameScope, Scope, Listed
<1>7. u # v => task[u].position # task[v].position
  BY DEF SameScope, PositionsUnique
<1> HIDE DEF scope, order, T, offset
<1>8. CASE u \notin scope
  BY <1>2, <1>4, <1>6, <1>8
<1>9. CASE u \in scope /\ Listed(u)
  <2>1. u \in T /\ v \in T
    BY <1>4, <1>6, <1>9
  <2>2. u # v => task[u].position < task[v].position \/ task[v].position < task[u].position
    BY <1>5, <1>7
  <2>3. order[u] \in Nat /\ order[v] \in Nat
    BY <1>2, <2>1
  <2>4. task[u].position < task[v].position => order[u] < order[v]
    BY <1>3, <2>1
  <2>5. task[v].position < task[u].position => order[v] < order[u]
    BY <1>3, <2>1
  <2>6. task'[u].position = order[u] /\ task'[v].position = order[v]
    BY <1>2, <2>1
  <2> QED BY <1>5, <2>2, <2>3, <2>4, <2>5, <2>6
<1>10. CASE u \in scope /\ ~Listed(u)
  <2>1. u \in scope \ (T \cup {t}) /\ v \in scope \ (T \cup {t})
    BY <1>4, <1>6, <1>10
  <2>2. /\ task'[u].position = task[u].position + offset
        /\ task'[v].position = task[v].position + offset
        /\ offset \in Nat
    BY <1>2, <2>1
  <2> QED BY <1>5, <2>2
<1> QED BY <1>8, <1>9, <1>10

LEMMA StepKeepsOrder ==
  ASSUME IInv, [Next]_vars
  PROVE  \E m \in Task \cup {None} : \A u, v \in Task \ {m} : OrderKept(u, v)
<1> USE DEF IInv
<1>1. CASE task' = task
  BY <1>1, SamePlacesKeepOrder
<1>2. CASE ColumnCommand \/ ProjectCommand
  BY <1>1, <1>2, OthersKeepTasks
<1>3. ASSUME NEW t \in Task, NEW s \in Status, NEW p \in Task \cup {None}, NEW x \in Text,
             CreateTask(t, s, p, x)
      PROVE  \A u, v \in Task \ {t} : OrderKept(u, v)
  <2>1. \A u \in Task \ {t} : task'[u].position = task[u].position
    BY <1>3 DEF CreateTask, TypeOK
  <2> QED BY <2>1, SamePlacesKeepOrder
<1>4. ASSUME NEW t \in Task, NEW r \in 1 .. MaxRevision, NEW x \in Text, UpdateTask(t, r, x)
      PROVE  \A u, v \in Task \ {t} : OrderKept(u, v)
  <2>1. \A u \in Task \ {t} : task'[u].position = task[u].position
    BY <1>4 DEF UpdateTask, TypeOK
  <2> QED BY <2>1, SamePlacesKeepOrder
<1>5. ASSUME NEW t \in Task, NEW r \in 1 .. MaxRevision, NEW s \in Status,
             NEW anchor \in Task \cup {None}, MoveTask(t, r, s, anchor)
      PROVE  \A u, v \in Task \ {t} : OrderKept(u, v)
  BY <1>5, MoveKeepsOrder
<1>6. ASSUME NEW t \in Task, NEW r \in 1 .. MaxRevision, ArchiveTask(t, r)
      PROVE  \A u, v \in Task \ {t} : OrderKept(u, v)
  <2>1. \A u \in Task \ {t} : task'[u].position = task[u].position
    BY <1>6 DEF ArchiveTask, TypeOK
  <2> QED BY <2>1, SamePlacesKeepOrder
<1>7. ASSUME NEW t \in Task, NEW r \in 1 .. MaxRevision, RestoreTask(t, r)
      PROVE  \A u, v \in Task \ {t} : OrderKept(u, v)
  <2>1. \A u \in Task \ {t} : task'[u].position = task[u].position
    BY <1>7 DEF RestoreTask, TypeOK
  <2> QED BY <2>1, SamePlacesKeepOrder
<1>8. CASE TaskCommand
  <2>1. \E t \in Task : \A u, v \in Task \ {t} : OrderKept(u, v)
    BY <1>3, <1>4, <1>5, <1>6, <1>7, <1>8 DEF TaskCommand
  <2> QED BY <2>1
<1>9. CASE UNCHANGED vars
  BY <1>1, <1>9 DEF vars
<1> QED BY <1>2, <1>8, <1>9 DEF Next

\* No command changes the relative order of more than the task it names.
THEOREM OrderAlwaysKept == Spec => MovesKeepOrder
<1>1. IInv /\ [Next]_vars =>
        \E m \in Task \cup {None} : \A t, u \in Task \ {m} : OrderKept(t, u)
  BY StepKeepsOrder
<1>2. Spec => []IInv
  BY BoardInvariant
<1> QED BY <1>1, <1>2, PTL DEF Spec, MovesKeepOrder

-----------------------------------------------------------------------------
(* The key of a command: Idempotency.  The routes hand the commands of the *)
(* board to executeIdempotent; its requests are any number, and so are the *)
(* bounds.  The inductive invariant is KeyInv.                             *)

\* Who is in flight has reserved the pending record, unless it was retained for
\* too short a time.
InFlightHolds ==
  expiries = 0 =>
    /\ ~record.expired
    /\ \A a \in Attempt : pc[a] \in InFlight => PendingFor(a)

\* Once there is an effect a record stands in the way of the next, and no request
\* that might still have one, or take the record away, is in flight.
EffectIsGuarded ==
  expiries = 0 /\ faults = 0 /\ effects # {} =>
    /\ record.state # "none"
    /\ \A a \in Attempt : pc[a] \notin {"started", "failing"}

\* What a completed record replays is the effect of a request with its hash.
RecordIsTrue ==
  /\ \A a \in Attempt : pc[a] = "executed" => a \in effects
  /\ record.state = "completed" =>
       record.response \in effects /\ HashOf[record.response] = record.hash

KeyInv ==
  /\ RequestTypeOK
  /\ InFlightHolds /\ EffectIsGuarded /\ RecordIsTrue
  /\ OneAtATime /\ OnceUnlessFault /\ AnswersTrue

\* What a step of one request is.
Step(a) ==
  Reserve(a) \/ Execute(a) \/ Complete(a) \/ CompleteFails(a) \/ Abandon(a) \/ AbandonFails(a)

-----------------------------------------------------------------------------
\* Types: the initial state and every step.
LEMMA InitType == RequestInit => RequestTypeOK
  BY AttemptsAssumption, BoundsAssumption
  DEF RequestInit, RequestTypeOK, NoRecord, RecordRow, Locations, InFlight, Refusals

\* Every step keeps the types.
LEMMA NextType == RequestTypeOK /\ [RequestNext]_requestVars => RequestTypeOK'
<1> SUFFICES ASSUME RequestTypeOK, [RequestNext]_requestVars PROVE RequestTypeOK'
  OBVIOUS
<1> USE AttemptsAssumption, BoundsAssumption DEF RequestTypeOK, RecordRow, Locations, InFlight, Refusals
<1>1. ASSUME NEW a \in Attempt, Reserve(a) PROVE RequestTypeOK'
  <2>1. ReserveOutcome(a) \in Locations
    BY DEF ReserveOutcome
  <2>2. pc' \in [Attempt -> Locations]
    BY <1>1, <2>1 DEF Reserve
  <2>3. record' \in RecordRow
    <3> DEFINE Pending == [state |-> "pending", hash |-> HashOf[a], response |-> Absent,
                           expired |-> FALSE]
    <3>1. Pending \in RecordRow
      OBVIOUS
    <3>2. record' = record \/ record' = Pending
      BY <1>1 DEF Reserve
    <3> QED
      BY <3>1, <3>2
  <2>4. answer' \in [Attempt -> Attempt \cup {Absent}]
    BY <1>1 DEF Reserve
  <2> QED
    BY <2>2, <2>3, <2>4, <1>1 DEF Reserve
<1>2. ASSUME NEW a \in Attempt, Execute(a) PROVE RequestTypeOK'
  <2>1. pc' \in [Attempt -> Locations] /\ effects' \subseteq Attempt
    BY <1>2 DEF Execute
  <2> QED
    BY <2>1, <1>2 DEF Execute
<1>3. ASSUME NEW a \in Attempt, Complete(a) PROVE RequestTypeOK'
  <2>1. record' \in RecordRow
    <3>1. CASE record' = record
      BY <3>1
    <3>2. CASE record' = [record EXCEPT !.state = "completed", !.response = a]
      BY <3>2
    <3> QED
      BY <3>1, <3>2, <1>3 DEF Complete
  <2>2. pc' \in [Attempt -> Locations] /\ answer' \in [Attempt -> Attempt \cup {Absent}]
    BY <1>3 DEF Complete
  <2> QED
    BY <2>1, <2>2, <1>3 DEF Complete
<1>4. ASSUME NEW a \in Attempt, CompleteFails(a) PROVE RequestTypeOK'
  BY <1>4 DEF CompleteFails
<1>5. ASSUME NEW a \in Attempt, Abandon(a) PROVE RequestTypeOK'
  BY <1>5 DEF Abandon, NoRecord
<1>6. ASSUME NEW a \in Attempt, AbandonFails(a) PROVE RequestTypeOK'
  BY <1>6 DEF AbandonFails
<1>7. CASE Crash
  BY <1>7 DEF Crash, AfterCrash
<1>8. CASE Expire
  <2>1. record' \in RecordRow
    BY <1>8 DEF Expire
  <2>2. expiries' \in 0 .. MaxExpiries
    BY <1>8 DEF Expire
  <2> QED
    BY <2>1, <2>2, <1>8 DEF Expire
<1>9. CASE UNCHANGED requestVars
  BY <1>9 DEF requestVars
<1> QED
  BY <1>1, <1>2, <1>3, <1>4, <1>5, <1>6, <1>7, <1>8, <1>9 DEF RequestNext

\* The conjuncts that relate the record to the requests, step by step.
LEMMA NextHolds ==
  RequestTypeOK /\ RequestTypeOK' /\ InFlightHolds /\ OneAtATime /\ [RequestNext]_requestVars
    => InFlightHolds' /\ OneAtATime'
<1> SUFFICES ASSUME RequestTypeOK, RequestTypeOK', InFlightHolds, OneAtATime, [RequestNext]_requestVars
             PROVE InFlightHolds' /\ OneAtATime'
  OBVIOUS
<1> USE BoundsAssumption DEF RequestTypeOK, RecordRow, InFlightHolds, OneAtATime, PendingFor, InFlight
<1>1. ASSUME NEW a \in Attempt, Reserve(a) PROVE InFlightHolds' /\ OneAtATime'
  BY <1>1 DEF Reserve, ReserveOutcome, Kept
<1>2. ASSUME NEW a \in Attempt, Execute(a) PROVE InFlightHolds' /\ OneAtATime'
  BY <1>2 DEF Execute
<1>3. ASSUME NEW a \in Attempt, Complete(a) PROVE InFlightHolds' /\ OneAtATime'
  BY <1>3 DEF Complete
<1>4. ASSUME NEW a \in Attempt, CompleteFails(a) PROVE InFlightHolds' /\ OneAtATime'
  BY <1>4 DEF CompleteFails
<1>5. ASSUME NEW a \in Attempt, Abandon(a) PROVE InFlightHolds' /\ OneAtATime'
  BY <1>5 DEF Abandon, Abandoned, NoRecord
<1>6. ASSUME NEW a \in Attempt, AbandonFails(a) PROVE InFlightHolds' /\ OneAtATime'
  BY <1>6 DEF AbandonFails
<1>7. CASE Crash
  BY <1>7 DEF Crash, AfterCrash
<1>8. CASE Expire
  BY <1>8 DEF Expire
<1>9. CASE UNCHANGED requestVars
  BY <1>9 DEF requestVars
<1> QED
  BY <1>1, <1>2, <1>3, <1>4, <1>5, <1>6, <1>7, <1>8, <1>9 DEF RequestNext

\* The conjuncts that count effects, step by step.
LEMMA NextGuarded ==
  KeyInv /\ RequestTypeOK' /\ [RequestNext]_requestVars => EffectIsGuarded' /\ OnceUnlessFault'
<1> SUFFICES ASSUME KeyInv, RequestTypeOK', [RequestNext]_requestVars
             PROVE EffectIsGuarded' /\ OnceUnlessFault'
  OBVIOUS
<1> USE BoundsAssumption
    DEF KeyInv, RequestTypeOK, RecordRow, InFlightHolds, EffectIsGuarded, OneAtATime, OnceUnlessFault,
        RecordIsTrue, PendingFor, InFlight
<1>1. ASSUME NEW a \in Attempt, Reserve(a) PROVE EffectIsGuarded' /\ OnceUnlessFault'
  BY <1>1 DEF Reserve, ReserveOutcome, Kept
<1>2. ASSUME NEW a \in Attempt, Execute(a) PROVE EffectIsGuarded' /\ OnceUnlessFault'
  BY <1>2 DEF Execute
<1>3. ASSUME NEW a \in Attempt, Complete(a) PROVE EffectIsGuarded' /\ OnceUnlessFault'
  BY <1>3 DEF Complete
<1>4. ASSUME NEW a \in Attempt, CompleteFails(a) PROVE EffectIsGuarded' /\ OnceUnlessFault'
  BY <1>4 DEF CompleteFails
<1>5. ASSUME NEW a \in Attempt, Abandon(a) PROVE EffectIsGuarded' /\ OnceUnlessFault'
  BY <1>5 DEF Abandon, Abandoned, NoRecord
<1>6. ASSUME NEW a \in Attempt, AbandonFails(a) PROVE EffectIsGuarded' /\ OnceUnlessFault'
  BY <1>6 DEF AbandonFails
<1>7. CASE Crash
  BY <1>7 DEF Crash, AfterCrash
<1>8. CASE Expire
  BY <1>8 DEF Expire
<1>9. CASE UNCHANGED requestVars
  BY <1>9 DEF requestVars
<1> QED
  BY <1>1, <1>2, <1>3, <1>4, <1>5, <1>6, <1>7, <1>8, <1>9 DEF RequestNext

\* The conjuncts that relate answers to effects, step by step.
LEMMA NextTrue ==
  RequestTypeOK /\ RequestTypeOK' /\ RecordIsTrue /\ AnswersTrue /\ [RequestNext]_requestVars
    => RecordIsTrue' /\ AnswersTrue'
<1> SUFFICES ASSUME RequestTypeOK, RequestTypeOK', RecordIsTrue, AnswersTrue, [RequestNext]_requestVars
             PROVE RecordIsTrue' /\ AnswersTrue'
  OBVIOUS
<1> USE AttemptsAssumption DEF RequestTypeOK, RecordRow, RecordIsTrue, AnswersTrue, PendingFor
<1>1. ASSUME NEW a \in Attempt, Reserve(a) PROVE RecordIsTrue' /\ AnswersTrue'
  BY <1>1 DEF Reserve, ReserveOutcome, Kept
<1>2. ASSUME NEW a \in Attempt, Execute(a) PROVE RecordIsTrue' /\ AnswersTrue'
  BY <1>2 DEF Execute
<1>3. ASSUME NEW a \in Attempt, Complete(a) PROVE RecordIsTrue' /\ AnswersTrue'
  <2>1. CASE PendingFor(a)
    <3>1. /\ record'.state = "completed" /\ record'.response = a
          /\ record'.hash = HashOf[a]
      BY <1>3, <2>1 DEF Complete
    <3>2. a \in effects /\ effects' = effects
      BY <1>3 DEF Complete
    <3>3. /\ pc' = [pc EXCEPT ![a] = "succeeded"]
          /\ answer' = [answer EXCEPT ![a] = a]
      BY <1>3, <2>1 DEF Complete
    <3> QED
      BY <3>1, <3>2, <3>3
  <2>2. CASE ~PendingFor(a)
    BY <1>3, <2>2 DEF Complete
  <2> QED
    BY <2>1, <2>2
<1>4. ASSUME NEW a \in Attempt, CompleteFails(a) PROVE RecordIsTrue' /\ AnswersTrue'
  BY <1>4 DEF CompleteFails
<1>5. ASSUME NEW a \in Attempt, Abandon(a) PROVE RecordIsTrue' /\ AnswersTrue'
  BY <1>5 DEF Abandon, NoRecord
<1>6. ASSUME NEW a \in Attempt, AbandonFails(a) PROVE RecordIsTrue' /\ AnswersTrue'
  BY <1>6 DEF AbandonFails
<1>7. CASE Crash
  BY <1>7 DEF Crash, AfterCrash, InFlight
<1>8. CASE Expire
  BY <1>8 DEF Expire
<1>9. CASE UNCHANGED requestVars
  BY <1>9 DEF requestVars
<1> QED
  BY <1>1, <1>2, <1>3, <1>4, <1>5, <1>6, <1>7, <1>8, <1>9 DEF RequestNext

-----------------------------------------------------------------------------
\* The inductive invariant holds in every reachable state of executeIdempotent and
\* the record it keeps.
THEOREM RecordInvariant == RequestSpec => []KeyInv
<1>1. RequestInit => KeyInv
  BY InitType
  DEF RequestInit, KeyInv, InFlightHolds, EffectIsGuarded, RecordIsTrue, OneAtATime, OnceUnlessFault,
      AnswersTrue, NoRecord, InFlight
<1>2. KeyInv /\ [RequestNext]_requestVars => KeyInv'
  BY NextType, NextHolds, NextGuarded, NextTrue DEF KeyInv
<1> QED
  BY <1>1, <1>2, PTL DEF RequestSpec

\* One attempt at a time is between reservation and end, while no record expires.
THEOREM OneAlwaysAtATime == RequestSpec => []OneAtATime
<1>1. KeyInv => OneAtATime
  BY DEF KeyInv
<1> QED
  BY <1>1, RecordInvariant, PTL

\* A command takes effect once, while no record expires and every completion is
\* written, whatever crashes, fails or overlaps.
THEOREM OnceAlwaysUnlessFault == RequestSpec => []OnceUnlessFault
<1>1. KeyInv => OnceUnlessFault
  BY DEF KeyInv
<1> QED
  BY <1>1, RecordInvariant, PTL

\* A successful answer reports a committed effect of a request with its input.
THEOREM AnswersAlwaysTrue == RequestSpec => []AnswersTrue
<1>1. KeyInv => AnswersTrue
  BY DEF KeyInv
<1> QED
  BY <1>1, RecordInvariant, PTL

\* No step of another attempt changes a completed record before it expires.
THEOREM CompletionAlwaysKept == RequestSpec => CompletionKept
<1> DEFINE Stays == record' = record \/ record' = [record EXCEPT !.expired = TRUE]
<1>1. RequestTypeOK /\ [RequestNext]_requestVars => (Kept /\ record.state = "completed" => Stays)
  <2> SUFFICES ASSUME RequestTypeOK, [RequestNext]_requestVars, Kept, record.state = "completed"
               PROVE Stays
    OBVIOUS
  <2>1. ASSUME NEW a \in Attempt, Reserve(a) PROVE Stays
    BY <2>1 DEF Reserve, ReserveOutcome, Kept
  <2>2. ASSUME NEW a \in Attempt, Complete(a) PROVE Stays
    BY <2>2 DEF Complete, PendingFor
  <2>3. ASSUME NEW a \in Attempt, Abandon(a) PROVE Stays
    BY <2>3 DEF Abandon, Abandoned, PendingFor
  <2>4. ASSUME NEW a \in Attempt, Execute(a) \/ CompleteFails(a) \/ AbandonFails(a) PROVE Stays
    BY <2>4 DEF Execute, CompleteFails, AbandonFails
  <2>5. CASE Crash \/ Expire \/ UNCHANGED requestVars
    BY <2>5 DEF Crash, AfterCrash, Expire, requestVars
  <2> QED
    BY <2>1, <2>2, <2>3, <2>4, <2>5 DEF RequestNext
<1>2. KeyInv => RequestTypeOK
  BY DEF KeyInv
<1> QED
  BY <1>1, <1>2, RecordInvariant, PTL DEF CompletionKept, RequestSpec
=============================================================================
