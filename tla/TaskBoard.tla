----------------------------- MODULE TaskBoard -----------------------------
(***************************************************************************)
(* The board of one project: its columns (ProjectCatalogService) and its   *)
(* tasks (TaskService), stored in SQLite.                                  *)
(*                                                                         *)
(* SqliteDatabase.write runs every command as one immediate transaction    *)
(* with a synchronous callback, one after another, so a command is one     *)
(* atomic action.  A command whose validation fails changes nothing and is *)
(* a guard here.  A command that passes its validation and is then refused *)
(* by a UNIQUE index rolls back: `aborted' names it.  `recorded' says      *)
(* whether the latest transaction appended audit and outbox rows (record). *)
(*                                                                         *)
(* Left out, because no command reads them: the revisions of projects and  *)
(* columns, colours, categories, timestamps and actors.  Membership,       *)
(* assignees, labels, comments and attachments are other components.       *)
(***************************************************************************)
EXTENDS Integers, FiniteSets, FiniteSetsExt

CONSTANTS
  Task,             \* task ids; generateId() returns one that is still absent
  Status,           \* column ids
  Name,             \* comparison keys of column names: lower(name)
  Text,             \* contents of a task: title, description, priority...
  None,             \* no parent, no anchor, no value yet
  DefaultColumns,   \* the columns createOwnedProject inserts
  DefaultName,      \* their names
  DefaultPosition,  \* and their positions
  MaxRevision       \* bound: a task is revised at most up to this revision

ASSUME IdsAssumption ==
  /\ IsFiniteSet(Task) /\ IsFiniteSet(Status)
  /\ None \notin Task /\ None \notin Status /\ None \notin Name

ASSUME DefaultsAssumption ==
  /\ DefaultColumns \subseteq Status /\ DefaultColumns # {}
  /\ DefaultName \in Injection(DefaultColumns, Name)
  /\ DefaultPosition \in Injection(DefaultColumns, Nat)

ASSUME BoundAssumption == MaxRevision \in Nat

VARIABLES
  project,   \* the projects row: lifecycle flags and nextTaskNumber
  status,    \* project_statuses rows
  task,      \* tasks rows
  recorded,  \* did the latest transaction append audit and outbox rows?
  aborted    \* the command the database rolled back last, if it was the latest

vars == <<project, status, task, recorded, aborted>>

Lifecycle == {"absent", "active", "archived"}
Commands == {"create_status", "rename_status", "reorder_statuses", "move_task"}

ProjectRow == [archived : BOOLEAN, deleted : BOOLEAN, nextTaskNumber : Nat]
StatusRow == [state : Lifecycle, name : Name \cup {None}, position : Nat]
TaskRow == [state : Lifecycle, number : Nat, parent : Task \cup {None},
            status : Status \cup {None}, position : Nat, revision : Nat,
            text : Text \cup {None}]

AbsentStatus == [state |-> "absent", name |-> None, position |-> 0]
AbsentTask == [state |-> "absent", number |-> 0, parent |-> None, status |-> None,
               position |-> 0, revision |-> 0, text |-> None]

-----------------------------------------------------------------------------
(* What the repositories read.                                             *)

ActiveStatuses == {s \in Status : status[s].state = "active"}

\* One ordering scope of the index tasks_project_scope_position_unique: the
\* active rows of a column under one parent.
Scope(s, p) ==
  {t \in Task : task[t].state = "active" /\ task[t].status = s /\ task[t].parent = p}

\* listTasks leaves out the active subtasks of an archived parent.
Listed(t) ==
  /\ task[t].state = "active"
  /\ task[t].parent # None => task[task[t].parent].state = "active"

\* SELECT coalesce(max(position), -1) + 1
NextAfter(positions) == IF positions = {} THEN 0 ELSE Max(positions) + 1

NextPosition(s, p) == NextAfter({task[t].position : t \in Scope(s, p)})

NextColumnPositionTaken == Max({status[s].position : s \in ActiveStatuses})  \* mutant

NextColumnPosition == NextAfter({status[s].position : s \in ActiveStatuses})

MutableUnlessDeleted == ~project.deleted  \* mutant

\* requireProject(..., mutable)
Mutable == ~project.archived /\ ~project.deleted

\* requireTask and requireRevision
Editable(t, expected) ==
  /\ Mutable
  /\ task[t].state = "active"
  /\ task[t].revision = expected

\* UPDATE ... SET position = position + offset checks the UNIQUE index row by
\* row, in an order SQLite chooses; then the rows are saved at 0 .. n - 1.
ShiftCollides(position, offset, n) ==
  \/ \E a, b \in DOMAIN position : position[a] + offset = position[b]
  \/ \E a \in DOMAIN position : position[a] + offset < n

-----------------------------------------------------------------------------
(* How a transaction ends.                                                 *)

Committed(facts) ==
  /\ recorded' = facts
  /\ aborted' = "none"

RolledBack(command) ==
  /\ aborted' = command
  /\ recorded' = FALSE
  /\ UNCHANGED <<project, status, task>>

-----------------------------------------------------------------------------
(* TaskService commands.                                                   *)

Init ==
  /\ project = [archived |-> FALSE, deleted |-> FALSE, nextTaskNumber |-> 1]
  /\ status = [s \in Status |->
       IF s \in DefaultColumns
         THEN [state |-> "active", name |-> DefaultName[s], position |-> DefaultPosition[s]]
         ELSE AbsentStatus]
  /\ task = [t \in Task |-> AbsentTask]
  /\ recorded = FALSE
  /\ aborted = "none"

\* Only an unarchived top-level task can be a parent (requireParent).
CanBeParent(p) == task[p].state = "active" /\ task[p].parent = None

NumberAfterCreate == project.nextTaskNumber + 1

CreateTask(t, s, p, x) ==
  /\ Mutable
  /\ task[t].state = "absent"
  /\ s \in ActiveStatuses
  /\ p # None => CanBeParent(p)
  /\ task' = [task EXCEPT ![t] =
       [state |-> "active", number |-> project.nextTaskNumber, parent |-> p,
        status |-> s, position |-> NextPosition(s, p), revision |-> 1, text |-> x]]
  /\ project' = [project EXCEPT !.nextTaskNumber = NumberAfterCreate]
  /\ Committed(TRUE)
  /\ UNCHANGED status

\* Saves a new revision whatever was sent, and records only fields that changed.
UpdateTask(t, expected, x) ==
  /\ Editable(t, expected)
  /\ expected < MaxRevision
  /\ task' = [task EXCEPT ![t].text = x, ![t].revision = @ + 1]
  /\ Committed(x # task[t].text)
  /\ UNCHANGED <<project, status>>

\* The listed tasks of the target column t is placed among.
Target(t, s) == {u \in Scope(s, task[t].parent) \ {t} : Listed(u)}

\* Mutant: t takes the anchor's place and the anchor goes to the end.
ReorderedBySwap(t, s, anchor) ==
  LET target == Target(t, s)
      before(u) == Cardinality({v \in target : task[v].position < task[u].position})
  IN [u \in target \cup {t} |->
        IF u = anchor \/ (u = t /\ anchor = None) THEN Cardinality(target)
        ELSE IF u = t THEN before(anchor) ELSE before(u)]

\* The dense order after t is inserted before `anchor', or at the end.
Reordered(t, s, anchor) ==
  LET target == Target(t, s)
      position(u) == task[u].position
      before(u) == Cardinality({v \in target : position(v) < position(u)})
  IN [u \in target \cup {t} |->
        IF u = t
          THEN IF anchor = None THEN Cardinality(target) ELSE before(anchor)
          ELSE IF anchor # None /\ position(u) >= position(anchor)
            THEN before(u) + 1
            ELSE before(u)]

SavedUnrevised(u, s, place) ==  \* mutant
  [task[u] EXCEPT !.status = s, !.position = place]

\* A listed task that changes its column or its place gets a new revision.
Saved(u, s, place) ==
  [task[u] EXCEPT !.status = s, !.position = place, !.revision = @ + 1]

MoveOffsetAsForColumns(s, p, n) == 2 * n + 1  \* mutant

\* Past every row of the scope and past the n places to assign.
MoveOffset(s, p, n) == NextPosition(s, p) + n + 1

\* reorderTasks: every row of the scope is shifted past the end, then the listed
\* rows are saved at their places.  A row that is not listed stays shifted.
MoveTask(t, expected, s, anchor) ==
  LET parent == task[t].parent
      scope == Scope(s, parent)
      order == Reordered(t, s, anchor)
      listed == DOMAIN order
      moved == {u \in listed : task[u].position # order[u] \/ task[u].status # s}
      n == Cardinality(listed)
      offset == MoveOffset(s, parent, n)
  IN
  /\ Editable(t, expected)
  /\ s \in ActiveStatuses
  /\ anchor \in Target(t, s) \cup {None}
  /\ moved # {}
  /\ \A u \in moved : task[u].revision < MaxRevision
  /\ \/ /\ task' = [u \in Task |->
             IF u \in moved
               THEN Saved(u, s, order[u])
               ELSE IF u \in scope \ listed
                 THEN [task[u] EXCEPT !.position = @ + offset]
                 ELSE task[u]]
        /\ Committed(TRUE)
        /\ UNCHANGED <<project, status>>
     \/ /\ ShiftCollides([u \in scope |-> task[u].position], offset, n)
        /\ RolledBack("move_task")

ArchiveTask(t, expected) ==
  /\ Editable(t, expected)
  /\ expected < MaxRevision
  /\ task' = [task EXCEPT ![t].state = "archived", ![t].revision = @ + 1]
  /\ Committed(TRUE)
  /\ UNCHANGED <<project, status>>

RestoredToOldPlace(row) == row.position  \* mutant

RestoredPosition(row) == NextPosition(row.status, row.parent)

\* The task returns to the end of the column it was archived in; the code does
\* not ask whether that column still exists.
RestoreTask(t, expected) ==
  LET row == task[t] IN
  /\ Mutable
  /\ row.state = "archived"
  /\ row.revision = expected
  /\ expected < MaxRevision
  /\ row.parent # None => task[row.parent].state = "active"
  /\ task' = [task EXCEPT ![t].state = "active",
                          ![t].position = RestoredPosition(row),
                          ![t].revision = @ + 1]
  /\ Committed(TRUE)
  /\ UNCHANGED <<project, status>>

-----------------------------------------------------------------------------
(* ProjectCatalogService commands on columns and on the project.  They     *)
(* need a project that is not deleted; an archived one is accepted.        *)

\* The validation compares the name with those of the active columns only; the
\* index project_statuses_project_name_unique covers the deleted ones as well.
NameShown(n) == \E s \in ActiveStatuses : status[s].name = n
NameStored(n) == \E s \in Status : status[s].state # "absent" /\ status[s].name = n

CreateStatus(s, n) ==
  /\ ~project.deleted
  /\ status[s].state = "absent"
  /\ ~NameShown(n)
  /\ IF NameStored(n)
       THEN RolledBack("create_status")
       ELSE /\ status' = [status EXCEPT ![s] =
                 [state |-> "active", name |-> n, position |-> NextColumnPosition]]
            /\ Committed(TRUE)
            /\ UNCHANGED <<project, task>>

RenameStatus(s, n) ==
  /\ ~project.deleted
  /\ s \in ActiveStatuses
  /\ status[s].name # n
  /\ ~NameShown(n)
  /\ IF NameStored(n)
       THEN RolledBack("rename_status")
       ELSE /\ status' = [status EXCEPT ![s].name = n]
            /\ Committed(TRUE)
            /\ UNCHANGED <<project, task>>

\* statuses.length <= 1
OtherColumnStays(s) == ActiveStatuses # {s}

\* deleteStatus archives the row.
DeleteStatus(s) ==
  /\ ~project.deleted
  /\ s \in ActiveStatuses
  /\ OtherColumnStays(s)
  /\ \A t \in Task : task[t].state = "active" => task[t].status # s
  /\ status' = [status EXCEPT ![s].state = "archived"]
  /\ Committed(TRUE)
  /\ UNCHANGED <<project, task>>

\* orderedIds.length * 2 + 1
ColumnOffset(n) == 2 * n + 1

\* `order' gives every active column its place in orderedStatusIds.
ReorderStatuses(order) ==
  LET n == Cardinality(ActiveStatuses) IN
  /\ ~project.deleted
  /\ \/ /\ status' = [s \in Status |->
             IF s \in ActiveStatuses THEN [status[s] EXCEPT !.position = order[s]]
                                     ELSE status[s]]
        /\ Committed(TRUE)
        /\ UNCHANGED <<project, task>>
     \/ /\ ShiftCollides([s \in ActiveStatuses |-> status[s].position], ColumnOffset(n), n)
        /\ RolledBack("reorder_statuses")

ColumnOrders == Injection(ActiveStatuses, 0 .. Cardinality(ActiveStatuses) - 1)

\* setProjectLifecycle also finds deleted projects; a second archive or delete
\* changes nothing.
ArchiveProject ==
  /\ ~project.archived
  /\ project' = [project EXCEPT !.archived = TRUE]
  /\ Committed(TRUE)
  /\ UNCHANGED <<status, task>>

RestoreProject ==
  /\ ~project.deleted
  /\ project.archived
  /\ project' = [project EXCEPT !.archived = FALSE]
  /\ Committed(TRUE)
  /\ UNCHANGED <<status, task>>

DeleteProject ==
  /\ ~project.deleted
  /\ project' = [project EXCEPT !.deleted = TRUE]
  /\ Committed(TRUE)
  /\ UNCHANGED <<status, task>>

-----------------------------------------------------------------------------

TaskCommand ==
  \E t \in Task :
    \/ \E s \in Status, p \in Task \cup {None}, x \in Text : CreateTask(t, s, p, x)
    \/ \E r \in 1 .. MaxRevision :
         \/ \E x \in Text : UpdateTask(t, r, x)
         \/ \E s \in Status, a \in Task \cup {None} : MoveTask(t, r, s, a)
         \/ ArchiveTask(t, r)
         \/ RestoreTask(t, r)

ColumnCommand ==
  \/ \E s \in Status, n \in Name : CreateStatus(s, n) \/ RenameStatus(s, n)
  \/ \E s \in Status : DeleteStatus(s)
  \/ \E order \in ColumnOrders : ReorderStatuses(order)

ProjectCommand == ArchiveProject \/ RestoreProject \/ DeleteProject

Next == TaskCommand \/ ColumnCommand \/ ProjectCommand

Spec == Init /\ [][Next]_vars

-----------------------------------------------------------------------------
(* Properties.                                                             *)

TypeOK ==
  /\ project \in ProjectRow
  /\ status \in [Status -> StatusRow]
  /\ task \in [Task -> TaskRow]
  /\ recorded \in BOOLEAN
  /\ aborted \in Commands \cup {"none"}

\* No two active tasks of a column under the same parent hold one position, so
\* tasks_project_scope_position_unique never refuses a create, move or restore.
PositionsUnique ==
  \A t, u \in Task :
    /\ t # u
    /\ task[t].state = "active" /\ task[u].state = "active"
    /\ task[t].status = task[u].status
    /\ task[t].parent = task[u].parent
    => task[t].position # task[u].position

\* Task references (KEY-12) are never reused: numbers are distinct and below the
\* project's nextTaskNumber, whatever is archived.
NumbersUnique ==
  \A t \in Task : task[t].state # "absent" =>
    /\ task[t].number < project.nextTaskNumber
    /\ \A u \in Task \ {t} : task[u].state # "absent" => task[u].number # task[t].number

\* Active columns have distinct positions, and no two columns, deleted ones
\* included, have one name.
ColumnsUnique ==
  \A s, r \in Status : s # r =>
    /\ (status[s].state = "active" /\ status[r].state = "active")
         => status[s].position # status[r].position
    /\ (status[s].state # "absent" /\ status[r].state # "absent")
         => status[s].name # status[r].name

\* A project always keeps a column, however deletions interleave with the rest.
ColumnKept == ActiveStatuses # {}

\* A valid move is never rolled back by the UNIQUE index: the shift of
\* reorderTasks clears every row it passes.
MovesCommit == aborted # "move_task"

\* A command changes the relative order of at most one task: for all others in
\* one scope before and after, who comes first stays as it was.
SameScope(t, u) ==
  /\ task[t].state = "active" /\ task[u].state = "active"
  /\ task[t].status = task[u].status /\ task[t].parent = task[u].parent

OrderKept(t, u) ==
  SameScope(t, u) /\ SameScope(t, u)' =>
    (task[t].position < task[u].position <=> task'[t].position < task'[u].position)

MovesKeepOrder ==
  [][\E m \in Task \cup {None} : \A t, u \in Task \ {m} : OrderKept(t, u)]_vars

\* What the expected revision of a command stands for: a stored task changes only
\* together with its revision, one at a time, even when the command named another
\* task of its column.  Only the subtasks of an archived parent, which no list
\* shows, may be shifted under an unchanged revision.
Hidden(t) == task[t].state = "active" /\ ~Listed(t)

RevisedTogether ==
  [][\A t \in Task :
       \/ task[t].state = "absent"
       \/ Hidden(t)
       \/ task'[t] = task[t]
       \/ task'[t].revision = task[t].revision + 1]_vars

\* An archived project is read-only for its tasks until it is restored, and a
\* deleted one for good.
FrozenProject ==
  [][project.archived \/ project.deleted => task' = task]_vars
=============================================================================
