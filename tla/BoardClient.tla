---------------------------- MODULE BoardClient ----------------------------
(***************************************************************************)
(* The board of a project in the browser (apps/web/src/project-tasks.tsx): *)
(* a list of tasks that events and commands load again, a layout that is   *)
(* computed from it, a card that is dragged over that layout and dropped   *)
(* or moved from its menu, and the writes of the editor, of the delete     *)
(* dialog and of the task panel (task-detail.tsx) to the list, while other *)
(* people move and delete the same tasks.                                  *)
(*                                                                         *)
(* The browser runs one callback at a time; a handler up to its next await *)
(* is one action, with the effects React runs after it.  Requests are      *)
(* answered in any order and may fail before or after the server took      *)
(* them.  Left out: further pages of the list, the switch to another       *)
(* project, filters, the order of the columns, and what a card shows.      *)
(***************************************************************************)
EXTENDS Integers, Sequences, SequencesExt, FiniteSets, FiniteSetsExt, Functions

CONSTANTS
  Task,        \* tasks, as numbers: a tie of positions is broken by it
  Column,      \* the columns
  Start,       \* the rows at first: column, position and revision per task
  Slot,        \* bound: background loads in flight at the same time
  Own,         \* the load a move awaits
  None,        \* no task
  MaxChanges   \* bound: changes the server commits

ASSUME TasksAssumption == IsFiniteSet(Task) /\ Task \subseteq Nat /\ None \notin Task
ASSUME SlotAssumption == Own \notin Slot
ASSUME BoundAssumption == MaxChanges \in Nat

Row == [column : Column, position : Nat, revision : Nat]
IsRows(r) == DOMAIN r \subseteq Task /\ r \in [DOMAIN r -> Row]
NoRows == [t \in {} |-> None]

ASSUME StartAssumption ==
  /\ IsRows(Start)
  /\ \A t, u \in DOMAIN Start :
       t # u => Start[t].column # Start[u].column \/ Start[t].position # Start[u].position

VARIABLES
  rows,       \* server: the active tasks
  used,       \* server: the ids given so far
  version,    \* server: how many changes it has committed
  unheard,    \* events on their way to this browser
  tasks,      \* the list the board holds
  twice,      \* tasks the list holds (and draws: not in layout) a second time
  layout,     \* per column, the cards in the order they are drawn
  seen,       \* history: the rows the layout was computed from
  frozen,     \* history: the list was refreshed and the layout was not
  drag,       \* the card in the air and the layout it was lifted from
  load,       \* the lists asked for
  loadError,  \* is a failed load on display?
  mover,      \* the move in progress: movingTaskId and what its closure holds
  dialog,     \* the request of the editor, the delete dialog or the task panel
  newest,     \* history: the latest version this board has been given
  overtaken   \* history: an older answer came after a newer one

server == <<rows, used, version, unheard>>
board == <<tasks, twice, layout, seen, frozen>>
history == <<newest, overtaken>>
vars == <<server, board, drag, load, loadError, mover, dialog, history>>

Loads == Slot \cup {Own}
Layouts == [Column -> Seq(Task)]
Nowhere == [c \in Column |-> << >>]
FreeLoad == [state |-> "free", version |-> 0, rows |-> NoRows]
NoDrag == [task |-> None, from |-> Nowhere]
NoMove == [state |-> "none", task |-> None, to |-> None, anchor |-> None,
           expected |-> 0, rollback |-> NoRows, twice |-> {}, seen |-> NoRows, frozen |-> FALSE]
NoDialog == [state |-> "none", task |-> None, version |-> 0, row |-> None]

-----------------------------------------------------------------------------
(* Lists and layouts.                                                      *)

Before(r, t, u) == r[t].position < r[u].position \/ (r[t].position = r[u].position /\ t < u)

\* The cards of a column, by position.
Ordered(r, c) ==
  LET cards == {t \in DOMAIN r : r[t].column = c}
  IN [i \in 1..Cardinality(cards) |->
        CHOOSE t \in cards : Cardinality({u \in cards : Before(r, u, t)}) = i - 1]

\* createTaskLayout
CreateTaskLayout(r) == [c \in Column |-> Ordered(r, c)]

\* The cards of a column with t before the anchor: at the end without one, at
\* the top when the column does not have it.
Inserted(r, t, c, anchor) ==
  LET others == Ordered(Restrict(r, DOMAIN r \ {t}), c)
      index == IF anchor = None THEN Len(others) + 1
               ELSE IF anchor \in Range(others)
                      THEN CHOOSE i \in DOMAIN others : others[i] = anchor
                      ELSE 1
  IN InsertAt(others, index, t)

\* optimisticallyMove: the target column gets dense positions.
OptimisticallyMove(r, t, c, anchor) ==
  LET order == Inserted(r, t, c, anchor)
  IN [u \in DOMAIN r |->
        IF u \in Range(order)
          THEN [r[u] EXCEPT !.column = c,
                            !.position = (CHOOSE i \in DOMAIN order : order[i] = u) - 1]
          ELSE r[u]]

-----------------------------------------------------------------------------
(* The server: moveTask, archiveTask and createTask of TaskService.        *)

Committed(r) ==
  /\ version < MaxChanges
  /\ rows' = r /\ version' = version + 1 /\ unheard' = unheard + 1

\* Every task of the target column whose place changes gets a new revision.
Moved(t, c, anchor) ==
  LET placed == OptimisticallyMove(rows, t, c, anchor)
  IN [u \in DOMAIN rows |->
        IF placed[u] = rows[u] THEN rows[u] ELSE [placed[u] EXCEPT !.revision = @ + 1]]

AnchorHolds(t, c, anchor) ==
  anchor # None => anchor # t /\ anchor \in DOMAIN rows /\ rows[anchor].column = c

Others == UNCHANGED <<board, drag, load, loadError, mover, dialog, history>>

OtherMoves(t, c, anchor) ==
  /\ t \in DOMAIN rows /\ AnchorHolds(t, c, anchor)
  /\ Committed(Moved(t, c, anchor)) /\ rows' # rows
  /\ UNCHANGED used
  /\ Others

OtherArchives(t) ==
  /\ t \in DOMAIN rows
  /\ Committed(Restrict(rows, DOMAIN rows \ {t}))
  /\ UNCHANGED used
  /\ Others

-----------------------------------------------------------------------------
(* What the board shows.                                                   *)

Init ==
  /\ rows = Start /\ used = DOMAIN Start /\ version = 0 /\ unheard = 0
  /\ tasks = Start /\ twice = {}
  /\ layout = CreateTaskLayout(Start) /\ seen = Start /\ frozen = FALSE
  /\ drag = NoDrag
  /\ load = [s \in Loads |-> FreeLoad]
  /\ loadError = FALSE
  /\ mover = NoMove /\ dialog = NoDialog
  /\ newest = 0 /\ overtaken = FALSE

\* The layout effect, which leaves the layout alone while a card is in the air.
LayoutEffect(r) ==
  IF drag.task # None
    THEN frozen' = TRUE /\ UNCHANGED <<layout, seen>>
    ELSE layout' = CreateTaskLayout(r) /\ seen' = r /\ frozen' = FALSE

SetTasks(r) == tasks' = r /\ LayoutEffect(r)

\* The history of a whole list, and of an answer that only adds or takes away.
Replaced(number) ==
  /\ newest' = IF number > newest THEN number ELSE newest
  /\ overtaken' = (number < newest)

Patched(number, stale) ==
  /\ newest' = IF number > newest THEN number ELSE newest
  /\ overtaken' = (overtaken \/ stale)

Ask(s) ==
  /\ load[s].state = "free"
  /\ load' = [load EXCEPT ![s].state = "asked"]
  /\ loadError' = FALSE

LoadServed(s) ==
  /\ load[s].state = "asked"
  /\ load' = [load EXCEPT ![s] = [state |-> "answered", version |-> version, rows |-> rows]]
  /\ UNCHANGED <<server, board, drag, loadError, mover, dialog, history>>

MoverAfterAnswer(s) ==  \* mutant
  IF s = Own /\ load[s].state = "answered" THEN NoMove ELSE mover

\* The move that awaits its own load ends with it (finally).
MoverAfter(s) == IF s = Own THEN NoMove ELSE mover

LoadHeard(s) ==
  /\ load[s].state = "answered"
  /\ SetTasks(load[s].rows) /\ twice' = {}
  /\ Replaced(load[s].version)
  /\ mover' = MoverAfter(s)
  /\ load' = [load EXCEPT ![s] = FreeLoad]
  /\ UNCHANGED <<server, drag, loadError, dialog>>

LoadFails(s) ==
  /\ load[s].state = "asked"
  /\ loadError' = TRUE
  /\ mover' = MoverAfter(s)
  /\ load' = [load EXCEPT ![s] = FreeLoad]
  /\ UNCHANGED <<server, board, drag, dialog, history>>

\* The listener loads the list again, whatever else is going on.
EventHeard(s) ==
  /\ unheard > 0 /\ unheard' = unheard - 1
  /\ Ask(s)
  /\ UNCHANGED <<rows, used, version, board, drag, mover, dialog, history>>

Retry(s) ==
  /\ loadError
  /\ Ask(s)
  /\ UNCHANGED <<server, board, drag, mover, dialog, history>>

-----------------------------------------------------------------------------
(* Dragging a card.                                                        *)

\* The board is not behind the editor; the panel can be closed while it waits.
Uncovered == drag.task = None /\ dialog.state # "created"

\* Cards are disabled while a move is under way.
DragStart(t) ==
  /\ Uncovered /\ mover.state = "none"
  /\ t \in DOMAIN tasks /\ \E c \in Column : t \in Range(layout[c])
  /\ drag' = [task |-> t, from |-> layout]
  /\ UNCHANGED <<server, board, load, loadError, mover, dialog, history>>

Without(s, t) ==
  IF t \in Range(s) THEN RemoveAt(s, CHOOSE i \in DOMAIN s : s[i] = t) ELSE s

\* The layout with the card in the air at place i of column c.
Over(t, c, i) ==
  [d \in Column |-> IF d = c THEN InsertAt(Without(layout[d], t), i, t)
                             ELSE Without(layout[d], t)]

DragOver(c, i) ==
  /\ drag.task # None
  /\ i \in 1..(Len(Without(layout[c], drag.task)) + 1)
  /\ Over(drag.task, c, i) # layout
  /\ layout' = Over(drag.task, c, i)
  /\ UNCHANGED <<server, tasks, twice, seen, frozen, drag, load, loadError, mover, dialog, history>>

\* What a cancelled drag puts back.
LayoutRestored == drag.from

DragCancel ==
  /\ drag.task # None
  /\ layout' = LayoutRestored
  /\ drag' = NoDrag
  /\ UNCHANGED <<server, tasks, twice, seen, frozen, load, loadError, mover, dialog, history>>

\* The card is where it was, or has left the list: nothing happens, and the
\* layout stays as it was drawn.
DropIgnored ==
  /\ drag.task # None
  /\ layout = drag.from \/ drag.task \notin DOMAIN tasks
  /\ drag' = NoDrag
  /\ UNCHANGED <<server, board, load, loadError, mover, dialog, history>>

\* moveTask: the list as it is now gives the revision.
MoveTask(t, c, anchor) ==
  LET moved == OptimisticallyMove(tasks, t, c, anchor)
  IN /\ t \in DOMAIN tasks /\ mover.state = "none"
     /\ mover' = [state |-> "sent", task |-> t, to |-> c, anchor |-> anchor,
                  expected |-> tasks[t].revision, rollback |-> tasks, twice |-> twice,
                  seen |-> seen, frozen |-> frozen]
     /\ tasks' = moved
     /\ layout' = CreateTaskLayout(moved) /\ seen' = moved /\ frozen' = FALSE
     /\ drag' = NoDrag
     /\ UNCHANGED <<server, twice, load, loadError, dialog, history>>

\* The layout gives the place.
Drop ==
  LET t == drag.task
      c == CHOOSE d \in Column : t \in Range(layout[d])
      i == CHOOSE j \in DOMAIN layout[c] : layout[c][j] = t
  IN /\ t # None /\ layout # drag.from
     /\ MoveTask(t, c, IF i = Len(layout[c]) THEN None ELSE layout[c][i + 1])

\* "Move to": another column, at its end.
MenuMove(t, c) ==
  /\ Uncovered
  /\ t \in DOMAIN tasks /\ tasks[t].column # c
  /\ MoveTask(t, c, None)

RevisionIgnored(t, expected) == t \in DOMAIN rows  \* mutant

\* requireTask and requireRevision
Editable(t, expected) == t \in DOMAIN rows /\ rows[t].revision = expected

MoveServed ==
  LET t == mover.task
  IN /\ mover.state = "sent"
     /\ IF Editable(t, mover.expected) /\ AnchorHolds(t, mover.to, mover.anchor)
          THEN /\ IF Moved(t, mover.to, mover.anchor) = rows
                    THEN UNCHANGED server
                    ELSE Committed(Moved(t, mover.to, mover.anchor)) /\ UNCHANGED used
               /\ mover' = [mover EXCEPT !.state = "accepted"]
          ELSE mover' = [mover EXCEPT !.state = "refused"] /\ UNCHANGED server
     /\ UNCHANGED <<board, drag, load, loadError, dialog, history>>

MoveFails ==
  /\ mover.state \in {"sent", "accepted"}
  /\ mover' = [mover EXCEPT !.state = "refused"]
  /\ UNCHANGED <<server, board, drag, load, loadError, dialog, history>>

\* What is left of a move whose load is awaited: the disabled cards.
Reloading == [NoMove EXCEPT !.state = "loading"]

MoveHeard ==
  /\ mover.state = "accepted"
  /\ Ask(Own)
  /\ mover' = Reloading
  /\ UNCHANGED <<server, board, drag, dialog, history>>

NoReloadAfterRollback ==  \* mutant
  /\ mover' = NoMove
  /\ UNCHANGED <<load, loadError>>

ReloadAfterRollback ==
  /\ Ask(Own)
  /\ mover' = Reloading

\* Refused or failed: the list as it was at the drop, then the latest one.
MoveRolledBack ==
  /\ mover.state = "refused"
  /\ SetTasks(mover.rollback) /\ twice' = mover.twice
  /\ ReloadAfterRollback
  /\ UNCHANGED <<server, drag, dialog, history>>

-----------------------------------------------------------------------------
(* The editor, the delete dialog and the task panel: one request at a      *)
(* time, from the server's step on.  Until then, and when it is refused,   *)
(* it changes nothing here.                                                *)

NextPosition(c) ==
  LET taken == {rows[t].position : t \in {u \in DOMAIN rows : rows[u].column = c}}
  IN IF taken = {} THEN 0 ELSE Max(taken) + 1

WithRow(r, t, row) == [u \in DOMAIN r \cup {t} |-> IF u = t THEN row ELSE r[u]]

\* The editor is modal.
CreateServed(t, c) ==
  LET row == [column |-> c, position |-> NextPosition(c), revision |-> 1]
  IN /\ dialog.state = "none" /\ drag.task = None
     /\ t \in Task \ used
     /\ used' = used \cup {t}
     /\ Committed(WithRow(rows, t, row))
     /\ dialog' = [state |-> "created", task |-> t, version |-> version + 1, row |-> row]
     /\ UNCHANGED <<board, drag, load, loadError, mover, history>>

\* [...current, created]: whatever the list already holds.
CreateHeard ==
  /\ dialog.state = "created"
  /\ IF dialog.task \in DOMAIN tasks
       THEN twice' = twice \cup {dialog.task} /\ SetTasks(tasks) /\ UNCHANGED history
       ELSE /\ SetTasks(WithRow(tasks, dialog.task, dialog.row))
            /\ Patched(dialog.version, dialog.version <= newest)
            /\ UNCHANGED twice
  /\ dialog' = NoDialog
  /\ UNCHANGED <<server, drag, load, loadError, mover>>

\* From the delete dialog of the board or from the panel.
DeleteServed(t) ==
  /\ dialog.state = "none"
  /\ t \in DOMAIN rows
  /\ Committed(Restrict(rows, DOMAIN rows \ {t}))
  /\ UNCHANGED used
  /\ dialog' = [state |-> "deleted", task |-> t, version |-> version + 1, row |-> None]
  /\ UNCHANGED <<board, drag, load, loadError, mover, history>>

\* The filter takes every row of the task out.
TwiceWithoutDeleted == twice \ {dialog.task}

DeleteHeard ==
  /\ dialog.state = "deleted"
  /\ SetTasks(Restrict(tasks, DOMAIN tasks \ {dialog.task}))
  /\ twice' = TwiceWithoutDeleted
  /\ Patched(dialog.version, FALSE)
  /\ dialog' = NoDialog
  /\ UNCHANGED <<server, drag, load, loadError, mover>>

Revised(t) == [rows EXCEPT ![t].revision = @ + 1]

\* An upload, which asks for no revision, or the first request of a save, or one
\* more of them, which asks for the revision the one before has given.
PanelServed(t) ==
  /\ t \in DOMAIN rows
  /\ \/ dialog.state = "none"
     \/ dialog.state = "saving" /\ dialog.task = t /\ Editable(t, dialog.row.revision)
  /\ \/ Committed(Revised(t))
     \/ \E c \in Column : Committed(Moved(t, c, None)) /\ rows' # rows
  /\ UNCHANGED used
  /\ dialog' = [state |-> "saving", task |-> t, version |-> version + 1, row |-> rows'[t]]
  /\ UNCHANGED <<board, drag, load, loadError, mover, history>>

\* onTaskChanged: the row the list holds of the task, if any.
PanelHeard ==
  LET t == dialog.task
  IN /\ dialog.state = "saving"
     /\ IF t \in DOMAIN tasks
          THEN /\ SetTasks([tasks EXCEPT ![t] = dialog.row])
               /\ Patched(dialog.version, dialog.version < newest /\ tasks[t] # dialog.row)
          ELSE SetTasks(tasks) /\ UNCHANGED history
     /\ dialog' = NoDialog
     /\ UNCHANGED <<server, twice, drag, load, loadError, mover>>

\* The answer is lost: the dialog shows why, the board is left as it is.
DialogFails ==
  /\ dialog.state # "none"
  /\ dialog' = NoDialog
  /\ UNCHANGED <<server, board, drag, load, loadError, mover, history>>

Next ==
  \/ \E t \in Task, c \in Column, a \in Task \cup {None} : OtherMoves(t, c, a)
  \/ \E t \in Task : OtherArchives(t) \/ DragStart(t) \/ DeleteServed(t) \/ PanelServed(t)
  \/ \E s \in Loads : LoadServed(s) \/ LoadHeard(s) \/ LoadFails(s)
  \/ \E s \in Slot : EventHeard(s) \/ Retry(s)
  \/ \E c \in Column, i \in 1..Cardinality(Task) : DragOver(c, i)
  \/ \E t \in Task, c \in Column : MenuMove(t, c) \/ CreateServed(t, c)
  \/ DragCancel \/ DropIgnored \/ Drop
  \/ MoveServed \/ MoveFails \/ MoveHeard \/ MoveRolledBack
  \/ CreateHeard \/ DeleteHeard \/ PanelHeard \/ DialogFails

\* A request the browser has sent is answered or fails, and callbacks run: the
\* steps of a move, of which one at a time is enabled.
MoveProgress ==
  \/ MoveFails \/ MoveServed \/ MoveHeard \/ MoveRolledBack
  \/ LoadFails(Own) \/ LoadServed(Own) \/ LoadHeard(Own)

Fairness == WF_vars(MoveProgress)

Spec == Init /\ [][Next]_vars /\ Fairness

-----------------------------------------------------------------------------
IsLoad(l) ==
  /\ l \in [state : {"free", "asked", "answered"}, version : Nat, rows : {l.rows}]
  /\ IsRows(l.rows)

IsMove(m) ==
  /\ m \in [state : {"none", "sent", "accepted", "refused", "loading"},
            task : Task \cup {None}, to : Column \cup {None},
            anchor : Task \cup {None}, expected : Nat, rollback : {m.rollback},
            twice : SUBSET DOMAIN m.rollback, seen : {m.seen}, frozen : BOOLEAN]
  /\ m.state \notin {"none", "loading"} => m.task \in Task /\ m.to \in Column
  /\ IsRows(m.rollback) /\ IsRows(m.seen)

TypeOK ==
  /\ IsRows(rows) /\ used \subseteq Task
  /\ version \in 0..MaxChanges /\ unheard \in Nat
  /\ IsRows(tasks) /\ twice \subseteq DOMAIN tasks
  /\ layout \in Layouts /\ IsRows(seen) /\ frozen \in BOOLEAN
  /\ drag \in [task : Task \cup {None}, from : Layouts]
  /\ load = [s \in Loads |-> load[s]] /\ \A s \in Loads : IsLoad(load[s])
  /\ loadError \in BOOLEAN
  /\ IsMove(mover)
  /\ dialog \in [state : {"none", "created", "deleted", "saving"},
                 task : Task \cup {None}, version : Nat, row : Row \cup {None}]
  /\ newest \in 0..version /\ overtaken \in BOOLEAN

Quiet ==
  /\ \A s \in Loads : load[s].state = "free"
  /\ mover.state = "none" /\ dialog.state = "none" /\ drag.task = None
  /\ unheard = 0

\* When every request has been answered and every event heard, the list is the
\* server's, through optimistic moves, rollbacks, creations, deletions and the
\* panel's writes; or the board says that loading failed, or an older answer (a
\* list, a created task, the panel's task) came last.  What is drawn is that list,
\* unless it was refreshed while a card was in the air.  A task that a list brought
\* before the answer of its creation stays in the list twice.
Settled ==
  Quiet /\ ~loadError /\ ~overtaken =>
    /\ tasks = rows
    /\ layout = CreateTaskLayout(rows) \/ frozen

\* A move that the server accepts takes the card from the column where the
\* user saw it, unless the list was refreshed under a layout that stayed as it was.
MoveFromSeen ==
  [][mover.state = "sent" /\ mover'.state = "accepted" /\ ~mover.frozen
       => rows[mover.task].column = mover.seen[mover.task].column]_vars

\* A drop never leaves the cards disabled: whatever is refused or fails, the
\* move ends.
MoveEnds == mover.state # "none" ~> mover.state = "none"
=============================================================================
