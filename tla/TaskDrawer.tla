----------------------------- MODULE TaskDrawer -----------------------------
(***************************************************************************)
(* The task panel of the browser (apps/web/src/task-detail.tsx): it shows  *)
(* one task, edits a draft of it and saves the draft as a series of        *)
(* requests, while other people change the task and every change comes     *)
(* back as an invalidation event that makes the panel load the task again. *)
(*                                                                         *)
(* The fields of a task are of two kinds.  `Revised' lists the fields the  *)
(* panel sends with expectedRevision, in the order of its requests (in the *)
(* code: move, update, replaceAssignees); `Extension' are the fields of    *)
(* plugins, which setExtensionField writes without one.                    *)
(*                                                                         *)
(* Requests are answered in any order, and any of them can fail before or  *)
(* after the server took it.  The browser runs one callback at a time, so  *)
(* a handler up to its next await is one action.                           *)
(***************************************************************************)
EXTENDS Integers, Sequences, SequencesExt, FiniteSetsExt

CONSTANTS
  Task,        \* the tasks of the project
  First,       \* the task whose panel is opened first
  Revised,     \* sequence: the fields sent with expectedRevision
  Extension,   \* sequence: the fields of plugins, sent without it
  Value,       \* contents of a field
  Fresh,       \* what every field holds at first
  Slot,        \* bound: loads the panel has in flight at the same time
  None,        \* nothing shown yet
  Busy,        \* bound: the tasks other people change
  MaxChanges,  \* bound: changes the server commits
  MaxOpens     \* bound: times the panel turns to another task

Order == Revised \o Extension
Field == Range(Order)

ASSUME FieldsAssumption ==
  /\ Revised \in Seq(Range(Revised)) /\ Extension \in Seq(Range(Extension))
  /\ IsInjective(Order) /\ Fresh \in Value
ASSUME BoundAssumption == Busy \subseteq Task /\ MaxChanges \in Nat /\ MaxOpens \in Nat

Fields == [Field -> Value]
Snapshot == [of : Task, revision : Nat, value : Fields]

ASSUME PanelAssumption == First \in Task /\ None \notin Snapshot \cup Fields

VARIABLES
  task,         \* server: revision and fields of every task; history: the revision
                \* and the version of its last change with an event
  version,      \* server: how many changes it has committed
  unheard,      \* invalidation events on their way to this browser, per task
  opened,       \* taskId: the task the panel was opened for
  opens,        \* how often the panel has turned to another task
  detail,       \* the task the panel shows
  draft,        \* the fields as the form holds them
  base,         \* the fields the form was filled with
  editing,      \* is the form open?
  load,         \* the loads in flight
  upload,       \* the attachment being uploaded
  save,         \* the save in progress
  loadError,    \* is a failed load on display?
  newest,       \* history: the latest version this panel has been given
  overtaken     \* history: the answer on display is older than one before it, or an
                \* answer for another task has been on display ("foreign")

server == <<task, version, unheard>>
history == <<newest, overtaken>>
panel == <<opened, opens, detail, draft, base, editing>>
vars == <<server, panel, load, upload, save, loadError, history>>

NoAnswer == [of |-> First, revision |-> 1, value |-> [f \in Field |-> Fresh]]

FreeSlot == [state |-> "free", awaited |-> FALSE, version |-> 0, answer |-> NoAnswer]
NoUpload == [state |-> "none", editing |-> FALSE, version |-> 0, answer |-> NoAnswer]
NoSave == [state |-> "idle", at |-> 1, draft |-> NoAnswer.value, base |-> NoAnswer.value,
           task |-> NoAnswer, opened |-> First, cause |-> "none",
           mixed |-> FALSE, overwritten |-> {}, held |-> {}]

-----------------------------------------------------------------------------
(* The server.                                                             *)

Read(t) == [of |-> t, revision |-> task[t].revision, value |-> task[t].value]

\* Every command appends one outbox fact, so one event follows every change.
Commit(t, revision, value) ==
  /\ version < MaxChanges
  /\ version' = version + 1
  /\ task' = [task EXCEPT ![t] = [revision |-> revision, announced |-> revision,
                                  changed |-> version + 1, value |-> value]]
  /\ unheard' = [unheard EXCEPT ![t] = @ + 1]

NextRevision(t, f) == task[t].revision + (IF f \in Range(Revised) THEN 1 ELSE 0)

\* Somebody else changes a field of a task.
OtherEdits(t, f, v) ==
  /\ v # task[t].value[f]
  /\ Commit(t, NextRevision(t, f), [task[t].value EXCEPT ![f] = v])
  /\ UNCHANGED <<panel, load, upload, save, loadError, history>>

\* A neighbour on the board moves and this task makes room for it: it has a new
\* revision (reorderTasks), but the event of that move names the neighbour.
NeighbourMoves(t) ==
  /\ version < MaxChanges
  /\ version' = version + 1
  /\ task' = [task EXCEPT ![t].revision = @ + 1]
  /\ UNCHANGED <<unheard, panel, load, upload, save, loadError, history>>

-----------------------------------------------------------------------------
(* What an answer does to the panel.                                       *)

Init ==
  /\ task = [t \in Task |-> [revision |-> 1, announced |-> 1, changed |-> 0,
                          value |-> NoAnswer.value]]
  /\ version = 0
  /\ unheard = [t \in Task |-> 0]
  /\ opened = First /\ opens = 0
  /\ detail = None /\ draft = None /\ base = None
  /\ editing = FALSE
  /\ \E s \in Slot :
       load = [[x \in Slot |-> FreeSlot] EXCEPT ![s].state = "asked"]
  /\ upload = NoUpload
  /\ save = NoSave
  /\ loadError = FALSE
  /\ newest = 0 /\ overtaken = "no"

\* The history of an answer that is put on display.
Noted(answer, number) ==
  /\ newest' = IF answer.of = opened /\ number > newest THEN number ELSE newest
  /\ overtaken' = IF answer.of # opened \/ overtaken = "foreign" THEN "foreign"
                  ELSE IF number < newest THEN "older" ELSE "no"

\* initialDraft
InitialDraft(answer) == answer.value

\* setDetail(next), and setDraft(initialDraft(next)) unless the draft is kept.
Display(answer, keep) ==
  /\ detail' = answer
  /\ draft' = IF keep THEN draft ELSE InitialDraft(answer)
  /\ base' = IF keep THEN base ELSE InitialDraft(answer)

\* load() starts: three requests of which the task matters.
Ask(s, t, awaited) ==
  /\ load[s].state = "free"
  /\ load' = [load EXCEPT ![s] = [FreeSlot EXCEPT !.state = "asked", !.awaited = awaited,
                                           !.answer.of = t]]
  /\ loadError' = FALSE

LoadServed(s) ==
  /\ load[s].state = "asked"
  /\ load' = [load EXCEPT ![s].state = "answered", ![s].version = version,
                          ![s].answer = Read(load[s].answer.of)]
  /\ UNCHANGED <<server, panel, upload, save, loadError, history>>

\* The save that awaited this load returns: true closes the form.
EditingAfter(awaited) == editing /\ ~(awaited /\ save.cause = "done")

SaveAfter(awaited) == IF awaited THEN NoSave ELSE save

LoadHeard(s) ==
  LET awaited == load[s].awaited
      answer == load[s].answer
  IN /\ load[s].state = "answered"
     /\ Display(answer, FALSE)
     /\ Noted(answer, load[s].version)
     /\ editing' = EditingAfter(awaited)
     /\ save' = SaveAfter(awaited)
     /\ load' = [load EXCEPT ![s] = FreeSlot]
     /\ UNCHANGED <<server, opened, opens, upload, loadError>>

\* load() catches its own failure, so the save that awaits it goes on as well.
LoadFails(s) ==
  LET awaited == load[s].awaited
  IN /\ load[s].state = "asked"
     /\ loadError' = TRUE
     /\ editing' = EditingAfter(awaited)
     /\ save' = SaveAfter(awaited)
     /\ load' = [load EXCEPT ![s] = FreeSlot]
     /\ UNCHANGED <<server, opened, opens, detail, draft, base, upload, history>>

ConcernsUnlessEditing(t) == t = opened /\ ~editing  \* mutant

\* The listener reloads for the task it shows (and for project facts that are
\* not about a task, which are left out: they change nothing it shows).
Concerns(t) == t = opened

\* An invalidation event arrives.
EventHeard(t, s) ==
  /\ unheard[t] > 0
  /\ unheard' = [unheard EXCEPT ![t] = @ - 1]
  /\ IF Concerns(t) THEN Ask(s, opened, FALSE) ELSE UNCHANGED <<load, loadError>>
  /\ UNCHANGED <<task, version, panel, upload, save, history>>

\* A failed load hides the form behind its message, which offers to try again.
Retry(s) ==
  /\ loadError
  /\ Ask(s, opened, FALSE)
  /\ UNCHANGED <<server, panel, upload, save, history>>

\* taskId changes: the panel is emptied and loads; what is in flight stays so.
Open(t, s) ==
  /\ t # opened /\ opens < MaxOpens
  /\ opened' = t /\ opens' = opens + 1
  /\ detail' = None /\ draft' = None /\ base' = None
  /\ editing' = FALSE
  /\ Ask(s, t, FALSE)
  /\ newest' = 0 /\ overtaken' = "no"
  /\ UNCHANGED <<server, upload, save>>

-----------------------------------------------------------------------------
(* The form.                                                               *)

StartEditing ==
  /\ detail # None /\ ~editing
  /\ editing' = TRUE
  /\ draft' = InitialDraft(detail) /\ base' = InitialDraft(detail)
  /\ UNCHANGED <<server, opened, opens, detail, load, upload, save, loadError, history>>

CancelEditing ==
  /\ editing /\ detail # None /\ save.state = "idle"
  /\ editing' = FALSE
  /\ draft' = InitialDraft(detail) /\ base' = InitialDraft(detail)
  /\ UNCHANGED <<server, opened, opens, detail, load, upload, save, loadError, history>>

Type(f, v) ==
  /\ editing /\ save.state = "idle" /\ draft # None /\ ~loadError
  /\ v # draft[f]
  /\ draft' = [draft EXCEPT ![f] = v]
  /\ UNCHANGED <<server, opened, opens, detail, base, editing, load, upload, save,
                 loadError, history>>

-----------------------------------------------------------------------------
(* save: one request per changed field, in order, each with the revision   *)
(* the one before it returned.                                             *)

AdvanceOnce(s) ==  \* mutant: only the first difference is sent
  IF s.at > 1 \/ \A i \in DOMAIN Order : s.draft[Order[i]] = s.task.value[Order[i]]
    THEN [s EXCEPT !.state = "reload", !.cause = "done"]
    ELSE [s EXCEPT !.state = "sent",
                   !.at = Min({i \in DOMAIN Order : s.draft[Order[i]] # s.task.value[Order[i]]})]

\* The next field that differs from the task as last answered, or the end.
Advance(s) ==
  LET changed == {i \in s.at..Len(Order) : s.draft[Order[i]] # s.task.value[Order[i]]}
  IN IF changed = {}
       THEN [s EXCEPT !.state = "reload", !.cause = "done"]
       ELSE [s EXCEPT !.state = "sent", !.at = Min(changed)]

\* History: the fields of the draft that the task, as last answered, holds.
Held(s) == {f \in Field : s.task.value[f] = s.draft[f]}

WithHeld(s) == [s EXCEPT !.held = @ \cup Held(s)]

Save ==
  /\ editing /\ detail # None /\ draft # None /\ save.state = "idle"
  /\ save' = Advance(WithHeld([NoSave EXCEPT
       !.draft = draft, !.base = base, !.task = detail, !.opened = opened,
       !.mixed = (base # detail.value)]))
  /\ UNCHANGED <<server, panel, load, upload, loadError, history>>

Sending == Order[save.at]

NoRevisionChecked(f) == TRUE  \* mutant

\* requireRevision; setExtensionField has no expectedRevision to require.
RevisionHolds(f) == f \in Range(Revised) => task[save.task.of].revision = save.task.revision

Accepted(f, v) ==
  LET t == save.task.of
      value == [task[t].value EXCEPT ![f] = v]
      lost == IF task[t].value[f] \in {save.base[f], v} THEN {} ELSE {f}
      answer == IF f \in Range(Revised)
                  THEN [of |-> t, revision |-> NextRevision(t, f), value |-> value]
                ELSE [save.task EXCEPT !.value = [g \in Field |->
                        IF g \in Range(Extension) THEN value[g] ELSE save.task.value[g]]]
  IN /\ RevisionHolds(f)
     /\ Commit(t, NextRevision(t, f), value)
     /\ save' = WithHeld([save EXCEPT !.state = "accepted", !.task = answer,
                                      !.overwritten = @ \cup lost])

\* A conflict: the error is shown and the task is loaded again.
Refused(f) ==
  /\ ~RevisionHolds(f)
  /\ save' = [save EXCEPT !.state = "reload", !.cause = "conflict"]
  /\ UNCHANGED server

SaveServed ==
  /\ save.state = "sent"
  /\ Accepted(Sending, save.draft[Sending]) \/ Refused(Sending)
  /\ UNCHANGED <<panel, load, upload, loadError, history>>

SaveHeard ==
  /\ save.state = "accepted"
  /\ save' = Advance([save EXCEPT !.at = @ + 1])
  /\ UNCHANGED <<server, panel, load, upload, loadError, history>>

\* Any other failure, before or after the server took the request: the form
\* stays as it is, over the task as it was before the save.
SaveFails ==
  /\ save.state \in {"sent", "accepted"}
  /\ save' = NoSave
  /\ UNCHANGED <<server, panel, load, upload, loadError, history>>

SaveReloads(s) ==
  /\ save.state = "reload"
  /\ Ask(s, save.opened, TRUE)
  /\ save' = [save EXCEPT !.state = "loading"]
  /\ UNCHANGED <<server, panel, upload, history>>

-----------------------------------------------------------------------------
(* An attachment: its answer is a whole task (applyDetail), and whether it *)
(* replaces the draft was decided when the upload began.                   *)

Upload ==
  /\ detail # None /\ upload.state = "none" /\ ~loadError
  /\ upload' = [NoUpload EXCEPT !.state = "asked", !.editing = editing,
                                !.answer.of = detail.of]
  /\ UNCHANGED <<server, panel, load, save, loadError, history>>

UploadServed ==
  LET t == upload.answer.of
  IN /\ upload.state = "asked"
     /\ Commit(t, task[t].revision + 1, task[t].value)
     /\ upload' = [upload EXCEPT !.state = "answered",
                                 !.version = version + 1,
                                 !.answer.revision = task[t].revision + 1,
                                 !.answer.value = task[t].value]
     /\ UNCHANGED <<panel, load, save, loadError, history>>

UploadHeard ==
  LET keep == upload.editing /\ draft # None
  IN /\ upload.state = "answered"
     /\ Display(upload.answer, keep)
     /\ Noted(upload.answer, upload.version)
     /\ upload' = NoUpload
     /\ UNCHANGED <<server, opened, opens, editing, load, save, loadError>>

UploadFails ==
  /\ upload.state \in {"asked", "answered"}
  /\ upload' = NoUpload
  /\ UNCHANGED <<server, panel, load, save, loadError, history>>

Next ==
  \/ \E t \in Busy, f \in Field, v \in Value : OtherEdits(t, f, v)
  \/ \E t \in Busy : NeighbourMoves(t)
  \/ \E s \in Slot : LoadServed(s) \/ LoadHeard(s) \/ LoadFails(s) \/ Retry(s) \/ SaveReloads(s)
  \/ \E t \in Task, s \in Slot : EventHeard(t, s) \/ Open(t, s)
  \/ StartEditing \/ CancelEditing
  \/ \E f \in Field, v \in Value : Type(f, v)
  \/ Save \/ SaveServed \/ SaveHeard \/ SaveFails
  \/ Upload \/ UploadServed \/ UploadHeard \/ UploadFails

Spec == Init /\ [][Next]_vars

-----------------------------------------------------------------------------
Loads == [state : {"free", "asked", "answered"}, awaited : BOOLEAN,
          version : 0..MaxChanges, answer : Snapshot]
Uploads == [state : {"none", "asked", "answered"}, editing : BOOLEAN,
            version : 0..MaxChanges, answer : Snapshot]
Saves == [state : {"idle", "sent", "accepted", "reload", "loading"},
          at : 1..(Len(Order) + 1), draft : Fields, base : Fields, task : Snapshot,
          opened : Task, cause : {"none", "done", "conflict"},
          mixed : BOOLEAN, overwritten : SUBSET Field, held : SUBSET Field]

TypeOK ==
  /\ task \in [Task -> [revision : Nat, announced : Nat, changed : 0..MaxChanges,
                       value : Fields]]
  /\ version \in 0..MaxChanges
  /\ unheard \in [Task -> Nat]
  /\ opened \in Task /\ opens \in 0..MaxOpens
  /\ detail \in Snapshot \cup {None}
  /\ draft \in Fields \cup {None} /\ base \in Fields \cup {None}
  /\ editing \in BOOLEAN
  /\ load \in [Slot -> Loads] /\ upload \in Uploads /\ save \in Saves
  /\ loadError \in BOOLEAN
  /\ newest \in 0..MaxChanges /\ overtaken \in {"no", "older", "foreign"}

Quiet ==
  /\ \A s \in Slot : load[s].state = "free"
  /\ upload.state = "none" /\ save.state = "idle"
  /\ unheard[opened] = 0

\* When every request has been answered and every event heard, the panel shows
\* the server's task, or says that loading failed; unless an older answer (or
\* one for the task shown before) came last.  Its revision is at least the last
\* one an event announced: the move of a neighbour announces none, and the next
\* save is then refused.
Converged ==
  Quiet /\ ~loadError /\ overtaken = "no" =>
    /\ detail # None /\ detail.of = opened
    /\ detail.value = task[opened].value
    /\ detail.revision >= task[opened].announced

\* The expected revisions of a save, each taken from the answer before, protect
\* what others wrote: a value the user had not seen is only replaced in a field
\* of a plugin, or when an upload refreshed the revision under an older draft.
OverwriteExplained == save.overwritten \cap Range(Revised) # {} => save.mixed

\* A save that closes the form has been told of every field of the draft that the
\* server held it, however many requests it took and whatever failed on the way.
\* What an earlier answer said may be over by then: while the save writes one field
\* of a plugin, somebody else can write another that it has already written.
SaveWhole ==
  [][save.state = "loading" /\ save'.state = "idle" /\ editing /\ ~editing'
       => save.held = Field]_vars

\* docs/implementation-roadmap.md: "A concurrent update produces a recoverable
\* conflict rather than silent data loss."  A save never replaces a value that
\* the user had not been shown, in a field it sends with a revision.
NoSilentOverwrite == save.overwritten \cap Range(Revised) = {}
=============================================================================
