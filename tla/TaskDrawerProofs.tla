-------------------------- MODULE TaskDrawerProofs --------------------------
(***************************************************************************)
(* Proofs about TaskDrawer for any number of fields of both kinds, of      *)
(* tasks, of loads in flight and of changes.                               *)
(***************************************************************************)
EXTENDS TaskDrawer, FiniteSetTheorems, TLAPS

\* The form has been filled if it holds a draft.
Filled == draft # None => base # None

\* What the server knows of its own changes.
Counted ==
  \A t \in Task : task[t].changed <= version /\ task[t].announced <= task[t].revision

\* An answer is not newer than the task; with the task's revision it has the
\* task's value in every field that is sent with a revision.
Trusted(answer) ==
  /\ answer.revision <= task[answer.of].revision
  /\ answer.revision = task[answer.of].revision =>
       \A f \in Range(Revised) : answer.value[f] = task[answer.of].value[f]

Unasked(t) == [NoAnswer EXCEPT !.of = t]

AnswersTrusted ==
  /\ \A t \in Task : Trusted(Unasked(t))
  /\ \A s \in Slot : Trusted(load[s].answer)
  /\ Trusted(upload.answer)
  /\ Trusted(save.task)
  /\ detail # None => Trusted(detail)

\* The requests a save has yet to send.
Waiting == {i \in DOMAIN Order : i > save.at \/ (i = save.at /\ save.state = "sent")}

\* A save that began with the task its form was filled with has, in the fields it
\* has yet to send with a revision, an answer the user has seen.
SeenBefore ==
  ~save.mixed =>
    /\ \A i \in Waiting :
         Order[i] \in Range(Revised) => save.task.value[Order[i]] = save.base[Order[i]]
    /\ save.overwritten \cap Range(Revised) = {}

\* What a save has passed over was held by an answer.
PassedHeld ==
  /\ save.state \in {"sent", "accepted"} =>
       /\ save.at \in DOMAIN Order
       /\ Held(save) \subseteq save.held
       /\ \A i \in DOMAIN Order \ Waiting : Order[i] \in save.held
  /\ save.cause = "done" => save.held = Field

\* An answer given at the server's version number shows the task, unless the task
\* has changed since.
ShownAt(answer, number) ==
  number >= task[answer.of].changed =>
    /\ answer.value = task[answer.of].value
    /\ answer.revision >= task[answer.of].announced

AnswersShow ==
  /\ \A s \in Slot : load[s].state = "answered" =>
       load[s].version <= version /\ ShownAt(load[s].answer, load[s].version)
  /\ upload.state = "answered" =>
       upload.version <= version /\ ShownAt(upload.answer, upload.version)
  /\ newest <= version
  /\ detail # None /\ overtaken = "no" => detail.of = opened /\ ShownAt(detail, newest)

\* A load that will bring what the panel lacks, or another task's answer.
Bringing(s) ==
  \/ load[s].state = "asked"
  \/ /\ load[s].state = "answered"
     /\ load[s].answer.of # opened \/ load[s].version >= task[opened].changed

\* Unless the panel has an answer that is new enough, one is on its way.
NewsAhead ==
  \/ detail # None /\ newest >= task[opened].changed
  \/ loadError \/ overtaken = "foreign" \/ unheard[opened] > 0
  \/ \E s \in Slot : Bringing(s)

IInv ==
  /\ TypeOK
  /\ Filled
  /\ Counted
  /\ AnswersTrusted
  /\ SeenBefore
  /\ PassedHeld
  /\ AnswersShow
  /\ NewsAhead

-----------------------------------------------------------------------------
(* The order of the requests.                                              *)

\* Every field has its one place in the order, and is of one kind.
LEMMA OrderFacts ==
  /\ Order \in Seq(Field) /\ Len(Order) \in Nat /\ DOMAIN Order = 1..Len(Order)
  /\ \A f \in Field : \E i \in DOMAIN Order : Order[i] = f
  /\ \A i, j \in DOMAIN Order : Order[i] = Order[j] => i = j
  /\ Field = Range(Revised) \cup Range(Extension)
  /\ Range(Revised) \cap Range(Extension) = {}
<1> DEFINE all == Range(Revised) \cup Range(Extension)
<1>1. Revised \in Seq(all) /\ Extension \in Seq(all)
  BY FieldsAssumption
<1>2. /\ Order \in Seq(all) /\ Len(Order) = Len(Revised) + Len(Extension)
      /\ \A i \in 1..Len(Order) :
           Order[i] = IF i <= Len(Revised) THEN Revised[i] ELSE Extension[i - Len(Revised)]
  BY <1>1 DEF Order
<1>3. Len(Revised) \in Nat /\ Len(Extension) \in Nat
      /\ DOMAIN Revised = 1..Len(Revised) /\ DOMAIN Extension = 1..Len(Extension)
  BY <1>1
<1>4. Len(Order) \in Nat /\ DOMAIN Order = 1..Len(Order)
  BY <1>2
<1>5. \A i \in DOMAIN Revised : i \in DOMAIN Order /\ Order[i] = Revised[i]
  BY <1>2, <1>3, <1>4
<1>6. \A i \in DOMAIN Extension :
        i + Len(Revised) \in DOMAIN Order /\ Order[i + Len(Revised)] = Extension[i]
  BY <1>2, <1>3, <1>4
<1>7. all \subseteq Field
  BY <1>5, <1>6 DEF Field, Range
<1>8. Field \subseteq all
  BY <1>2, <1>4 DEF Field, Range
<1>9. \A i, j \in DOMAIN Order : Order[i] = Order[j] => i = j
  BY FieldsAssumption DEF IsInjective
<1>10. Range(Revised) \cap Range(Extension) = {}
  <2> SUFFICES ASSUME NEW i \in DOMAIN Revised, NEW j \in DOMAIN Extension,
                      Revised[i] = Extension[j]
               PROVE  FALSE
    BY DEF Range
  <2>1. i = j + Len(Revised)
    BY <1>5, <1>6, <1>9
  <2> QED BY <1>3, <2>1
<1>11. \A f \in Field : \E i \in DOMAIN Order : Order[i] = f
  BY DEF Field, Range
<1>12. Order \in Seq(Field)
  BY <1>2, <1>7, <1>8
<1> QED BY <1>4, <1>7, <1>8, <1>9, <1>10, <1>11, <1>12

\* A nonempty set of naturals has a least element.
LEMMA MinIsLeast ==
  ASSUME NEW S \in SUBSET Nat, S # {}
  PROVE  Min(S) \in S /\ \A x \in S : Min(S) <= x
<1>1. PICK m \in S : \A x \in S : <<x, m>> \notin OpToRel(<, Nat)
  BY NatLessThanWellFounded, WFMin
<1>2. ASSUME NEW x \in S PROVE m <= x
  <2>1. <<x, m>> \in Nat \X Nat /\ <<x, m>>[1] = x /\ <<x, m>>[2] = m
    OBVIOUS
  <2>2. ~(x < m)
    BY <1>1, <2>1 DEF OpToRel
  <2> QED BY <2>1, <2>2
<1> QED BY <1>2 DEF Min

\* Advance sends the next field that differs, or finds that none is left.
LEMMA AdvanceMoves ==
  ASSUME NEW s \in Saves
  PROVE  LET next == Advance(s)
         IN /\ next \in Saves
            /\ next.draft = s.draft /\ next.base = s.base /\ next.task = s.task
            /\ next.mixed = s.mixed /\ next.overwritten = s.overwritten
            /\ next.held = s.held
            /\ \/ /\ next.state = "sent" /\ next.cause = s.cause
                  /\ next.at \in DOMAIN Order /\ next.at >= s.at
                  /\ \A i \in s.at..(next.at - 1) :
                       s.draft[Order[i]] = s.task.value[Order[i]]
               \/ /\ next.state = "reload" /\ next.cause = "done" /\ next.at = s.at
                  /\ \A i \in s.at..Len(Order) :
                       s.draft[Order[i]] = s.task.value[Order[i]]
<1> DEFINE changed == {i \in s.at..Len(Order) : s.draft[Order[i]] # s.task.value[Order[i]]}
<1>1. Len(Order) \in Nat /\ DOMAIN Order = 1..Len(Order)
  BY OrderFacts
<1>2. s.at \in 1..(Len(Order) + 1)
  BY DEF Saves
<1>3. CASE changed = {}
  <2>1. Advance(s) = [s EXCEPT !.state = "reload", !.cause = "done"]
    BY <1>3 DEF Advance
  <2>2. \A i \in s.at..Len(Order) : s.draft[Order[i]] = s.task.value[Order[i]]
    BY <1>3
  <2> QED BY <2>1, <2>2 DEF Saves
<1>4. CASE changed # {}
  <2>1. changed \in SUBSET Nat
    BY <1>1, <1>2
  <2> HIDE DEF changed
  <2>2. Min(changed) \in changed /\ \A x \in changed : Min(changed) <= x
    BY <1>4, <2>1, MinIsLeast
  <2> DEFINE m == Min(changed)
  <2>m. m \in changed /\ \A x \in changed : m <= x
    BY <2>2
  <2>3. Advance(s) = [s EXCEPT !.state = "sent", !.at = m]
    BY <1>4 DEF Advance, changed
  <2> HIDE DEF m
  <2>4. m \in 1..Len(Order) /\ m >= s.at
    BY <1>1, <1>2, <2>m DEF changed
  <2>5. ASSUME NEW i \in s.at..(m - 1)
        PROVE  s.draft[Order[i]] = s.task.value[Order[i]]
    <3>1. i \in s.at..Len(Order) /\ ~(m <= i)
      BY <1>1, <1>2, <2>4
    <3>2. i \notin changed
      BY <2>m, <3>1
    <3> QED BY <3>1, <3>2 DEF changed
  <2>6. Advance(s) \in Saves
    <3>1. m \in 1..(Len(Order) + 1)
      BY <1>1, <2>4
    <3> QED BY <2>3, <3>1 DEF Saves
  <2> QED BY <1>1, <2>3, <2>4, <2>5, <2>6 DEF Saves
<1> QED BY <1>3, <1>4

-----------------------------------------------------------------------------
(* Types.                                                                  *)

LEMMA NoAnswerTyped ==
  /\ NoAnswer \in Snapshot /\ \A t \in Task : Unasked(t) \in Snapshot
  /\ FreeSlot \in Loads /\ NoUpload \in Uploads /\ NoSave \in Saves
<1> USE FieldsAssumption, PanelAssumption, BoundAssumption
<1>1. NoAnswer.value \in Fields /\ NoAnswer \in Snapshot
  BY DEF NoAnswer, Fields, Snapshot
<1>2. ASSUME NEW t \in Task PROVE Unasked(t) \in Snapshot
  BY <1>1 DEF Unasked, Snapshot
<1>3. FreeSlot \in Loads /\ NoUpload \in Uploads
  BY <1>1 DEF FreeSlot, NoUpload, Loads, Uploads
<1>4. NoSave \in Saves
  BY <1>1, OrderFacts DEF NoSave, Saves
<1> QED BY <1>1, <1>2, <1>3, <1>4

LEMMA CommitTyped ==
  ASSUME TypeOK, NEW t \in Task, NEW r \in Nat, NEW v \in Fields, Commit(t, r, v)
  PROVE  /\ task' \in [Task -> [revision : Nat, announced : Nat, changed : 0..MaxChanges,
                                value : Fields]]
         /\ version' \in 0..MaxChanges /\ version' = version + 1
         /\ unheard' \in [Task -> Nat]
<1>1. version + 1 \in 0..MaxChanges
  BY BoundAssumption DEF TypeOK, Commit
<1> QED BY <1>1 DEF TypeOK, Commit

LEMMA ReadTyped ==
  ASSUME TypeOK, NEW t \in Task
  PROVE  Read(t) \in Snapshot /\ \A f \in Field : NextRevision(t, f) \in Nat
BY DEF TypeOK, Read, Snapshot, NextRevision

LEMMA AskTyped ==
  ASSUME TypeOK, NEW s \in Slot, NEW t \in Task, NEW a \in BOOLEAN, Ask(s, t, a)
  PROVE  load' \in [Slot -> Loads] /\ loadError' \in BOOLEAN
<1>1. [FreeSlot EXCEPT !.state = "asked", !.awaited = a, !.answer.of = t] \in Loads
  BY NoAnswerTyped DEF Loads, Snapshot
<1> QED BY <1>1 DEF TypeOK, Ask

LEMMA WithHeldTyped ==
  ASSUME NEW s \in Saves
  PROVE  WithHeld(s) \in Saves
BY DEF WithHeld, Held, Saves

LEMMA TypeStep == TypeOK /\ Filled /\ PassedHeld /\ [Next]_vars => TypeOK'
<1> SUFFICES ASSUME TypeOK, Filled, PassedHeld, [Next]_vars PROVE TypeOK'
  OBVIOUS
<1> USE DEF server, history, panel
<1>0. /\ task \in [Task -> [revision : Nat, announced : Nat, changed : 0..MaxChanges,
                            value : Fields]]
      /\ load \in [Slot -> Loads] /\ upload \in Uploads /\ save \in Saves
      /\ opened \in Task
  BY DEF TypeOK
<1>1. CASE \E t \in Busy, f \in Field, v \in Value : OtherEdits(t, f, v)
  <2>1. PICK t \in Busy, f \in Field, v \in Value : OtherEdits(t, f, v)
    BY <1>1
  <2>2. t \in Task
    BY BoundAssumption
  <2>3. [task[t].value EXCEPT ![f] = v] \in Fields
    BY <1>0, <2>2 DEF Fields
  <2>4. NextRevision(t, f) \in Nat
    BY <2>2, ReadTyped
  <2>5. /\ task' \in [Task -> [revision : Nat, announced : Nat, changed : 0..MaxChanges,
                               value : Fields]]
        /\ version' \in 0..MaxChanges /\ unheard' \in [Task -> Nat]
    BY <2>1, <2>2, <2>3, <2>4, CommitTyped DEF OtherEdits
  <2> QED BY <2>1, <2>5 DEF TypeOK, OtherEdits
<1>2. CASE \E t \in Busy : NeighbourMoves(t)
  <2>1. version' \in 0..MaxChanges
    BY <1>2, BoundAssumption DEF NeighbourMoves, TypeOK
  <2>2. task' \in [Task -> [revision : Nat, announced : Nat, changed : 0..MaxChanges,
                           value : Fields]]
    BY <1>0, <1>2, BoundAssumption DEF NeighbourMoves
  <2> QED BY <1>2, <2>1, <2>2 DEF NeighbourMoves, TypeOK
<1>3. ASSUME NEW s \in Slot, LoadServed(s) PROVE TypeOK'
  <2>1. load[s].answer.of \in Task
    BY <1>0 DEF Loads, Snapshot
  <2>2. Read(load[s].answer.of) \in Snapshot
    BY <2>1, ReadTyped
  <2>3. load' \in [Slot -> Loads]
    BY <1>0, <1>3, <2>2 DEF LoadServed, Loads, TypeOK
  <2> QED BY <1>3, <2>3 DEF LoadServed, TypeOK
<1>4. ASSUME NEW s \in Slot, LoadHeard(s) \/ LoadFails(s) PROVE TypeOK'
  <2>1. load' \in [Slot -> Loads] /\ save' \in Saves /\ editing' \in BOOLEAN
        /\ loadError' \in BOOLEAN
    BY <1>0, <1>4, NoAnswerTyped
       DEF LoadHeard, LoadFails, SaveAfter, EditingAfter, TypeOK
  <2>2. CASE LoadHeard(s)
    <3>1. load[s].answer \in Snapshot /\ load[s].version \in 0..MaxChanges
          /\ load[s].answer.value \in Fields
      BY <1>0 DEF Loads, Snapshot
    <3>2. detail' \in Snapshot \cup {None} /\ draft' \in Fields \cup {None}
          /\ base' \in Fields \cup {None}
      BY <2>2, <3>1 DEF LoadHeard, Display, InitialDraft, TypeOK
    <3>3. newest' \in 0..MaxChanges /\ overtaken' \in {"no", "older", "foreign"}
      BY <2>2, <3>1 DEF LoadHeard, Noted, TypeOK
    <3> QED BY <2>1, <2>2, <3>2, <3>3 DEF LoadHeard, TypeOK
  <2>3. CASE LoadFails(s)
    BY <2>1, <2>3 DEF LoadFails, TypeOK
  <2> QED BY <1>4, <2>2, <2>3
<1>5. ASSUME NEW s \in Slot, Retry(s) \/ SaveReloads(s) PROVE TypeOK'
  <2>1. save.opened \in Task /\ save' \in Saves
    BY <1>0, <1>5 DEF Retry, SaveReloads, Saves
  <2>2. load' \in [Slot -> Loads] /\ loadError' \in BOOLEAN
    BY <1>0, <1>5, <2>1, AskTyped DEF Retry, SaveReloads
  <2> QED BY <1>5, <2>1, <2>2 DEF Retry, SaveReloads, TypeOK
<1>6. ASSUME NEW t \in Task, NEW s \in Slot, EventHeard(t, s) PROVE TypeOK'
  <2>1. load' \in [Slot -> Loads] /\ loadError' \in BOOLEAN
    BY <1>0, <1>6, AskTyped DEF EventHeard, TypeOK
  <2>2. unheard' \in [Task -> Nat]
    BY <1>6 DEF EventHeard, TypeOK
  <2> QED BY <1>6, <2>1, <2>2 DEF EventHeard, TypeOK
<1>7. ASSUME NEW t \in Task, NEW s \in Slot, Open(t, s) PROVE TypeOK'
  <2>1. load' \in [Slot -> Loads] /\ loadError' \in BOOLEAN
    BY <1>7, AskTyped DEF Open
  <2>2. opens' \in 0..MaxOpens /\ newest' \in 0..MaxChanges
    BY <1>7, BoundAssumption DEF Open, TypeOK
  <2> QED BY <1>7, <2>1, <2>2 DEF Open, TypeOK
<1>8. CASE StartEditing \/ CancelEditing
  <2>1. detail \in Snapshot /\ detail.value \in Fields
    BY <1>8 DEF StartEditing, CancelEditing, TypeOK, Snapshot
  <2> QED BY <1>8, <2>1 DEF StartEditing, CancelEditing, InitialDraft, TypeOK
<1>9. ASSUME NEW f \in Field, NEW v \in Value, Type(f, v) PROVE TypeOK'
  <2>1. draft' \in Fields
    BY <1>9 DEF Type, TypeOK, Fields
  <2> QED BY <1>9, <2>1 DEF Type, TypeOK
<1>10. CASE Save
  <2> DEFINE begun == [NoSave EXCEPT !.draft = draft, !.base = base, !.task = detail,
                        !.opened = opened, !.mixed = (base # detail.value)]
  <2>1. base \in Fields /\ begun \in Saves
    BY <1>10, NoAnswerTyped DEF Save, Saves, TypeOK, Filled
  <2>2. save' \in Saves
    BY <1>10, <2>1, WithHeldTyped, AdvanceMoves DEF Save
  <2> QED BY <1>10, <2>2 DEF Save, TypeOK
<1>11. CASE SaveServed
  <2> DEFINE f == Sending
             t == save.task.of
             value == [task[t].value EXCEPT ![f] = save.draft[f]]
  <2>1. t \in Task /\ save.task.value \in Fields
    BY <1>0 DEF Saves, Snapshot
  <2>2. CASE Refused(f)
    <3>1. save' \in Saves
      BY <1>0, <2>2 DEF Refused, Saves
    <3> QED BY <1>11, <2>2, <3>1 DEF Refused, SaveServed, TypeOK
  <2>3. CASE Accepted(f, save.draft[f]) /\ save.at \in DOMAIN Order
    <3>1. f \in Field /\ value \in Fields
      BY <1>0, <2>1, <2>3, OrderFacts DEF Sending, Fields, Saves
    <3>2. NextRevision(t, f) \in Nat
      BY <2>1, <3>1, ReadTyped
    <3>3. Commit(t, NextRevision(t, f), value)
      BY <2>3 DEF Accepted
    <3>4. PICK answer \in Snapshot, lost \in SUBSET Field :
            save' = WithHeld([save EXCEPT !.state = "accepted", !.task = answer,
                                          !.overwritten = @ \cup lost])
      <4> DEFINE lost == IF task[t].value[f] \in {save.base[f], save.draft[f]} THEN {} ELSE {f}
                 answer == IF f \in Range(Revised)
                             THEN [of |-> t, revision |-> NextRevision(t, f), value |-> value]
                           ELSE [save.task EXCEPT !.value = [g \in Field |->
                                   IF g \in Range(Extension) THEN value[g]
                                   ELSE save.task.value[g]]]
      <4>1. lost \in SUBSET Field
        BY <1>0, <3>1 DEF Saves
      <4>2. answer \in Snapshot
        <5> HIDE DEF value
        <5> QED BY <1>0, <2>1, <3>1, <3>2 DEF Saves, Snapshot, Fields
      <4>3. save' = WithHeld([save EXCEPT !.state = "accepted", !.task = answer,
                                          !.overwritten = @ \cup lost])
        BY <2>3 DEF Accepted
      <4> QED BY <4>1, <4>2, <4>3
    <3>5. [save EXCEPT !.state = "accepted", !.task = answer,
                       !.overwritten = @ \cup lost] \in Saves
      BY <1>0 DEF Saves
    <3>6. save' \in Saves
      BY <3>4, <3>5, WithHeldTyped
    <3>7. /\ task' \in [Task -> [revision : Nat, announced : Nat, changed : 0..MaxChanges,
                                 value : Fields]]
          /\ version' \in 0..MaxChanges /\ unheard' \in [Task -> Nat]
      BY <2>1, <3>1, <3>2, <3>3, CommitTyped
    <3> QED BY <1>11, <3>6, <3>7 DEF SaveServed, TypeOK
  <2> QED BY <1>11, <2>2, <2>3 DEF SaveServed, PassedHeld
<1>12. CASE SaveHeard
  <2>1. save.at + 1 \in 1..(Len(Order) + 1)
    BY <1>0, <1>12, OrderFacts DEF SaveHeard, PassedHeld, Saves
  <2>2. [save EXCEPT !.at = @ + 1] \in Saves
    BY <1>0, <2>1 DEF Saves
  <2>3. save' \in Saves
    BY <1>12, <2>2, AdvanceMoves DEF SaveHeard
  <2> QED BY <1>12, <2>3 DEF SaveHeard, TypeOK
<1>13. CASE SaveFails
  BY <1>13, NoAnswerTyped DEF SaveFails, TypeOK
<1>14. CASE Upload
  <2>1. upload' \in Uploads
    BY <1>0, <1>14, NoAnswerTyped DEF Upload, Uploads, Snapshot, TypeOK
  <2> QED BY <1>14, <2>1 DEF Upload, TypeOK
<1>15. CASE UploadServed
  <2> DEFINE t == upload.answer.of
  <2>1. t \in Task /\ task[t].revision + 1 \in Nat /\ task[t].value \in Fields
    BY <1>0 DEF Uploads, Snapshot
  <2>2. Commit(t, task[t].revision + 1, task[t].value)
    BY <1>15 DEF UploadServed
  <2>3. /\ task' \in [Task -> [revision : Nat, announced : Nat, changed : 0..MaxChanges,
                               value : Fields]]
        /\ version' \in 0..MaxChanges /\ unheard' \in [Task -> Nat]
        /\ version' = version + 1
    BY <2>1, <2>2, CommitTyped
  <2>4. upload' \in Uploads
    BY <1>0, <1>15, <2>1, <2>3 DEF UploadServed, Uploads, Snapshot
  <2> QED BY <1>15, <2>3, <2>4 DEF UploadServed, TypeOK
<1>16. CASE UploadHeard
  <2>1. upload.answer \in Snapshot /\ upload.version \in 0..MaxChanges
        /\ upload.answer.value \in Fields
    BY <1>0 DEF Uploads, Snapshot
  <2>2. detail' \in Snapshot \cup {None} /\ draft' \in Fields \cup {None}
        /\ base' \in Fields \cup {None}
    BY <1>16, <2>1 DEF UploadHeard, Display, InitialDraft, TypeOK
  <2>3. newest' \in 0..MaxChanges /\ overtaken' \in {"no", "older", "foreign"}
    BY <1>16, <2>1 DEF UploadHeard, Noted, TypeOK
  <2> QED BY <1>16, <2>2, <2>3, NoAnswerTyped DEF UploadHeard, TypeOK
<1>17. CASE UploadFails
  BY <1>17, NoAnswerTyped DEF UploadFails, TypeOK
<1>18. CASE UNCHANGED vars
  BY <1>18 DEF vars, TypeOK
<1> QED BY <1>1, <1>2, <1>3, <1>4, <1>5, <1>6, <1>7, <1>8, <1>9, <1>10, <1>11, <1>12,
           <1>13, <1>14, <1>15, <1>16, <1>17, <1>18 DEF Next

LEMMA FilledStep == TypeOK /\ Filled /\ [Next]_vars => Filled'
<1> SUFFICES ASSUME TypeOK, Filled, [Next]_vars PROVE Filled'
  OBVIOUS
<1> USE PanelAssumption DEF server, history, panel, Filled
<1>1. CASE (\E s \in Slot : LoadHeard(s)) \/ UploadHeard
  <2>1. PICK answer \in Snapshot, keep \in BOOLEAN :
          Display(answer, keep) /\ (keep => draft # None)
    <3>1. CASE UploadHeard
      <4>1. upload.answer \in Snapshot
        BY DEF TypeOK, Uploads
      <4> QED BY <3>1, <4>1 DEF UploadHeard
    <3>2. ASSUME NEW s \in Slot, LoadHeard(s)
          PROVE  load[s].answer \in Snapshot /\ Display(load[s].answer, FALSE)
      BY <3>2 DEF LoadHeard, TypeOK, Loads
    <3> QED BY <1>1, <3>1, <3>2
  <2>2. answer.value \in Fields
    BY DEF Snapshot
  <2> QED BY <2>1, <2>2 DEF Display, InitialDraft
<1>2. CASE StartEditing \/ CancelEditing
  <2>1. detail.value \in Fields
    BY <1>2 DEF StartEditing, CancelEditing, TypeOK, Snapshot
  <2> QED BY <1>2, <2>1 DEF StartEditing, CancelEditing, InitialDraft
<1>3. CASE (\E t \in Task, s \in Slot : Open(t, s)) \/ (\E f \in Field, v \in Value : Type(f, v))
  BY <1>3 DEF Open, Type
<1>4. CASE UNCHANGED <<draft, base>>
  BY <1>4
<1> QED BY <1>1, <1>2, <1>3, <1>4
        DEF Next, vars, OtherEdits, NeighbourMoves, LoadServed, LoadFails, Retry, SaveReloads,
            EventHeard, Save, SaveServed, SaveHeard, SaveFails, Upload, UploadServed,
            UploadFails

-----------------------------------------------------------------------------
(* What a step does to the tasks.                                          *)

\* A field sent with a revision changes with the revision.
Revising(t) ==
  \/ task'[t].revision > task[t].revision
  \/ /\ task'[t].revision = task[t].revision
     /\ \A f \in Range(Revised) : task'[t].value[f] = task[t].value[f]

\* A change has an event, unless it only moves the task's neighbour.
Announcing(t) ==
  \/ /\ task'[t].changed = version' /\ version' = version + 1 /\ unheard'[t] > 0
     /\ task'[t].announced = task'[t].revision
  \/ /\ task'[t].changed = task[t].changed /\ task'[t].value = task[t].value
     /\ task'[t].announced = task[t].announced /\ task'[t].revision >= task[t].revision
     /\ version' >= version

LEMMA CommitDoes ==
  ASSUME TypeOK, NEW t \in Task, NEW r \in Nat, NEW v \in Fields, Commit(t, r, v),
         \/ r > task[t].revision
         \/ r = task[t].revision /\ \A f \in Range(Revised) : v[f] = task[t].value[f],
         NEW q \in Task
  PROVE  Revising(q) /\ Announcing(q)
<1>1. /\ version \in Nat /\ version' = version + 1 /\ unheard[t] \in Nat
      /\ task[t].revision \in Nat /\ task[q].revision \in Nat
  BY BoundAssumption DEF TypeOK, Commit
<1>2. /\ task'[t].revision = r /\ task'[t].announced = r /\ task'[t].changed = version'
      /\ task'[t].value = v /\ unheard'[t] = unheard[t] + 1
  BY <1>1 DEF TypeOK, Commit
<1>3. q # t => task'[q] = task[q]
  BY DEF TypeOK, Commit
<1>4. CASE q = t
  BY <1>1, <1>2, <1>4 DEF Revising, Announcing
<1>5. CASE q # t
  BY <1>1, <1>3, <1>5 DEF Revising, Announcing
<1> QED BY <1>4, <1>5

LEMMA StandingStill ==
  ASSUME TypeOK, UNCHANGED <<task, version>>, NEW q \in Task
  PROVE  Revising(q) /\ Announcing(q)
BY BoundAssumption DEF TypeOK, Revising, Announcing

\* What setting one field means for the revision and the other fields.
LEMMA SetsField ==
  ASSUME TypeOK, NEW t \in Task, NEW f \in Field, NEW v
  PROVE  LET r == NextRevision(t, f)
             value == [task[t].value EXCEPT ![f] = v]
         IN \/ r = task[t].revision + 1 /\ r > task[t].revision /\ f \in Range(Revised)
            \/ /\ r = task[t].revision /\ f \notin Range(Revised)
               /\ \A g \in Range(Revised) : value[g] = task[t].value[g]
<1>1. task[t].revision \in Nat /\ task[t].value \in [Field -> Value]
  BY DEF TypeOK, Fields
<1>2. CASE f \in Range(Revised)
  BY <1>1, <1>2 DEF NextRevision
<1>3. CASE f \notin Range(Revised)
  BY <1>1, <1>3, OrderFacts DEF NextRevision
<1> QED BY <1>2, <1>3

LEMMA ServerStep ==
  ASSUME TypeOK, PassedHeld, [Next]_vars, NEW q \in Task
  PROVE  Revising(q) /\ Announcing(q)
<1> USE DEF server, history, panel
<1>0. /\ task \in [Task -> [revision : Nat, announced : Nat, changed : 0..MaxChanges,
                            value : Fields]]
      /\ version \in Nat
  BY BoundAssumption DEF TypeOK
<1>1. CASE \E t \in Busy, f \in Field, v \in Value : OtherEdits(t, f, v)
  <2>1. PICK t \in Busy, f \in Field, v \in Value : OtherEdits(t, f, v)
    BY <1>1
  <2>2. t \in Task /\ NextRevision(t, f) \in Nat
    BY BoundAssumption, ReadTyped
  <2> DEFINE value == [task[t].value EXCEPT ![f] = v]
  <2>3. value \in Fields
    BY <1>0, <2>2 DEF Fields
  <2>4. Commit(t, NextRevision(t, f), value)
    BY <2>1 DEF OtherEdits
  <2>5. \/ NextRevision(t, f) > task[t].revision
        \/ /\ NextRevision(t, f) = task[t].revision
           /\ \A g \in Range(Revised) : value[g] = task[t].value[g]
    BY <2>2, SetsField
  <2> HIDE DEF value
  <2> QED BY <2>2, <2>3, <2>4, <2>5, CommitDoes
<1>2. CASE \E t \in Busy : NeighbourMoves(t)
  <2>1. PICK t \in Busy : NeighbourMoves(t)
    BY <1>2
  <2>2. /\ version' = version + 1 /\ task' = [task EXCEPT ![t].revision = @ + 1]
        /\ t \in Task
    BY <2>1, BoundAssumption DEF NeighbourMoves
  <2>3. /\ task'[q].value = task[q].value /\ task'[q].changed = task[q].changed
        /\ task'[q].announced = task[q].announced
        /\ task'[q].revision = IF q = t THEN task[q].revision + 1 ELSE task[q].revision
    BY <1>0, <2>2
  <2> QED BY <1>0, <2>2, <2>3 DEF Revising, Announcing
<1>3. CASE SaveServed
  <2>1. CASE Refused(Sending)
    BY <2>1, StandingStill DEF Refused
  <2>2. CASE Accepted(Sending, save.draft[Sending])
    <3> DEFINE f == Sending
               t == save.task.of
               value == [task[t].value EXCEPT ![f] = save.draft[f]]
    <3>1. t \in Task /\ save.draft \in Fields
      BY DEF TypeOK, Saves, Snapshot
    <3>2. f \in Field
      BY <1>3, OrderFacts DEF SaveServed, PassedHeld, Sending
    <3>3. value \in Fields /\ NextRevision(t, f) \in Nat
      BY <1>0, <3>1, <3>2, ReadTyped DEF Fields
    <3>4. Commit(t, NextRevision(t, f), value)
      BY <2>2 DEF Accepted
    <3>5. \/ NextRevision(t, f) > task[t].revision
          \/ /\ NextRevision(t, f) = task[t].revision
             /\ \A g \in Range(Revised) : value[g] = task[t].value[g]
      BY <3>1, <3>2, SetsField
    <3> HIDE DEF value, f, t
    <3> QED BY <3>1, <3>3, <3>4, <3>5, CommitDoes
  <2> QED BY <1>3, <2>1, <2>2 DEF SaveServed
<1>4. CASE UploadServed
  <2> DEFINE t == upload.answer.of
  <2>1. t \in Task
    BY DEF TypeOK, Uploads, Snapshot
  <2>2. task[t].revision \in Nat /\ task[t].value \in Fields
    BY <1>0, <2>1
  <2>3. Commit(t, task[t].revision + 1, task[t].value)
    BY <1>4 DEF UploadServed
  <2> HIDE DEF t
  <2> QED BY <2>1, <2>2, <2>3, CommitDoes
<1>5. CASE UNCHANGED <<task, version>>
  BY <1>5, StandingStill
<1> QED BY <1>1, <1>2, <1>3, <1>4, <1>5
        DEF Next, vars, LoadServed, LoadHeard, LoadFails, Retry, SaveReloads,
            EventHeard, Open, StartEditing, CancelEditing, Type, Save, SaveHeard, SaveFails,
            Upload, UploadHeard, UploadFails

LEMMA CountedStep == TypeOK /\ Filled /\ PassedHeld /\ Counted /\ [Next]_vars => Counted'
<1> SUFFICES ASSUME TypeOK, Filled, PassedHeld, Counted, [Next]_vars, NEW q \in Task
             PROVE  task'[q].changed <= version' /\ task'[q].announced <= task'[q].revision
  BY DEF Counted
<1>1. TypeOK'
  BY TypeStep
<1>2. /\ task[q].changed \in Nat /\ task[q].announced \in Nat /\ task[q].revision \in Nat
      /\ task'[q].revision \in Nat /\ version \in Nat /\ version' \in Nat
  BY <1>1, BoundAssumption DEF TypeOK
<1>3. task[q].changed <= version /\ task[q].announced <= task[q].revision
  BY DEF Counted
<1>4. Announcing(q)
  BY ServerStep
<1> QED BY <1>2, <1>3, <1>4 DEF Announcing

-----------------------------------------------------------------------------
(* Answers can be trusted.                                                 *)

TrustedAfter(answer) ==
  /\ answer.revision <= task'[answer.of].revision
  /\ answer.revision = task'[answer.of].revision =>
       \A f \in Range(Revised) : answer.value[f] = task'[answer.of].value[f]

LEMMA TrustKept ==
  ASSUME TypeOK, Filled, PassedHeld, [Next]_vars, NEW x \in Snapshot, Trusted(x)
  PROVE  TrustedAfter(x)
<1>1. TypeOK'
  BY TypeStep
<1>2. x.of \in Task /\ x.revision \in Nat
  BY DEF Snapshot
<1>3. task[x.of].revision \in Nat /\ task'[x.of].revision \in Nat
  BY <1>1, <1>2 DEF TypeOK
<1>4. Revising(x.of)
  BY <1>2, ServerStep
<1> QED BY <1>2, <1>3, <1>4 DEF Trusted, TrustedAfter, Revising

LEMMA UnaskedTrusted ==
  ASSUME TypeOK, Filled, PassedHeld, AnswersTrusted, [Next]_vars
  PROVE  /\ \A t \in Task : TrustedAfter(Unasked(t))
         /\ TrustedAfter(NoAnswer)
<1>1. ASSUME NEW t \in Task PROVE TrustedAfter(Unasked(t))
  <2>1. Unasked(t) \in Snapshot /\ Trusted(Unasked(t))
    BY NoAnswerTyped DEF AnswersTrusted
  <2> QED BY <2>1, TrustKept
<1>2. NoAnswer = Unasked(First) /\ First \in Task
  BY PanelAssumption DEF NoAnswer, Unasked
<1> QED BY <1>1, <1>2

\* Where the answer of a load comes from.
LEMMA LoadAnswers ==
  ASSUME TypeOK, [Next]_vars, NEW s \in Slot
  PROVE  \/ load'[s] = load[s] \/ load'[s] = FreeSlot
         \/ /\ load'[s].state = "asked" /\ \E t \in Task : load'[s].answer = Unasked(t)
         \/ /\ load[s].state = "asked" /\ load'[s].state = "answered"
            /\ load'[s].version = version /\ load'[s].answer = Read(load[s].answer.of)
            /\ UNCHANGED <<task, version, opened>>
<1> USE DEF server, history, panel
<1>0. load \in [Slot -> Loads]
  BY DEF TypeOK
<1>1. CASE \E q \in Slot : LoadServed(q)
  <2>1. PICK q \in Slot : LoadServed(q)
    BY <1>1
  <2> QED BY <1>0, <2>1 DEF LoadServed, Loads
<1>2. CASE \E q \in Slot : LoadHeard(q) \/ LoadFails(q)
  BY <1>0, <1>2 DEF LoadHeard, LoadFails
<1>3. ASSUME NEW q \in Slot, NEW t \in Task, NEW a \in BOOLEAN, Ask(q, t, a)
      PROVE  \/ load'[s] = load[s]
             \/ load'[s].state = "asked" /\ load'[s].answer = Unasked(t)
  BY <1>0, <1>3 DEF Ask, FreeSlot, Unasked
<1>4. CASE \E q \in Slot : Retry(q) \/ SaveReloads(q)
  <2>1. opened \in Task /\ save.opened \in Task
    BY DEF TypeOK, Saves
  <2> QED BY <1>3, <1>4, <2>1 DEF Retry, SaveReloads
<1>5. CASE \E t \in Task, q \in Slot : EventHeard(t, q) \/ Open(t, q)
  <2>1. opened \in Task
    BY DEF TypeOK
  <2> QED BY <1>3, <1>5, <2>1 DEF EventHeard, Open
<1>6. CASE UNCHANGED load
  BY <1>6
<1> QED BY <1>1, <1>2, <1>4, <1>5, <1>6
        DEF Next, vars, OtherEdits, NeighbourMoves, StartEditing, CancelEditing, Type, Save,
            SaveServed, SaveHeard, SaveFails, Upload, UploadServed, UploadHeard, UploadFails

\* What the panel shows comes from a load or from an upload.
LEMMA Showing ==
  ASSUME TypeOK, [Next]_vars
  PROVE  \/ UNCHANGED <<detail, newest, overtaken, opened>>
         \/ /\ \E s \in Slot : LoadHeard(s)
            /\ UNCHANGED <<task, version, opened>>
         \/ UploadHeard /\ UNCHANGED <<task, version, opened>>
         \/ \E t \in Task, s \in Slot : Open(t, s)
<1> USE DEF server, history, panel
<1> QED BY DEF Next, vars, OtherEdits, NeighbourMoves, LoadServed, LoadHeard, LoadFails, Retry,
      SaveReloads, EventHeard, Open, StartEditing, CancelEditing, Type, Save, SaveServed,
      SaveHeard, SaveFails, Upload, UploadServed, UploadHeard, UploadFails

\* An accepted request gives the save the answer it goes on from.
LEMMA AcceptedAnswer ==
  ASSUME TypeOK, PassedHeld, save.state = "sent", Accepted(Sending, save.draft[Sending])
  PROVE  LET f == Sending
             t == save.task.of
             value == [task[t].value EXCEPT ![f] = save.draft[f]]
         IN /\ f \in Field /\ t \in Task /\ task[t].value \in Fields
            /\ save'.state = "accepted" /\ save'.at = save.at /\ save'.cause = save.cause
            /\ save'.draft = save.draft /\ save'.base = save.base /\ save'.mixed = save.mixed
            /\ save'.held = save.held \cup Held(save')
            /\ save'.overwritten = save.overwritten \cup
                 IF task[t].value[f] \in {save.base[f], save.draft[f]} THEN {} ELSE {f}
            /\ save'.task = IF f \in Range(Revised)
                 THEN [of |-> t, revision |-> NextRevision(t, f), value |-> value]
                 ELSE [save.task EXCEPT !.value = [g \in Field |->
                         IF g \in Range(Extension) THEN value[g] ELSE save.task.value[g]]]
<1> DEFINE f == Sending
           t == save.task.of
           value == [task[t].value EXCEPT ![f] = save.draft[f]]
           lost == IF task[t].value[f] \in {save.base[f], save.draft[f]} THEN {} ELSE {f}
           answer == IF f \in Range(Revised)
                       THEN [of |-> t, revision |-> NextRevision(t, f), value |-> value]
                     ELSE [save.task EXCEPT !.value = [g \in Field |->
                             IF g \in Range(Extension) THEN value[g] ELSE save.task.value[g]]]
<1>1. f \in Field
  BY OrderFacts DEF PassedHeld, Sending
<1>2. t \in Task /\ task[t].value \in Fields /\ save \in Saves
  BY DEF TypeOK, Saves, Snapshot
<1>3. save' = WithHeld([save EXCEPT !.state = "accepted", !.task = answer,
                                   !.overwritten = @ \cup lost])
  BY DEF Accepted
<1> HIDE DEF answer, lost
<1>4. /\ save'.state = "accepted" /\ save'.at = save.at /\ save'.cause = save.cause
      /\ save'.draft = save.draft /\ save'.base = save.base /\ save'.mixed = save.mixed
      /\ save'.overwritten = save.overwritten \cup lost /\ save'.task = answer
      /\ save'.held = save.held \cup Held(save')
  BY <1>2, <1>3 DEF WithHeld, Held, Saves
<1> QED BY <1>1, <1>2, <1>4 DEF answer, lost

LEMMA ReadTrusted ==
  ASSUME TypeOK, NEW t \in Task, task' = task
  PROVE  TrustedAfter(Read(t))
BY DEF TypeOK, Read, TrustedAfter

LEMMA AcceptedTrusted ==
  ASSUME TypeOK, Filled, PassedHeld, AnswersTrusted, [Next]_vars, save.state = "sent",
         Accepted(Sending, save.draft[Sending])
  PROVE  TrustedAfter(save'.task)
<1> DEFINE f == Sending
           t == save.task.of
           value == [task[t].value EXCEPT ![f] = save.draft[f]]
           next == NextRevision(t, f)
<1>1. /\ f \in Field /\ t \in Task /\ task[t].value \in Fields
      /\ save'.task = IF f \in Range(Revised)
           THEN [of |-> t, revision |-> next, value |-> value]
           ELSE [save.task EXCEPT !.value = [g \in Field |->
                   IF g \in Range(Extension) THEN value[g] ELSE save.task.value[g]]]
  BY AcceptedAnswer
<1>2. task \in [Task -> [revision : Nat, announced : Nat, changed : 0..MaxChanges,
                        value : Fields]]
  BY DEF TypeOK
<1>3. next \in Nat
  BY <1>1, ReadTyped
<1>4. task'[t].revision = next /\ task'[t].value = value
  BY <1>1, <1>2 DEF Accepted, Commit
<1> HIDE DEF value, f, t, next
<1>5. CASE f \in Range(Revised)
  BY <1>1, <1>3, <1>4, <1>5 DEF TrustedAfter
<1>6. CASE f \notin Range(Revised)
  <2>1. save.task \in Snapshot
    BY DEF TypeOK, Saves
  <2>2. TrustedAfter(save.task)
    BY <2>1, TrustKept DEF AnswersTrusted
  <2>3. /\ save'.task.of = save.task.of /\ save'.task.revision = save.task.revision
        /\ \A g \in Range(Revised) : save'.task.value[g] = save.task.value[g]
    BY <1>1, <1>6, <2>1, OrderFacts DEF Snapshot
  <2> QED BY <2>2, <2>3 DEF TrustedAfter
<1> QED BY <1>5, <1>6

LEMMA TrustStep ==
  TypeOK /\ Filled /\ PassedHeld /\ AnswersTrusted /\ [Next]_vars => AnswersTrusted'
<1> SUFFICES ASSUME TypeOK, Filled, PassedHeld, AnswersTrusted, [Next]_vars
             PROVE  AnswersTrusted'
  OBVIOUS
<1> USE DEF server, history, panel
<1>0. /\ \A t \in Task : TrustedAfter(Unasked(t))
      /\ TrustedAfter(NoAnswer)
  BY UnaskedTrusted
<1>1. /\ \A q \in Slot : load[q].answer \in Snapshot /\ TrustedAfter(load[q].answer)
      /\ upload.answer \in Snapshot /\ TrustedAfter(upload.answer)
      /\ save.task \in Snapshot /\ TrustedAfter(save.task)
      /\ detail # None => detail \in Snapshot /\ TrustedAfter(detail)
  <2>1. /\ \A q \in Slot : load[q].answer \in Snapshot
        /\ upload.answer \in Snapshot /\ save.task \in Snapshot
        /\ detail # None => detail \in Snapshot
    BY DEF TypeOK, Loads, Uploads, Saves
  <2> QED BY <2>1, TrustKept DEF AnswersTrusted
<1>2. ASSUME NEW s \in Slot PROVE TrustedAfter(load'[s].answer)
  <2>1. CASE load'[s].answer = Read(load[s].answer.of) /\ task' = task
    <3>1. load[s].answer.of \in Task
      BY <1>1 DEF Snapshot
    <3> QED BY <2>1, <3>1, ReadTrusted
  <2>2. FreeSlot.answer = NoAnswer
    BY DEF FreeSlot
  <2> QED BY <1>0, <1>1, <2>1, <2>2, LoadAnswers
<1>3. TrustedAfter(upload'.answer)
  <2>1. CASE Upload
    <3>1. detail.of \in Task /\ upload'.answer = Unasked(detail.of)
      BY <1>1, <2>1 DEF Upload, NoUpload, Unasked, Snapshot
    <3> QED BY <1>0, <3>1
  <2>2. CASE UploadServed
    <3> DEFINE t == upload.answer.of
    <3>1. /\ t \in Task /\ task[t].revision + 1 \in Nat
          /\ task \in [Task -> [revision : Nat, announced : Nat, changed : 0..MaxChanges,
                                value : Fields]]
      BY <1>1 DEF Snapshot, TypeOK
    <3>2. /\ upload'.answer.of = t /\ upload'.answer.revision = task[t].revision + 1
          /\ upload'.answer.value = task[t].value
      BY <1>1, <2>2 DEF UploadServed, TypeOK, Uploads, Snapshot
    <3>3. task'[t].revision = task[t].revision + 1 /\ task'[t].value = task[t].value
      BY <2>2, <3>1 DEF UploadServed, Commit
    <3> HIDE DEF t
    <3> QED BY <3>1, <3>2, <3>3 DEF TrustedAfter
  <2>3. CASE UploadHeard \/ UploadFails
    BY <1>0, <2>3 DEF UploadHeard, UploadFails, NoUpload
  <2>4. CASE UNCHANGED upload
    BY <1>1, <2>4
  <2> QED BY <2>1, <2>2, <2>3, <2>4
          DEF Next, vars, OtherEdits, NeighbourMoves, LoadServed, LoadHeard, LoadFails, Retry,
              SaveReloads, EventHeard, Open, StartEditing, CancelEditing, Type, Save,
              SaveServed, SaveHeard, SaveFails
<1>4. TrustedAfter(save'.task)
  <2>1. CASE Save
    <3> DEFINE begun == [NoSave EXCEPT !.draft = draft, !.base = base, !.task = detail,
                          !.opened = opened, !.mixed = (base # detail.value)]
    <3>1. begun \in Saves /\ begun.task = detail /\ detail # None
      BY <2>1, NoAnswerTyped DEF Save, Saves, TypeOK, Filled
    <3>2. WithHeld(begun) \in Saves /\ WithHeld(begun).task = detail
      BY <3>1, WithHeldTyped DEF WithHeld, Saves
    <3>3. save' = Advance(WithHeld(begun))
      BY <2>1 DEF Save
    <3> HIDE DEF begun
    <3>4. save'.task = detail
      BY <3>2, <3>3, AdvanceMoves
    <3> QED BY <1>1, <3>1, <3>4
  <2>2. CASE SaveServed
    <3>1. CASE Refused(Sending)
      BY <1>1, <3>1 DEF Refused, TypeOK, Saves
    <3> QED BY <2>2, <3>1, AcceptedTrusted DEF SaveServed
  <2>3. CASE SaveHeard
    <3>1. save \in Saves /\ save.at + 1 \in 1..(Len(Order) + 1)
      BY <2>3, OrderFacts DEF SaveHeard, PassedHeld, Saves, TypeOK
    <3>2. [save EXCEPT !.at = @ + 1] \in Saves /\ [save EXCEPT !.at = @ + 1].task = save.task
      BY <3>1 DEF Saves
    <3>3. save'.task = save.task
      BY <2>3, <3>2, AdvanceMoves DEF SaveHeard
    <3> QED BY <1>1, <3>3
  <2>4. CASE (\E s \in Slot : LoadHeard(s) \/ LoadFails(s) \/ SaveReloads(s)) \/ SaveFails
    <3>1. save' = NoSave \/ save' = save \/ save'.task = save.task
      BY <2>4 DEF LoadHeard, LoadFails, SaveReloads, SaveFails, SaveAfter, TypeOK, Saves
    <3>2. NoSave.task = NoAnswer
      BY DEF NoSave
    <3> QED BY <1>0, <1>1, <3>1, <3>2
  <2>5. CASE UNCHANGED save
    BY <1>1, <2>5
  <2> QED BY <2>1, <2>2, <2>3, <2>4, <2>5
          DEF Next, vars, OtherEdits, NeighbourMoves, LoadServed, Retry, EventHeard, Open,
              StartEditing, CancelEditing, Type, Upload, UploadServed, UploadHeard,
              UploadFails
<1>5. detail' # None => TrustedAfter(detail')
  <2>1. CASE \E s \in Slot : LoadHeard(s)
    BY <1>1, <2>1 DEF LoadHeard, Display
  <2>2. CASE UploadHeard
    BY <1>1, <2>2 DEF UploadHeard, Display
  <2>3. CASE \E t \in Task, s \in Slot : Open(t, s)
    BY <2>3 DEF Open
  <2> QED BY <1>1, <2>1, <2>2, <2>3, Showing
<1> QED BY <1>0, <1>2, <1>3, <1>4, <1>5 DEF AnswersTrusted, Trusted, TrustedAfter

-----------------------------------------------------------------------------
(* The save.                                                               *)

\* What a save that has just begun, or has heard an answer, goes on with.
LEMMA AdvanceKeeps ==
  ASSUME NEW s \in Saves, save' = Advance(s), Held(s) \subseteq s.held,
         \A i \in DOMAIN Order : i < s.at => Order[i] \in s.held,
         s.cause = "done" => s.held = Field,
         ~s.mixed =>
           /\ \A i \in DOMAIN Order : i >= s.at /\ Order[i] \in Range(Revised) =>
                s.task.value[Order[i]] = s.base[Order[i]]
           /\ s.overwritten \cap Range(Revised) = {}
  PROVE  SeenBefore' /\ PassedHeld'
<1>1. /\ Len(Order) \in Nat /\ DOMAIN Order = 1..Len(Order)
      /\ Order \in Seq(Field) /\ \A f \in Field : \E i \in DOMAIN Order : Order[i] = f
      /\ \A i \in DOMAIN Order : Order[i] \in Field
  BY OrderFacts
<1>2. s.at \in Nat /\ s.held \subseteq Field
  BY <1>1 DEF Saves
<1> DEFINE next == Advance(s)
<1>3. /\ save' = next
      /\ next.draft = s.draft /\ next.base = s.base /\ next.task = s.task
      /\ next.mixed = s.mixed /\ next.overwritten = s.overwritten /\ next.held = s.held
      /\ \/ /\ next.state = "sent" /\ next.cause = s.cause
            /\ next.at \in DOMAIN Order /\ next.at >= s.at
            /\ \A i \in s.at..(next.at - 1) : s.draft[Order[i]] = s.task.value[Order[i]]
         \/ /\ next.state = "reload" /\ next.cause = "done" /\ next.at = s.at
            /\ \A i \in s.at..Len(Order) : s.draft[Order[i]] = s.task.value[Order[i]]
  BY AdvanceMoves
<1> HIDE DEF next
<1>4. \A i \in Waiting' : i \in DOMAIN Order /\ i >= s.at
  BY <1>1, <1>2, <1>3 DEF Waiting
<1>5. SeenBefore'
  BY <1>3, <1>4 DEF SeenBefore
<1>6. ASSUME NEW i \in DOMAIN Order, i >= s.at, s.draft[Order[i]] = s.task.value[Order[i]]
      PROVE  Order[i] \in s.held
  BY <1>1, <1>6 DEF Held
<1>7. CASE next.state = "sent"
  <2>1. ASSUME NEW i \in DOMAIN Order \ Waiting' PROVE Order[i] \in s.held
    <3>1. i \in Nat /\ i < next.at
      BY <1>1, <1>3, <1>7, <2>1 DEF Waiting
    <3>2. CASE i < s.at
      BY <3>2
    <3>3. CASE i >= s.at
      <4>1. i \in s.at..(next.at - 1)
        BY <1>1, <1>2, <1>3, <1>7, <3>1, <3>3
      <4> QED BY <1>3, <1>6, <1>7, <3>3, <4>1
    <3> QED BY <1>2, <3>1, <3>2, <3>3
  <2>2. Held(save') \subseteq save'.held
    BY <1>3 DEF Held
  <2> QED BY <1>3, <1>5, <1>7, <2>1, <2>2 DEF PassedHeld
<1>8. CASE next.state = "reload"
  <2>1. ASSUME NEW f \in Field PROVE f \in s.held
    <3>1. PICK i \in DOMAIN Order : Order[i] = f
      BY <1>1
    <3>2. CASE i < s.at
      BY <3>1, <3>2
    <3>3. CASE i >= s.at
      <4>1. i \in s.at..Len(Order)
        BY <1>1, <1>2, <3>3
      <4> QED BY <1>3, <1>6, <1>8, <3>1, <3>3, <4>1
    <3> QED BY <1>1, <1>2, <3>2, <3>3
  <2>2. s.held = Field
    BY <1>2, <2>1
  <2> QED BY <1>3, <1>5, <1>8, <2>2 DEF PassedHeld
<1> QED BY <1>3, <1>7, <1>8

LEMMA NoSaveKeeps ==
  ASSUME save' = NoSave
  PROVE  SeenBefore' /\ PassedHeld'
BY DEF NoSave, NoAnswer, SeenBefore, PassedHeld, Waiting

LEMMA BeginKeeps ==
  ASSUME TypeOK, Filled, Save
  PROVE  SeenBefore' /\ PassedHeld'
<1> DEFINE begun == [NoSave EXCEPT !.draft = draft, !.base = base, !.task = detail,
                      !.opened = opened, !.mixed = (base # detail.value)]
<1>1. begun \in Saves
  BY NoAnswerTyped DEF Save, Saves, TypeOK, Filled
<1>2. /\ begun.at = 1 /\ begun.cause = "none" /\ begun.overwritten = {}
      /\ begun.task = detail /\ begun.base = base /\ begun.mixed = (base # detail.value)
  BY DEF NoSave
<1>3. save' = Advance(WithHeld(begun))
  BY DEF Save
<1> HIDE DEF begun
<1> DEFINE s == WithHeld(begun)
<1>4. s \in Saves
  BY <1>1, WithHeldTyped
<1>5. /\ s.at = 1 /\ s.cause = "none" /\ s.overwritten = {}
      /\ s.task = detail /\ s.base = base /\ s.mixed = (base # detail.value)
      /\ Held(s) \subseteq s.held
  BY <1>1, <1>2 DEF WithHeld, Held, Saves
<1>6. save' = Advance(s)
  BY <1>3
<1> HIDE DEF s
<1>7. \A i \in DOMAIN Order : ~(i < s.at)
  BY <1>5, OrderFacts
<1>8. ~s.mixed => s.task.value = s.base
  BY <1>5
<1> QED BY <1>4, <1>5, <1>6, <1>7, <1>8, AdvanceKeeps

LEMMA AcceptedKeeps ==
  ASSUME TypeOK, AnswersTrusted, SeenBefore, PassedHeld, save.state = "sent",
         Accepted(Sending, save.draft[Sending])
  PROVE  SeenBefore' /\ PassedHeld'
<1> DEFINE f == Sending
           t == save.task.of
           value == [task[t].value EXCEPT ![f] = save.draft[f]]
<1>1. /\ f \in Field /\ t \in Task /\ task[t].value \in Fields
      /\ save'.state = "accepted" /\ save'.at = save.at /\ save'.cause = save.cause
      /\ save'.draft = save.draft /\ save'.base = save.base /\ save'.mixed = save.mixed
      /\ save'.held = save.held \cup Held(save')
      /\ save'.overwritten = save.overwritten \cup
           IF task[t].value[f] \in {save.base[f], save.draft[f]} THEN {} ELSE {f}
      /\ save'.task = IF f \in Range(Revised)
           THEN [of |-> t, revision |-> NextRevision(t, f), value |-> value]
           ELSE [save.task EXCEPT !.value = [g \in Field |->
                   IF g \in Range(Extension) THEN value[g] ELSE save.task.value[g]]]
  BY AcceptedAnswer
<1>2. /\ save \in Saves /\ save.task \in Snapshot /\ save.at \in DOMAIN Order
      /\ f = Order[save.at] /\ save.held \subseteq Field
  BY DEF TypeOK, Saves, PassedHeld, Sending
<1>3. /\ value[f] = save.draft[f]
      /\ \A g \in Field \ {f} : value[g] = task[t].value[g]
  BY <1>1 DEF Fields
<1> HIDE DEF value, f, t
<1>4. \A i \in DOMAIN Order : i \in Nat /\ Order[i] \in Field
  BY OrderFacts
<1>5. /\ \A i \in DOMAIN Order \ Waiting' : i = save.at \/ i \in DOMAIN Order \ Waiting
      /\ \A i \in Waiting' : i \in Waiting /\ i # save.at /\ i \in DOMAIN Order
      /\ save.at \in Waiting
  BY <1>1, <1>2, <1>4 DEF Waiting
<1>6. save'.task.value[f] = save.draft[f]
  BY <1>1, <1>2, <1>3, OrderFacts DEF Snapshot
<1>7. PassedHeld'
  <2>1. f \in Held(save')
    BY <1>1, <1>6 DEF Held
  <2>2. Held(save') \subseteq Field
    BY DEF Held
  <2>3. save.cause = "done" => save.held = Field
    BY DEF PassedHeld
  <2>4. \A i \in DOMAIN Order \ Waiting : Order[i] \in save.held
    BY DEF PassedHeld
  <2>5. \A i \in DOMAIN Order \ Waiting' : Order[i] \in save'.held
    BY <1>1, <1>2, <1>5, <2>1, <2>4
  <2> QED BY <1>1, <1>2, <2>2, <2>3, <2>5 DEF PassedHeld
<1>8. SeenBefore'
  <2> SUFFICES ASSUME ~save.mixed
               PROVE  /\ \A i \in Waiting' : Order[i] \in Range(Revised) =>
                           save'.task.value[Order[i]] = save.base[Order[i]]
                      /\ save'.overwritten \cap Range(Revised) = {}
    BY <1>1 DEF SeenBefore
  <2>1. /\ \A i \in Waiting : Order[i] \in Range(Revised) =>
             save.task.value[Order[i]] = save.base[Order[i]]
        /\ save.overwritten \cap Range(Revised) = {}
    BY DEF SeenBefore
  <2>2. CASE f \in Range(Revised)
    <3>1. task[t].revision = save.task.revision
      BY <2>2 DEF Accepted, RevisionHolds, f, t
    <3>2. \A g \in Range(Revised) : save.task.value[g] = task[t].value[g]
      BY <3>1 DEF AnswersTrusted, Trusted, t
    <3>3. task[t].value[f] = save.base[f]
      BY <1>2, <1>5, <2>1, <2>2, <3>2
    <3>4. save'.overwritten = save.overwritten
      BY <1>1, <3>3
    <3>5. ASSUME NEW i \in Waiting', Order[i] \in Range(Revised)
          PROVE  save'.task.value[Order[i]] = save.base[Order[i]]
      <4>1. i \in Waiting /\ i \in DOMAIN Order /\ Order[i] # f /\ Order[i] \in Field
        BY <1>2, <1>4, <1>5, OrderFacts
      <4>2. save'.task.value[Order[i]] = value[Order[i]]
        BY <1>1, <2>2
      <4> QED BY <1>3, <2>1, <3>2, <3>5, <4>1, <4>2
    <3> QED BY <2>1, <3>4, <3>5
  <2>3. CASE f \notin Range(Revised)
    <3>1. save'.overwritten \cap Range(Revised) = {}
      BY <1>1, <2>1, <2>3
    <3>2. \A g \in Range(Revised) : save'.task.value[g] = save.task.value[g]
      BY <1>1, <1>2, <2>3, OrderFacts DEF Snapshot
    <3> QED BY <1>5, <2>1, <3>1, <3>2
  <2> QED BY <2>2, <2>3
<1> QED BY <1>7, <1>8

LEMMA SaveStep ==
  TypeOK /\ Filled /\ AnswersTrusted /\ SeenBefore /\ PassedHeld /\ [Next]_vars
    => SeenBefore' /\ PassedHeld'
<1> SUFFICES ASSUME TypeOK, Filled, AnswersTrusted, SeenBefore, PassedHeld, [Next]_vars
             PROVE  SeenBefore' /\ PassedHeld'
  OBVIOUS
<1> USE DEF server, history, panel
<1>0. save \in Saves
  BY DEF TypeOK
<1>1. ASSUME UNCHANGED save PROVE SeenBefore' /\ PassedHeld'
  BY <1>1 DEF SeenBefore, PassedHeld, Waiting, Held
<1>2. CASE SaveServed
  <2>1. CASE Refused(Sending)
    <3>1. /\ save'.state = "reload" /\ save'.cause = "conflict" /\ save'.at = save.at
          /\ save'.task = save.task /\ save'.base = save.base /\ save'.mixed = save.mixed
          /\ save'.overwritten = save.overwritten
      BY <1>0, <2>1 DEF Refused, Saves
    <3>2. Waiting' \subseteq Waiting
      BY <3>1 DEF Waiting
    <3> QED BY <3>1, <3>2 DEF SeenBefore, PassedHeld
  <2> QED BY <1>2, <2>1, AcceptedKeeps DEF SaveServed
<1>3. CASE SaveHeard
  <2> DEFINE s == [save EXCEPT !.at = @ + 1]
  <2>1. save.at \in DOMAIN Order /\ save.at \in Nat
    BY <1>3, OrderFacts DEF SaveHeard, PassedHeld
  <2>2. s \in Saves /\ save' = Advance(s)
    BY <1>0, <1>3, <2>1, OrderFacts DEF SaveHeard, Saves
  <2>3. /\ s.at = save.at + 1 /\ s.held = save.held /\ s.cause = save.cause
        /\ s.mixed = save.mixed /\ s.overwritten = save.overwritten
        /\ s.task = save.task /\ s.base = save.base /\ s.draft = save.draft
    BY <1>0 DEF Saves
  <2> HIDE DEF s
  <2>4. Waiting = {i \in DOMAIN Order : i > save.at}
    BY <1>3 DEF Waiting, SaveHeard
  <2>5. /\ \A i \in DOMAIN Order : i < s.at => i \in DOMAIN Order \ Waiting
        /\ \A i \in DOMAIN Order : i >= s.at => i \in Waiting
    BY <2>1, <2>3, <2>4, OrderFacts
  <2>6. Held(s) \subseteq s.held
    BY <1>3, <2>3 DEF PassedHeld, SaveHeard, Held
  <2>7. \A i \in DOMAIN Order : i < s.at => Order[i] \in s.held
    BY <1>3, <2>3, <2>5 DEF PassedHeld, SaveHeard
  <2>8. s.cause = "done" => s.held = Field
    BY <2>3 DEF PassedHeld
  <2>9. ~s.mixed =>
          /\ \A i \in DOMAIN Order : i >= s.at /\ Order[i] \in Range(Revised) =>
               s.task.value[Order[i]] = s.base[Order[i]]
          /\ s.overwritten \cap Range(Revised) = {}
    BY <2>3, <2>5 DEF SeenBefore
  <2> QED BY <2>2, <2>6, <2>7, <2>8, <2>9, AdvanceKeeps
<1>4. CASE \E s \in Slot : LoadHeard(s) \/ LoadFails(s)
  BY <1>1, <1>4, NoSaveKeeps DEF LoadHeard, LoadFails, SaveAfter
<1>5. CASE \E s \in Slot : SaveReloads(s)
  <2>1. /\ save.state = "reload" /\ save' = [save EXCEPT !.state = "loading"]
    BY <1>5 DEF SaveReloads
  <2>2. /\ save'.state = "loading" /\ save'.cause = save.cause /\ save'.at = save.at
        /\ save'.task = save.task /\ save'.base = save.base /\ save'.mixed = save.mixed
        /\ save'.overwritten = save.overwritten /\ save'.held = save.held
    BY <1>0, <2>1 DEF Saves
  <2>3. Waiting' = Waiting
    BY <2>1, <2>2 DEF Waiting
  <2> QED BY <2>2, <2>3 DEF SeenBefore, PassedHeld
<1>6. CASE SaveFails
  BY <1>6, NoSaveKeeps DEF SaveFails
<1>7. CASE Save
  BY <1>7, BeginKeeps
<1> QED BY <1>1, <1>2, <1>3, <1>4, <1>5, <1>6, <1>7
        DEF Next, vars, OtherEdits, NeighbourMoves, LoadServed, Retry, EventHeard, Open,
            StartEditing, CancelEditing, Type, Upload, UploadServed, UploadHeard, UploadFails

-----------------------------------------------------------------------------
(* What the panel shows, and what is on its way to it.                     *)

ShownAfter(answer, number) ==
  number >= task'[answer.of].changed =>
    /\ answer.value = task'[answer.of].value
    /\ answer.revision >= task'[answer.of].announced

LEMMA ShownKept ==
  ASSUME TypeOK, Filled, PassedHeld, [Next]_vars,
         NEW x \in Snapshot, NEW n \in Nat, n <= version, ShownAt(x, n)
  PROVE  n <= version' /\ ShownAfter(x, n)
<1>1. TypeOK'
  BY TypeStep
<1>2. /\ x.of \in Task /\ version \in Nat /\ version' \in Nat
      /\ task[x.of].changed \in Nat
  BY <1>1, BoundAssumption DEF Snapshot, TypeOK
<1>3. Announcing(x.of)
  BY <1>2, ServerStep
<1> QED BY <1>2, <1>3 DEF ShownAt, ShownAfter, Announcing

\* An answer on display becomes the newest, unless it is noted as overtaken.
LEMMA NotedShows ==
  ASSUME TypeOK, NEW x \in Snapshot, NEW n \in Nat, n <= version, Noted(x, n),
         newest <= version, UNCHANGED version
  PROVE  /\ newest' <= version' /\ newest' >= newest
         /\ x.of # opened => overtaken' = "foreign"
         /\ x.of = opened => newest' >= n
         /\ overtaken = "foreign" => overtaken' = "foreign"
         /\ overtaken' = "no" => x.of = opened /\ newest' = n
BY BoundAssumption DEF Noted, TypeOK

LEMMA ShowStep ==
  TypeOK /\ Filled /\ PassedHeld /\ Counted /\ AnswersShow /\ [Next]_vars => AnswersShow'
<1> SUFFICES ASSUME TypeOK, Filled, PassedHeld, Counted, AnswersShow, [Next]_vars
             PROVE  AnswersShow'
  OBVIOUS
<1> USE PanelAssumption, BoundAssumption DEF server, history, panel
<1>0. /\ load \in [Slot -> Loads] /\ upload \in Uploads /\ version \in Nat /\ newest \in Nat
      /\ \A q \in Slot : load[q].answer \in Snapshot /\ load[q].version \in Nat
      /\ upload.answer \in Snapshot /\ upload.version \in Nat
  BY DEF TypeOK, Loads, Uploads
<1>v. newest <= version'
  <2>1. opened \in Task /\ newest <= version
    BY DEF TypeOK, AnswersShow
  <2>2. Announcing(opened)
    BY <2>1, ServerStep
  <2>3. version' \in Nat
    BY TypeStep DEF TypeOK
  <2>4. version <= version'
    BY <1>0, <2>2, <2>3 DEF Announcing
  <2> QED BY <1>0, <2>1, <2>3, <2>4
<1>1. ASSUME NEW q \in Slot, load[q].state = "answered"
      PROVE  load[q].version <= version' /\ ShownAfter(load[q].answer, load[q].version)
             /\ load[q].version <= version
  BY <1>0, <1>1, ShownKept DEF AnswersShow
<1>2. ASSUME upload.state = "answered"
      PROVE  upload.version <= version' /\ ShownAfter(upload.answer, upload.version)
             /\ upload.version <= version
  BY <1>0, <1>2, ShownKept DEF AnswersShow
<1>3. ASSUME NEW s \in Slot, load'[s].state = "answered"
      PROVE  load'[s].version <= version' /\ ShownAfter(load'[s].answer, load'[s].version)
  <2>1. CASE load'[s] = load[s]
    BY <1>1, <1>3, <2>1
  <2>2. CASE /\ load'[s].version = version /\ load'[s].answer = Read(load[s].answer.of)
             /\ UNCHANGED <<task, version, opened>>
    <3>1. load[s].answer.of \in Task
      BY <1>0 DEF Snapshot
    <3> QED BY <1>0, <2>2, <3>1 DEF Read, ShownAfter, Counted, TypeOK
  <2> QED BY <1>3, <2>1, <2>2, LoadAnswers DEF FreeSlot
<1>4. ASSUME upload'.state = "answered"
      PROVE  upload'.version <= version' /\ ShownAfter(upload'.answer, upload'.version)
  <2>1. CASE UploadServed
    <3> DEFINE t == upload.answer.of
    <3>1. /\ t \in Task /\ task[t].revision + 1 \in Nat
          /\ task \in [Task -> [revision : Nat, announced : Nat, changed : 0..MaxChanges,
                                value : Fields]]
      BY <1>0 DEF Snapshot, TypeOK
    <3>2. /\ upload'.answer.of = t /\ upload'.answer.revision = task[t].revision + 1
          /\ upload'.answer.value = task[t].value /\ upload'.version = version'
      BY <1>0, <2>1 DEF UploadServed, Uploads, Snapshot, Commit
    <3>3. /\ task'[t].announced = task[t].revision + 1 /\ task'[t].value = task[t].value
          /\ version' = version + 1
      BY <2>1, <3>1 DEF UploadServed, Commit
    <3> HIDE DEF t
    <3> QED BY <1>0, <3>1, <3>2, <3>3 DEF ShownAfter
  <2>2. CASE Upload \/ UploadHeard \/ UploadFails
    <3>1. CASE Upload
      <4>1. upload' = [NoUpload EXCEPT !.state = "asked", !.editing = editing,
                                      !.answer.of = detail.of]
        BY <3>1 DEF Upload
      <4> QED BY <1>4, <4>1 DEF NoUpload
    <3>2. CASE UploadHeard \/ UploadFails
      BY <1>4, <3>2 DEF UploadHeard, UploadFails, NoUpload
    <3> QED BY <2>2, <3>1, <3>2
  <2>3. CASE UNCHANGED upload
    BY <1>2, <1>4, <2>3
  <2> QED BY <2>1, <2>2, <2>3
          DEF Next, vars, OtherEdits, NeighbourMoves, LoadServed, LoadHeard, LoadFails, Retry,
              SaveReloads, EventHeard, Open, StartEditing, CancelEditing, Type, Save,
              SaveServed, SaveHeard, SaveFails
<1>5. ASSUME NEW x \in Snapshot, NEW n \in Nat, n <= version, ShownAfter(x, n),
             Noted(x, n), detail' = x, UNCHANGED <<task, version, opened>>
      PROVE  /\ newest' <= version'
             /\ detail' # None /\ overtaken' = "no" =>
                  detail'.of = opened' /\ ShownAfter(detail', newest')
  BY <1>5, NotedShows DEF AnswersShow
<1>6. /\ newest' <= version'
      /\ detail' # None /\ overtaken' = "no" =>
           detail'.of = opened' /\ ShownAfter(detail', newest')
  <2>1. CASE UNCHANGED <<detail, newest, overtaken, opened>>
    <3>1. CASE detail = None
      BY <1>v, <2>1, <3>1
    <3>2. CASE detail # None
      <4>1. detail \in Snapshot
        BY <3>2 DEF TypeOK
      <4>2. overtaken = "no" => ShownAfter(detail, newest)
        BY <1>0, <3>2, <4>1, ShownKept DEF AnswersShow
      <4> QED BY <1>v, <2>1, <3>2, <4>2 DEF AnswersShow
    <3> QED BY <3>1, <3>2
  <2>2. CASE (\E s \in Slot : LoadHeard(s)) /\ UNCHANGED <<task, version, opened>>
    <3>1. PICK s \in Slot : LoadHeard(s)
      BY <2>2
    <3>2. /\ load[s].state = "answered" /\ Noted(load[s].answer, load[s].version)
          /\ detail' = load[s].answer
      BY <3>1 DEF LoadHeard, Display
    <3> QED BY <1>0, <1>1, <1>5, <2>2, <3>2
  <2>3. CASE UploadHeard /\ UNCHANGED <<task, version, opened>>
    <3>1. /\ upload.state = "answered" /\ Noted(upload.answer, upload.version)
          /\ detail' = upload.answer
      BY <2>3 DEF UploadHeard, Display
    <3> QED BY <1>0, <1>2, <1>5, <2>3, <3>1
  <2>4. CASE \E t \in Task, s \in Slot : Open(t, s)
    BY <1>0, <2>4 DEF Open
  <2> QED BY <2>1, <2>2, <2>3, <2>4, Showing
<1> QED BY <1>3, <1>4, <1>6 DEF AnswersShow, ShownAt, ShownAfter

\* What the panel has been given stays its own until it turns to another task.
LEMMA PanelKeeps ==
  ASSUME TypeOK, AnswersShow, [Next]_vars,
         ~\E t \in Task, s \in Slot : Open(t, s)
  PROVE  /\ opened' = opened /\ newest' \in Nat /\ newest' >= newest
         /\ detail # None => detail' # None
         /\ overtaken = "foreign" => overtaken' = "foreign"
<1> USE PanelAssumption, BoundAssumption
<1>0. newest \in Nat /\ newest <= version
  BY DEF TypeOK, AnswersShow
<1>1. CASE UNCHANGED <<detail, newest, overtaken, opened>>
  BY <1>0, <1>1
<1>2. ASSUME NEW x \in Snapshot, NEW n \in Nat, Noted(x, n), detail' = x, UNCHANGED opened
      PROVE  /\ opened' = opened /\ newest' \in Nat /\ newest' >= newest
             /\ detail # None => detail' # None
             /\ overtaken = "foreign" => overtaken' = "foreign"
  BY <1>0, <1>2 DEF Noted
<1>3. CASE (\E s \in Slot : LoadHeard(s)) /\ UNCHANGED opened
  <2>1. PICK s \in Slot : LoadHeard(s)
    BY <1>3
  <2>2. load[s].answer \in Snapshot /\ load[s].version \in Nat
    BY DEF TypeOK, Loads
  <2>3. Noted(load[s].answer, load[s].version) /\ detail' = load[s].answer
    BY <2>1 DEF LoadHeard, Display
  <2> QED BY <1>2, <1>3, <2>2, <2>3
<1>4. CASE UploadHeard /\ UNCHANGED opened
  <2>1. upload.answer \in Snapshot /\ upload.version \in Nat
    BY DEF TypeOK, Uploads
  <2>2. Noted(upload.answer, upload.version) /\ detail' = upload.answer
    BY <1>4 DEF UploadHeard, Display
  <2> QED BY <1>2, <1>4, <2>1, <2>2
<1> QED BY <1>1, <1>3, <1>4, Showing

\* An asked or answered load stays in flight, brings its answer, or fails.
LEMMA LoadGoesOn ==
  ASSUME TypeOK, Counted, AnswersShow, [Next]_vars, NEW s \in Slot, Bringing(s),
         ~\E t \in Task, q \in Slot : Open(t, q),
         task'[opened].changed = task[opened].changed
  PROVE  \/ Bringing(s)' \/ loadError' \/ overtaken' = "foreign"
         \/ detail' # None /\ newest' >= task'[opened].changed
<1> USE PanelAssumption, BoundAssumption DEF server, history, panel
<1>0. /\ load \in [Slot -> Loads] /\ opened \in Task /\ load[s].answer \in Snapshot
      /\ load[s].version \in Nat /\ newest \in Nat /\ version \in Nat
      /\ task[opened].changed \in Nat /\ opened' = opened
  BY PanelKeeps DEF TypeOK, Loads
<1>1. CASE load'[s] = load[s]
  BY <1>0, <1>1 DEF Bringing
<1>2. CASE load'[s].state = "asked"
  BY <1>2 DEF Bringing
<1>3. CASE load'[s].state = "answered" /\ load'[s].version = version
  BY <1>0, <1>3 DEF Bringing, Counted
<1>4. CASE load'[s] = FreeSlot /\ load'[s] # load[s]
  <2>1. LoadHeard(s) \/ LoadFails(s)
    <3>1. ASSUME NEW q \in Slot, LoadHeard(q) \/ LoadFails(q) PROVE q = s
      BY <1>0, <1>4, <3>1 DEF LoadHeard, LoadFails
    <3>2. ASSUME NEW q \in Slot, NEW t \in Task, NEW a \in BOOLEAN, Ask(q, t, a) PROVE FALSE
      <4>1. load'[q].state = "asked" /\ \A r \in Slot \ {q} : load'[r] = load[r]
        BY <1>0, <3>2 DEF Ask, FreeSlot
      <4> QED BY <1>4, <4>1 DEF FreeSlot
    <3>3. \A q \in Slot : ~LoadServed(q)
      BY <1>0, <1>4 DEF LoadServed, FreeSlot, Loads
    <3>4. save.opened \in Task
      BY DEF TypeOK, Saves
    <3>5. \E q \in Slot : LoadHeard(q) \/ LoadFails(q)
      BY <1>0, <1>4, <3>2, <3>3, <3>4
         DEF Next, vars, OtherEdits, NeighbourMoves, Retry, SaveReloads, EventHeard, StartEditing,
             CancelEditing, Type, Save, SaveServed, SaveHeard, SaveFails, Upload, UploadServed,
             UploadHeard, UploadFails
    <3> QED BY <3>1, <3>5
  <2>2. CASE LoadFails(s)
    BY <2>2 DEF LoadFails
  <2>3. CASE LoadHeard(s)
    <3>1. /\ load[s].state = "answered" /\ detail' = load[s].answer
          /\ Noted(load[s].answer, load[s].version)
      BY <2>3 DEF LoadHeard, Display
    <3>2. detail' # None
      BY <1>0, <3>1
    <3>3. CASE load[s].answer.of # opened
      BY <3>1, <3>3 DEF Noted
    <3>4. CASE load[s].answer.of = opened /\ load[s].version >= task[opened].changed
      BY <1>0, <3>1, <3>2, <3>4 DEF Noted
    <3> QED BY <3>1, <3>3, <3>4 DEF Bringing
  <2> QED BY <2>1, <2>2, <2>3
<1> QED BY <1>1, <1>2, <1>3, <1>4, LoadAnswers

\* A failure on display goes away, and an event is taken, only for a new load.
LEMMA AskedInstead ==
  ASSUME TypeOK, PassedHeld, [Next]_vars,
         loadError \/ unheard[opened] > 0
  PROVE  loadError' \/ unheard'[opened] > 0 \/ \E s \in Slot : load'[s].state = "asked"
<1> USE DEF server, history, panel
<1>0. load \in [Slot -> Loads] /\ unheard \in [Task -> Nat] /\ opened \in Task
  BY DEF TypeOK
<1>1. ASSUME NEW q \in Slot, NEW t \in Task, NEW a \in BOOLEAN, Ask(q, t, a)
      PROVE  load'[q].state = "asked"
  BY <1>0, <1>1 DEF Ask, FreeSlot
<1>2. CASE \E q \in Slot : Retry(q) \/ SaveReloads(q)
  <2>1. save.opened \in Task
    BY DEF TypeOK, Saves
  <2> QED BY <1>0, <1>1, <1>2, <2>1 DEF Retry, SaveReloads
<1>3. ASSUME NEW t \in Task, NEW q \in Slot, EventHeard(t, q)
      PROVE  loadError' \/ unheard'[opened] > 0 \/ \E s \in Slot : load'[s].state = "asked"
  <2>1. CASE t = opened
    BY <1>0, <1>1, <1>3, <2>1 DEF EventHeard, Concerns
  <2>2. CASE t # opened
    BY <1>0, <1>3, <2>2 DEF EventHeard, Concerns
  <2> QED BY <2>1, <2>2
<1>4. CASE \E t \in Task, q \in Slot : Open(t, q)
  BY <1>1, <1>4 DEF Open
<1>5. ASSUME NEW t \in Task, NEW r, NEW v, Commit(t, r, v)
      PROVE  unheard[opened] > 0 => unheard'[opened] > 0
  BY <1>0, <1>5 DEF Commit
<1>6. CASE \E t \in Busy, f \in Field, v \in Value : OtherEdits(t, f, v)
  BY <1>5, <1>6, BoundAssumption DEF OtherEdits
<1>7. CASE SaveServed \/ UploadServed
  <2>1. save.task.of \in Task /\ upload.answer.of \in Task
    BY DEF TypeOK, Saves, Uploads, Snapshot
  <2> QED BY <1>5, <1>7, <2>1 DEF SaveServed, UploadServed, Accepted, Refused
<1>8. CASE (\E s \in Slot : LoadHeard(s) \/ LoadFails(s) \/ LoadServed(s))
           \/ (\E t \in Busy : NeighbourMoves(t))
  BY <1>8 DEF LoadHeard, LoadFails, LoadServed, NeighbourMoves
<1>9. CASE UNCHANGED <<unheard, loadError>>
  BY <1>9
<1> QED BY <1>2, <1>3, <1>4, <1>6, <1>7, <1>8, <1>9
        DEF Next, vars, StartEditing, CancelEditing, Type, Save, SaveHeard, SaveFails,
            Upload, UploadHeard, UploadFails

LEMMA NewsStep == IInv /\ [Next]_vars => NewsAhead'
<1> SUFFICES ASSUME IInv, [Next]_vars PROVE NewsAhead'
  OBVIOUS
<1> USE DEF IInv
<1>0. opened \in Task /\ newest \in Nat /\ task[opened].changed \in Nat
  BY BoundAssumption DEF TypeOK
<1>1. CASE \E t \in Task, s \in Slot : Open(t, s)
  <2>1. PICK t \in Task, s \in Slot : Open(t, s)
    BY <1>1
  <2>2. load'[s].state = "asked"
    BY <2>1 DEF Open, Ask, FreeSlot, TypeOK
  <2> QED BY <2>2 DEF NewsAhead, Bringing
<1>2. CASE ~\E t \in Task, s \in Slot : Open(t, s)
  <2>1. /\ opened' = opened /\ newest' \in Nat /\ newest' >= newest
        /\ detail # None => detail' # None
        /\ overtaken = "foreign" => overtaken' = "foreign"
    BY <1>2, PanelKeeps
  <2>2. Announcing(opened)
    BY <1>0, ServerStep
  <2>3. CASE unheard'[opened] > 0
    BY <2>1, <2>3 DEF NewsAhead
  <2>4. CASE task'[opened].changed = task[opened].changed
    <3>1. CASE detail # None /\ newest >= task[opened].changed
      BY <1>0, <2>1, <2>4, <3>1 DEF NewsAhead
    <3>2. CASE loadError \/ unheard[opened] > 0
      BY <2>1, <3>2, AskedInstead DEF NewsAhead, Bringing
    <3>3. CASE overtaken = "foreign"
      BY <2>1, <3>3 DEF NewsAhead
    <3>4. CASE \E s \in Slot : Bringing(s)
      BY <1>2, <2>1, <2>4, <3>4, LoadGoesOn DEF NewsAhead
    <3> QED BY <3>1, <3>2, <3>3, <3>4 DEF NewsAhead
  <2> QED BY <2>2, <2>3, <2>4 DEF Announcing
<1> QED BY <1>1, <1>2

-----------------------------------------------------------------------------
LEMMA InitEstablishes == Init => IInv
<1> SUFFICES ASSUME Init PROVE IInv
  OBVIOUS
<1> USE PanelAssumption, BoundAssumption, FieldsAssumption, NoAnswerTyped
<1>1. PICK s \in Slot :
        load = [[x \in Slot |-> FreeSlot] EXCEPT ![s].state = "asked"]
  BY DEF Init
<1>2. load \in [Slot -> Loads] /\ load[s].state = "asked"
      /\ \A q \in Slot : load[q].answer = NoAnswer /\ load[q].state # "answered"
  BY <1>1 DEF FreeSlot, Loads
<1>3. NoAnswer.value \in Fields /\ NoAnswer.revision = 1 /\ NoAnswer.of = First
  BY DEF NoAnswer, Fields
<1>4. TypeOK
  <2>1. 0 \in 0..MaxChanges /\ 0 \in 0..MaxOpens
    OBVIOUS
  <2>2. task \in [Task -> [revision : Nat, announced : Nat, changed : 0..MaxChanges,
                          value : Fields]]
    BY <1>3, <2>1 DEF Init
  <2>3. unheard \in [Task -> Nat]
    BY DEF Init
  <2> QED BY <1>2, <2>1, <2>2, <2>3 DEF Init, TypeOK
<1>5. Counted
  BY DEF Init, Counted
<1>6. AnswersTrusted
  <2>1. \A t \in Task : Trusted(Unasked(t))
    BY <1>3 DEF Init, Trusted, Unasked, NoAnswer
  <2>2. Trusted(NoAnswer)
    BY <1>3 DEF Init, Trusted
  <2> QED BY <1>2, <2>1, <2>2 DEF Init, AnswersTrusted, NoUpload, NoSave
<1>7. SeenBefore /\ PassedHeld
  BY DEF Init, NoSave, SeenBefore, PassedHeld
<1>8. Filled /\ AnswersShow
  BY <1>2 DEF Init, Filled, AnswersShow, NoUpload
<1>9. NewsAhead
  BY <1>2 DEF NewsAhead, Bringing
<1> QED BY <1>4, <1>5, <1>6, <1>7, <1>8, <1>9 DEF IInv

\* The panel's type, its answers, its save and its news, together.
THEOREM Invariance == Spec => []IInv
<1>1. IInv /\ [Next]_vars => IInv'
  BY TypeStep, FilledStep, CountedStep, TrustStep, SaveStep, ShowStep, NewsStep DEF IInv
<1> QED BY <1>1, InitEstablishes, PTL DEF Spec

\* The panel's state has its type: no refused, overtaken or failed request leaves
\* a field of it undefined.
THEOREM TypeCorrect == Spec => []TypeOK
BY Invariance, PTL DEF IInv

\* A save replaces what others wrote unseen only in a plugin's field, or when an
\* upload refreshed the revision under an older draft.
THEOREM OverwritesExplained == Spec => []OverwriteExplained
<1>1. IInv => OverwriteExplained
  BY DEF IInv, SeenBefore, OverwriteExplained
<1> QED BY <1>1, Invariance, PTL

\* A panel with nothing to wait for shows its task as the server has it.
THEOREM PanelConverges == Spec => []Converged
<1>1. IInv => Converged
  <2> SUFFICES ASSUME IInv, Quiet, ~loadError, overtaken = "no"
               PROVE  /\ detail # None /\ detail.of = opened
                      /\ detail.value = task[opened].value
                      /\ detail.revision >= task[opened].announced
    BY DEF Converged
  <2>1. opened \in Task /\ unheard[opened] = 0
    BY DEF IInv, TypeOK, Quiet
  <2>2. detail # None /\ newest >= task[opened].changed
    BY <2>1 DEF IInv, NewsAhead, Quiet, Bringing
  <2> QED BY <2>2 DEF IInv, AnswersShow, ShownAt
<1> QED BY <1>1, Invariance, PTL

\* A save that closes the form was told of every field of the draft that the
\* server held it, whatever the number of fields and requests.
THEOREM SavesWhole == Spec => SaveWhole
<1>1. IInv /\ [Next]_vars =>
        (save.state = "loading" /\ save'.state = "idle" /\ editing /\ ~editing'
           => save.held = Field)
  <2> SUFFICES ASSUME IInv, [Next]_vars, save.state = "loading", save'.state = "idle",
                      editing, ~editing'
               PROVE  save.cause = "done"
    BY DEF IInv, PassedHeld
  <2> USE DEF server, history, panel
  <2>1. \E s \in Slot : LoadHeard(s) \/ LoadFails(s)
    BY DEF Next, vars, OtherEdits, NeighbourMoves, LoadServed, Retry, SaveReloads, EventHeard,
           Open, StartEditing, CancelEditing, Type, Save, SaveServed, SaveHeard, SaveFails,
           Upload, UploadServed, UploadHeard, UploadFails
  <2> QED BY <2>1 DEF LoadHeard, LoadFails, EditingAfter
<1> QED BY <1>1, Invariance, PTL DEF Spec, SaveWhole
=============================================================================
