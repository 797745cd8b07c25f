------------------------------ MODULE EventLog ------------------------------
(***************************************************************************)
(* What the outbox promises of the facts that commands commit: each fact   *)
(* that concerns an organization is recorded in the event log once, after  *)
(* it was committed, at a place that never changes, and none is forgotten. *)
(***************************************************************************)
EXTENDS Naturals, Sequences, SequencesExt

CONSTANTS Fact, Logged

VARIABLES committed, log

vars == <<committed, log>>

Init == committed = {} /\ log = <<>>

Accept(f) ==
  /\ f \notin committed
  /\ committed' = committed \cup {f}
  /\ UNCHANGED log

Record(f) ==
  /\ f \in (committed \cap Logged) \ ToSet(log)
  /\ log' = Append(log, f)
  /\ UNCHANGED committed

Next == \E f \in Fact : Accept(f) \/ Record(f)

Safety == Init /\ [][Next]_vars

\* No fact waits for ever, whatever the others do.
Spec == Safety /\ \A f \in Logged : WF_vars(Record(f))
=============================================================================
