---------------------------- MODULE Idempotency ----------------------------
(***************************************************************************)
(* A command sent with an Idempotency-Key (executeIdempotent), and the     *)
(* record SqliteIdempotencyRepository keeps of it for 24 hours.  The       *)
(* attempts are the requests that carry one key in one scope: a client's   *)
(* retries, duplicates that overlap, and other commands that reuse the     *)
(* key by mistake.                                                         *)
(*                                                                         *)
(* The reservation, the command, its completion and the abandonment are    *)
(* transactions of their own, so other attempts and crashes come between   *)
(* them.  Records of other scopes do not touch this one.                   *)
(***************************************************************************)
EXTENDS Naturals, FiniteSets

CONSTANTS
  Attempt,    \* requests
  Hash,       \* hashes of the validated input
  HashOf,     \* the hash of each request
  Absent,
  MaxExpiries,  \* bound: how often the retention of a record runs out
  MaxFaults     \* bound: how often a completion or an abandonment fails

ASSUME AttemptsAssumption ==
  /\ Absent \notin Attempt \cup Hash
  /\ HashOf \in [Attempt -> Hash]

ASSUME BoundsAssumption == MaxExpiries \in Nat /\ MaxFaults \in Nat

VARIABLES
  record,    \* the row of idempotency_records, if any
  pc,        \* where each request is
  answer,    \* whose effect its answer reports, for a request that succeeded
  effects,   \* the requests whose command was committed
  expiries,  \* how often a record ran out of its retention
  faults     \* how often a completion or an abandonment failed

requestVars == <<record, pc, answer, effects, expiries, faults>>

RecordRow == [state : {"none", "pending", "completed"}, hash : Hash \cup {Absent},
              response : Attempt \cup {Absent}, expired : BOOLEAN]
NoRecord == [state |-> "none", hash |-> Absent, response |-> Absent, expired |-> FALSE]

InFlight == {"started", "executed", "failing"}
Refusals == {"conflict", "in_progress", "failed", "lost"}
Locations == {"unsent", "replayed", "succeeded"} \cup InFlight \cup Refusals

RequestTypeOK ==
  /\ record \in RecordRow
  /\ pc \in [Attempt -> Locations]
  /\ answer \in [Attempt -> Attempt \cup {Absent}]
  /\ effects \subseteq Attempt
  /\ expiries \in 0 .. MaxExpiries
  /\ faults \in 0 .. MaxFaults

RequestInit ==
  /\ record = NoRecord
  /\ pc = [a \in Attempt |-> "unsent"]
  /\ answer = [a \in Attempt |-> Absent]
  /\ effects = {}
  /\ expiries = 0
  /\ faults = 0

-----------------------------------------------------------------------------
(* One request.                                                            *)

Kept == record.state # "none" /\ ~record.expired

HashIgnored(a) ==  \* mutant
  IF ~Kept THEN "started"
  ELSE IF record.state = "pending" THEN "in_progress"
  ELSE "replayed"

\* DELETE ... WHERE expires_at <= now, before the row is looked up.
ReserveOutcome(a) ==
  IF ~Kept THEN "started"
  ELSE IF record.hash # HashOf[a] THEN "conflict"
  ELSE IF record.state = "pending" THEN "in_progress"
  ELSE "replayed"

Reserve(a) ==
  /\ pc[a] = "unsent"
  /\ pc' = [pc EXCEPT ![a] = ReserveOutcome(a)]
  /\ \/ /\ ReserveOutcome(a) = "started"
        /\ record' = [state |-> "pending", hash |-> HashOf[a], response |-> Absent,
                      expired |-> FALSE]
        /\ UNCHANGED answer
     \/ /\ ReserveOutcome(a) = "replayed"
        /\ answer' = [answer EXCEPT ![a] = record.response]
        /\ UNCHANGED record
     \/ /\ ReserveOutcome(a) \in {"conflict", "in_progress"}
        /\ UNCHANGED <<record, answer>>
  /\ UNCHANGED <<effects, expiries, faults>>

\* The command commits, or it throws and nothing of it stays.
Execute(a) ==
  /\ pc[a] = "started"
  /\ \/ effects' = effects \cup {a} /\ pc' = [pc EXCEPT ![a] = "executed"]
     \/ pc' = [pc EXCEPT ![a] = "failing"] /\ UNCHANGED effects
  /\ UNCHANGED <<record, answer, expiries, faults>>

\* ... AND request_hash = ? AND state = 'pending', whoever reserved it; a record
\* past its retention is still there until a reservation deletes it.
PendingFor(a) == record.state = "pending" /\ record.hash = HashOf[a]

Complete(a) ==
  /\ pc[a] = "executed"
  /\ \/ /\ PendingFor(a)
        /\ record' = [record EXCEPT !.state = "completed", !.response = a]
        /\ answer' = [answer EXCEPT ![a] = a]
        /\ pc' = [pc EXCEPT ![a] = "succeeded"]
     \/ /\ ~PendingFor(a)
        /\ pc' = [pc EXCEPT ![a] = "failing"]
        /\ UNCHANGED <<record, answer>>
  /\ UNCHANGED <<effects, expiries, faults>>

\* The write of the completion throws: a full disk, a database being closed.
CompleteFails(a) ==
  /\ pc[a] = "executed"
  /\ faults < MaxFaults
  /\ faults' = faults + 1
  /\ pc' = [pc EXCEPT ![a] = "failing"]
  /\ UNCHANGED <<record, answer, effects, expiries>>

\* DELETE ... AND request_hash = ? AND state = 'pending'
Abandoned(a) == PendingFor(a)

\* After any error of the command or of its completion.
Abandon(a) ==
  /\ pc[a] = "failing"
  /\ record' = IF Abandoned(a) THEN NoRecord ELSE record
  /\ pc' = [pc EXCEPT ![a] = "failed"]
  /\ UNCHANGED <<answer, effects, expiries, faults>>

AbandonFails(a) ==
  /\ pc[a] = "failing"
  /\ faults < MaxFaults
  /\ faults' = faults + 1
  /\ pc' = [pc EXCEPT ![a] = "failed"]
  /\ UNCHANGED <<record, answer, effects, expiries>>

-----------------------------------------------------------------------------
(* The server and the clock.                                               *)

ForgottenByCrash == NoRecord  \* mutant

\* The row is in the database, and nothing removes it at startup.
AfterCrash == record

\* The server dies with every request in flight.
Crash ==
  /\ \E a \in Attempt : pc[a] \in InFlight
  /\ pc' = [a \in Attempt |-> IF pc[a] \in InFlight THEN "lost" ELSE pc[a]]
  /\ record' = AfterCrash
  /\ UNCHANGED <<answer, effects, expiries, faults>>

\* 24 hours after the reservation, whatever has become of it.
Expire ==
  /\ Kept
  /\ expiries < MaxExpiries
  /\ expiries' = expiries + 1
  /\ record' = [record EXCEPT !.expired = TRUE]
  /\ UNCHANGED <<pc, answer, effects, faults>>

RequestNext ==
  \/ \E a \in Attempt : \/ Reserve(a) \/ Execute(a) \/ Complete(a)
                        \/ CompleteFails(a) \/ Abandon(a) \/ AbandonFails(a)
  \/ Crash
  \/ Expire

RequestSpec == RequestInit /\ [][RequestNext]_requestVars

-----------------------------------------------------------------------------
(* Properties.                                                             *)

\* As long as no retention runs out, one attempt at a time is between its
\* reservation and the end of its command, through failures and crashes.
OneAtATime ==
  expiries = 0 =>
    \A a, b \in Attempt : pc[a] \in InFlight /\ pc[b] \in InFlight => a = b

\* A command takes effect once for all attempts with one key, unless a retention
\* runs out or a completion cannot be written: neither retries, nor overlapping
\* duplicates, nor failed commands, nor a crash between effect and answer repeat it.
OnceUnlessFault ==
  expiries = 0 /\ faults = 0 => \A a, b \in effects : a = b

\* An answer of success, replayed or not, reports an effect that was committed for
\* a request with the same input: never that of another use of the key.
AnswersTrue ==
  \A a \in Attempt : pc[a] \in {"replayed", "succeeded"} =>
    answer[a] \in effects /\ HashOf[answer[a]] = HashOf[a]

\* A completed record answers every retry until its retention runs out: no late
\* completion or abandonment of another attempt changes it.
CompletionKept ==
  [][Kept /\ record.state = "completed" =>
       record' = record \/ record' = [record EXCEPT !.expired = TRUE]]_requestVars
=============================================================================
