---------------------------- MODULE PluginCalls ----------------------------
(***************************************************************************)
(* Calls of capabilities by a plugin under development: the route that       *)
(* admits them (capability-broker-routes.ts), the broker that authorises,   *)
(* runs and races them with a deadline and a cancellation                    *)
(* (capability-broker.ts), composed with the sessions of DeveloperMode,      *)
(* whose coordinator grants or refuses each call.                            *)
(*                                                                         *)
(* A call is one HTTP request for one capability that writes: its handler    *)
(* queues a transaction, which nothing takes back.                           *)
(***************************************************************************)
EXTENDS DeveloperMode

CONSTANTS
  Call,
  Needed      \* the permission of the capability

VARIABLE call

callVars == <<vars, call>>

\* An error is a failure, a cancellation or a deadline; an answer "none" of a
\* call that is over never came.
CallRecord == [stage : {"unsent", "arriving", "running", "over"},
               run : Run \cup {"none"},
               work : {"none", "queued", "committed", "failed"},
               answer : {"none", "output", "refused", "error"}]

CallsTyped == call \in [Call -> CallRecord]

InitCalls ==
  /\ Init
  /\ call = [c \in Call |-> [stage |-> "unsent", run |-> "none",
                             work |-> "none", answer |-> "none"]]

Over(k, a) == [k EXCEPT !.stage = "over", !.answer = a, !.run = "none"]

\* The page calls the plugin it was given; the route resolves the identity.
\* A client that leaves before that ends is not noticed: nobody listens yet.
Invoke(c, r) ==
  /\ call[c].stage = "unsent" /\ Serving(r)
  /\ call' = [call EXCEPT ![c].stage = "arriving", ![c].run = r]

\* A bug of grantFor: whether the session still serves is not asked.
GrantRemembered(r) == Needed \in session[r].granted

\* grantFor and the permission of the capability.
Granted(r) == Serving(r) /\ Needed \in session[r].granted

Declined(k) == Over(k, "refused")

\* begin and call up to execute().  The authority reads the session synchronously
\* (resolve of the routes), so the await of its grant costs a microtask: timers,
\* requests and lost connections, which the other actions stand for, wait for it.
Begin(c) ==
  /\ call[c].stage = "arriving"
  /\ call' = [call EXCEPT ![c] =
       IF Granted(@.run)
       THEN [@ EXCEPT !.stage = "running", !.run = "none", !.work = "queued"]
       ELSE Declined(@)]

\* The transaction commits, or the service refuses.  A handler that still has
\* its caller answers it; an output that breaks its schema or its limit is an
\* error although the transaction stands.
Commit(c) ==
  /\ call[c].work = "queued"
  /\ \E a \in {"output", "error"} :
       call' = [call EXCEPT ![c] =
         [(IF @.stage = "running" THEN Over(@, a) ELSE @) EXCEPT !.work = "committed"]]

Fail(c) ==
  /\ call[c].work = "queued"
  /\ call' = [call EXCEPT ![c] =
       [(IF @.stage = "running" THEN Over(@, "error") ELSE @) EXCEPT !.work = "failed"]]

\* The deadline's timer fires, or the client leaves and the request reports it
\* in time.  The timer aborts the handler's signal before it rejects, so that a
\* cancellation may answer for it; the handler goes on either way.
Abandon(c) ==
  /\ call[c].stage = "running"
  /\ call' = [call EXCEPT ![c] = Over(@, "error")]

\* A restart drops the calls of the old process and what they had queued.
Cut(k) ==
  [(IF k.stage \in {"arriving", "running"} THEN Over(k, "none") ELSE k)
    EXCEPT !.work = IF @ = "queued" THEN "failed" ELSE @]

RestartCalls == Restart /\ call' = [c \in Call |-> Cut(call[c])]

CallSteps(c) ==
  \/ \E r \in Run : Invoke(c, r)
  \/ Begin(c) \/ Commit(c) \/ Fail(c) \/ Abandon(c)

NextCalls ==
  \/ Operate /\ UNCHANGED call
  \/ RestartCalls
  \/ \E c \in Call : CallSteps(c) /\ UNCHANGED vars

SpecCalls == InitCalls /\ [][NextCalls]_callVars
-----------------------------------------------------------------------------
(* What must hold *)

Starts(c) == call[c].work = "none" /\ call'[c].work = "queued"

(* Work of a plugin starts only while the mode is on, for the session the    *)
(* owner approved last and whose command line has not reported its end, and  *)
(* with the permission both agreed and in its present manifest.              *)
NoWorkAfterTeardown == [][\A c \in Call : Starts(c) =>
  LET r == call[c].run IN
  /\ enabled /\ cli[r] # "closed"
  /\ Needed \in Requested[session[r].manifest]
  /\ \A s \in Run \ {r} : Lasts(s) =>
       PluginOf[session[s].manifest] # PluginOf[session[r].manifest]]_callVars
=============================================================================
