--------------------------- MODULE DeveloperMode ---------------------------
(***************************************************************************)
(* Connected Developer Mode: the coordinator of pairings and development    *)
(* sessions in the server's memory (developer-mode.ts, its routes in        *)
(* developer-mode-routes.ts), the command lines that pair with it and       *)
(* register the manifest again when its file changes (connected-dev.ts),    *)
(* and the owner who approves them.                                         *)
(*                                                                         *)
(* One owner and one organization: sessions differ in the run of the        *)
(* command line they belong to, which names its pairing and its session.    *)
(* Time is the moment a record becomes old; a heartbeat changes nothing     *)
(* that is read.                                                            *)
(***************************************************************************)
EXTENDS Naturals, Sequences, FiniteSets, SequencesExt

CONSTANTS
  Run,            \* runs of `launchpp dev --connect`
  Manifest,       \* contents of launchpp.plugin.json
  Scaffold,       \* what the file holds first
  Permission,
  Requested,      \* the permissions of a manifest
  PluginOf,       \* the id of the plugin a manifest describes
  SaveLimit,      \* bound of the edits of the file
  FaultLimit,     \* bound of the switches of the setting and the restarts
  PutLimit        \* bound of the registrations of a run in flight

ASSUME ManifestAssumption ==
  /\ Scaffold \in Manifest
  /\ Requested \in [Manifest -> SUBSET Permission]
  /\ PluginOf \in [Manifest -> STRING]

ASSUME LimitAssumption ==
  SaveLimit \in Nat /\ FaultLimit \in Nat /\ PutLimit \in Nat

VARIABLES
  file,       \* the manifest on the author's disk
  enabled,    \* the setting: persisted, and in the coordinator's memory
  pairing,    \* #pairings
  session,    \* #sessions
  cli,        \* the command lines
  due,        \* whether a run's reload timer is set
  puts,       \* the registrations of a run under way, in the order sent
  astray,     \* why a run's session need not have the manifest of the file
  budget      \* how many edits and faults are left

vars == <<file, enabled, pairing, session, cli, due, puts, astray, budget>>

Pairing == [state : {"none", "pending", "approved", "expired"},
            manifest : Manifest, old : BOOLEAN]
Session == [state : {"none", "active", "awaiting", "ended"},
            manifest : Manifest, granted : SUBSET Permission]
Cli == {"off", "waiting", "connected", "closed", "gone"}

TypeOK ==
  /\ file \in Manifest
  /\ enabled \in BOOLEAN
  /\ pairing \in [Run -> Pairing]
  /\ session \in [Run -> Session]
  /\ cli \in [Run -> Cli]
  /\ due \in [Run -> BOOLEAN]
  /\ puts \in [Run -> Seq(Manifest)]
  /\ astray \in [Run -> SUBSET {"missed", "overtaken", "lost"}]
  /\ budget \in [saves : Nat, faults : Nat]

NoPairing(m) == [state |-> "none", manifest |-> m, old |-> FALSE]
NoSession(m) == [state |-> "none", manifest |-> m, granted |-> {}]

\* A server with no developer; the owner may have enabled the mode before.
Init ==
  /\ file = Scaffold
  /\ enabled \in BOOLEAN
  /\ pairing = [r \in Run |-> NoPairing(file)]
  /\ session = [r \in Run |-> NoSession(file)]
  /\ cli = [r \in Run |-> "off"]
  /\ due = [r \in Run |-> FALSE]
  /\ puts = [r \in Run |-> <<>>]
  /\ astray = [r \in Run |-> {}]
  /\ budget = [saves |-> SaveLimit, faults |-> FaultLimit]

Lasts(r) == session[r].state \in {"active", "awaiting"}
\* What #activeSession lets through.
Live(r) == enabled /\ Lasts(r)
\* What packagesFor and grantFor let through: the setting is not read.
Serving(r) == session[r].state = "active"
Open(r) == pairing[r].state \in {"pending", "approved"}

\* A session revoked or past its thirty minutes serves nothing and never will.
Ended(s) == [s EXCEPT !.state = "ended"]
Expired(p) == [p EXCEPT !.state = "expired", !.old = FALSE]
-----------------------------------------------------------------------------
(* Pairing *)

\* The command line posts the manifest it read and begins to poll.
Pair(r) ==
  /\ cli[r] = "off" /\ enabled
  /\ pairing' = [pairing EXCEPT ![r] = [NoPairing(file) EXCEPT !.state = "pending"]]
  /\ cli' = [cli EXCEPT ![r] = "waiting"]
  /\ UNCHANGED <<file, enabled, session, due, puts, astray, budget>>

\* A bug of approvePairing: a session that awaits a review is not replaced.
ReplacesActive(r, s) ==
  Serving(s) /\ PluginOf[session[s].manifest] = PluginOf[pairing[r].manifest]

\* The sessions an approval of r replaces: the owner's others of the plugin.
Replaces(r, s) ==
  Lasts(s) /\ PluginOf[session[s].manifest] = PluginOf[pairing[r].manifest]

\* The owner approves; nobody asks whether the command line still runs.
Approve(r) ==
  /\ enabled /\ pairing[r].state = "pending" /\ ~pairing[r].old
  /\ pairing' = [pairing EXCEPT ![r].state = "approved"]
  /\ session' = [s \in Run |->
       CASE s = r -> [state |-> "active", manifest |-> pairing[r].manifest,
                      granted |-> Requested[pairing[r].manifest]]
         [] s # r /\ Replaces(r, s) -> Ended(session[s])
         [] OTHER -> session[s]]
  /\ UNCHANGED <<file, enabled, cli, due, puts, astray, budget>>

\* #pairing, met by a review, an approval or a poll: an overdue pairing
\* expires, and with it the session that was handed over.
Expire(r) ==
  /\ enabled /\ Open(r) /\ pairing[r].old
  /\ pairing' = [pairing EXCEPT ![r] = Expired(@)]
  /\ session' = [session EXCEPT ![r] =
                   IF pairing[r].state = "approved" /\ Lasts(r) THEN Ended(@) ELSE @]

Review(r) ==
  /\ Expire(r)
  /\ UNCHANGED <<file, enabled, cli, due, puts, astray, budget>>

PollApproved(r) ==
  /\ cli[r] = "waiting" /\ enabled
  /\ pairing[r].state = "approved" /\ ~pairing[r].old
  /\ cli' = [cli EXCEPT ![r] = "connected"]
  /\ UNCHANGED <<file, enabled, pairing, session, due, puts, astray, budget>>

\* Expired, unknown to a restarted server, or switched off.
PollRefused(r) ==
  /\ cli[r] = "waiting"
  /\ \/ Expire(r)
     \/ /\ ~enabled \/ ~Open(r)
        /\ UNCHANGED <<pairing, session>>
  /\ cli' = [cli EXCEPT ![r] = "gone"]
  /\ UNCHANGED <<file, enabled, due, puts, astray, budget>>

\* The request fails, the local clock passes the deadline, or Ctrl-C: no
\* handler for it is installed before the approval.
GiveUp(r) ==
  /\ cli[r] = "waiting"
  /\ cli' = [cli EXCEPT ![r] = "gone"]
  /\ UNCHANGED <<file, enabled, pairing, session, due, puts, astray, budget>>
-----------------------------------------------------------------------------
(* The manifest *)

\* A connected run sets its reload timer; one that waits does not watch yet.
SaveFile(m) ==
  /\ m # file /\ budget.saves > 0
  /\ file' = m
  /\ due' = [r \in Run |-> due[r] \/ cli[r] = "connected"]
  /\ astray' = [r \in Run |-> IF cli[r] = "waiting" THEN astray[r] \cup {"missed"}
                                                    ELSE astray[r]]
  /\ budget' = [budget EXCEPT !.saves = @ - 1]
  /\ UNCHANGED <<enabled, pairing, session, cli, puts>>

\* A bug of register: the manifest is read once.
PairedManifest(r) == pairing[r].manifest

ReadManifest(r) == file

\* The reload timer: register() is not awaited, so several may be under way.
Register(r) ==
  /\ cli[r] = "connected" /\ due[r] /\ Len(puts[r]) < PutLimit
  /\ due' = [due EXCEPT ![r] = FALSE]
  /\ puts' = [puts EXCEPT ![r] = Append(@, ReadManifest(r))]
  /\ astray' = [astray EXCEPT ![r] = {}]
  /\ UNCHANGED <<file, enabled, pairing, session, cli, budget>>

\* A bug of updateManifest: the session goes on as it was.
StateKept(s, m) == [s EXCEPT !.manifest = m]

Reviewed(s, m) ==
  [s EXCEPT !.manifest = m,
            !.state = IF s.granted = Requested[m] THEN "active" ELSE "awaiting"]

\* updateManifest refuses the manifest of another plugin.
Accepts(r, m) == Live(r) /\ PluginOf[m] = PluginOf[session[r].manifest]

ServePut(r) == \E i \in DOMAIN puts[r] :
  LET m == puts[r][i] IN
  /\ session' = [session EXCEPT ![r] = IF Accepts(r, m) THEN Reviewed(@, m) ELSE @]
  /\ puts' = [puts EXCEPT ![r] = RemoveAt(@, i)]
  /\ astray' = [astray EXCEPT ![r] =
                  IF i = Len(puts[r]) /\ i > 1 THEN @ \cup {"overtaken"} ELSE @]
  /\ UNCHANGED <<file, enabled, pairing, cli, due, budget>>

\* The request fails before it reaches the server: register() reports it and
\* nothing sends the manifest again.
PutLost(r) == \E i \in DOMAIN puts[r] :
  /\ puts' = [puts EXCEPT ![r] = RemoveAt(@, i)]
  /\ astray' = [astray EXCEPT ![r] = @ \cup {"lost"}]
  /\ UNCHANGED <<file, enabled, pairing, session, cli, due, budget>>

\* The owner agrees to the manifest the session has when the request arrives.
ApprovePermissions(r) ==
  /\ Live(r)
  /\ session' = [session EXCEPT ![r].granted = Requested[session[r].manifest],
                                ![r].state = "active"]
  /\ UNCHANGED <<file, enabled, pairing, cli, due, puts, astray, budget>>
-----------------------------------------------------------------------------
(* The ends of a session *)

\* Ctrl-C of a connected run: the watcher and the timer stop, and DELETE is
\* answered.  An answer that it was not there, or revoked, ends the run too.
Close(r) ==
  /\ cli[r] = "connected"
  /\ cli' = [cli EXCEPT ![r] = "closed"]
  /\ due' = [due EXCEPT ![r] = FALSE]
  /\ astray' = [astray EXCEPT ![r] = {}]
  /\ session' = [session EXCEPT ![r] = IF Live(r) THEN Ended(@) ELSE @]
  /\ UNCHANGED <<file, enabled, pairing, puts, budget>>

\* Killed, or DELETE never arrives: the session goes on without its run.
Vanish(r) ==
  /\ cli[r] = "connected"
  /\ cli' = [cli EXCEPT ![r] = "gone"]
  /\ due' = [due EXCEPT ![r] = FALSE]
  /\ astray' = [astray EXCEPT ![r] = {}]
  /\ UNCHANGED <<file, enabled, pairing, session, puts, budget>>

\* The owner's button, which works with the mode switched off too.
RevokeByOwner(r) ==
  /\ Lasts(r)
  /\ session' = [session EXCEPT ![r] = Ended(@)]
  /\ UNCHANGED <<file, enabled, pairing, cli, due, puts, astray, budget>>

SwitchedOff(r) == IF Lasts(r) THEN Ended(session[r]) ELSE session[r]

\* setDeveloperModeEnabled and setEnabled.
SwitchOff ==
  /\ enabled /\ budget.faults > 0
  /\ enabled' = FALSE
  /\ pairing' = [r \in Run |-> IF Open(r) THEN Expired(pairing[r]) ELSE pairing[r]]
  /\ session' = [r \in Run |-> SwitchedOff(r)]
  /\ budget' = [budget EXCEPT !.faults = @ - 1]
  /\ UNCHANGED <<file, cli, due, puts, astray>>

SwitchOn ==
  /\ ~enabled /\ budget.faults > 0
  /\ enabled' = TRUE
  /\ budget' = [budget EXCEPT !.faults = @ - 1]
  /\ UNCHANGED <<file, pairing, session, cli, due, puts, astray>>

\* Five minutes after the pairing, thirty after the approval.
PairingAges(r) ==
  /\ Open(r) /\ ~pairing[r].old
  /\ pairing' = [pairing EXCEPT ![r].old = TRUE]
  /\ UNCHANGED <<file, enabled, session, cli, due, puts, astray, budget>>

SessionAges(r) ==
  /\ Lasts(r) /\ pairing[r].old
  /\ session' = [session EXCEPT ![r] = Ended(@)]
  /\ UNCHANGED <<file, enabled, pairing, cli, due, puts, astray, budget>>

\* Pairings and sessions are in memory only; the setting is read again.
Restart ==
  /\ budget.faults > 0
  /\ pairing' = [r \in Run |-> NoPairing(file)]
  /\ session' = [r \in Run |-> NoSession(file)]
  /\ budget' = [budget EXCEPT !.faults = @ - 1]
  /\ UNCHANGED <<file, enabled, cli, due, puts, astray>>
-----------------------------------------------------------------------------
Operate ==
  \/ \E r \in Run :
       \/ Pair(r) \/ Approve(r) \/ Review(r)
       \/ PollApproved(r) \/ PollRefused(r) \/ GiveUp(r)
       \/ Register(r) \/ ServePut(r) \/ PutLost(r) \/ ApprovePermissions(r)
       \/ Close(r) \/ Vanish(r) \/ RevokeByOwner(r)
       \/ PairingAges(r) \/ SessionAges(r)
  \/ \E m \in Manifest : SaveFile(m)
  \/ SwitchOff \/ SwitchOn

Next == Operate \/ Restart

Spec == Init /\ [][Next]_vars
-----------------------------------------------------------------------------
(* What must hold *)

(* The owner never has two development sessions of one plugin at a time,     *)
(* however approvals, switches, restarts and registrations of other *)
(* manifests interleave (approvePairing, updateManifest).                    *)
OneSession == \A r, s \in Run :
  Lasts(r) /\ Lasts(s)
    /\ PluginOf[session[r].manifest] = PluginOf[session[s].manifest] => r = s

(* A session that serves contributions and calls has exactly the permissions *)
(* its present manifest asks for: a registration that changes them pauses it *)
(* until the owner agrees, in whichever order registrations arrive           *)
(* (updateManifest, approvePermissions).                                     *)
ServesWhatWasGranted == \A r \in Run :
  session[r].state = "active" => session[r].granted = Requested[session[r].manifest]

(* With the mode switched off, or after its command line reported that the   *)
(* session was torn down, a session serves nothing, although packagesFor and *)
(* grantFor never read the setting (setEnabled, revokeWithToken, close).     *)
TornDown == \A r \in Run : Serving(r) => enabled /\ cli[r] # "closed"

(* When a connected run has nothing left to send, its live session has the   *)
(* manifest of the file, unless the file changed while the run waited for    *)
(* its approval (it does not watch yet), two registrations overtook each     *)
(* other, one was lost, or the file describes another plugin (register).     *)
ManifestCurrent == \A r \in Run :
  /\ cli[r] = "connected" /\ ~due[r] /\ puts[r] = <<>> /\ Live(r)
  /\ astray[r] = {} /\ PluginOf[file] = PluginOf[session[r].manifest]
  => session[r].manifest = file
=============================================================================
