--------------------------- MODULE OwnerAccounts ---------------------------
(***************************************************************************)
(* How people become owners: the setup of the first owner of an            *)
(* installation (setup-routes.ts), the public registration of an           *)
(* organization with its owner (RegisterOrganizationOwnerService), and the *)
(* organizations signed-in users create.                                   *)
(*                                                                         *)
(* An account is made by the identity adapter on a connection of its own   *)
(* before the transaction that gives it an installation or an organization,*)
(* and it is taken back by hand when that transaction fails.  The server   *)
(* may die between any two of these steps.  An account, an organization and*)
(* an installation are named by the request that made them.                *)
(***************************************************************************)
EXTENDS Naturals, Sequences, FiniteSets

CONSTANTS
  Setup,          \* requests to set up the first owner, each from its own browser
  Local,          \* the browsers on the server's own machine
  Registration,   \* requests to register an organization
  Email, EmailOf,
  Slug, SlugOf,
  Key, KeyOf,
  Policy,         \* "open" | "authenticated" | "disabled"
  ClaimLimit,     \* 16 in the code
  None

Request == Setup \cup Registration
Input(r) == <<EmailOf[r], SlugOf[r]>>   \* what the request hash is taken over

ASSUME RequestsAssumption ==
  /\ Setup \cap Registration = {} /\ None \notin Request
  /\ Local \subseteq Setup
  /\ EmailOf \in [Request -> Email]
  /\ SlugOf \in [Registration -> Slug]
  /\ KeyOf \in [Registration -> Key]

ASSUME ClaimsAssumption == ClaimLimit \in Nat \ {0}

VARIABLES
  \* in the database
  accounts,       \* the user table
  installations,
  organizations,
  commands,       \* organization_registration_commands
  \* in the memory of the setup coordinator
  initialized, setupInProgress,
  token,          \* whether the printed setup link can still be used
  claims,         \* setupClaimHashes, by browser
  expired,        \* thirty minutes have passed since the server started
  \* of the requests
  pc,
  completion      \* whose registration a request reports

database == <<accounts, installations, organizations, commands>>
coordinator == <<initialized, setupInProgress, token, claims, expired>>
vars == <<accounts, installations, organizations, commands,
          initialized, setupInProgress, token, claims, expired, pc, completion>>

Organization == [slug : Slug, owner : Request, by : Registration \cup {None}]
Row == [state : {"none", "pending", "completed"}, input : (Email \X Slug) \cup {None},
        result : Registration \cup {None}, stale : BOOLEAN]
NoRow == [state |-> "none", input |-> None, result |-> None, stale |-> FALSE]

SetupSteps == {"signing_up", "signed_up", "installed"}
\* The steps a registration takes while its row is pending.
Holding == {"reserved", "signing_up", "provisioned", "undoing", "abandoning",
            "abandoning_half", "abandoning_made"}
RegistrationSteps == Holding \cup {"committed"}
InFlight == SetupSteps \cup RegistrationSteps
Refusals == {"refused", "denied", "conflict", "in_progress", "failed"}
Ends == Refusals \cup {"succeeded", "no_session", "half_failed", "orphaned", "lost"}

TypeOK ==
  /\ accounts \subseteq Request
  /\ installations \subseteq Setup
  /\ organizations \subseteq Organization
  /\ commands \in [Key -> Row]
  /\ initialized \in BOOLEAN /\ setupInProgress \in BOOLEAN
  /\ token \in BOOLEAN /\ expired \in BOOLEAN
  /\ claims \in Seq(Setup) /\ Len(claims) <= ClaimLimit
  /\ pc \in [Request -> {"unsent"} \cup InFlight \cup Ends]
  /\ completion \in [Registration -> Registration \cup {None}]

Init ==
  /\ accounts = {} /\ installations = {} /\ organizations = {}
  /\ commands = [k \in Key |-> NoRow]
  /\ initialized = FALSE /\ setupInProgress = FALSE /\ expired = FALSE
  /\ token = TRUE /\ claims = <<>>
  /\ pc = [r \in Request |-> "unsent"]
  /\ completion = [r \in Registration |-> None]

Go(r, to) == pc' = [pc EXCEPT ![r] = to]
EmailTaken(e) == \E a \in accounts : EmailOf[a] = e
SlugTaken(s) == \E o \in organizations : o.slug = s

-----------------------------------------------------------------------------
(* Setup.                                                                  *)

\* The oldest claim goes when there are too many.
IssueSetupClaim(b) ==
  claims' = IF Len(claims) < ClaimLimit THEN Append(claims, b)
            ELSE Append(Tail(claims), b)

HasValidClaim(b) == ~expired /\ \E i \in 1 .. Len(claims) : claims[i] = b

\* GET /api/setup/status: a browser on the machine is given a claim.
SetupStatus(b) ==
  /\ ~initialized /\ ~expired
  /\ b \in Local /\ ~HasValidClaim(b)
  /\ IssueSetupClaim(b)
  /\ UNCHANGED <<database, initialized, setupInProgress, token, expired, pc, completion>>

\* POST /api/setup/claim, with the printed link.
SetupClaim(b) ==
  /\ token /\ ~initialized /\ ~expired
  /\ IssueSetupClaim(b)
  /\ token' = FALSE
  /\ UNCHANGED <<database, initialized, setupInProgress, expired, pc, completion>>

\* Only read until setup is complete.
ClaimsExpire ==
  /\ ~expired /\ ~initialized
  /\ expired' = TRUE
  /\ UNCHANGED <<database, initialized, setupInProgress, token, claims, pc, completion>>

ProgressIgnored(s) == ~initialized /\ HasValidClaim(s)  \* mutant

Admitted(s) == ~initialized /\ ~setupInProgress /\ HasValidClaim(s)

\* POST /api/setup/owner, up to the awaited sign-up.
SetupOwner(s) ==
  /\ pc[s] = "unsent"
  /\ \/ /\ Admitted(s)
        /\ setupInProgress' = TRUE
        /\ Go(s, "signing_up")
     \/ /\ ~Admitted(s)
        /\ Go(s, "refused")
        /\ UNCHANGED setupInProgress
  /\ UNCHANGED <<database, initialized, token, claims, expired, completion>>

\* The finally block.
SetupOver == setupInProgress' = FALSE

FinallyMissing(s) ==  \* mutant
  /\ pc[s] = "signing_up"
  /\ \/ /\ ~EmailTaken(EmailOf[s])
        /\ accounts' = accounts \cup {s}
        /\ Go(s, "signed_up")
     \/ /\ Go(s, "failed")
        /\ UNCHANGED accounts
  /\ UNCHANGED <<installations, organizations, commands, coordinator, completion>>

\* The sign-up and the session of its answer; the answer to a taken address, and
\* any other failure, is passed on, also one that comes after the account is made.
SetupSignUp(s) ==
  /\ pc[s] = "signing_up"
  /\ \/ /\ ~EmailTaken(EmailOf[s])
        /\ accounts' = accounts \cup {s}
        /\ \/ Go(s, "signed_up") /\ UNCHANGED setupInProgress
           \/ Go(s, "half_failed") /\ SetupOver
     \/ /\ Go(s, "failed")
        /\ SetupOver
        /\ UNCHANGED accounts
  /\ UNCHANGED <<installations, organizations, commands, initialized, token, claims,
                 expired, completion>>

\* InitializeOwnerService: one transaction, or none of it.  Nothing undoes the account.
SetupInstall(s) ==
  /\ pc[s] = "signed_up"
  /\ \/ /\ installations' = installations \cup {s}
        /\ Go(s, "installed")
        /\ UNCHANGED setupInProgress
     \/ /\ Go(s, "half_failed")
        /\ SetupOver
        /\ UNCHANGED installations
  /\ UNCHANGED <<accounts, organizations, commands, initialized, token, claims,
                 expired, completion>>

SetupAnswer(s) ==
  /\ pc[s] = "installed"
  /\ initialized' = TRUE
  /\ token' = FALSE
  /\ claims' = <<>>
  /\ SetupOver
  /\ Go(s, "succeeded")
  /\ UNCHANGED <<database, expired, completion>>

-----------------------------------------------------------------------------
(* Registration.                                                           *)

\* DELETE ... WHERE expires_at <= now
Unexpired == [k \in Key |-> IF commands[k].stale THEN NoRow ELSE commands[k]]

InputIgnored(r) ==  \* mutant
  LET row == Unexpired[KeyOf[r]] IN
  IF Policy # "open" THEN "denied"
  ELSE IF row.state = "none" THEN "reserved"
  ELSE IF row.state = "pending" THEN "in_progress"
  ELSE "committed"

\* A completed row leads straight to the session.
Reservation(r) ==
  LET row == Unexpired[KeyOf[r]] IN
  IF Policy # "open" THEN "denied"
  ELSE IF row.state = "none" THEN "reserved"
  ELSE IF row.input # Input(r) THEN "conflict"
  ELSE IF row.state = "pending" THEN "in_progress"
  ELSE "committed"

Reserve(r) ==
  /\ pc[r] = "unsent" /\ initialized
  /\ Go(r, Reservation(r))
  /\ commands' =
       IF Reservation(r) = "denied" THEN commands
       ELSE IF Reservation(r) = "reserved"
       THEN [Unexpired EXCEPT ![KeyOf[r]] =
               [state |-> "pending", input |-> Input(r), result |-> None, stale |-> FALSE]]
       ELSE Unexpired
  /\ completion' = IF Reservation(r) = "committed"
                   THEN [completion EXCEPT ![r] = Unexpired[KeyOf[r]].result]
                   ELSE completion
  /\ UNCHANGED <<accounts, installations, organizations, coordinator>>

\* createProvisionalOwner, up to the awaited sign-up.
FindUserByEmail(r) ==
  /\ pc[r] = "reserved"
  /\ Go(r, IF EmailTaken(EmailOf[r]) THEN "abandoning" ELSE "signing_up")
  /\ UNCHANGED <<database, coordinator, completion>>

\* The sign-up makes the account; to an address taken meanwhile it answers with a
\* made-up identity, which is not the stored one.  When the adapter throws after the
\* account is made, its caller has no id to discard.
CreateProvisionalOwner(r) ==
  /\ pc[r] = "signing_up"
  /\ \/ /\ ~EmailTaken(EmailOf[r])
        /\ accounts' = accounts \cup {r}
        /\ \E to \in {"provisioned", "abandoning_made"} : Go(r, to)
     \/ /\ Go(r, "abandoning")
        /\ UNCHANGED accounts
  /\ UNCHANGED <<installations, organizations, commands, coordinator, completion>>

\* UPDATE ... AND request_hash = ? AND state = 'pending', whoever reserved the row.
Completable(r) ==
  LET row == commands[KeyOf[r]] IN row.state = "pending" /\ row.input = Input(r)

\* The organization, its project and the completed row in one transaction.
Commit(r) ==
  /\ pc[r] = "provisioned"
  /\ \/ /\ ~SlugTaken(SlugOf[r])
        /\ Completable(r)
        /\ organizations' = organizations
             \cup {[slug |-> SlugOf[r], owner |-> r, by |-> r]}
        /\ commands' = [commands EXCEPT ![KeyOf[r]] =
                          [@ EXCEPT !.state = "completed", !.result = r]]
        /\ completion' = [completion EXCEPT ![r] = r]
        /\ Go(r, "committed")
     \/ /\ Go(r, "undoing")
        /\ UNCHANGED <<organizations, commands, completion>>
  /\ UNCHANGED <<accounts, installations, coordinator>>

DeleteCascades(r) == TRUE  \* mutant

\* organizations.created_by_user_id ... ON DELETE restrict: the account may have
\* signed in and created an organization of its own meanwhile.
Deletable(r) == \A o \in organizations : o.owner # r

DiscardSkipped(r) ==  \* mutant
  /\ pc[r] = "undoing"
  /\ Go(r, "abandoning")
  /\ UNCHANGED <<database, coordinator, completion>>

\* discardProvisionalOwner; its failure is kept for the answer.
Discard(r) ==
  /\ pc[r] = "undoing"
  /\ \/ /\ Deletable(r)
        /\ accounts' = accounts \ {r}
        /\ Go(r, "abandoning")
     \/ /\ Go(r, "abandoning_half")
        /\ UNCHANGED accounts
  /\ UNCHANGED <<installations, organizations, commands, coordinator, completion>>

AbandonSkipped(r) == commands  \* mutant

\* DELETE ... AND request_hash = ? AND state = 'pending'
Abandoned(r) == IF Completable(r) THEN [commands EXCEPT ![KeyOf[r]] = NoRow] ELSE commands

\* How a request ends whose row is gone.
AbandonedEnd == [abandoning |-> "failed", abandoning_half |-> "half_failed",
                 abandoning_made |-> "orphaned"]

Abandon(r) ==
  /\ pc[r] \in DOMAIN AbandonedEnd
  /\ \/ /\ commands' = Abandoned(r)
        /\ Go(r, AbandonedEnd[pc[r]])
     \/ /\ Go(r, "half_failed")
        /\ UNCHANGED commands
  /\ UNCHANGED <<accounts, installations, organizations, coordinator, completion>>

\* A sign-in with the request's address, which must be the registered owner's.
IssueSession(r) ==
  /\ pc[r] = "committed"
  /\ \/ /\ \E a \in accounts : EmailOf[a] = EmailOf[r] /\ a = completion[r]
        /\ Go(r, "succeeded")
     \/ Go(r, "no_session")
  /\ UNCHANGED <<database, coordinator, completion>>

-----------------------------------------------------------------------------
(* Everything else.                                                        *)

\* CreateOrganizationService, for whoever is signed in; the slug is a free one.
CreateOrganization(a) ==
  /\ initialized
  /\ a \in accounts
  /\ \E s \in Slug : /\ ~SlugTaken(s)
                     /\ organizations' = organizations
                          \cup {[slug |-> s, owner |-> a, by |-> None]}
  /\ UNCHANGED <<accounts, installations, commands, coordinator, pc, completion>>

\* 24 hours after the reservation, whatever has become of it.
CommandExpires(k) ==
  /\ commands[k].state # "none" /\ ~commands[k].stale
  /\ commands' = [commands EXCEPT ![k] = [@ EXCEPT !.stale = TRUE]]
  /\ UNCHANGED <<accounts, installations, organizations, coordinator, pc, completion>>

\* createSetupCoordinator reads the installation once, when the server starts.
InitializedAtStart == installations # {}

Restart ==
  /\ pc' = [r \in Request |-> IF pc[r] \in InFlight THEN "lost" ELSE pc[r]]
  /\ initialized' = InitializedAtStart
  /\ token' = ~InitializedAtStart
  /\ claims' = <<>>
  /\ setupInProgress' = FALSE
  /\ expired' = FALSE
  /\ UNCHANGED <<database, completion>>

Next ==
  \/ \E s \in Setup : \/ SetupStatus(s) \/ SetupClaim(s) \/ SetupOwner(s)
                       \/ SetupSignUp(s) \/ SetupInstall(s) \/ SetupAnswer(s)
  \/ \E r \in Registration : \/ Reserve(r) \/ FindUserByEmail(r)
                              \/ CreateProvisionalOwner(r) \/ Commit(r)
                              \/ Discard(r) \/ Abandon(r) \/ IssueSession(r)
  \/ \E a \in Request : CreateOrganization(a)
  \/ \E k \in Key : CommandExpires(k)
  \/ ClaimsExpire
  \/ Restart

Spec == Init /\ [][Next]_vars

-----------------------------------------------------------------------------
(* Properties.                                                             *)

\* There is one installation however many browsers hold a claim, restarts included:
\* nothing in the schema says so, only two flags in the memory of the server.
OneInstallation == \A s, t \in installations : s = t

\* Whoever owns an organization or the installation has an account: no rollback takes
\* one away that was put to use while its registration was failing.
OwnersExist ==
  /\ installations \subseteq accounts
  /\ \A o \in organizations : o.owner \in accounts

\* An account that owns nothing belongs to a request that is still being worked on,
\* was cut off by a restart, answered that it could not be rolled back, or met an
\* adapter that threw after it had made the account (identity-adapter.ts:126).
OrphansExplained ==
  \A a \in accounts :
    \/ a \in installations
    \/ \E o \in organizations : o.owner = a
    \/ pc[a] \in InFlight \cup {"lost", "half_failed", "orphaned"}

\* A pending row, which answers every retry with "in progress", belongs to a request
\* that is still being worked on, was cut off, or could not be rolled back.
PendingExplained ==
  \A k \in Key : commands[k].state = "pending" =>
    \E r \in Registration :
      /\ KeyOf[r] = k /\ Input(r) = commands[k].input
      /\ pc[r] \in Holding \cup {"lost", "half_failed"}

\* A registration that answers with success, replayed or not, answers with an
\* organization that exists, has the address asked for, and belongs to the account
\* with the email address asked for.
AnswersTrue ==
  \A r \in Registration : pc[r] = "succeeded" =>
    \E o \in organizations :
      /\ o.by = completion[r]
      /\ o.slug = SlugOf[r] /\ EmailOf[o.owner] = EmailOf[r]

\* The flag that turns other browsers away is set exactly while one request is being
\* worked on: an attempt that is over never locks setup, however it ended, and no two
\* attempts make accounts at the same time.
SetupExclusive ==
  /\ setupInProgress <=> \E s \in Setup : pc[s] \in SetupSteps
  /\ \A s, t \in Setup : pc[s] \in SetupSteps /\ pc[t] \in SetupSteps => s = t
=============================================================================
