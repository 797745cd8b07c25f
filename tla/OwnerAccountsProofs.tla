------------------------ MODULE OwnerAccountsProofs ------------------------
(***************************************************************************)
(* The invariants of OwnerAccounts hold for any number of browsers,        *)
(* registrations, email addresses, keys and claims.                        *)
(***************************************************************************)
EXTENDS OwnerAccounts, SequenceTheorems, TLAPS

OwnsOne(a) == \E o \in organizations : o.owner = a

\* What the place a setup request has reached says of the account and the installation.
SetupPlaces ==
  \A s \in Setup :
    /\ pc[s] \in {"unsent", "refused", "failed", "signing_up"} => s \notin accounts
    /\ pc[s] = "signed_up" => s \in accounts /\ installations = {}
    /\ pc[s] = "installed" => s \in installations
    /\ pc[s] = "succeeded" => s \in installations
    /\ pc[s] \in SetupSteps => ~initialized

\* The cached flag: an installation in the database that the server does not know of
\* belongs to the request that is about to say so.
FlagTrue ==
  /\ initialized => installations # {}
  /\ ~initialized => \A t \in installations : pc[t] = "installed"

\* What the place a registration has reached says of its account.
RegistrationPlaces ==
  \A r \in Registration :
    /\ pc[r] \in {"unsent", "denied", "conflict", "in_progress", "failed", "reserved",
                  "signing_up", "abandoning"} => r \notin accounts
    /\ pc[r] = "provisioned" => r \in accounts
    /\ pc[r] \in {"committed", "succeeded", "no_session"} /\ r \in accounts => OwnsOne(r)
    /\ pc[r] \in {"unsent", "refused", "installed", "signed_up"} \/ pc[r] \in Holding =>
         completion[r] = None
    /\ pc[r] \in {"committed", "succeeded"} => completion[r] # None
    /\ pc[r] \notin {"refused", "signed_up", "installed"}

\* A completion, kept by a request or by a row, names an organization that was registered
\* for the same input.
Registered(c, input) ==
  /\ Input(c) = input
  /\ \E o \in organizations : o.by = c /\ o.owner = c /\ o.slug = SlugOf[c]

CompletionsTrue ==
  /\ \A r \in Registration : completion[r] # None => Registered(completion[r], Input(r))
  /\ \A k \in Key : commands[k].state = "completed" =>
       commands[k].result # None /\ Registered(commands[k].result, commands[k].input)

IInv ==
  /\ TypeOK
  /\ SetupExclusive
  /\ SetupPlaces
  /\ FlagTrue
  /\ RegistrationPlaces
  /\ CompletionsTrue
  /\ OneInstallation
  /\ OwnersExist
  /\ OrphansExplained
  /\ PendingExplained

-----------------------------------------------------------------------------
LEMMA SetupStatusKeeps ==
  ASSUME IInv, NEW s \in Setup, SetupStatus(s)
  PROVE  IInv'
<1> USE RequestsAssumption, ClaimsAssumption DEF IInv, TypeOK, Go, database, coordinator, Request, SetupStatus, IssueSetupClaim
<1>1. TypeOK'
  BY DEF TypeOK, InFlight, Ends, Refusals, RegistrationSteps, Holding, SetupSteps, Request
<1>2. SetupExclusive'
  BY DEF SetupExclusive, SetupSteps
<1>3. SetupPlaces'
  BY DEF SetupPlaces, SetupSteps
<1>4. FlagTrue'
  BY DEF FlagTrue
<1>5. RegistrationPlaces'
  BY DEF RegistrationPlaces, Holding, OwnsOne
<1>6. CompletionsTrue'
  BY DEF CompletionsTrue, Registered, Input
<1>7. OneInstallation'
  BY DEF OneInstallation
<1>8. OwnersExist'
  BY DEF OwnersExist
<1>9. OrphansExplained'
  BY DEF OrphansExplained, InFlight, RegistrationSteps, Holding, SetupSteps
<1>10. PendingExplained'
  BY DEF PendingExplained, Holding, Input
<1> QED BY <1>1, <1>2, <1>3, <1>4, <1>5, <1>6, <1>7, <1>8, <1>9, <1>10

LEMMA SetupClaimKeeps ==
  ASSUME IInv, NEW s \in Setup, SetupClaim(s)
  PROVE  IInv'
<1> USE RequestsAssumption, ClaimsAssumption DEF IInv, TypeOK, Go, database, coordinator, Request, SetupClaim, IssueSetupClaim
<1>1. TypeOK'
  <2>1. claims' \in Seq(Setup) /\ Len(claims') <= ClaimLimit
    OBVIOUS
  <2> HIDE DEF IssueSetupClaim
  <2> QED BY <2>1
<1>2. SetupExclusive'
  BY DEF SetupExclusive, SetupSteps
<1>3. SetupPlaces'
  BY DEF SetupPlaces, SetupSteps
<1>4. FlagTrue'
  BY DEF FlagTrue
<1>5. RegistrationPlaces'
  BY DEF RegistrationPlaces, Holding, OwnsOne
<1>6. CompletionsTrue'
  BY DEF CompletionsTrue, Registered, Input
<1>7. OneInstallation'
  BY DEF OneInstallation
<1>8. OwnersExist'
  BY DEF OwnersExist
<1>9. OrphansExplained'
  BY DEF OrphansExplained, InFlight, RegistrationSteps, Holding, SetupSteps
<1>10. PendingExplained'
  BY DEF PendingExplained, Holding, Input
<1> QED BY <1>1, <1>2, <1>3, <1>4, <1>5, <1>6, <1>7, <1>8, <1>9, <1>10

LEMMA SetupOwnerKeeps ==
  ASSUME IInv, NEW s \in Setup, SetupOwner(s)
  PROVE  IInv'
<1> USE RequestsAssumption, ClaimsAssumption DEF IInv, TypeOK, Go, database, coordinator, Request, SetupOwner, Admitted, HasValidClaim
<1>1. TypeOK'
  BY DEF TypeOK, InFlight, Ends, Refusals, RegistrationSteps, Holding, SetupSteps, Request
<1>2. SetupExclusive'
  BY DEF SetupExclusive, SetupSteps
<1>3. SetupPlaces'
  BY DEF SetupPlaces, SetupSteps
<1>4. FlagTrue'
  BY DEF FlagTrue
<1>5. RegistrationPlaces'
  BY DEF RegistrationPlaces, Holding, OwnsOne
<1>6. CompletionsTrue'
  BY DEF CompletionsTrue, Registered, Input
<1>7. OneInstallation'
  BY DEF OneInstallation
<1>8. OwnersExist'
  BY DEF OwnersExist
<1>9. OrphansExplained'
  BY DEF OrphansExplained, InFlight, RegistrationSteps, Holding, SetupSteps
<1>10. PendingExplained'
  BY DEF PendingExplained, Holding, Input
<1> QED BY <1>1, <1>2, <1>3, <1>4, <1>5, <1>6, <1>7, <1>8, <1>9, <1>10

LEMMA SetupSignUpKeeps ==
  ASSUME IInv, NEW s \in Setup, SetupSignUp(s)
  PROVE  IInv'
<1> USE RequestsAssumption, ClaimsAssumption DEF IInv, TypeOK, Go, database, coordinator, Request, SetupSignUp, SetupOver, EmailTaken
<1>1. TypeOK'
  BY DEF TypeOK, InFlight, Ends, Refusals, RegistrationSteps, Holding, SetupSteps, Request
<1>2. SetupExclusive'
  BY DEF SetupExclusive, SetupSteps
<1>3. SetupPlaces'
  BY DEF SetupPlaces, SetupExclusive, FlagTrue, SetupSteps
<1>4. FlagTrue'
  BY DEF FlagTrue
<1>5. RegistrationPlaces'
  BY DEF RegistrationPlaces, Holding, OwnsOne
<1>6. CompletionsTrue'
  BY DEF CompletionsTrue, Registered, Input
<1>7. OneInstallation'
  BY DEF OneInstallation
<1>8. OwnersExist'
  BY DEF OwnersExist
<1>9. OrphansExplained'
  <2> SUFFICES ASSUME NEW b \in accounts'
               PROVE  \/ b \in installations'
                      \/ OwnsOne(b)'
                      \/ pc'[b] \in InFlight \cup {"lost", "half_failed", "orphaned"}
    BY DEF OrphansExplained, OwnsOne
  <2>1. CASE b = s BY <2>1 DEF SetupPlaces, InFlight, SetupSteps
  <2>2. CASE b # s BY <2>2 DEF OrphansExplained, OwnsOne, InFlight
  <2> QED BY <2>1, <2>2
<1>10. PendingExplained'
  BY DEF PendingExplained, Holding, Input
<1> QED BY <1>1, <1>2, <1>3, <1>4, <1>5, <1>6, <1>7, <1>8, <1>9, <1>10

LEMMA SetupInstallKeeps ==
  ASSUME IInv, NEW s \in Setup, SetupInstall(s)
  PROVE  IInv'
<1> USE RequestsAssumption, ClaimsAssumption DEF IInv, TypeOK, Go, database, coordinator, Request, SetupInstall, SetupOver
<1>1. TypeOK'
  BY DEF TypeOK, InFlight, Ends, Refusals, RegistrationSteps, Holding, SetupSteps, Request
<1>2. SetupExclusive'
  BY DEF SetupExclusive, SetupSteps
<1>3. SetupPlaces'
  BY DEF SetupPlaces, SetupExclusive, FlagTrue, SetupSteps
<1>4. FlagTrue'
  BY DEF SetupPlaces, SetupExclusive, FlagTrue, SetupSteps
<1>5. RegistrationPlaces'
  BY DEF RegistrationPlaces, Holding, OwnsOne
<1>6. CompletionsTrue'
  BY DEF CompletionsTrue, Registered, Input
<1>7. OneInstallation'
  BY DEF OneInstallation, SetupPlaces, SetupExclusive, FlagTrue, SetupSteps
<1>8. OwnersExist'
  BY DEF OwnersExist, SetupPlaces, SetupExclusive, FlagTrue, SetupSteps
<1>9. OrphansExplained'
  BY DEF OrphansExplained, InFlight, RegistrationSteps, Holding, SetupSteps
<1>10. PendingExplained'
  BY DEF PendingExplained, Holding, Input
<1> QED BY <1>1, <1>2, <1>3, <1>4, <1>5, <1>6, <1>7, <1>8, <1>9, <1>10

LEMMA SetupAnswerKeeps ==
  ASSUME IInv, NEW s \in Setup, SetupAnswer(s)
  PROVE  IInv'
<1> USE RequestsAssumption, ClaimsAssumption DEF IInv, TypeOK, Go, database, coordinator, Request, SetupAnswer, SetupOver
<1>1. TypeOK'
  <2>1. claims' \in Seq(Setup) /\ Len(claims') <= ClaimLimit
    OBVIOUS
  <2>2. pc' \in [Request -> {"unsent"} \cup InFlight \cup Ends]
    BY DEF InFlight, Ends, Refusals, RegistrationSteps, Holding, SetupSteps
  <2> QED BY <2>1, <2>2
<1>2. SetupExclusive'
  BY DEF SetupExclusive, SetupSteps
<1>3. SetupPlaces'
  BY DEF SetupPlaces, SetupExclusive, FlagTrue, SetupSteps
<1>4. FlagTrue'
  BY DEF SetupPlaces, SetupExclusive, FlagTrue, SetupSteps
<1>5. RegistrationPlaces'
  BY DEF RegistrationPlaces, Holding, OwnsOne
<1>6. CompletionsTrue'
  BY DEF CompletionsTrue, Registered, Input
<1>7. OneInstallation'
  BY DEF OneInstallation
<1>8. OwnersExist'
  BY DEF OwnersExist
<1>9. OrphansExplained'
  <2> SUFFICES ASSUME NEW b \in accounts'
               PROVE  \/ b \in installations'
                      \/ OwnsOne(b)'
                      \/ pc'[b] \in InFlight \cup {"lost", "half_failed", "orphaned"}
    BY DEF OrphansExplained, OwnsOne
  <2>1. CASE b = s BY <2>1 DEF SetupPlaces
  <2>2. CASE b # s BY <2>2 DEF OrphansExplained, OwnsOne, InFlight
  <2> QED BY <2>1, <2>2
<1>10. PendingExplained'
  BY DEF PendingExplained, Holding, Input
<1> QED BY <1>1, <1>2, <1>3, <1>4, <1>5, <1>6, <1>7, <1>8, <1>9, <1>10

LEMMA ReserveKeeps ==
  ASSUME IInv, NEW r \in Registration, Reserve(r)
  PROVE  IInv'
<1> USE RequestsAssumption, ClaimsAssumption DEF IInv, TypeOK, Go, database, coordinator, Request, Reserve, Reservation, Unexpired, NoRow, Row
<1> DEFINE row == [state |-> "pending", input |-> Input(r), result |-> None, stale |-> FALSE]
<1>a. KeyOf[r] \in Key /\ Input(r) \in Email \X Slug
  BY DEF Input
<1>b. Unexpired \in [Key -> Row] /\ \A k \in Key : Unexpired[k] \in {commands[k], NoRow}
  BY DEF Unexpired, TypeOK, Row, NoRow
<1>c. Reservation(r) = "reserved" =>
        commands' = [Unexpired EXCEPT ![KeyOf[r]] = row]
  BY DEF Reserve
<1>d. Reservation(r) # "reserved" => commands' \in {commands, Unexpired}
  BY DEF Reserve
<1>e. commands' \in [Key -> Row]
  BY <1>a, <1>b, <1>c, <1>d DEF TypeOK, Row
<1>f. \A k \in Key : \/ commands'[k] \in {commands[k], NoRow}
                     \/ pc'[r] = "reserved" /\ k = KeyOf[r] /\ commands'[k] = row
  BY <1>a, <1>b, <1>c, <1>d DEF Reserve, TypeOK, Go
<1>g. pc[r] = "unsent" /\ pc' = [pc EXCEPT ![r] = Reservation(r)]
  BY DEF Reserve, Go
<1>h. Reservation(r) \in {"denied", "reserved", "conflict", "in_progress", "committed"}
  BY DEF Reservation
<1>i. /\ completion' \in [Registration -> Registration \cup {None}]
      /\ \A q \in Registration : q # r \/ Reservation(r) # "committed" =>
           completion'[q] = completion[q]
  BY <1>a, <1>b DEF Reserve, TypeOK, Row
<1>j. Reservation(r) = "committed" =>
        /\ completion'[r] # None
        /\ Registered(completion'[r], Input(r))
  <2> SUFFICES ASSUME Reservation(r) = "committed"
               PROVE  /\ completion'[r] # None
                      /\ Registered(completion'[r], Input(r))
    OBVIOUS
  <2>1. /\ Unexpired[KeyOf[r]].state \notin {"none", "pending"}
        /\ Unexpired[KeyOf[r]].input = Input(r)
    BY DEF Reservation
  <2>2. Unexpired[KeyOf[r]] = commands[KeyOf[r]] /\ commands[KeyOf[r]].state = "completed"
    BY <1>a, <1>b, <2>1 DEF NoRow, Row, TypeOK
  <2>3. completion'[r] = commands[KeyOf[r]].result
    BY <2>2 DEF Reserve, TypeOK
  <2> QED BY <1>a, <2>1, <2>2, <2>3 DEF CompletionsTrue
<1>k. UNCHANGED <<accounts, installations, organizations, coordinator>>
  BY DEF Reserve
<1>l. r \notin accounts /\ completion[r] = None
  BY <1>g DEF RegistrationPlaces
<1> USE <1>a, <1>e, <1>f, <1>g, <1>h, <1>i, <1>j, <1>k, <1>l DEF Row, NoRow
<1> HIDE DEF Reserve, Reservation, Unexpired
<1>1. TypeOK'
  BY DEF InFlight, Ends, Refusals, RegistrationSteps, Holding, SetupSteps
<1>2. SetupExclusive'
  BY DEF SetupExclusive, SetupSteps
<1>3. SetupPlaces'
  BY DEF SetupPlaces, SetupSteps
<1>4. FlagTrue'
  BY DEF FlagTrue
<1>5. RegistrationPlaces'
  <2> SUFFICES ASSUME NEW q \in Registration
               PROVE  RegistrationPlaces!(q)'
    BY DEF RegistrationPlaces
  <2>1. CASE q = r BY <2>1 DEF Holding
  <2>2. CASE q # r BY <2>2 DEF RegistrationPlaces, Holding, OwnsOne
  <2> QED BY <2>1, <2>2
<1>6. CompletionsTrue'
  <2>1. \A q \in Registration : completion'[q] # None =>
          Registered(completion'[q], Input(q))
    BY DEF CompletionsTrue
  <2>2. \A k \in Key : commands'[k].state = "completed" =>
          commands'[k].result # None /\ Registered(commands'[k].result, commands'[k].input)
    BY DEF CompletionsTrue
  <2> QED BY <2>1, <2>2 DEF CompletionsTrue, Registered, Input
<1>7. OneInstallation'
  BY DEF OneInstallation
<1>8. OwnersExist'
  BY DEF OwnersExist
<1>9. OrphansExplained'
  BY DEF OrphansExplained, InFlight, RegistrationSteps, Holding, SetupSteps
<1>10. PendingExplained'
  <2> SUFFICES ASSUME NEW k \in Key, commands'[k].state = "pending"
               PROVE  \E q \in Registration :
                        /\ KeyOf[q] = k /\ Input(q) = commands'[k].input
                        /\ pc'[q] \in Holding \cup {"lost", "half_failed"}
    BY DEF PendingExplained, Input
  <2>1. CASE commands'[k] = commands[k]
    <3>1. PICK q \in Registration :
            /\ KeyOf[q] = k /\ Input(q) = commands[k].input
            /\ pc[q] \in Holding \cup {"lost", "half_failed"}
      BY <2>1 DEF PendingExplained
    <3> QED BY <2>1, <3>1 DEF Holding
  <2>2. CASE commands'[k] # commands[k]
    <3>1. pc'[r] = "reserved" /\ k = KeyOf[r] /\ commands'[k] = row
      BY <2>2
    <3> QED BY <3>1 DEF Holding
  <2> QED BY <2>1, <2>2
<1> QED BY <1>1, <1>2, <1>3, <1>4, <1>5, <1>6, <1>7, <1>8, <1>9, <1>10

LEMMA FindUserByEmailKeeps ==
  ASSUME IInv, NEW r \in Registration, FindUserByEmail(r)
  PROVE  IInv'
<1> USE RequestsAssumption, ClaimsAssumption DEF IInv, TypeOK, Go, database, coordinator, Request, FindUserByEmail, EmailTaken
<1>1. TypeOK'
  BY DEF TypeOK, InFlight, Ends, Refusals, RegistrationSteps, Holding, SetupSteps, Request
<1>2. SetupExclusive'
  BY DEF SetupExclusive, SetupSteps
<1>3. SetupPlaces'
  BY DEF SetupPlaces, SetupSteps
<1>4. FlagTrue'
  BY DEF FlagTrue
<1>5. RegistrationPlaces'
  BY DEF RegistrationPlaces, Holding, OwnsOne
<1>6. CompletionsTrue'
  BY DEF CompletionsTrue, Registered, Input
<1>7. OneInstallation'
  BY DEF OneInstallation
<1>8. OwnersExist'
  BY DEF OwnersExist
<1>9. OrphansExplained'
  BY DEF OrphansExplained, InFlight, RegistrationSteps, Holding, SetupSteps
<1>10. PendingExplained'
  BY DEF PendingExplained, Holding, Input
<1> QED BY <1>1, <1>2, <1>3, <1>4, <1>5, <1>6, <1>7, <1>8, <1>9, <1>10

LEMMA CreateProvisionalOwnerKeeps ==
  ASSUME IInv, NEW r \in Registration, CreateProvisionalOwner(r)
  PROVE  IInv'
<1> USE RequestsAssumption, ClaimsAssumption DEF IInv, TypeOK, Go, database, coordinator, Request, CreateProvisionalOwner, EmailTaken
<1>1. TypeOK'
  BY DEF TypeOK, InFlight, Ends, Refusals, RegistrationSteps, Holding, SetupSteps, Request
<1>2. SetupExclusive'
  BY DEF SetupExclusive, SetupSteps
<1>3. SetupPlaces'
  BY DEF SetupPlaces, SetupSteps
<1>4. FlagTrue'
  BY DEF FlagTrue
<1>5. RegistrationPlaces'
  BY DEF RegistrationPlaces, Holding, OwnsOne
<1>6. CompletionsTrue'
  BY DEF CompletionsTrue, Registered, Input
<1>7. OneInstallation'
  BY DEF OneInstallation
<1>8. OwnersExist'
  BY DEF OwnersExist
<1>9. OrphansExplained'
  BY DEF OrphansExplained, InFlight, RegistrationSteps, Holding, SetupSteps
<1>10. PendingExplained'
  <2>1. /\ \A q \in Registration : pc[q] \in Holding => pc'[q] \in Holding
        /\ \A q \in Registration : pc[q] \in {"lost", "half_failed"} => pc'[q] = pc[q]
    BY DEF Holding
  <2>2. commands' = commands
    OBVIOUS
  <2> HIDE DEF CreateProvisionalOwner
  <2> QED BY <2>1, <2>2 DEF PendingExplained, Input
<1> QED BY <1>1, <1>2, <1>3, <1>4, <1>5, <1>6, <1>7, <1>8, <1>9, <1>10

LEMMA CommitKeeps ==
  ASSUME IInv, NEW r \in Registration, Commit(r)
  PROVE  IInv'
<1> USE RequestsAssumption, ClaimsAssumption DEF IInv, TypeOK, Go, database, coordinator, Request, Commit, Completable, SlugTaken, Organization, Row
<1>a. KeyOf[r] \in Key /\ Input(r) \in Email \X Slug
  BY DEF Input
<1>b. /\ pc[r] = "provisioned" /\ r \in accounts /\ completion[r] = None
      /\ UNCHANGED <<accounts, installations, coordinator>>
  BY DEF Commit, RegistrationPlaces, Holding
<1>c. CASE pc' = [pc EXCEPT ![r] = "undoing"]
           /\ UNCHANGED <<organizations, commands, completion>>
  <2>1. TypeOK' BY <1>b, <1>c DEF TypeOK, InFlight, Ends, Refusals, RegistrationSteps, Holding, SetupSteps
  <2>2. RegistrationPlaces' BY <1>b, <1>c DEF RegistrationPlaces, Holding, OwnsOne
  <2>3. PendingExplained' BY <1>b, <1>c DEF PendingExplained, Holding, Input
  <2>4. CompletionsTrue' BY <1>b, <1>c DEF CompletionsTrue, Registered, Input
  <2>5. OrphansExplained' BY <1>b, <1>c DEF OrphansExplained, InFlight, Ends, Refusals, RegistrationSteps, Holding, SetupSteps
  <2>6. SetupExclusive' /\ SetupPlaces' /\ FlagTrue'
    BY <1>b, <1>c DEF SetupExclusive, SetupPlaces, FlagTrue, SetupSteps
  <2>7. OneInstallation' /\ OwnersExist'
    BY <1>b, <1>c DEF OneInstallation, OwnersExist
  <2> QED BY <2>1, <2>2, <2>3, <2>4, <2>5, <2>6, <2>7
<1>d. CASE ~(pc' = [pc EXCEPT ![r] = "undoing"]
             /\ UNCHANGED <<organizations, commands, completion>>)
  <2> DEFINE new == [slug |-> SlugOf[r], owner |-> r, by |-> r]
             done == [commands[KeyOf[r]] EXCEPT !.state = "completed", !.result = r]
  <2>1. /\ organizations' = organizations \cup {new}
        /\ commands' = [commands EXCEPT ![KeyOf[r]] = done]
        /\ completion' = [completion EXCEPT ![r] = r]
        /\ pc' = [pc EXCEPT ![r] = "committed"]
        /\ Completable(r)
    BY <1>d DEF Commit, Go
  <2>2. /\ commands[KeyOf[r]] \in Row /\ done \in Row
        /\ done.state = "completed" /\ done.result = r /\ done.input = Input(r)
    <3>1. commands[KeyOf[r]] \in Row
      BY <1>a DEF TypeOK
    <3>2. commands[KeyOf[r]].state = "pending" /\ commands[KeyOf[r]].input = Input(r)
      BY <2>1 DEF Completable
    <3> QED BY <3>1, <3>2 DEF Row
  <2>3. new \in Organization /\ new.owner = r /\ new.by = r /\ new.slug = SlugOf[r]
    BY DEF Organization
  <2>4. \A k \in Key : commands'[k] = IF k = KeyOf[r] THEN done ELSE commands[k]
    BY <1>a, <2>1 DEF TypeOK
  <2>5. commands' \in [Key -> Row]
    BY <2>1, <2>2 DEF TypeOK
  <2>6. new \in organizations' /\ organizations \subseteq organizations'
    BY <2>1
  <2> HIDE DEF Commit, new, done
  <2>7. TypeOK'
    BY <1>b, <2>1, <2>3, <2>5 DEF TypeOK, InFlight, Ends, Refusals, RegistrationSteps, Holding, SetupSteps
  <2>8. RegistrationPlaces'
    <3> SUFFICES ASSUME NEW q \in Registration
                 PROVE  RegistrationPlaces!(q)'
      BY DEF RegistrationPlaces
    <3>1. CASE q = r BY <1>b, <2>1, <2>3, <2>6, <3>1 DEF OwnsOne, Holding, TypeOK
    <3>2. CASE q # r BY <1>b, <2>1, <2>6, <3>2 DEF RegistrationPlaces, OwnsOne, Holding, TypeOK
    <3> QED BY <3>1, <3>2
  <2>9. Registered(r, Input(r))'
    BY <2>3, <2>6 DEF Registered, Input
  <2>10. \A c, i : Registered(c, i) => Registered(c, i)'
    BY <2>6 DEF Registered, Input
  <2>11. CompletionsTrue'
    <3>1. \A q, c \in Registration : completion'[q] = c => Registered(c, Input(q))'
      BY <2>1, <2>9, <2>10 DEF CompletionsTrue, TypeOK
    <3>2. \A k \in Key : commands'[k].state = "completed" =>
            /\ commands'[k].result \in Registration
            /\ \A c, i : c = commands'[k].result /\ i = commands'[k].input =>
                 Registered(c, i)'
      BY <2>2, <2>4, <2>9, <2>10 DEF CompletionsTrue, TypeOK, Row
    <3> QED BY <2>7, <3>1, <3>2 DEF CompletionsTrue, Registered, Input, TypeOK
  <2>12. OwnersExist'
    BY <1>b, <2>1, <2>3 DEF OwnersExist
  <2>13. OrphansExplained'
    BY <1>b, <2>1, <2>6 DEF OrphansExplained, TypeOK, InFlight, Ends, Refusals, RegistrationSteps, Holding, SetupSteps
  <2>14. PendingExplained'
    <3> SUFFICES ASSUME NEW k \in Key, commands'[k].state = "pending"
                 PROVE  \E q \in Registration :
                          /\ KeyOf[q] = k /\ Input(q) = commands'[k].input
                          /\ pc'[q] \in Holding \cup {"lost", "half_failed"}
      BY DEF PendingExplained, Input
    <3>1. k # KeyOf[r] /\ commands'[k] = commands[k]
      BY <2>2, <2>4
    <3>2. PICK q \in Registration :
            /\ KeyOf[q] = k /\ Input(q) = commands[k].input
            /\ pc[q] \in Holding \cup {"lost", "half_failed"}
      BY <3>1 DEF PendingExplained
    <3> QED BY <2>1, <3>1, <3>2 DEF TypeOK
  <2>15. SetupExclusive' /\ SetupPlaces' /\ FlagTrue'
    BY <1>b, <2>1 DEF SetupExclusive, SetupPlaces, FlagTrue, SetupSteps, TypeOK
  <2>16. OneInstallation'
    BY <1>b DEF OneInstallation
  <2> QED BY <2>7, <2>8, <2>11, <2>12, <2>13, <2>14, <2>15, <2>16
<1> QED BY <1>c, <1>d

LEMMA DiscardKeeps ==
  ASSUME IInv, NEW r \in Registration, Discard(r)
  PROVE  IInv'
<1> USE RequestsAssumption, ClaimsAssumption DEF IInv, TypeOK, Go, database, coordinator, Request, Discard, Deletable
<1>1. TypeOK'
  BY DEF TypeOK, InFlight, Ends, Refusals, RegistrationSteps, Holding, SetupSteps, Request
<1>2. SetupExclusive'
  BY DEF SetupExclusive, SetupSteps
<1>3. SetupPlaces'
  BY DEF SetupPlaces, SetupSteps
<1>4. FlagTrue'
  BY DEF FlagTrue
<1>5. RegistrationPlaces'
  BY DEF RegistrationPlaces, Holding, OwnsOne
<1>6. CompletionsTrue'
  BY DEF CompletionsTrue, Registered, Input
<1>7. OneInstallation'
  BY DEF OneInstallation
<1>8. OwnersExist'
  BY DEF OwnersExist
<1>9. OrphansExplained'
  BY DEF OrphansExplained, InFlight, RegistrationSteps, Holding, SetupSteps
<1>10. PendingExplained'
  BY DEF PendingExplained, Holding, Input
<1> QED BY <1>1, <1>2, <1>3, <1>4, <1>5, <1>6, <1>7, <1>8, <1>9, <1>10

LEMMA AbandonKeeps ==
  ASSUME IInv, NEW r \in Registration, Abandon(r)
  PROVE  IInv'
<1> USE RequestsAssumption, ClaimsAssumption DEF IInv, TypeOK, Go, database, coordinator, Request, Abandon, Abandoned, Completable, NoRow, Row
<1>a. KeyOf[r] \in Key /\ Input(r) \in Email \X Slug
  BY DEF Input
<1>b. /\ commands' \in [Key -> Row]
      /\ \A k \in Key : commands'[k] \in {commands[k], NoRow}
  <2>1. NoRow \in Row
    BY DEF NoRow, Row
  <2>2. commands' \in {commands, [commands EXCEPT ![KeyOf[r]] = NoRow]}
    BY DEF Abandon, Abandoned
  <2> HIDE DEF Abandon, Abandoned, NoRow, Row
  <2> QED BY <1>a, <2>1, <2>2 DEF TypeOK
<1>c. /\ pc[r] \in {"abandoning", "abandoning_half", "abandoning_made"}
      /\ \/ /\ pc' = [pc EXCEPT ![r] = AbandonedEnd[pc[r]]]
            /\ ~(commands'[KeyOf[r]].state = "pending" /\ commands'[KeyOf[r]].input = Input(r))
         \/ pc' = [pc EXCEPT ![r] = "half_failed"]
  BY <1>a DEF Abandon, AbandonedEnd, Go, Abandoned, Completable, NoRow, TypeOK
<1>d. UNCHANGED <<accounts, installations, organizations, coordinator, completion>>
  BY DEF Abandon
<1>e. /\ AbandonedEnd["abandoning"] = "failed"
      /\ AbandonedEnd["abandoning_half"] = "half_failed"
      /\ AbandonedEnd["abandoning_made"] = "orphaned"
  BY DEF AbandonedEnd
<1> HIDE DEF Abandon
<1> USE <1>a, <1>b, <1>c, <1>d, <1>e DEF NoRow
<1>1. TypeOK'
  BY DEF InFlight, Ends, Refusals, RegistrationSteps, Holding, SetupSteps
<1>2. SetupExclusive'
  <2>1. \A q \in Setup : pc'[q] = pc[q]
    OBVIOUS
  <2> QED BY <2>1 DEF SetupExclusive
<1>3. SetupPlaces'
  BY DEF SetupPlaces, SetupSteps
<1>4. FlagTrue'
  BY DEF FlagTrue
<1>5. RegistrationPlaces'
  BY DEF RegistrationPlaces, Holding, OwnsOne
<1>6. CompletionsTrue'
  BY DEF CompletionsTrue, Registered, Input
<1>7. OneInstallation'
  BY DEF OneInstallation
<1>8. OwnersExist'
  BY DEF OwnersExist
<1>9. OrphansExplained'
  <2> SUFFICES ASSUME NEW b \in accounts'
               PROVE  \/ b \in installations'
                      \/ OwnsOne(b)'
                      \/ pc'[b] \in InFlight \cup {"lost", "half_failed", "orphaned"}
    BY DEF OrphansExplained, OwnsOne
  <2>1. CASE b = r BY <2>1 DEF RegistrationPlaces
  <2>2. CASE b # r BY <2>2 DEF OrphansExplained, OwnsOne, InFlight
  <2> QED BY <2>1, <2>2
<1>10. PendingExplained'
  <2> SUFFICES ASSUME NEW k \in Key, commands'[k].state = "pending"
               PROVE  \E q \in Registration :
                        /\ KeyOf[q] = k /\ Input(q) = commands'[k].input
                        /\ pc'[q] \in Holding \cup {"lost", "half_failed"}
    BY DEF PendingExplained, Input
  <2>1. commands'[k] = commands[k]
    OBVIOUS
  <2>2. PICK q \in Registration :
          /\ KeyOf[q] = k /\ Input(q) = commands[k].input
          /\ pc[q] \in Holding \cup {"lost", "half_failed"}
    BY <2>1 DEF PendingExplained
  <2>3. CASE pc' = [pc EXCEPT ![r] = "half_failed"] BY <2>1, <2>2, <2>3 DEF Holding
  <2>4. CASE pc' # [pc EXCEPT ![r] = "half_failed"]
    <3>1. q # r BY <2>1, <2>2, <2>4
    <3> QED BY <2>1, <2>2, <2>4, <3>1
  <2> QED BY <2>3, <2>4
<1> QED BY <1>1, <1>2, <1>3, <1>4, <1>5, <1>6, <1>7, <1>8, <1>9, <1>10

LEMMA IssueSessionKeeps ==
  ASSUME IInv, NEW r \in Registration, IssueSession(r)
  PROVE  IInv'
<1> USE RequestsAssumption, ClaimsAssumption DEF IInv, TypeOK, Go, database, coordinator, Request, IssueSession
<1>1. TypeOK'
  BY DEF TypeOK, InFlight, Ends, Refusals, RegistrationSteps, Holding, SetupSteps, Request
<1>2. SetupExclusive'
  BY DEF SetupExclusive, SetupSteps
<1>3. SetupPlaces'
  BY DEF SetupPlaces, SetupSteps
<1>4. FlagTrue'
  BY DEF FlagTrue
<1>5. RegistrationPlaces'
  BY DEF RegistrationPlaces, Holding, OwnsOne
<1>6. CompletionsTrue'
  BY DEF CompletionsTrue, Registered, Input
<1>7. OneInstallation'
  BY DEF OneInstallation
<1>8. OwnersExist'
  BY DEF OwnersExist
<1>9. OrphansExplained'
  <2> SUFFICES ASSUME NEW b \in accounts'
               PROVE  \/ b \in installations'
                      \/ OwnsOne(b)'
                      \/ pc'[b] \in InFlight \cup {"lost", "half_failed", "orphaned"}
    BY DEF OrphansExplained, OwnsOne
  <2>1. CASE b = r BY <2>1 DEF RegistrationPlaces, OwnsOne
  <2>2. CASE b # r BY <2>2 DEF OrphansExplained, OwnsOne, InFlight
  <2> QED BY <2>1, <2>2
<1>10. PendingExplained'
  BY DEF PendingExplained, Holding, Input
<1> QED BY <1>1, <1>2, <1>3, <1>4, <1>5, <1>6, <1>7, <1>8, <1>9, <1>10

LEMMA CreateOrganizationKeeps ==
  ASSUME IInv, NEW a \in Request, CreateOrganization(a)
  PROVE  IInv'
<1> USE RequestsAssumption, ClaimsAssumption DEF IInv, TypeOK, Go, database, coordinator, Request, CreateOrganization, SlugTaken, Organization
<1>1. TypeOK'
  BY DEF TypeOK, InFlight, Ends, Refusals, RegistrationSteps, Holding, SetupSteps, Request
<1>2. SetupExclusive'
  BY DEF SetupExclusive, SetupSteps
<1>3. SetupPlaces'
  BY DEF SetupPlaces, SetupSteps
<1>4. FlagTrue'
  BY DEF FlagTrue
<1>5. RegistrationPlaces'
  BY DEF RegistrationPlaces, Holding, OwnsOne
<1>6. CompletionsTrue'
  BY DEF CompletionsTrue, Registered, Input
<1>7. OneInstallation'
  BY DEF OneInstallation
<1>8. OwnersExist'
  BY DEF OwnersExist
<1>9. OrphansExplained'
  BY DEF OrphansExplained, InFlight, RegistrationSteps, Holding, SetupSteps
<1>10. PendingExplained'
  BY DEF PendingExplained, Holding, Input
<1> QED BY <1>1, <1>2, <1>3, <1>4, <1>5, <1>6, <1>7, <1>8, <1>9, <1>10

LEMMA CommandExpiresKeeps ==
  ASSUME IInv, NEW k \in Key, CommandExpires(k)
  PROVE  IInv'
<1> USE RequestsAssumption, ClaimsAssumption DEF IInv, TypeOK, Go, database, coordinator, Request, CommandExpires, Row
<1>1. TypeOK'
  <2>1. commands[k] \in Row
    BY DEF TypeOK
  <2>2. [commands[k] EXCEPT !.stale = TRUE] \in Row
    BY <2>1 DEF Row
  <2>3. commands' \in [Key -> Row]
    BY <2>2 DEF TypeOK
  <2> QED BY <2>3 DEF Organization
<1>2. SetupExclusive'
  BY DEF SetupExclusive, SetupSteps
<1>3. SetupPlaces'
  BY DEF SetupPlaces, SetupSteps
<1>4. FlagTrue'
  BY DEF FlagTrue
<1>5. RegistrationPlaces'
  BY DEF RegistrationPlaces, Holding, OwnsOne
<1>6. CompletionsTrue'
  BY DEF CompletionsTrue, Registered, Input
<1>7. OneInstallation'
  BY DEF OneInstallation
<1>8. OwnersExist'
  BY DEF OwnersExist
<1>9. OrphansExplained'
  BY DEF OrphansExplained, InFlight, RegistrationSteps, Holding, SetupSteps
<1>10. PendingExplained'
  BY DEF PendingExplained, Holding, Input
<1> QED BY <1>1, <1>2, <1>3, <1>4, <1>5, <1>6, <1>7, <1>8, <1>9, <1>10

LEMMA ClaimsExpireKeeps ==
  ASSUME IInv, ClaimsExpire
  PROVE  IInv'
<1> USE RequestsAssumption, ClaimsAssumption DEF IInv, TypeOK, Go, database, coordinator, Request, ClaimsExpire
<1>1. TypeOK'
  BY DEF TypeOK, InFlight, Ends, Refusals, RegistrationSteps, Holding, SetupSteps, Request
<1>2. SetupExclusive'
  BY DEF SetupExclusive, SetupSteps
<1>3. SetupPlaces'
  BY DEF SetupPlaces, SetupSteps
<1>4. FlagTrue'
  BY DEF FlagTrue
<1>5. RegistrationPlaces'
  BY DEF RegistrationPlaces, Holding, OwnsOne
<1>6. CompletionsTrue'
  BY DEF CompletionsTrue, Registered, Input
<1>7. OneInstallation'
  BY DEF OneInstallation
<1>8. OwnersExist'
  BY DEF OwnersExist
<1>9. OrphansExplained'
  BY DEF OrphansExplained, InFlight, RegistrationSteps, Holding, SetupSteps
<1>10. PendingExplained'
  BY DEF PendingExplained, Holding, Input
<1> QED BY <1>1, <1>2, <1>3, <1>4, <1>5, <1>6, <1>7, <1>8, <1>9, <1>10

LEMMA RestartKeeps ==
  ASSUME IInv, Restart
  PROVE  IInv'
<1> USE RequestsAssumption, ClaimsAssumption DEF IInv, TypeOK, Go, database, coordinator, Request, Restart, InitializedAtStart
<1>1. TypeOK'
  <2>1. claims' \in Seq(Setup) /\ Len(claims') <= ClaimLimit
    OBVIOUS
  <2>2. pc' \in [Request -> {"unsent"} \cup InFlight \cup Ends]
    BY DEF Ends
  <2> QED BY <2>1, <2>2
<1>2. SetupExclusive'
  <2>1. \A q \in Request : pc'[q] \notin SetupSteps
    BY DEF SetupSteps, InFlight
  <2> QED BY <2>1 DEF SetupExclusive
<1>3. SetupPlaces'
  <2>1. \A q \in Request : pc'[q] \notin SetupSteps
    BY DEF SetupSteps, InFlight
  <2>2. \A q \in Request : pc'[q] = "lost" \/ pc'[q] = pc[q]
    OBVIOUS
  <2> QED BY <2>1, <2>2 DEF SetupPlaces, SetupSteps
<1>4. FlagTrue'
  BY DEF FlagTrue
<1>5. RegistrationPlaces'
  BY DEF RegistrationPlaces, Holding, OwnsOne
<1>6. CompletionsTrue'
  BY DEF CompletionsTrue, Registered, Input
<1>7. OneInstallation'
  BY DEF OneInstallation
<1>8. OwnersExist'
  BY DEF OwnersExist
<1>9. OrphansExplained'
  BY DEF OrphansExplained, InFlight, RegistrationSteps, Holding, SetupSteps
<1>10. PendingExplained'
  BY DEF PendingExplained, Holding, Input
<1> QED BY <1>1, <1>2, <1>3, <1>4, <1>5, <1>6, <1>7, <1>8, <1>9, <1>10

-----------------------------------------------------------------------------
LEMMA InitHolds == Init => IInv
<1> SUFFICES ASSUME Init PROVE IInv
  OBVIOUS
<1> USE RequestsAssumption, ClaimsAssumption DEF Init, Request
<1>1. NoRow \in Row
  BY DEF NoRow, Row
<1>2. commands \in [Key -> Row] /\ \A k \in Key : commands[k].state = "none"
  BY <1>1 DEF NoRow
<1>3. TypeOK
  <2>1. claims \in Seq(Setup) /\ Len(claims) <= ClaimLimit
    OBVIOUS
  <2>2. pc \in [Request -> {"unsent"} \cup InFlight \cup Ends]
    OBVIOUS
  <2>3. completion \in [Registration -> Registration \cup {None}]
    OBVIOUS
  <2> QED BY <1>2, <2>1, <2>2, <2>3 DEF TypeOK
<1>4. SetupExclusive /\ SetupPlaces /\ FlagTrue
  BY DEF SetupExclusive, SetupPlaces, FlagTrue, SetupSteps
<1>5. RegistrationPlaces
  BY DEF RegistrationPlaces, Holding
<1>6. CompletionsTrue /\ PendingExplained
  BY <1>2 DEF CompletionsTrue, PendingExplained
<1>7. OneInstallation /\ OwnersExist /\ OrphansExplained
  BY DEF OneInstallation, OwnersExist, OrphansExplained
<1> QED BY <1>3, <1>4, <1>5, <1>6, <1>7 DEF IInv

LEMMA StepsKeep == IInv /\ [Next]_vars => IInv'
<1> SUFFICES ASSUME IInv, [Next]_vars PROVE IInv'
  OBVIOUS
<1>1. CASE Next
  <2>1. CASE \E s \in Setup : \/ SetupStatus(s) \/ SetupClaim(s) \/ SetupOwner(s)
                             \/ SetupSignUp(s) \/ SetupInstall(s) \/ SetupAnswer(s)
    BY <2>1, SetupStatusKeeps, SetupClaimKeeps, SetupOwnerKeeps, SetupSignUpKeeps,
       SetupInstallKeeps, SetupAnswerKeeps
  <2>2. CASE \E r \in Registration : \/ Reserve(r) \/ FindUserByEmail(r)
                                    \/ CreateProvisionalOwner(r) \/ Commit(r)
                                    \/ Discard(r) \/ Abandon(r) \/ IssueSession(r)
    BY <2>2, ReserveKeeps, FindUserByEmailKeeps, CreateProvisionalOwnerKeeps, CommitKeeps,
       DiscardKeeps, AbandonKeeps, IssueSessionKeeps
  <2>3. CASE \E a \in Request : CreateOrganization(a)
    BY <2>3, CreateOrganizationKeeps
  <2>4. CASE (\E k \in Key : CommandExpires(k)) \/ ClaimsExpire \/ Restart
    BY <2>4, CommandExpiresKeeps, ClaimsExpireKeeps, RestartKeeps
  <2> QED BY <1>1, <2>1, <2>2, <2>3, <2>4 DEF Next
<1>2. CASE UNCHANGED vars
  BY <1>2 DEF vars, IInv, TypeOK, SetupExclusive, SetupPlaces, FlagTrue, RegistrationPlaces,
     CompletionsTrue, OneInstallation, OwnersExist, OrphansExplained, PendingExplained,
     Registered, OwnsOne, Input
<1> QED BY <1>1, <1>2

\* The inductive invariant of setup and registration: accounts, installations, organizations,
\* registration rows and the places of the requests, through crashes and expiries.
THEOREM Invariance == Spec => []IInv
BY InitHolds, StepsKeep, PTL DEF Spec

\* A claim more never makes more claims than the limit, and every request is at one of the
\* places the code knows.
THEOREM Typed == Spec => []TypeOK
BY Invariance, PTL DEF IInv

\* However many browsers hold a claim, and through restarts, one installation is made.
THEOREM InstallationOnce == Spec => []OneInstallation
BY Invariance, PTL DEF IInv

\* The two flags in memory keep attempts apart and never lock setup.
THEOREM SetupExclusion == Spec => []SetupExclusive
BY Invariance, PTL DEF IInv

\* No rollback takes away the account of somebody who owns something.
THEOREM OwnersStay == Spec => []OwnersExist
BY Invariance, PTL DEF IInv

\* Every account without property has an explanation.
THEOREM Orphans == Spec => []OrphansExplained
BY Invariance, PTL DEF IInv

\* So has every row that keeps its key in progress.
THEOREM PendingRows == Spec => []PendingExplained
BY Invariance, PTL DEF IInv

\* A registration that succeeds reports the organization that was asked for: what it reports
\* is registered for its input.
THEOREM Answers == Spec => []AnswersTrue
<1>1. IInv => AnswersTrue
  <2> SUFFICES ASSUME IInv, NEW r \in Registration, pc[r] = "succeeded"
               PROVE  \E o \in organizations :
                        /\ o.by = completion[r]
                        /\ o.slug = SlugOf[r] /\ EmailOf[o.owner] = EmailOf[r]
    BY DEF AnswersTrue
  <2>1. completion[r] # None /\ Registered(completion[r], Input(r))
    BY DEF IInv, RegistrationPlaces, CompletionsTrue
  <2> QED BY <2>1 DEF Registered, Input
<1> QED BY Invariance, <1>1, PTL
=============================================================================
