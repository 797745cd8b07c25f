------------------------- MODULE PluginCallsProofs -------------------------
(***************************************************************************)
(* What holds of DeveloperMode and PluginCalls for every number of runs,     *)
(* manifests, permissions and calls.  The inductive invariant says why a     *)
(* session that serves is always one the owner agreed to: it lasts only      *)
(* while the mode is on, and a pairing can be approved only once.            *)
(***************************************************************************)
EXTENDS PluginCalls, SequenceTheorems, TLAPS

(* A session lasts only while the mode is on and its command line has not    *)
(* reported its end: whether it serves or waits for a review.                *)
LastsWhileWanted == \A r \in Run : Lasts(r) => enabled /\ cli[r] # "closed"

(* A command line that was handed a session left its pairing approved.       *)
HandedOnce == \A r \in Run :
  cli[r] \in {"connected", "closed"} => pairing[r].state # "pending"

IInv ==
  /\ TypeOK
  /\ OneSession
  /\ ServesWhatWasGranted
  /\ LastsWhileWanted
  /\ HandedOnce

LEMMA InitInv == Init => IInv
  BY ManifestAssumption, LimitAssumption
  DEF Init, IInv, TypeOK, Pairing, Session, Cli, NoPairing, NoSession,
      OneSession, ServesWhatWasGranted, LastsWhileWanted, HandedOnce, Lasts

\* What ending a session and expiring a pairing make of a record.
LEMMA EndedSession == ASSUME NEW s \in Session
  PROVE  /\ Ended(s) \in Session
         /\ Ended(s).state = "ended" /\ Ended(s).manifest = s.manifest
  BY DEF Ended, Session

LEMMA ExpiredPairing == ASSUME NEW p \in Pairing
  PROVE  Expired(p) \in Pairing /\ Expired(p).state = "expired"
  BY DEF Expired, Pairing

LEMMA ReviewedSession == ASSUME NEW s \in Session, NEW m \in Manifest
  PROVE  /\ Reviewed(s, m) \in Session
         /\ Reviewed(s, m).manifest = m
         /\ Reviewed(s, m).state \in {"active", "awaiting"}
         /\ Reviewed(s, m).granted = s.granted
         /\ Reviewed(s, m).state = "active" => s.granted = Requested[m]
  BY DEF Reviewed, Session

LEMMA RemovedPut == ASSUME NEW q \in Seq(Manifest), NEW i \in DOMAIN q
  PROVE  RemoveAt(q, i) \in Seq(Manifest)
  BY SMT DEF RemoveAt

\* What an expiry does: the session of the run ends, or stays as it was.
LEMMA ExpireStep == ASSUME TypeOK, NEW r \in Run, Expire(r)
  PROVE  /\ pairing' = [pairing EXCEPT ![r] = Expired(pairing[r])]
         /\ pairing' \in [Run -> Pairing] /\ pairing'[r].state = "expired"
         /\ session' \in [Run -> Session]
         /\ session' = session \/ session' = [session EXCEPT ![r] = Ended(session[r])]
  BY EndedSession, ExpiredPairing DEF Expire, TypeOK

\* Drawing on the bounds.
LEMMA BudgetStep == ASSUME NEW b \in [saves : Nat, faults : Nat]
  PROVE  /\ b.saves > 0 => [b EXCEPT !.saves = b.saves - 1] \in [saves : Nat, faults : Nat]
         /\ b.faults > 0 => [b EXCEPT !.faults = b.faults - 1] \in [saves : Nat, faults : Nat]
<1>1. b.saves \in Nat /\ b.faults \in Nat OBVIOUS
<1>2. b.saves > 0 => b.saves - 1 \in Nat BY <1>1
<1>3. b.faults > 0 => b.faults - 1 \in Nat BY <1>1
<1> QED BY <1>1, <1>2, <1>3

\* Every step keeps the variables in their types.
LEMMA TypeStep ==
  ASSUME IInv, [Next]_vars
  PROVE  TypeOK'
<1> USE ManifestAssumption DEF IInv
<1>1. ASSUME NEW r \in Run, Pair(r) PROVE TypeOK'
  BY <1>1 DEF Pair, NoPairing, TypeOK, Pairing, Session, Cli
<1>2. ASSUME NEW r \in Run, Approve(r) PROVE TypeOK'
  <2>1. session' \in [Run -> Session]
    <3> DEFINE fresh == [state |-> "active", manifest |-> pairing[r].manifest,
                         granted |-> Requested[pairing[r].manifest]]
    <3>1. fresh \in Session BY ManifestAssumption DEF TypeOK, Pairing, Session
    <3> QED BY <1>2, <3>1, EndedSession DEF Approve, TypeOK
  <2>2. pairing' \in [Run -> Pairing]
    BY <1>2 DEF Approve, TypeOK, Pairing
  <2> QED BY <1>2, <2>1, <2>2 DEF Approve, TypeOK
<1>3. ASSUME NEW r \in Run, Review(r) PROVE TypeOK'
  BY <1>3, ExpireStep DEF Review, TypeOK
<1>4. ASSUME NEW r \in Run, PollApproved(r) PROVE TypeOK'
  BY <1>4 DEF PollApproved, TypeOK, Pairing, Session, Cli
<1>5. ASSUME NEW r \in Run, PollRefused(r) PROVE TypeOK'
  <2>1. session' \in [Run -> Session] /\ pairing' \in [Run -> Pairing]
    BY <1>5, ExpireStep DEF PollRefused, TypeOK
  <2> QED BY <1>5, <2>1 DEF PollRefused, TypeOK, Cli
<1>6. ASSUME NEW r \in Run, GiveUp(r) PROVE TypeOK'
  BY <1>6 DEF GiveUp, TypeOK, Pairing, Session, Cli
<1>7. ASSUME NEW r \in Run, Register(r) PROVE TypeOK'
  BY <1>7 DEF Register, ReadManifest, TypeOK, Pairing, Session, Cli
<1>8. ASSUME NEW r \in Run, ServePut(r) PROVE TypeOK'
  <2> PICK i \in DOMAIN puts[r] : ServePut(r)!(i)
    BY <1>8 DEF ServePut
  <2>1. puts[r] \in Seq(Manifest) /\ puts[r][i] \in Manifest
    BY DEF TypeOK
  <2>2. session' \in [Run -> Session]
    BY <2>1, ReviewedSession DEF TypeOK
  <2>3. puts' \in [Run -> Seq(Manifest)]
    BY <2>1, RemovedPut DEF TypeOK
  <2>4. astray' \in [Run -> SUBSET {"missed", "overtaken", "lost"}]
    BY DEF TypeOK
  <2> QED BY <2>2, <2>3, <2>4 DEF TypeOK
<1>9. ASSUME NEW r \in Run, PutLost(r) PROVE TypeOK'
  <2> PICK i \in DOMAIN puts[r] : PutLost(r)!(i)
    BY <1>9 DEF PutLost
  <2>1. puts[r] \in Seq(Manifest)
    BY DEF TypeOK
  <2>2. puts' \in [Run -> Seq(Manifest)]
    BY <2>1, RemovedPut DEF TypeOK
  <2>3. astray' \in [Run -> SUBSET {"missed", "overtaken", "lost"}]
    BY DEF TypeOK
  <2> QED BY <2>2, <2>3 DEF TypeOK
<1>10. ASSUME NEW r \in Run, ApprovePermissions(r) PROVE TypeOK'
  <2>1. session[r] \in Session BY DEF TypeOK
  <2>2. [session[r] EXCEPT !.granted = Requested[session[r].manifest],
                           !.state = "active"] \in Session
    BY <2>1, ManifestAssumption DEF Session
  <2>3. session' \in [Run -> Session]
    BY <1>10, <2>2 DEF ApprovePermissions, TypeOK
  <2> QED BY <1>10, <2>3 DEF ApprovePermissions, TypeOK
<1>11. ASSUME NEW r \in Run, Close(r) PROVE TypeOK'
  <2>1. session' \in [Run -> Session]
    BY <1>11, EndedSession DEF Close, TypeOK
  <2> QED BY <1>11, <2>1 DEF Close, TypeOK, Cli
<1>12. ASSUME NEW r \in Run, Vanish(r) PROVE TypeOK'
  BY <1>12 DEF Vanish, TypeOK, Pairing, Session, Cli
<1>13. ASSUME NEW r \in Run, RevokeByOwner(r) PROVE TypeOK'
  BY <1>13, EndedSession DEF RevokeByOwner, TypeOK
<1>14. ASSUME NEW r \in Run, PairingAges(r) PROVE TypeOK'
  <2>1. pairing[r] \in Pairing BY DEF TypeOK
  <2>2. [pairing[r] EXCEPT !.old = TRUE] \in Pairing BY <2>1 DEF Pairing
  <2> QED BY <1>14, <2>2 DEF PairingAges, TypeOK
<1>15. ASSUME NEW r \in Run, SessionAges(r) PROVE TypeOK'
  BY <1>15, EndedSession DEF SessionAges, TypeOK
<1>16. ASSUME NEW m \in Manifest, SaveFile(m) PROVE TypeOK'
  <2>1. budget' \in [saves : Nat, faults : Nat]
    BY <1>16, BudgetStep DEF SaveFile, TypeOK
  <2>2. due' \in [Run -> BOOLEAN]
    BY <1>16 DEF SaveFile, TypeOK
  <2>3. astray' \in [Run -> SUBSET {"missed", "overtaken", "lost"}]
    BY <1>16 DEF SaveFile, TypeOK
  <2> QED BY <1>16, <2>1, <2>2, <2>3 DEF SaveFile, TypeOK
<1>17. ASSUME SwitchOff PROVE TypeOK'
  <2>1. session' \in [Run -> Session]
    BY <1>17, EndedSession DEF SwitchOff, SwitchedOff, TypeOK
  <2>2. pairing' \in [Run -> Pairing]
    BY <1>17, ExpiredPairing DEF SwitchOff, TypeOK
  <2>3. budget' \in [saves : Nat, faults : Nat]
    BY <1>17, BudgetStep DEF SwitchOff, TypeOK
  <2> QED BY <1>17, <2>1, <2>2, <2>3 DEF SwitchOff, TypeOK
<1>18. ASSUME SwitchOn PROVE TypeOK'
  BY <1>18 DEF SwitchOn, TypeOK, Pairing, Session, Cli
<1>19. ASSUME Restart PROVE TypeOK'
  <2>1. session' \in [Run -> Session]
    BY <1>19 DEF Restart, NoSession, TypeOK, Session
  <2>2. pairing' \in [Run -> Pairing]
    BY <1>19 DEF Restart, NoPairing, TypeOK, Pairing
  <2>3. budget' \in [saves : Nat, faults : Nat]
    BY <1>19, BudgetStep DEF Restart, TypeOK
  <2> QED BY <1>19, <2>1, <2>2, <2>3 DEF Restart, TypeOK
<1>20. CASE UNCHANGED vars
  BY <1>20 DEF vars, TypeOK
<1> QED BY <1>1, <1>2, <1>3, <1>4, <1>5, <1>6, <1>7, <1>8, <1>9, <1>10, <1>11, <1>12, <1>13, <1>14, <1>15, <1>16, <1>17, <1>18, <1>19, <1>20 DEF Next, Operate

\* An approval ends the other sessions of the plugin; nothing else begins a session or changes its plugin.
LEMMA OneSessionStep ==
  ASSUME IInv, [Next]_vars
  PROVE  OneSession'
<1> USE ManifestAssumption DEF IInv
<1>1. ASSUME NEW r \in Run, Pair(r) PROVE OneSession'
  BY <1>1 DEF Pair, NoPairing, TypeOK, OneSession, Session, Lasts
<1>2. ASSUME NEW r \in Run, Approve(r) PROVE OneSession'
  BY <1>2 DEF Approve, Replaces, Ended, Lasts, TypeOK, OneSession, Session
<1>3. ASSUME NEW r \in Run, Review(r) PROVE OneSession'
  <2>1. \/ session' = session
        \/ session' = [session EXCEPT ![r] = Ended(session[r])]
    BY <1>3, ExpireStep DEF Review
  <2>2. CASE session' = session
    BY <2>2 DEF OneSession, Lasts
  <2>3. CASE session' = [session EXCEPT ![r] = Ended(session[r])]
    BY <2>3, EndedSession DEF TypeOK, OneSession, Lasts
  <2> QED BY <2>1, <2>2, <2>3
<1>4. ASSUME NEW r \in Run, PollApproved(r) PROVE OneSession'
  BY <1>4 DEF PollApproved, TypeOK, OneSession, Session, Lasts
<1>5. ASSUME NEW r \in Run, PollRefused(r) PROVE OneSession'
  <2>1. \/ session' = session
        \/ session' = [session EXCEPT ![r] = Ended(session[r])]
    BY <1>5, ExpireStep DEF PollRefused
  <2>2. CASE session' = session
    BY <2>2 DEF OneSession, Lasts
  <2>3. CASE session' = [session EXCEPT ![r] = Ended(session[r])]
    BY <2>3, EndedSession DEF TypeOK, OneSession, Lasts
  <2> QED BY <2>1, <2>2, <2>3
<1>6. ASSUME NEW r \in Run, GiveUp(r) PROVE OneSession'
  BY <1>6 DEF GiveUp, TypeOK, OneSession, Session, Lasts
<1>7. ASSUME NEW r \in Run, Register(r) PROVE OneSession'
  BY <1>7 DEF Register, ReadManifest, TypeOK, OneSession, Session, Lasts
<1>8. ASSUME NEW r \in Run, ServePut(r) PROVE OneSession'
  BY <1>8 DEF ServePut, Accepts, Live, Lasts, Reviewed, TypeOK, OneSession, Session
<1>9. ASSUME NEW r \in Run, PutLost(r) PROVE OneSession'
  BY <1>9 DEF PutLost, TypeOK, OneSession, Session, Lasts
<1>10. ASSUME NEW r \in Run, ApprovePermissions(r) PROVE OneSession'
  BY <1>10 DEF ApprovePermissions, Live, Lasts, TypeOK, OneSession, Session
<1>11. ASSUME NEW r \in Run, Close(r) PROVE OneSession'
  BY <1>11 DEF Close, Live, Lasts, Ended, TypeOK, OneSession, Session
<1>12. ASSUME NEW r \in Run, Vanish(r) PROVE OneSession'
  BY <1>12 DEF Vanish, TypeOK, OneSession, Session, Lasts
<1>13. ASSUME NEW r \in Run, RevokeByOwner(r) PROVE OneSession'
  BY <1>13 DEF RevokeByOwner, Lasts, Ended, TypeOK, OneSession, Session
<1>14. ASSUME NEW r \in Run, PairingAges(r) PROVE OneSession'
  BY <1>14 DEF PairingAges, Open, TypeOK, OneSession, Session, Lasts
<1>15. ASSUME NEW r \in Run, SessionAges(r) PROVE OneSession'
  BY <1>15 DEF SessionAges, Lasts, Ended, TypeOK, OneSession, Session
<1>16. ASSUME NEW m \in Manifest, SaveFile(m) PROVE OneSession'
  BY <1>16 DEF SaveFile, TypeOK, OneSession, Session, Lasts
<1>17. ASSUME SwitchOff PROVE OneSession'
  <2>1. \A s \in Run : session'[s].state \notin {"active", "awaiting"}
    BY <1>17, EndedSession DEF SwitchOff, SwitchedOff, TypeOK, Session, Lasts
  <2> QED BY <2>1 DEF OneSession, Lasts
<1>18. ASSUME SwitchOn PROVE OneSession'
  BY <1>18 DEF SwitchOn, TypeOK, OneSession, Session, Lasts
<1>19. ASSUME Restart PROVE OneSession'
  BY <1>19 DEF Restart, NoPairing, NoSession, TypeOK, OneSession, Session, Lasts
<1>20. CASE UNCHANGED vars
  BY <1>20 DEF vars, OneSession, Lasts
<1> QED BY <1>1, <1>2, <1>3, <1>4, <1>5, <1>6, <1>7, <1>8, <1>9, <1>10, <1>11, <1>12, <1>13, <1>14, <1>15, <1>16, <1>17, <1>18, <1>19, <1>20 DEF Next, Operate

\* A registration pauses a session unless it asks for what was granted.
LEMMA ServesWhatWasGrantedStep ==
  ASSUME IInv, [Next]_vars
  PROVE  ServesWhatWasGranted'
<1> USE ManifestAssumption DEF IInv
<1>1. ASSUME NEW r \in Run, Pair(r) PROVE ServesWhatWasGranted'
  BY <1>1 DEF Pair, NoPairing, TypeOK, Session, ServesWhatWasGranted
<1>2. ASSUME NEW r \in Run, Approve(r) PROVE ServesWhatWasGranted'
  BY <1>2 DEF Approve, Replaces, Ended, Lasts, TypeOK, Session, ServesWhatWasGranted
<1>3. ASSUME NEW r \in Run, Review(r) PROVE ServesWhatWasGranted'
  <2>1. \/ session' = session
        \/ session' = [session EXCEPT ![r] = Ended(session[r])]
    BY <1>3, ExpireStep DEF Review
  <2>2. CASE session' = session
    BY <2>2 DEF ServesWhatWasGranted
  <2>3. CASE session' = [session EXCEPT ![r] = Ended(session[r])]
    BY <2>3, EndedSession DEF TypeOK, ServesWhatWasGranted
  <2> QED BY <2>1, <2>2, <2>3
<1>4. ASSUME NEW r \in Run, PollApproved(r) PROVE ServesWhatWasGranted'
  BY <1>4 DEF PollApproved, TypeOK, Session, ServesWhatWasGranted
<1>5. ASSUME NEW r \in Run, PollRefused(r) PROVE ServesWhatWasGranted'
  <2>1. \/ session' = session
        \/ session' = [session EXCEPT ![r] = Ended(session[r])]
    BY <1>5, ExpireStep DEF PollRefused
  <2>2. CASE session' = session
    BY <2>2 DEF ServesWhatWasGranted
  <2>3. CASE session' = [session EXCEPT ![r] = Ended(session[r])]
    BY <2>3, EndedSession DEF TypeOK, ServesWhatWasGranted
  <2> QED BY <2>1, <2>2, <2>3
<1>6. ASSUME NEW r \in Run, GiveUp(r) PROVE ServesWhatWasGranted'
  BY <1>6 DEF GiveUp, TypeOK, Session, ServesWhatWasGranted
<1>7. ASSUME NEW r \in Run, Register(r) PROVE ServesWhatWasGranted'
  BY <1>7 DEF Register, ReadManifest, TypeOK, Session, ServesWhatWasGranted
<1>8. ASSUME NEW r \in Run, ServePut(r) PROVE ServesWhatWasGranted'
  BY <1>8 DEF ServePut, Accepts, Live, Lasts, Reviewed, TypeOK, Session, ServesWhatWasGranted
<1>9. ASSUME NEW r \in Run, PutLost(r) PROVE ServesWhatWasGranted'
  BY <1>9 DEF PutLost, TypeOK, Session, ServesWhatWasGranted
<1>10. ASSUME NEW r \in Run, ApprovePermissions(r) PROVE ServesWhatWasGranted'
  BY <1>10 DEF ApprovePermissions, Live, Lasts, TypeOK, Session, ServesWhatWasGranted
<1>11. ASSUME NEW r \in Run, Close(r) PROVE ServesWhatWasGranted'
  BY <1>11 DEF Close, Live, Lasts, Ended, TypeOK, Session, ServesWhatWasGranted
<1>12. ASSUME NEW r \in Run, Vanish(r) PROVE ServesWhatWasGranted'
  BY <1>12 DEF Vanish, TypeOK, Session, ServesWhatWasGranted
<1>13. ASSUME NEW r \in Run, RevokeByOwner(r) PROVE ServesWhatWasGranted'
  BY <1>13 DEF RevokeByOwner, Lasts, Ended, TypeOK, Session, ServesWhatWasGranted
<1>14. ASSUME NEW r \in Run, PairingAges(r) PROVE ServesWhatWasGranted'
  BY <1>14 DEF PairingAges, Open, TypeOK, Session, ServesWhatWasGranted
<1>15. ASSUME NEW r \in Run, SessionAges(r) PROVE ServesWhatWasGranted'
  BY <1>15 DEF SessionAges, Lasts, Ended, TypeOK, Session, ServesWhatWasGranted
<1>16. ASSUME NEW m \in Manifest, SaveFile(m) PROVE ServesWhatWasGranted'
  BY <1>16 DEF SaveFile, TypeOK, Session, ServesWhatWasGranted
<1>17. ASSUME SwitchOff PROVE ServesWhatWasGranted'
  BY <1>17 DEF SwitchOff, Open, Expired, SwitchedOff, Lasts, Ended, TypeOK, Session, ServesWhatWasGranted
<1>18. ASSUME SwitchOn PROVE ServesWhatWasGranted'
  BY <1>18 DEF SwitchOn, TypeOK, Session, ServesWhatWasGranted
<1>19. ASSUME Restart PROVE ServesWhatWasGranted'
  BY <1>19 DEF Restart, NoPairing, NoSession, TypeOK, Session, ServesWhatWasGranted
<1>20. CASE UNCHANGED vars
  BY <1>20 DEF vars, ServesWhatWasGranted
<1> QED BY <1>1, <1>2, <1>3, <1>4, <1>5, <1>6, <1>7, <1>8, <1>9, <1>10, <1>11, <1>12, <1>13, <1>14, <1>15, <1>16, <1>17, <1>18, <1>19, <1>20 DEF Next, Operate

\* A session lasts only while the mode is on and its command line has not reported its end.
LEMMA LastsWhileWantedStep ==
  ASSUME IInv, [Next]_vars
  PROVE  LastsWhileWanted'
<1> USE ManifestAssumption DEF IInv
<1>1. ASSUME NEW r \in Run, Pair(r) PROVE LastsWhileWanted'
  BY <1>1 DEF Pair, NoPairing, TypeOK, Session, LastsWhileWanted, HandedOnce, Lasts
<1>2. ASSUME NEW r \in Run, Approve(r) PROVE LastsWhileWanted'
  BY <1>2 DEF Approve, Replaces, Ended, Lasts, TypeOK, Session, LastsWhileWanted, HandedOnce
<1>3. ASSUME NEW r \in Run, Review(r) PROVE LastsWhileWanted'
  BY <1>3 DEF Review, Expire, Open, Lasts, Ended, Expired, TypeOK, Session, LastsWhileWanted, HandedOnce
<1>4. ASSUME NEW r \in Run, PollApproved(r) PROVE LastsWhileWanted'
  BY <1>4 DEF PollApproved, TypeOK, Session, LastsWhileWanted, HandedOnce, Lasts
<1>5. ASSUME NEW r \in Run, PollRefused(r) PROVE LastsWhileWanted'
  BY <1>5 DEF PollRefused, Expire, Open, Lasts, Ended, Expired, TypeOK, Session, LastsWhileWanted, HandedOnce
<1>6. ASSUME NEW r \in Run, GiveUp(r) PROVE LastsWhileWanted'
  BY <1>6 DEF GiveUp, TypeOK, Session, LastsWhileWanted, HandedOnce, Lasts
<1>7. ASSUME NEW r \in Run, Register(r) PROVE LastsWhileWanted'
  BY <1>7 DEF Register, ReadManifest, TypeOK, Session, LastsWhileWanted, HandedOnce, Lasts
<1>8. ASSUME NEW r \in Run, ServePut(r) PROVE LastsWhileWanted'
  BY <1>8 DEF ServePut, Accepts, Live, Lasts, Reviewed, TypeOK, Session, LastsWhileWanted, HandedOnce
<1>9. ASSUME NEW r \in Run, PutLost(r) PROVE LastsWhileWanted'
  BY <1>9 DEF PutLost, TypeOK, Session, LastsWhileWanted, HandedOnce, Lasts
<1>10. ASSUME NEW r \in Run, ApprovePermissions(r) PROVE LastsWhileWanted'
  BY <1>10 DEF ApprovePermissions, Live, Lasts, TypeOK, Session, LastsWhileWanted, HandedOnce
<1>11. ASSUME NEW r \in Run, Close(r) PROVE LastsWhileWanted'
  BY <1>11 DEF Close, Live, Lasts, Ended, TypeOK, Session, LastsWhileWanted, HandedOnce
<1>12. ASSUME NEW r \in Run, Vanish(r) PROVE LastsWhileWanted'
  BY <1>12 DEF Vanish, TypeOK, Session, LastsWhileWanted, HandedOnce, Lasts
<1>13. ASSUME NEW r \in Run, RevokeByOwner(r) PROVE LastsWhileWanted'
  BY <1>13 DEF RevokeByOwner, Lasts, Ended, TypeOK, Session, LastsWhileWanted, HandedOnce
<1>14. ASSUME NEW r \in Run, PairingAges(r) PROVE LastsWhileWanted'
  BY <1>14 DEF PairingAges, Open, TypeOK, Session, LastsWhileWanted, HandedOnce, Lasts
<1>15. ASSUME NEW r \in Run, SessionAges(r) PROVE LastsWhileWanted'
  BY <1>15 DEF SessionAges, Lasts, Ended, TypeOK, Session, LastsWhileWanted, HandedOnce
<1>16. ASSUME NEW m \in Manifest, SaveFile(m) PROVE LastsWhileWanted'
  BY <1>16 DEF SaveFile, TypeOK, Session, LastsWhileWanted, HandedOnce, Lasts
<1>17. ASSUME SwitchOff PROVE LastsWhileWanted'
  BY <1>17 DEF SwitchOff, Open, Expired, SwitchedOff, Lasts, Ended, TypeOK, Session, LastsWhileWanted, HandedOnce
<1>18. ASSUME SwitchOn PROVE LastsWhileWanted'
  BY <1>18 DEF SwitchOn, TypeOK, Session, LastsWhileWanted, HandedOnce, Lasts
<1>19. ASSUME Restart PROVE LastsWhileWanted'
  BY <1>19 DEF Restart, NoPairing, NoSession, TypeOK, Session, LastsWhileWanted, HandedOnce, Lasts
<1>20. CASE UNCHANGED vars
  BY <1>20 DEF vars, LastsWhileWanted, Lasts
<1> QED BY <1>1, <1>2, <1>3, <1>4, <1>5, <1>6, <1>7, <1>8, <1>9, <1>10, <1>11, <1>12, <1>13, <1>14, <1>15, <1>16, <1>17, <1>18, <1>19, <1>20 DEF Next, Operate

\* A command line that was handed a session has no pairing that may be approved again.
LEMMA HandedOnceStep ==
  ASSUME IInv, [Next]_vars
  PROVE  HandedOnce'
<1> USE ManifestAssumption DEF IInv
<1>1. ASSUME NEW r \in Run, Pair(r) PROVE HandedOnce'
  BY <1>1 DEF Pair, NoPairing, TypeOK, Pairing, HandedOnce
<1>2. ASSUME NEW r \in Run, Approve(r) PROVE HandedOnce'
  BY <1>2 DEF Approve, Replaces, Ended, Lasts, TypeOK, Pairing, HandedOnce
<1>3. ASSUME NEW r \in Run, Review(r) PROVE HandedOnce'
  BY <1>3 DEF Review, Expire, Open, Lasts, Ended, Expired, TypeOK, Pairing, HandedOnce
<1>4. ASSUME NEW r \in Run, PollApproved(r) PROVE HandedOnce'
  BY <1>4 DEF PollApproved, TypeOK, Pairing, HandedOnce
<1>5. ASSUME NEW r \in Run, PollRefused(r) PROVE HandedOnce'
  BY <1>5 DEF PollRefused, Expire, Open, Lasts, Ended, Expired, TypeOK, Pairing, HandedOnce
<1>6. ASSUME NEW r \in Run, GiveUp(r) PROVE HandedOnce'
  BY <1>6 DEF GiveUp, TypeOK, Pairing, HandedOnce
<1>7. ASSUME NEW r \in Run, Register(r) PROVE HandedOnce'
  BY <1>7 DEF Register, ReadManifest, TypeOK, Pairing, HandedOnce
<1>8. ASSUME NEW r \in Run, ServePut(r) PROVE HandedOnce'
  BY <1>8 DEF ServePut, Accepts, Live, Lasts, Reviewed, TypeOK, Pairing, HandedOnce
<1>9. ASSUME NEW r \in Run, PutLost(r) PROVE HandedOnce'
  BY <1>9 DEF PutLost, TypeOK, Pairing, HandedOnce
<1>10. ASSUME NEW r \in Run, ApprovePermissions(r) PROVE HandedOnce'
  BY <1>10 DEF ApprovePermissions, Live, Lasts, TypeOK, Pairing, HandedOnce
<1>11. ASSUME NEW r \in Run, Close(r) PROVE HandedOnce'
  BY <1>11 DEF Close, Live, Lasts, Ended, TypeOK, Pairing, HandedOnce
<1>12. ASSUME NEW r \in Run, Vanish(r) PROVE HandedOnce'
  BY <1>12 DEF Vanish, TypeOK, Pairing, HandedOnce
<1>13. ASSUME NEW r \in Run, RevokeByOwner(r) PROVE HandedOnce'
  BY <1>13 DEF RevokeByOwner, Lasts, Ended, TypeOK, Pairing, HandedOnce
<1>14. ASSUME NEW r \in Run, PairingAges(r) PROVE HandedOnce'
  BY <1>14 DEF PairingAges, Open, TypeOK, Pairing, HandedOnce
<1>15. ASSUME NEW r \in Run, SessionAges(r) PROVE HandedOnce'
  BY <1>15 DEF SessionAges, Lasts, Ended, TypeOK, Pairing, HandedOnce
<1>16. ASSUME NEW m \in Manifest, SaveFile(m) PROVE HandedOnce'
  BY <1>16 DEF SaveFile, TypeOK, Pairing, HandedOnce
<1>17. ASSUME SwitchOff PROVE HandedOnce'
  BY <1>17 DEF SwitchOff, Open, Expired, SwitchedOff, Lasts, Ended, TypeOK, Pairing, HandedOnce
<1>18. ASSUME SwitchOn PROVE HandedOnce'
  BY <1>18 DEF SwitchOn, TypeOK, Pairing, HandedOnce
<1>19. ASSUME Restart PROVE HandedOnce'
  BY <1>19 DEF Restart, NoPairing, NoSession, TypeOK, Pairing, HandedOnce
<1>20. CASE UNCHANGED vars
  BY <1>20 DEF vars, HandedOnce
<1> QED BY <1>1, <1>2, <1>3, <1>4, <1>5, <1>6, <1>7, <1>8, <1>9, <1>10, <1>11, <1>12, <1>13, <1>14, <1>15, <1>16, <1>17, <1>18, <1>19, <1>20 DEF Next, Operate
LEMMA InvStep == IInv /\ [Next]_vars => IInv'
<1> SUFFICES ASSUME IInv, [Next]_vars PROVE IInv' OBVIOUS
<1>1. TypeOK' BY TypeStep
<1>2. OneSession' BY OneSessionStep
<1>3. ServesWhatWasGranted' BY ServesWhatWasGrantedStep
<1>4. LastsWhileWanted' BY LastsWhileWantedStep
<1>5. HandedOnce' BY HandedOnceStep
<1> QED BY <1>1, <1>2, <1>3, <1>4, <1>5 DEF IInv

(* The invariant holds of Developer Mode for every number of runs, manifests *)
(* and permissions (DeveloperModeCoordinator, connectDeveloperMode).         *)
THEOREM Invariance == Spec => []IInv
  BY InitInv, InvStep, PTL DEF Spec

\* A step of the composition is a step of Developer Mode or leaves it alone.
LEMMA CallsImplement == SpecCalls => Spec
<1>1. InitCalls => Init BY DEF InitCalls
<1>2. [NextCalls]_callVars => [Next]_vars
  BY DEF NextCalls, callVars, vars, Next, RestartCalls
<1> QED BY <1>1, <1>2, PTL DEF Spec, SpecCalls

LEMMA CallsInvariance == SpecCalls => []IInv
  BY CallsImplement, Invariance, PTL

LEMMA ServingLasts == IInv => TornDown
  BY DEF IInv, TornDown, LastsWhileWanted, Serving, Lasts

(* The variables of Developer Mode keep their types.                         *)
THEOREM Typed == Spec => []TypeOK
  BY Invariance, PTL DEF IInv

(* The owner never has two sessions of a plugin, whatever is approved,       *)
(* switched, restarted or registered (approvePairing, updateManifest).       *)
THEOREM SessionOnce == SpecCalls => []OneSession
  BY CallsInvariance, PTL DEF IInv

(* A session that serves was granted what its manifest asks for              *)
(* (updateManifest, approvePermissions).                                     *)
THEOREM GrantsMatch == SpecCalls => []ServesWhatWasGranted
  BY CallsInvariance, PTL DEF IInv

(* Nothing is served with the mode off, nor after the command line reported  *)
(* the end of its session (setEnabled, revokeWithToken).                     *)
THEOREM Teardown == SpecCalls => []TornDown
  BY CallsInvariance, ServingLasts, PTL
-----------------------------------------------------------------------------
\* A call names a run from its arrival to its end.
RunsNamed == \A c \in Call : call[c].stage = "arriving" => call[c].run \in Run

\* A call that has no answer yet has no work before its grant, and then has
\* queued it.
CallPlaces == \A c \in Call :
  /\ call[c].stage \in {"unsent", "arriving"} => call[c].work = "none" /\ call[c].answer = "none"
  /\ call[c].stage = "running" => call[c].work = "queued" /\ call[c].answer = "none"

CInv == CallsTyped /\ RunsNamed /\ CallPlaces

LEMMA CallsInit == InitCalls => CInv
  BY DEF InitCalls, CInv, CallsTyped, CallRecord, RunsNamed, CallPlaces

LEMMA CallsStep == CInv /\ [NextCalls]_callVars => CInv'
<1> SUFFICES ASSUME CInv, [NextCalls]_callVars PROVE CInv' OBVIOUS
<1> USE DEF CInv
<1>1. CASE Operate /\ UNCHANGED call
  BY <1>1 DEF CallsTyped, RunsNamed, CallPlaces
<1>2. CASE RestartCalls
  <2>1. call' = [c \in Call |-> Cut(call[c])]
    BY <1>2 DEF RestartCalls
  <2>2. ASSUME NEW k \in CallRecord
        PROVE  Cut(k) \in CallRecord
    BY DEF Cut, Over, CallRecord
  <2>3. CallsTyped'
    BY <2>1, <2>2 DEF CallsTyped
  <2>4. RunsNamed' /\ CallPlaces'
    BY <2>1 DEF CallsTyped, CallRecord, RunsNamed, CallPlaces, Cut, Over
  <2> QED BY <2>3, <2>4
<1>3. ASSUME NEW c \in Call, CallSteps(c)
      PROVE  CInv'
  <2>1. call[c] \in CallRecord
    BY DEF CallsTyped
  <2>2. ASSUME NEW k \in CallRecord, call' = [call EXCEPT ![c] = k],
               k.stage = "arriving" => k.run \in Run,
               k.stage \in {"unsent", "arriving"} => k.work = "none" /\ k.answer = "none",
               k.stage = "running" => k.work = "queued" /\ k.answer = "none"
        PROVE  CInv'
    BY <2>2 DEF CallsTyped, RunsNamed, CallPlaces
  <2>3. ASSUME NEW r \in Run, Invoke(c, r) PROVE CInv'
    <3> DEFINE k == [call[c] EXCEPT !.stage = "arriving", !.run = r]
    <3>1. k \in CallRecord BY <2>1 DEF CallRecord
    <3> QED BY <2>1, <2>2, <2>3, <3>1 DEF Invoke, CallRecord, CallPlaces, CallsTyped
  <2>4. CASE Begin(c)
    <3> DEFINE k == IF Granted(call[c].run)
                    THEN [call[c] EXCEPT !.stage = "running", !.run = "none", !.work = "queued"]
                    ELSE Declined(call[c])
    <3>1. k \in CallRecord BY <2>1 DEF CallRecord, Declined, Over
    <3>2. call' = [call EXCEPT ![c] = k] BY <2>4 DEF Begin
    <3>3. /\ k.stage \in {"running", "over"}
          /\ k.stage = "running" => k.work = "queued" /\ k.answer = "none"
      BY <2>1, <2>4 DEF Begin, CallRecord, CallPlaces, Declined, Over
    <3> QED BY <2>2, <3>1, <3>2, <3>3
  <2>5. CASE Commit(c)
    <3> PICK a \in {"output", "error"} : Commit(c)!2!(a) BY <2>5 DEF Commit
    <3> DEFINE k == [(IF call[c].stage = "running" THEN Over(call[c], a) ELSE call[c])
                       EXCEPT !.work = "committed"]
    <3>1. k \in CallRecord BY <2>1 DEF CallRecord, Over
    <3>2. k.stage \notin {"unsent", "arriving", "running"}
      BY <2>1, <2>5 DEF Commit, CallRecord, CallPlaces, Over
    <3>3. call' = [call EXCEPT ![c] = k] OBVIOUS
    <3> QED BY <2>2, <3>1, <3>2, <3>3
  <2>6. CASE Fail(c)
    <3> DEFINE k == [(IF call[c].stage = "running" THEN Over(call[c], "error") ELSE call[c])
                       EXCEPT !.work = "failed"]
    <3>1. k \in CallRecord BY <2>1 DEF CallRecord, Over
    <3>2. k.stage \notin {"unsent", "arriving", "running"}
      BY <2>1, <2>6 DEF Fail, CallRecord, CallPlaces, Over
    <3>3. call' = [call EXCEPT ![c] = k] BY <2>6 DEF Fail
    <3> QED BY <2>2, <3>1, <3>2, <3>3
  <2>7. CASE Abandon(c)
    <3> DEFINE k == Over(call[c], "error")
    <3>1. k \in CallRecord BY <2>1 DEF CallRecord, Over
    <3>2. k.stage = "over"
      BY <2>1 DEF CallRecord, Over
    <3>3. call' = [call EXCEPT ![c] = k] BY <2>7 DEF Abandon
    <3> QED BY <2>2, <3>1, <3>2, <3>3
  <2> QED BY <1>3, <2>3, <2>4, <2>5, <2>6, <2>7 DEF CallSteps
<1>4. CASE UNCHANGED callVars
  BY <1>4 DEF callVars, CallsTyped, RunsNamed, CallPlaces
<1> QED BY <1>1, <1>2, <1>3, <1>4 DEF NextCalls

\* Only Begin queues the work of a call that has none.
LEMMA StartStep ==
  ASSUME CInv, [NextCalls]_callVars, NEW c \in Call, Starts(c)
  PROVE  /\ UNCHANGED vars
         /\ call[c].stage = "arriving" /\ Granted(call[c].run)
<1>1. CASE Operate /\ UNCHANGED call
  BY <1>1 DEF Starts
<1>2. CASE RestartCalls
  <2>1. ASSUME NEW k \in CallRecord PROVE Cut(k).work # "queued"
    BY DEF Cut, Over, CallRecord
  <2> QED BY <1>2, <2>1 DEF RestartCalls, Starts, CInv, CallsTyped
<1>3. ASSUME NEW d \in Call, CallSteps(d), UNCHANGED vars
      PROVE  /\ UNCHANGED vars
             /\ call[c].stage = "arriving" /\ Granted(call[c].run)
  <2>1. call[c] \in CallRecord /\ call \in [Call -> CallRecord]
    BY DEF CInv, CallsTyped
  <2>2. ASSUME NEW k, call' = [call EXCEPT ![d] = k]
        PROVE  d = c /\ k.work = "queued" /\ call[c].work = "none"
    BY <2>1, <2>2 DEF Starts
  <2>3. CASE Begin(d)
    <3>1. CASE Granted(call[d].run)
      <4>1. call' = [call EXCEPT ![d] = [call[d] EXCEPT !.stage = "running",
                                           !.run = "none", !.work = "queued"]]
        BY <2>3, <3>1 DEF Begin
      <4>2. d = c BY <2>2, <4>1
      <4> QED BY <1>3, <2>3, <3>1, <4>2 DEF Begin
    <3>2. CASE ~Granted(call[d].run)
      <4>1. call' = [call EXCEPT ![d] = Declined(call[d])]
        BY <2>3, <3>2 DEF Begin
      <4>2. d = c /\ Declined(call[c]).work = "queued" /\ call[c].work = "none"
        BY <2>2, <4>1
      <4> QED BY <2>1, <4>2 DEF Declined, Over, CallRecord
    <3> QED BY <3>1, <3>2
  <2>4. ASSUME NEW r \in Run, Invoke(d, r) PROVE FALSE
    <3>1. call' = [call EXCEPT ![d] = [call[d] EXCEPT !.stage = "arriving", !.run = r]]
      BY <2>4 DEF Invoke
    <3>2. /\ [call[d] EXCEPT !.stage = "arriving", !.run = r].work = "queued"
          /\ d = c /\ call[c].work = "none"
      BY <2>2, <3>1
    <3> QED BY <2>1, <3>2 DEF CallRecord
  <2>5. CASE Commit(d) \/ Fail(d)
    BY <2>1, <2>2, <2>5 DEF Commit, Fail
  <2>6. CASE Abandon(d)
    BY <2>1, <2>2, <2>6 DEF Abandon, Over, CallRecord, CInv, CallPlaces
  <2> QED BY <1>3, <2>3, <2>4, <2>5, <2>6 DEF CallSteps
<1>4. CASE UNCHANGED callVars
  BY <1>4 DEF callVars, Starts
<1> QED BY <1>1, <1>2, <1>3, <1>4 DEF NextCalls

LEMMA CallsHold == SpecCalls => [](IInv /\ CInv)
<1>1. SpecCalls => []CInv
  BY CallsInit, CallsStep, PTL DEF SpecCalls
<1> QED BY <1>1, CallsInvariance, PTL

(* The work of a plugin starts only while the mode is on, for the one        *)
(* session of the plugin, with the permission its manifest asks for and the  *)
(* owner granted (grantFor, call, setEnabled, approvePairing).               *)
THEOREM WorkAfterGrant == SpecCalls => NoWorkAfterTeardown
<1>1. ASSUME IInv, CInv, [NextCalls]_callVars, NEW c \in Call, Starts(c)
      PROVE  LET r == call[c].run IN
             /\ enabled /\ cli[r] # "closed"
             /\ Needed \in Requested[session[r].manifest]
             /\ \A s \in Run \ {r} : Lasts(s) =>
                  PluginOf[session[s].manifest] # PluginOf[session[r].manifest]
  <2> DEFINE r == call[c].run
  <2>1. Granted(r) BY <1>1, StartStep
  <2>2. r \in Run BY <1>1, StartStep DEF CInv, RunsNamed
  <2>3. Lasts(r) BY <2>1 DEF Granted, Serving, Lasts
  <2>4. enabled /\ cli[r] # "closed"
    BY <1>1, <2>2, <2>3 DEF IInv, LastsWhileWanted
  <2>5. Needed \in Requested[session[r].manifest]
    BY <1>1, <2>1, <2>2 DEF IInv, ServesWhatWasGranted, Granted, Serving
  <2>6. \A s \in Run \ {r} : Lasts(s) =>
          PluginOf[session[s].manifest] # PluginOf[session[r].manifest]
    BY <1>1, <2>2, <2>3 DEF IInv, OneSession
  <2> QED BY <2>4, <2>5, <2>6
<1>2. IInv /\ CInv /\ [NextCalls]_callVars =>
        [\A c \in Call : Starts(c) =>
           LET r == call[c].run IN
           /\ enabled /\ cli[r] # "closed"
           /\ Needed \in Requested[session[r].manifest]
           /\ \A s \in Run \ {r} : Lasts(s) =>
                PluginOf[session[s].manifest] # PluginOf[session[r].manifest]]_callVars
  BY <1>1
<1> QED BY <1>2, CallsHold, PTL DEF SpecCalls, NoWorkAfterTeardown
-----------------------------------------------------------------------------
(* The manifest of a connected run.                                          *)

\* A command line registers nothing before its session was handed over.
NothingSentBefore(r) ==
  cli[r] \in {"off", "waiting"} => puts[r] = <<>> /\ ~due[r]

\* While it waits, unless it misses an edit, its pairing and then its session
\* have the manifest of the file.
PairedWithFile(r) ==
  cli[r] = "waiting" /\ astray[r] = {} /\ Open(r) =>
    /\ pairing[r].manifest = file
    /\ pairing[r].state = "approved" /\ Lasts(r) => session[r].manifest = file

\* Afterwards the last registration under way carries the file or, with none
\* under way, the session has it.
LastSent(r) ==
  cli[r] = "connected" /\ Lasts(r) /\ astray[r] = {} /\ ~due[r] =>
    IF puts[r] = <<>>
    THEN PluginOf[file] = PluginOf[session[r].manifest] => session[r].manifest = file
    ELSE puts[r][Len(puts[r])] = file

Sent(r) == NothingSentBefore(r) /\ PairedWithFile(r) /\ LastSent(r)

SentInv == \A r \in Run : Sent(r)

LEMMA SentInit == Init => SentInv
  BY DEF Init, SentInv, Sent, NothingSentBefore, PairedWithFile, LastSent, NoPairing,
         NoSession, Lasts

\* A step that at most ends a run, its pairing or its session, or that takes
\* note that it went astray, leaves it in order.
LEMMA Undisturbed ==
  ASSUME NEW s \in Run, Sent(s),
         cli'[s] \in {"closed", "gone"} \/
         /\ cli'[s] = cli[s] /\ file' = file
         /\ due'[s] = due[s] /\ puts'[s] = puts[s]
         /\ astray'[s] = {} => astray[s] = {}
         /\ Open(s)' => /\ Open(s)
                        /\ pairing'[s].manifest = pairing[s].manifest
                        /\ pairing'[s].state = pairing[s].state
         /\ Lasts(s)' => Lasts(s) /\ session'[s].manifest = session[s].manifest
  PROVE  Sent(s)'
<1>1. CASE cli'[s] \in {"closed", "gone"}
  BY <1>1 DEF Sent, NothingSentBefore, PairedWithFile, LastSent
<1>2. CASE cli'[s] \notin {"closed", "gone"}
  <2>1. NothingSentBefore(s)'
    BY <1>2 DEF Sent, NothingSentBefore
  <2>2. PairedWithFile(s)'
    BY <1>2 DEF Sent, PairedWithFile
  <2>3. LastSent(s)'
    BY <1>2 DEF Sent, LastSent
  <2> QED BY <2>1, <2>2, <2>3 DEF Sent
<1> QED BY <1>1, <1>2

\* The steps that only end something.
LEMMA EndsKeepSent ==
  ASSUME IInv, SentInv,
         \/ \E r \in Run : \/ Review(r) \/ PollRefused(r) \/ GiveUp(r)
                          \/ ApprovePermissions(r) \/ Close(r) \/ Vanish(r)
                          \/ RevokeByOwner(r) \/ PairingAges(r) \/ SessionAges(r)
         \/ SwitchOff \/ SwitchOn \/ Restart \/ UNCHANGED vars
  PROVE  SentInv'
<1> SUFFICES ASSUME NEW s \in Run PROVE Sent(s)'
  BY DEF SentInv
<1>0. /\ Sent(s) /\ TypeOK /\ session[s] \in Session /\ pairing[s] \in Pairing
      /\ Ended(session[s]).state = "ended"
      /\ Expired(pairing[s]).state = "expired"
  BY EndedSession, ExpiredPairing DEF SentInv, IInv, TypeOK
<1>1. ASSUME NEW r \in Run, Review(r) PROVE Sent(s)'
  <2>1. /\ pairing'[s] = pairing[s] \/ pairing'[s] = Expired(pairing[s])
        /\ session'[s] = session[s] \/ session'[s] = Ended(session[s])
    BY <1>0, <1>1, ExpireStep DEF Review, TypeOK
  <2> QED BY <1>0, <1>1, <2>1, Undisturbed DEF Review, Open, Lasts
<1>2. ASSUME NEW r \in Run, PollRefused(r) PROVE Sent(s)'
  <2>1. /\ pairing'[s] = pairing[s] \/ pairing'[s] = Expired(pairing[s])
        /\ session'[s] = session[s] \/ session'[s] = Ended(session[s])
    BY <1>0, <1>2, ExpireStep DEF PollRefused, TypeOK
  <2>2. cli'[s] = cli[s] \/ cli'[s] = "gone"
    BY <1>0, <1>2 DEF PollRefused, TypeOK
  <2> QED BY <1>0, <1>2, <2>1, <2>2, Undisturbed DEF PollRefused, Open, Lasts
<1>3. ASSUME NEW r \in Run, GiveUp(r) PROVE Sent(s)'
  <2>1. cli'[s] = cli[s] \/ cli'[s] = "gone"
    BY <1>0, <1>3 DEF GiveUp, TypeOK
  <2> QED BY <1>0, <1>3, <2>1, Undisturbed DEF GiveUp, Open, Lasts
<1>4. ASSUME NEW r \in Run, ApprovePermissions(r) PROVE Sent(s)'
  <2>1. session'[s].manifest = session[s].manifest /\ (Lasts(s)' => Lasts(s))
    BY <1>0, <1>4 DEF ApprovePermissions, Live, Lasts, TypeOK, Session
  <2> QED BY <1>0, <1>4, <2>1, Undisturbed DEF ApprovePermissions, Open
<1>5. ASSUME NEW r \in Run, Close(r) PROVE Sent(s)'
  <2>1. CASE s = r
    BY <1>0, <1>5, <2>1, Undisturbed DEF Close, TypeOK
  <2>2. CASE s # r
    <3>1. /\ cli'[s] = cli[s] /\ due'[s] = due[s] /\ astray'[s] = astray[s]
          /\ session'[s] = session[s]
      BY <1>0, <1>5, <2>2 DEF Close, TypeOK
    <3> QED BY <1>0, <1>5, <3>1, Undisturbed DEF Close, Open, Lasts
  <2> QED BY <2>1, <2>2
<1>6. ASSUME NEW r \in Run, Vanish(r) PROVE Sent(s)'
  <2>1. CASE s = r
    BY <1>0, <1>6, <2>1, Undisturbed DEF Vanish, TypeOK
  <2>2. CASE s # r
    <3>1. cli'[s] = cli[s] /\ due'[s] = due[s] /\ astray'[s] = astray[s]
      BY <1>0, <1>6, <2>2 DEF Vanish, TypeOK
    <3> QED BY <1>0, <1>6, <3>1, Undisturbed DEF Vanish, Open, Lasts
  <2> QED BY <2>1, <2>2
<1>7. ASSUME NEW r \in Run, RevokeByOwner(r) \/ SessionAges(r) PROVE Sent(s)'
  <2>1. session'[s] = session[s] \/ session'[s] = Ended(session[s])
    BY <1>0, <1>7 DEF RevokeByOwner, SessionAges, TypeOK
  <2> QED BY <1>0, <1>7, <2>1, Undisturbed DEF RevokeByOwner, SessionAges, Open, Lasts
<1>8. ASSUME NEW r \in Run, PairingAges(r) PROVE Sent(s)'
  <2>1. pairing'[s].state = pairing[s].state /\ pairing'[s].manifest = pairing[s].manifest
    BY <1>0, <1>8 DEF PairingAges, TypeOK, Pairing
  <2> QED BY <1>0, <1>8, <2>1, Undisturbed DEF PairingAges, Open, Lasts
<1>9. CASE SwitchOff
  <2>1. /\ pairing'[s] = pairing[s] \/ pairing'[s] = Expired(pairing[s])
        /\ session'[s] = session[s] \/ session'[s] = Ended(session[s])
    BY <1>9 DEF SwitchOff, SwitchedOff
  <2> QED BY <1>0, <1>9, <2>1, Undisturbed DEF SwitchOff, Open, Lasts
<1>10. CASE SwitchOn \/ UNCHANGED vars
  BY <1>0, <1>10, Undisturbed DEF SwitchOn, vars, Open, Lasts
<1>11. CASE Restart
  <2>1. pairing'[s].state = "none" /\ session'[s].state = "none"
    BY <1>11 DEF Restart, NoPairing, NoSession
  <2> QED BY <1>0, <1>11, <2>1, Undisturbed DEF Restart, Open, Lasts
<1> QED BY <1>1, <1>2, <1>3, <1>4, <1>5, <1>6, <1>7, <1>8, <1>9, <1>10, <1>11

\* What follows a place in a sequence of registrations, and how long it is.
LEMMA RestLength ==
  ASSUME NEW n \in Nat, NEW i \in 1 .. n, NEW m,
         m = IF i + 1 <= n THEN n - (i + 1) + 1 ELSE 0
  PROVE  m = n - i
OBVIOUS

LEMMA RestOf ==
  ASSUME NEW q \in Seq(Manifest), NEW i \in 1 .. Len(q),
         NEW rest, rest = SubSeq(q, i + 1, Len(q))
  PROVE  /\ rest \in Seq(Manifest) /\ Len(rest) = Len(q) - i
         /\ \A k \in 1 .. Len(q) - i : rest[k] = q[i + k]
<1>1. Len(q) \in Nat /\ i + 1 \in Int /\ \A k \in i + 1 .. Len(q) : q[k] \in Manifest
  OBVIOUS
<1>2. /\ rest \in Seq(Manifest)
      /\ Len(rest) = IF i + 1 <= Len(q) THEN Len(q) - (i + 1) + 1 ELSE 0
      /\ \A k \in 1 .. Len(q) - (i + 1) + 1 : rest[k] = q[(i + 1) + k - 1]
  BY <1>1, SubSeqProperties
<1>3. Len(rest) = Len(q) - i
  BY <1>1, <1>2, RestLength, Zenon
<1>4. ASSUME NEW k \in 1 .. Len(q) - i PROVE rest[k] = q[i + k]
  <2>1. (i + 1) + k - 1 = i + k /\ k \in 1 .. Len(q) - (i + 1) + 1
    BY <1>1
  <2> QED
    BY <1>2, <2>1
<1> QED
  BY <1>2, <1>3, <1>4

\* Removing another than the last registration leaves the last one last.
LEMMA RemovedLast == ASSUME NEW q \in Seq(Manifest), NEW i \in 1 .. Len(q)
  PROVE  /\ Len(RemoveAt(q, i)) = Len(q) - 1
         /\ Len(q) = 1 => RemoveAt(q, i) = <<>>
         /\ i < Len(q) => RemoveAt(q, i) # <<>> /\ RemoveAt(q, i)[Len(q) - 1] = q[Len(q)]
<1> DEFINE before == SubSeq(q, 1, i - 1)
           after == SubSeq(q, i + 1, Len(q))
<1>1. Len(q) \in Nat /\ i \in Nat /\ RemoveAt(q, i) = before \o after
  BY DEF RemoveAt
<1>2. \A k \in 1 .. i - 1 : q[k] \in Manifest
  BY <1>1
<1>4. before \in Seq(Manifest) /\ Len(before) = i - 1
  BY <1>1, <1>2, SubSeqProperties
<1>5. /\ after \in Seq(Manifest) /\ Len(after) = Len(q) - i
      /\ \A k \in 1 .. Len(q) - i : after[k] = q[i + k]
  BY RestOf
<1> HIDE DEF before, after
<1>6. /\ Len(before \o after) = Len(q) - 1
      /\ \A k \in 1 .. Len(q) - 1 :
           (before \o after)[k] = IF k <= i - 1 THEN before[k] ELSE after[k - (i - 1)]
  <2>1. Len(before) + Len(after) = Len(q) - 1
    BY <1>1, <1>4, <1>5
  <2>2. /\ Len(before \o after) = Len(before) + Len(after)
        /\ \A k \in 1 .. Len(before) + Len(after) :
             (before \o after)[k] = IF k <= Len(before) THEN before[k]
                                                       ELSE after[k - Len(before)]
    BY <1>4, <1>5, ConcatProperties
  <2> QED BY <1>4, <2>1, <2>2
<1>7. before \o after \in Seq(Manifest)
  BY <1>4, <1>5, ConcatProperties
<1>8. ASSUME i < Len(q) PROVE (before \o after)[Len(q) - 1] = q[Len(q)]
  <2>1. (before \o after)[Len(q) - 1] = after[Len(q) - i]
    <3>1. /\ Len(q) - 1 \in 1 .. Len(q) - 1 /\ ~(Len(q) - 1 <= i - 1)
          /\ (Len(q) - 1) - (i - 1) = Len(q) - i
      BY <1>1, <1>8
    <3> QED BY <1>6, <3>1
  <2>2. after[Len(q) - i] = q[Len(q)]
    BY <1>1, <1>5, <1>8
  <2> QED BY <2>1, <2>2
<1>9. i < Len(q) => before \o after # <<>>
  BY <1>1, <1>6
<1>10. Len(q) = 1 => before \o after = <<>>
  BY <1>6, <1>7, EmptySeq
<1> QED BY <1>1, <1>6, <1>8, <1>9, <1>10

\* The steps that carry a manifest from the file to the session.
LEMMA SentStep == IInv /\ SentInv /\ [Next]_vars => SentInv'
<1> SUFFICES ASSUME IInv, SentInv, [Next]_vars, NEW s \in Run PROVE Sent(s)'
  BY DEF SentInv
<1>0. Sent(s) /\ TypeOK /\ session[s] \in Session /\ pairing[s] \in Pairing
  BY DEF SentInv, IInv, TypeOK
<1>1. ASSUME NEW r \in Run, Pair(r) PROVE Sent(s)'
  <2>1. CASE s = r
    <3>1. /\ cli[s] = "off" /\ cli'[s] = "waiting" /\ UNCHANGED <<file, puts, due>>
          /\ pairing'[s].state = "pending" /\ pairing'[s].manifest = file
      BY <1>0, <1>1, <2>1 DEF Pair, NoPairing, TypeOK
    <3> QED BY <1>0, <3>1 DEF Sent, NothingSentBefore, PairedWithFile, LastSent
  <2>2. CASE s # r
    <3>1. cli'[s] = cli[s] /\ pairing'[s] = pairing[s]
      BY <1>0, <1>1, <2>2 DEF Pair, TypeOK
    <3> QED BY <1>0, <1>1, <3>1, Undisturbed DEF Pair, Open, Lasts
  <2> QED BY <2>1, <2>2
<1>2. ASSUME NEW r \in Run, Approve(r) PROVE Sent(s)'
  <2>1. CASE s = r
    <3>1. /\ pairing[s].state = "pending" /\ UNCHANGED <<file, cli, puts, due, astray>>
          /\ pairing'[s].manifest = pairing[s].manifest
          /\ session'[s].manifest = pairing[s].manifest
      BY <1>0, <1>2, <2>1 DEF Approve, TypeOK
    <3>2. cli[s] \notin {"connected", "closed"}
      BY <3>1 DEF IInv, HandedOnce
    <3> QED BY <1>0, <3>1, <3>2 DEF Sent, NothingSentBefore, PairedWithFile, LastSent, Open
  <2>2. CASE s # r
    <3>1. /\ pairing'[s] = pairing[s]
          /\ session'[s] = session[s] \/ session'[s] = Ended(session[s])
      BY <1>0, <1>2, <2>2 DEF Approve, TypeOK
    <3>2. Ended(session[s]).state = "ended"
      BY <1>0, EndedSession
    <3> QED BY <1>0, <1>2, <3>1, <3>2, Undisturbed DEF Approve, Open, Lasts
  <2> QED BY <2>1, <2>2
<1>3. ASSUME NEW r \in Run, PollApproved(r) PROVE Sent(s)'
  <2>1. CASE s = r
    <3>1. /\ cli[s] = "waiting" /\ cli'[s] = "connected" /\ pairing[s].state = "approved"
          /\ UNCHANGED <<file, session, puts, due, astray>>
      BY <1>0, <1>3, <2>1 DEF PollApproved, TypeOK
    <3> QED BY <1>0, <3>1
            DEF Sent, NothingSentBefore, PairedWithFile, LastSent, Open, Lasts
  <2>2. CASE s # r
    <3>1. cli'[s] = cli[s]
      BY <1>0, <1>3, <2>2 DEF PollApproved, TypeOK
    <3> QED BY <1>0, <1>3, <3>1, Undisturbed DEF PollApproved, Open, Lasts
  <2> QED BY <2>1, <2>2
<1>4. ASSUME NEW m \in Manifest, SaveFile(m) PROVE Sent(s)'
  <2>1. /\ UNCHANGED <<cli, puts, pairing, session>>
        /\ due'[s] = (due[s] \/ cli[s] = "connected")
        /\ cli[s] = "waiting" => "missed" \in astray'[s]
    BY <1>4 DEF SaveFile
  <2> QED BY <1>0, <2>1 DEF Sent, NothingSentBefore, PairedWithFile, LastSent
<1>5. ASSUME NEW r \in Run, Register(r) PROVE Sent(s)'
  <2>1. CASE s = r
    <3>1. /\ cli[s] = "connected" /\ UNCHANGED <<file, cli>>
          /\ puts'[s] = Append(puts[s], file) /\ puts[s] \in Seq(Manifest)
      BY <1>0, <1>5, <2>1 DEF Register, ReadManifest, TypeOK
    <3>2. puts'[s] # <<>> /\ puts'[s][Len(puts'[s])] = file
      BY <3>1
    <3> QED BY <3>1, <3>2 DEF Sent, NothingSentBefore, PairedWithFile, LastSent
  <2>2. CASE s # r
    <3>1. puts'[s] = puts[s] /\ due'[s] = due[s] /\ astray'[s] = astray[s]
      BY <1>0, <1>5, <2>2 DEF Register, TypeOK
    <3> QED BY <1>0, <1>5, <3>1, Undisturbed DEF Register, Open, Lasts
  <2> QED BY <2>1, <2>2
<1>6. ASSUME NEW r \in Run, ServePut(r) PROVE Sent(s)'
  <2> PICK i \in DOMAIN puts[r] : ServePut(r)!(i)
    BY <1>6 DEF ServePut
  <2>1. CASE s = r
    <3> DEFINE n == Len(puts[s])
               m == puts[s][i]
    <3>1. /\ puts[s] \in Seq(Manifest) /\ n \in Nat /\ i \in 1 .. n /\ m \in Manifest
          /\ puts'[s] = RemoveAt(puts[s], i) /\ UNCHANGED <<file, enabled, cli, pairing, due>>
          /\ session'[s] = IF Accepts(s, m) THEN Reviewed(session[s], m) ELSE session[s]
          /\ astray'[s] = IF i = n /\ i > 1 THEN astray[s] \cup {"overtaken"} ELSE astray[s]
      BY <1>0, <2>1 DEF TypeOK
    <3>2. /\ Lasts(s)' <=> Lasts(s)
          /\ session'[s].manifest = IF Accepts(s, m) THEN m ELSE session[s].manifest
      <4>1. CASE Accepts(s, m)
        <5>1. session'[s] = Reviewed(session[s], m)
          BY <3>1, <4>1
        <5>2. session'[s].manifest = m /\ session'[s].state \in {"active", "awaiting"}
          BY <1>0, <3>1, <5>1, ReviewedSession
        <5>3. Lasts(s)
          BY <4>1 DEF Accepts, Live
        <5> QED BY <4>1, <5>2, <5>3 DEF Lasts
      <4>2. CASE ~Accepts(s, m)
        BY <3>1, <4>2 DEF Lasts
      <4> QED BY <4>1, <4>2
    <3>3. cli[s] \notin {"off", "waiting"}
      BY <1>0, <3>1 DEF Sent, NothingSentBefore
    <3>4. CASE i = n /\ i > 1
      <4>1. "overtaken" \in astray'[s]
        <5> HIDE DEF n, m
        <5> QED BY <3>1, <3>4
      <4> QED BY <3>1, <3>3, <4>1 DEF Sent, NothingSentBefore, PairedWithFile, LastSent
    <3>5. CASE i < n
      <4>1. puts'[s] # <<>> /\ puts'[s][Len(puts'[s])] = puts[s][n]
        BY <3>1, <3>5, RemovedLast
      <4>2. puts[s] # <<>>
        BY <3>1
      <4>3. LastSent(s)'
        BY <1>0, <3>1, <3>2, <3>5, <4>1, <4>2 DEF Sent, LastSent
      <4> QED BY <3>1, <3>3, <4>3 DEF Sent, NothingSentBefore, PairedWithFile
    <3>6. CASE i = n /\ i = 1
      <4>1. puts'[s] = <<>> /\ puts[s] # <<>>
        <5>1. Len(puts[s]) = 1 /\ i \in 1 .. Len(puts[s])
          BY <3>1, <3>6
        <5>2. RemoveAt(puts[s], i) = <<>>
          BY <3>1, <5>1, RemovedLast
        <5> QED BY <3>1, <5>1, <5>2
      <4>2. ASSUME cli[s] = "connected", Lasts(s), astray[s] = {}, ~due[s],
                   PluginOf[file] = PluginOf[session'[s].manifest]
            PROVE  session'[s].manifest = file
        <5>1. m = file
          BY <1>0, <3>6, <4>1, <4>2 DEF Sent, LastSent
        <5>2. enabled
          BY <4>2 DEF IInv, LastsWhileWanted
        <5> QED BY <3>2, <4>2, <5>1, <5>2 DEF Accepts, Live
      <4>3. LastSent(s)'
        BY <3>1, <3>2, <3>6, <4>1, <4>2 DEF LastSent
      <4> QED BY <3>1, <3>3, <4>3 DEF Sent, NothingSentBefore, PairedWithFile
    <3> QED BY <3>1, <3>4, <3>5, <3>6
  <2>2. CASE s # r
    <3>1. puts'[s] = puts[s] /\ session'[s] = session[s] /\ astray'[s] = astray[s]
      BY <1>0, <2>2 DEF TypeOK
    <3> QED BY <1>0, <3>1, Undisturbed DEF Open, Lasts
  <2> QED BY <2>1, <2>2
<1>7. ASSUME NEW r \in Run, PutLost(r) PROVE Sent(s)'
  <2> PICK i \in DOMAIN puts[r] : PutLost(r)!(i)
    BY <1>7 DEF PutLost
  <2>1. CASE s = r
    <3>1. puts[s] # <<>> /\ "lost" \in astray'[s] /\ cli' = cli
      BY <1>0, <2>1 DEF TypeOK
    <3> QED BY <1>0, <3>1 DEF Sent, NothingSentBefore, PairedWithFile, LastSent
  <2>2. CASE s # r
    <3>1. puts'[s] = puts[s] /\ astray'[s] = astray[s]
      BY <1>0, <2>2 DEF TypeOK
    <3> QED BY <1>0, <3>1, Undisturbed DEF Open, Lasts
  <2> QED BY <2>1, <2>2
<1>8. SentInv' => Sent(s)'
  BY DEF SentInv
<1> QED BY <1>1, <1>2, <1>3, <1>4, <1>5, <1>6, <1>7, <1>8, EndsKeepSent DEF Next, Operate

\* A connected run with nothing left to send has a session with the manifest of
\* the file, unless it went astray in one of the four ways (register, poll).
THEOREM ManifestArrives == SpecCalls => []ManifestCurrent
<1>1. Spec => [](IInv /\ SentInv)
  <2>1. Init => IInv /\ SentInv
    BY InitInv, SentInit
  <2>2. IInv /\ SentInv /\ [Next]_vars => (IInv /\ SentInv)'
    BY InvStep, SentStep
  <2> QED BY <2>1, <2>2, PTL DEF Spec
<1>2. SentInv => ManifestCurrent
  BY DEF SentInv, Sent, LastSent, ManifestCurrent, Live
<1> QED BY <1>1, <1>2, CallsImplement, PTL
=============================================================================
