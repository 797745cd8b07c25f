-------------------------- MODULE MCEventDelivery --------------------------
(* Two facts of the browser's user's organization, one of an organization  *)
(* of other users, and one of the installation, which has no event.        *)
EXTENDS EventDelivery, TLC

CONSTANTS fact1, fact2, foreign, setup, browser, own, others

FactsOfBoth ==
  (fact1 :> own) @@ (fact2 :> own) @@ (foreign :> others) @@ (setup :> None)

OwnOrganization == browser :> {own}
=============================================================================
