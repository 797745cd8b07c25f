-------------------------- MODULE MCOwnerAccounts --------------------------
(* Two browsers at the setup of an installation; a registration, its retry,   *)
(* and another use of its key with the same email address.                    *)
EXTENDS OwnerAccounts, TLC

CONSTANTS local, remote, first, retry, misuse, key, ada, bob, acme, zeta

Emails == (local :> ada) @@ (remote :> bob)
          @@ (first :> bob) @@ (retry :> bob) @@ (misuse :> bob)
Slugs == (first :> acme) @@ (retry :> acme) @@ (misuse :> zeta)
Keys == (first :> key) @@ (retry :> key) @@ (misuse :> key)

RetrySymmetry == Permutations({first, retry})
=============================================================================
