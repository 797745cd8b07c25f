--------------------------- MODULE MCIdempotency ---------------------------
(* Four requests with one key: three with the same input, one with another. *)
EXTENDS Idempotency, TLC

CONSTANTS first, retry, again, misuse, same, other

OneMisuse == (first :> same) @@ (retry :> same) @@ (again :> same) @@ (misuse :> other)

AttemptSymmetry == Permutations({first, retry, again})
=============================================================================
