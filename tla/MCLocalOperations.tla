------------------------- MODULE MCLocalOperations -------------------------
(* Backups by hand, and restores that make one each.                       *)
EXTENDS LocalOperations, TLC

CONSTANTS early, late, first, second,                 \* operations
          manual, other, recovery1, recovery2         \* paths

OwnPaths == (early :> manual) @@ (late :> other)
              @@ (first :> recovery1) @@ (second :> recovery2)
=============================================================================
