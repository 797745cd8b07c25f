------------------------ MODULE MCServerLifecycle ------------------------
(* A server, the server started after it, which may reuse its process id,    *)
(* and another program.                                                      *)
EXTENDS ServerLifecycle, TLC

CONSTANTS first, second, third, pidA, pidB

Restarted == (first :> pidA) @@ (second :> pidB) @@ (third :> pidA)
=============================================================================
