--------------------------- MODULE MCPluginCalls ---------------------------
(* Two runs of the command line and a call; one plugin whose manifest asks    *)
(* for one permission or for two, and the manifest of another plugin.         *)
EXTENDS PluginCalls, TLC

CONSTANTS plain, greedy, other, read, write, r1, r2, c1

Asks == (plain :> {read}) @@ (greedy :> {read, write}) @@ (other :> {read})
Plugins == (plain :> "board") @@ (greedy :> "board") @@ (other :> "clock")

RunSymmetry == Permutations(Run)
=============================================================================
