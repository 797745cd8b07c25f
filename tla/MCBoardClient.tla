--------------------------- MODULE MCBoardClient ---------------------------
(* Instances of BoardClient for TLC.                                       *)
EXTENDS BoardClient

\* One card in the first column; the second id is there to be created.
OneCard == [t \in {1} |-> [column |-> "todo", position |-> 0, revision |-> 1]]
=============================================================================
