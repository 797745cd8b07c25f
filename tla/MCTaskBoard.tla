---------------------------- MODULE MCTaskBoard ----------------------------
(* A small board for TLC: three tasks and a project whose owner has renamed  *)
(* and deleted all columns but one, and may add another.                     *)
EXTENDS TaskBoard, TLC

CONSTANTS todo, done,     \* columns
          nTodo, nDone    \* their names

OneColumn == {todo}
OneName == todo :> nTodo
OnePosition == todo :> 0

TaskSymmetry == Permutations(Task)
=============================================================================
