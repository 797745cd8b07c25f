SPECIFICATION Spec
CONSTANTS
  todo = todo
  done = done
  nTodo = nTodo
  nDone = nDone
  None = None
  Task = {t1, t2, t3}
  Status = {todo, done}
  Name = {nTodo, nDone}
  Text = {x1}
  DefaultColumns <- OneColumn
  DefaultName <- OneName
  DefaultPosition <- OnePosition
  MaxRevision = 3
SYMMETRY TaskSymmetry
CHECK_DEADLOCK FALSE
INVARIANTS
  PositionsUnique
  ColumnsUnique
  MovesCommit
PROPERTIES
  MovesKeepOrder
  RevisedTogether
  FrozenProject
