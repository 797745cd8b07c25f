SPECIFICATION Spec
CONSTANTS
  None = None
  background = background
  own = own
  Task = {1, 2}
  Column = {"todo", "done"}
  Start <- OneCard
  Slot = {background}
  Own = own
  MaxChanges = 2
INVARIANT
  Settled
PROPERTIES
  MoveFromSeen
  MoveEnds
CHECK_DEADLOCK FALSE
