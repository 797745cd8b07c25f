SPECIFICATION Spec
CONSTANTS
  shown = shown
  other = other
  one = one
  two = two
  None = None
  Task = {shown, other}
  First = shown
  Busy = {shown}
  Revised <- OneRevised
  Extension <- NoExtension
  Value = {0, 1}
  Fresh = 0
  Slot = {one, two}
  MaxChanges = 2
  MaxOpens = 1
SYMMETRY SlotSymmetry
INVARIANT
  Converged
