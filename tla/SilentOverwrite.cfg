SPECIFICATION Spec
CONSTANTS
  shown = shown
  other = other
  one = one
  None = None
  Task = {shown, other}
  First = shown
  Busy = {shown}
  Revised <- TwoRevised
  Extension <- OneExtension
  Value = {0, 1}
  Fresh = 0
  Slot = {one}
  MaxChanges = 3
  MaxOpens = 0
INVARIANT
  NoSilentOverwrite
