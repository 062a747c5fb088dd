SPECIFICATION Spec
CONSTANTS
  w1 = w1
  w2 = w2
  ev = ev
  NULL = NULL
  None = None
  WinId = {i1, i2, i3}
  i1 = i1
  i2 = i2
  i3 = i3
  Win = {w1, w2}
  Event = ev
  MaxSlots = 2
  DeinitsFailed = TRUE
SYMMETRY Symmetry
INVARIANT ModuleKept
