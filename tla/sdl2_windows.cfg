SPECIFICATION FairSpec
CONSTANTS
  w1 = w1
  w2 = w2
  w3 = w3
  ev = ev
  NULL = NULL
  None = None
  WinId = {i1, i2, i3}
  i1 = i1
  i2 = i2
  i3 = i3
  Win = {w1, w2, w3}
  Event = ev
  MaxSlots = 4
  DeinitsFailed = FALSE
INVARIANTS
  TypeOK
  OwnersCounted
  SlotsAreWindows
  OwnWindowMayGo
PROPERTIES
  HandlersAddressed
  EventReachesWindow
  ShutdownCompletes
