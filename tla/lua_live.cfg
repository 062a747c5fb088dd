SPECIFICATION FairSpec
CONSTANTS
  m = m
  a = a
  b = b
  p = p
  None = None
  NIL = NIL
  Thread = {m, a, b}
  Ptr = {p}
  Main = m
  MaxArgs = 1
  MaxHeld = 1
PROPERTIES
  ScheduledRuns
  ClosingIsFreed
