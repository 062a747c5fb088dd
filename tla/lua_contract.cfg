SPECIFICATION Spec
CONSTANTS
  m = m
  a = a
  b = b
  p = p
  None = None
  NIL = NIL
  Thread = {m, a, b}
  Ptr = {p}
  Main = m
  MaxArgs = 2
  MaxHeld = 2
SYMMETRY Symmetry
INVARIANTS
  TypeOK
  RefcntAccurate
  NoDangling
  ScheduledPinned
  NoFault
  NoLeakAtExit
