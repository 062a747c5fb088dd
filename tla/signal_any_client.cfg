SPECIFICATION Spec
CONSTANTS
  NULL = NULL
  s1 = s1
  s2 = s2
  r1 = r1
  r2 = r2
  r3 = r3
  Signal = {s1, s2}
  Recv = {r1, r2, r3}
  MaxSlots = 5
  MaxDepth = 2
  Contract = FALSE
  Reentrant = FALSE
SYMMETRY Symmetry
INVARIANT SubscriptionConsistent
PROPERTY ObserverSpec
\* a null receiver stops the program
CHECK_DEADLOCK FALSE
