SPECIFICATION FairSpec
CONSTANTS
  NULL = NULL
  s1 = s1
  s2 = s2
  r1 = r1
  r2 = r2
  Signal = {s1, s2}
  Recv = {r1, r2}
  MaxSlots = 4
  MaxDepth = 2
  Contract = TRUE
  Reentrant = FALSE
INVARIANTS
  TypeOK
  HolesOnlyDuringEmission
  FlagTellsIteration
  NoNullDereference
PROPERTIES
  SlotsPinned
  OwedIsCalled
  EmissionEnds
