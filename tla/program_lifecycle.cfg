SPECIFICATION FairSpec
CONSTANTS
  s1 = s1
  s2 = s2
  Script = {s1, s2}
INVARIANTS
  TypeOK
  HandlesAlive
  NoStaleUse
  LeaksNothing
PROPERTY MainReturns
