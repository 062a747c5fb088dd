SPECIFICATION FairSpec
CONSTANTS
  e1 = e1
  e2 = e2
  b1 = b1
  b2 = b2
  None = None
  Entity = {e1, e2}
  Buffer = {b1, b2}
  Offered = {"any", "null"}
  MaxRefs = 2
  MaxDepth = 2
INVARIANTS
  TypeOK
  BuffersOwned
  EntitiesOwned
  NoUseAfterFree
  RepliesAreTrue
PROPERTIES
  PipeIsFinal
  CallsReturn
\* buffers sent to a null entity are never free again
CHECK_DEADLOCK FALSE
