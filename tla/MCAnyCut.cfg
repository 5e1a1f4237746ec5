CONSTANTS
  v1 = v1
  v2 = v2
  Client = {c1, c2}
  Key = {k1}
  KeyLen <- LongKeyLen
  Value <- LongValue
  ValueLen <- LongValueLen
  Cuts <- CutAnywhere
  Backlog = 1
  Down = Down
  Nil = Nil
SPECIFICATION Spec
INVARIANTS
  EndsInMessage
PROPERTIES
  EveryCallEnds
