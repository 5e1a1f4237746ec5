CONSTANTS
  v1 = v1
  v2 = v2
  Client = {c1, c2}
  Key = {k1}
  KeyLen <- ShortKeyLen
  Value <- TwoValues
  ValueLen <- TwoValueLen
  Cuts <- CutInLast
  Backlog = 1
  Down = Down
  Nil = Nil
SPECIFICATION Spec
INVARIANTS
  RpcTypeOK
  ReceivedAsSent
PROPERTIES
  ImplementsStore
  AnswersAsStore
