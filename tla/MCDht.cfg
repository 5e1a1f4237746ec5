CONSTANTS
  k1 = k1
  HashSpace = 100
  Backlog = 1
  Node <- PairNode
  Contact <- PairContact
  Client = {c1, c2}
  Key = {k1}
  KeyHash <- PairKeyHash
  Value = {v1}
  EmptyValue = EmptyValue
  Nil = Nil
SPECIFICATION Spec
INVARIANTS
  TypeOK
  SavedSocketOpen
  StoredAtOwner
  StoredOnce
CHECK_DEADLOCK FALSE
