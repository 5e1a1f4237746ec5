CONSTANTS
  k1 = k1
  HashSpace = 100
  Backlog = 5
  Node <- PairNode
  Contact <- PairContact
  Before <- PairBefore
  Client = {c1}
  Key = {k1}
  KeyHash <- PairKeyHash
  Value = {v1}
  EmptyValue = EmptyValue
  Nil = Nil
SPECIFICATION ClientsSpec
PROPERTIES
  GetFindsStored
