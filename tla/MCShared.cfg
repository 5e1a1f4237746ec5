CONSTANTS
  c1 = c1
  c2 = c2
  k1 = k1
  k2 = k2
  HashSpace = 100
  Backlog = 5
  Node <- ServiceNode
  Contact <- ServiceContact
  Client = {c1, c2}
  Gateway <- SharedGateway
  Key = {k1, k2}
  KeyHash <- ServiceKeyHash
  Value = {v1}
  EmptyValue = EmptyValue
  Nil = Nil
SPECIFICATION ServiceSpec
PROPERTIES
  EveryCallReturns
