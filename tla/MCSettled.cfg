CONSTANTS
  HashSpace = 100
  Backlog = 5
  Node <- ScriptNode
  Contact <- ScriptContact
  Before <- ScriptBefore
  Client = {}
  Key = {}
  KeyHash <- NoKeyHash
  Value = {}
  EmptyValue = EmptyValue
  Nil = Nil
SPECIFICATION SettledSpec
INVARIANTS
  OneOwner
  NoneDies
  QueuesHaveRoom
PROPERTIES
  SettledStays
  RingForms
