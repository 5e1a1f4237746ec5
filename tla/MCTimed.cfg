CONSTANTS
  HashSpace = 100
  Backlog = 5
  Node <- ScriptNode
  Contact <- ScriptContact
  Before <- ScriptBefore
  LaunchTime <- ScriptLaunchTime
  Announced = 14
  Horizon = 15
  Client = {}
  Key = {}
  KeyHash <- NoKeyHash
  Value = {}
  EmptyValue = EmptyValue
  Nil = Nil
SPECIFICATION TimedSpec
INVARIANTS
  TimedTypeOK
  OneOwner
  QueuesHaveRoom
  StableWhenAnnounced
CHECK_DEADLOCK FALSE
