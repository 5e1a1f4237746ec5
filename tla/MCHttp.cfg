CONSTANTS
  ab = ab
  abc = abc
  abd = abd
  y = y
  b1 = b1
  b2 = b2
  b3 = b3
  b4 = b4
  b5 = b5
  Slot = {0, 1}
  Key <- FewKeys
  Value <- FewBodies
  SlotOf <- FewSlots
  Begins <- FewBegin
  IdOf <- FewIds
  Method = {0, 1, 6, 9, 10}
  Addr = {a1, a2, a3, a4, a5}
  Nil = Nil
SPECIFICATION HttpSpec
INVARIANTS
  HashTypeOK
  ListsSound
  AllReachable
  OneElementPerKey
  Retrievable
PROPERTIES
  ImplementsDictionary
SYMMETRY FewAddr
CHECK_DEADLOCK FALSE
