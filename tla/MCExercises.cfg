CONSTANTS
  Reader = {r1, r2}
  Quote <- FewQuotes
  Unended = TRUE
  MaxQuote = 3
  ListenBacklog = 1
  CLEnd = 2
  HeaderEnd = 3
  ImageEnd = 5
  None = None
  k1 = k1
  k2 = k2
  v1 = v1
  v2 = v2
  v3 = v3
  Client = {c1, c2}
  Key <- FewKeys
  Value <- FewValues
  Request <- FewRequests
  Nil = Nil
  Count = 2
  Pair <- FewPairs
  Base = 4
  Servers = 3
  Rounds = 2
  Milli = 4
  Divisor = 600
  Epoch = 10
  Timing <- FewTimings
  Junk <- FewJunk
  Silence = Silence
SPECIFICATION ExercisesSpec
INVARIANTS
  FetchTypeOK
  PrintsOneLine
  WritesImage
  DriverTypeOK
  GetsWhatItSet
  NothingLeft
  NtpTypeOK
  BestIsLeast
  WireFaithful
PROPERTIES
  ProgramsEnd
CHECK_DEADLOCK FALSE
