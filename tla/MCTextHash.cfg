SPECIFICATION Program
CONSTANTS
  t1 = t1
  t2 = t2
  t3 = t3
  t4 = t4
  g1 = g1
  g2 = g2
  g3 = g3
  NoTask = NoTask
  Workers = {w1, w2}
  MaxWorkers = 2
  Tasks = {t1, t2, t3}
  Groups = {g1, g2}
  GroupOf <- NestedGroupOf
  OpenedBy <- NestedOpenedBy
  StartMayFail = TRUE
  Owner = Owner
  Worker = Worker
  Scripts <- AllScripts
  Serialities <- Either
  Used = {"operators"}
  Bits <- SmallBits
  FirstSurrogate = 20
  AfterSurrogates = 24
  LastCodePoint = 40
  ClassName = "Counter"
  Programs <- MCPrograms
  Garbage <- MCGarbage
  Chosen = {1}
  PoolThreads = 1
  MaxFailures = 2
  reader = reader
  writer = writer
  d1 = d1
  d2 = d2
  Poller = Poller
  Waiters = {reader, writer}
  Descriptors = {d1, d2}
  DescriptorOf <- Sockets
  EventOf <- Interests
  RoundsOf <- Rounds
  Closing = {d2}
  MaxInterrupts = 1
  MaxPolls = 1
  MaxPending = 1
  Effects = {1, 2, 3}
  ClassTypes = {1, 2}
  BaseOf <- Bases
  ErrorPrograms <- Chains
  NoError = NoError
  IntegerTypes <- Widths
  Operands <- Tried
  OtherValues <- SomeOthers
  HashBits = 7
  HashStart = 23
  HashPrime = 29
  ByteBits = 3
  Floats <- SomeFloats
  Nan = Nan
  Texts <- SomeTexts
  TextBytes = {0, 3, 5}
  Panic = Panic
  Approximate = Approximate
  Unsupported = Unsupported
  NotYet = NotYet
INVARIANT InterfacesAgree
CHECK_DEADLOCK FALSE
