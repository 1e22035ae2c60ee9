SPECIFICATION FairSpec
CONSTANTS
  ClientCount = 1
  Messages = 3
  HeaderSize = 2
  BodySize = 3
  Cuts = {"header", "boundary", "body"}
  Buffers = {1, 2, 3}
  GarbageSizes <- MCGarbageSizes
INVARIANTS
  TypeOK
  HeapSafe
  NoBufferLeaked
PROPERTIES
  WholeMessagesInOrder
  ArrivedMessagesHandled
CHECK_DEADLOCK FALSE
