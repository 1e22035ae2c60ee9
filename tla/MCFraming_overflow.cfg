SPECIFICATION Spec
CONSTANTS
  ClientCount = 2
  Messages = 2
  HeaderSize = 2
  BodySize = 2
  Cuts = {"body"}
  Buffers = {1, 2, 3}
  GarbageSizes <- MCGarbageSizes
PROPERTIES
  WholeMessagesInOrder
