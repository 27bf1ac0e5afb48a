CONSTANTS
  p1 = p1
  p2 = p2
  Producers <- MCProducers
  NumPartitions = 2
  MaxBufferSize = 2
  MaxInputs <- MCMaxInputs
  InputParts <- MCInputParts
  EarlyClosers <- MCEarlyClosers
SPECIFICATION Spec
CHECK_DEADLOCK FALSE
INVARIANTS
  MemoryAccounting
  BlockedHasData
  NoMissedData
  ReaderGetsAll
  BoundedBuffer
PROPERTY ExchangeEnds
