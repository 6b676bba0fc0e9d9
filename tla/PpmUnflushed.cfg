INIT HInit
NEXT HNext
CONSTANTS
  Streams <- PpmStreams
  ByteBits = 4
  Symbols = 3
  MaxCode = 7
  QuickBits = 4
INVARIANT FlushedBeforePpm
CHECK_DEADLOCK FALSE
