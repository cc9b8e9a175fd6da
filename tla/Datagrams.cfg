CONSTANTS
  Commands = 3
  Events = 2
  Ephemerals = 1
  Offsets = {0, 1, 9, 127, 128, 300, 16384, 268435455, 2147483647}
  Ticks = {0, 10, 127, 128, 16384, 2147483647}
  ByteOffsets = {0, 27, 127, 128, 16384, 2097151, 2097152, 268435455, 268435456}
  ByteLens = {1, 10, 27, 28}
  BufferSizes = {0, 1, 2, 3, 4, 5, 6, 7, 8, 9, 10, 11, 12, 13, 14, 15, 32}
  MAX_DATAGRAM_SIZE = 32
  MIN_PAYLOAD_SIZE = 32
  None = None
SPECIFICATION Spec
INVARIANTS ReceivedIsSent MessagesFit
CHECK_DEADLOCK FALSE
