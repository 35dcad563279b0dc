\* A client connection: a second chain of reads is started by the second write.
SPECIFICATION SafeSpec
CONSTANTS
  b1 = b1
  b2 = b2
  b3 = b3
  b4 = b4
  b5 = b5
  HeadLen = 2
  MaxLen = 5
  LenMod = 16
  DefaultSize = 4
  Headers <- GoodHeaders
  Buffers = {b1, b2, b3, b4}
  NoBuffer = NoBuffer
  Pool <- MCPool
  Answering = FALSE
  MaxChains = 2
  MaxFrames = 2
  MaxAgain = 0
INVARIANT
  ReadMemoryValid
