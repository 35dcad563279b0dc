\* A server connection: one chain of reads, two frames of every kind.
SPECIFICATION Spec
CONSTANTS
  b1 = b1
  b2 = b2
  b3 = b3
  b4 = b4
  b5 = b5
  HeadLen = 2
  MaxLen = 5
  LenMod = 16
  DefaultSize = 4
  Headers <- AllHeaders
  Buffers = {b1, b2, b3, b4}
  NoBuffer = NoBuffer
  Pool <- MCPool
  Answering = TRUE
  MaxChains = 1
  MaxFrames = 2
  MaxAgain = 1
INVARIANTS
  FrameIntact
  ReadMemoryValid
  OneOwner
PROPERTIES
  FrameDelivered
  BadPeerClosed
  ClosedDrains
