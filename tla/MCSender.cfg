\* Three messages of two or three bytes and an invalid one.
SPECIFICATION Spec
CONSTANTS
  m1 = m1
  m2 = m2
  m3 = m3
  m4 = m4
  Messages = {m1, m2, m3, m4}
  Size <- MCSize
  Invalid = {m4}
INVARIANTS
  BytesExact
  FramesContiguous
  PoolBufferIdle
  SoundWithoutShortWrites
PROPERTY
  MessageSettled
