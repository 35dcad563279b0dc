\* Two threads and buffers of two lines: the promise of GuaranteedLogger.
SPECIFICATION Spec
CONSTANTS
  p1 = p1
  p2 = p2
  Producers = {p1, p2}
  Lines = 2
  Size = 2
  MaxBuffers = 3
PROPERTY
  GuaranteeKept
