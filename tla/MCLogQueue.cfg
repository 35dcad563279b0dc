\* Two threads, three lines each, buffers of two lines.
SPECIFICATION Spec
CONSTANTS
  p1 = p1
  p2 = p2
  Producers = {p1, p2}
  Lines = 3
  Size = 2
  MaxBuffers = 4
INVARIANTS
  SlotSafe
  DrainComplete
PROPERTIES
  ImplementsLog
  LineLogged
