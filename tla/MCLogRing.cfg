\* Two threads, four lines each, a ring of two slots, indexes that wrap.
SPECIFICATION Spec
CONSTANTS
  p1 = p1
  p2 = p2
  Producers = {p1, p2}
  Lines = 4
  Size = 2
  IndexMod = 4
INVARIANT
  QueueUntilLapped
PROPERTIES
  ImplementsLog
  LineLogged
