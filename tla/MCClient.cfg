\* One server with two connections, two I/O threads, one business thread.
SPECIFICATION Spec
CONSTANTS
  s1 = s1
  t1 = t1
  Servers = {s1}
  PerConn = 2
  NumIocs = 2
  Threads = {t1}
  MaxConns = 3
  MaxQueued = 1
INVARIANTS
  TableKept
  OnlyReleaseRaces
PROPERTIES
  ReconnectComes
  KeepAlive
