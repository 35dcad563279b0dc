\* Two ports, two I/O threads, two peers; the descriptor of the first may be given to the second.
SPECIFICATION Spec
CONSTANTS
  p1 = p1
  p2 = p2
  NumPorts = 2
  NumIocs = 2
  Peers = {p1, p2}
  Fds = {1, 2}
  NoPeer = NoPeer
INVARIANTS
  TableExact
  IndexInRange
  ArmedExact
PROPERTY
  PeerServed
