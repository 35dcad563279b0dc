\* Bytes of two bits, a buffer of 16 of them that has to grow.
SPECIFICATION Spec
CONSTANTS
  ByteMod = 4
  DefaultSize = 16
  MaxPackage = 61
  CrcTable <- MCCrcTable
  Messages <- MCMessages
INVARIANTS
  InBounds
  RoundTrip
  RequestAccepted
