SPECIFICATION Spec
CONSTANTS
  compressor = compressor
  filter = filter
  a1 = a1
  NoRequest = NoRequest
  NoRow = NoRow
  Items = {compressor, filter}
  Allocations = {a1}
  Sessions = {s1, s2}
  Ordered <- MCOrdered
  Opening <- MCOpening
  ItemOf <- MCItemOf
  MaxEntries = 2
  MaxPieces = 2
  MaxCorrections = 1
SYMMETRY Symmetric
INVARIANTS
  TypeOK
  CountersMatchShelf
  OverrunsBounded
  ReceivedInFull
  ShortfallIsRaised
CHECK_DEADLOCK FALSE
