SPECIFICATION Spec
CONSTANTS
  depot = depot
  shop = shop
  compressor = compressor
  filter = filter
  t1 = t1
  t2 = t2
  l1 = l1
  l2 = l2
  l3 = l3
  s1 = s1
  s2 = s2
  NoRequest = NoRequest
  NoRow = NoRow
  Transfers = {t1, t2}
  Lines = {l1, l2, l3}
  Warehouses = {depot, shop}
  Items = {compressor, filter}
  Sessions = {s1, s2}
  LinesOf <- MCLinesOf
  ItemOf <- MCItemOf
  Requested <- MCRequested
  Source <- MCSource
  Dest <- MCDest
  OpeningQuantity <- MCOpeningQuantity
  MaxCount = 1
  MaxAllocations = 1
SYMMETRY MCSymmetry
INVARIANTS
  TypeOK
  PiecesConserved
  ReceivedWithinDispatched
  StatusBackedByLedger
  LinesMoveTogether
CHECK_DEADLOCK FALSE
