SPECIFICATION FairSpec
CONSTANTS
  shelf = shelf
  depot = depot
  gasket = gasket
  w1 = w1
  w2 = w2
  w3 = w3
  refA = refA
  refB = refB
  NoRow = NoRow
  NoRef = NoRef
  NoMovement = NoMovement
  NoWorker = NoWorker
  NoBalance = NoBalance
  Cells <- MCCells
  ItemOf <- MCItemOf
  CatalogueCost <- MCCatalogueCost
  Opening <- MCOpening
  Movements <- MCMovements
  Workers = {w1, w2}
  MaxRows = 2
INVARIANTS
  TypeOK
  WarmLedgersChain
  SnapshotIsNewestRow
  RefPostedOnce
  AvgCostWithinPaid
PROPERTIES
  ImplementsAccount
  EveryPostEnds
CHECK_DEADLOCK FALSE
