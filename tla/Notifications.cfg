SPECIFICATION FairSpec
CONSTANTS
  Notifs = {n1}
  Workers = {w1, w2}
  MaxRetries = 2
  MaxTrouble = 2
  NoNotif = NoNotif
INVARIANTS
  TypeOK
  SendsAccounted
  RetriesBounded
PROPERTIES
  EveryRequestSettles
CHECK_DEADLOCK FALSE
