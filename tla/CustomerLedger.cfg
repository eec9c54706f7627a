SPECIFICATION FairSpec
CONSTANTS
  asha = asha
  ravi = ravi
  s1 = s1
  s2 = s2
  s3 = s3
  issued = issued
  paid = paid
  refunded = refunded
  NoRef = NoRef
  Customers = {asha, ravi}
  Sessions = {s1, s2, s3}
  Opening <- MCOpening
  Jobs <- MCJobs
  MaxTime = 6
INVARIANTS
  TypeOK
  OneRowPerEvent
  BuiltOnACommittedRow
PROPERTIES
  EveryTransactionEnds
CHECK_DEADLOCK FALSE
