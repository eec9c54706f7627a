SPECIFICATION Spec
CONSTANTS
  repair = repair
  tariq = tariq
  vera = vera
  desk = desk
  s1 = s1
  s2 = s2
  Nobody = Nobody
  Bookings = {repair}
  Technicians = {tariq, vera}
  Office = {desk}
  Sessions = {s1, s2}
  Hours = {9}
  StartsAt <- MCStartsAt
  MaxAttempts = 1
  MaxRows <- MCMaxRows
  DeskRows = 3
  FieldRows = 6
SYMMETRY Symmetry
INVARIANTS
  TypeOK
  AttemptsBounded
  OtpBeforeFieldWork
  OneCommissionPerCompletion
CHECK_DEADLOCK FALSE
