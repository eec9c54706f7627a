SPECIFICATION FairSpec
CONSTANTS
  wait_assign = wait_assign
  check_assigned = check_assigned
  escalate = escalate
  notify_dispatch = notify_dispatch
  complete = complete
  Steps = {wait_assign, check_assigned, escalate, notify_dispatch, complete}
  StartAt = wait_assign
  Kind <- MCKind
  Successors <- MCSuccessors
  Procs = {p1, p2}
  NoStep = NoStep
  MaxTrouble = 2
INVARIANTS
  TypeOK
  StepsRunOnce
PROPERTIES
  ImplementsWalk
  UndisturbedEnds
CHECK_DEADLOCK FALSE
