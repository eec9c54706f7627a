------------------------- MODULE NotificationsProofs -------------------------
(***************************************************************************)
(* Theorems about Notifications, for every number of notifications, workers *)
(* and faults, and every limit on retries: types, that sends are accounted  *)
(* for, and that retries are bounded.                                       *)
(*                                                                         *)
(* Neither of the last two is inductive.  SendsAccounted is a count of      *)
(* tokens: a notification may be claimed once for its enqueue and once more *)
(* for each manual retry, a worker that claimed it has that token, and a    *)
(* failed attempt gives it back; only an answer that is lost adds a send    *)
(* and keeps the token (Covered).  RetriesBounded needs that the lock, if   *)
(* nothing disturbs it, admits one worker at a time, so that the count the  *)
(* worker read is the one it adds to (Orderly).                             *)
(***************************************************************************)
EXTENDS Notifications, FiniteSetTheorems, TLAPS

RowShape == [status : Status, retryCount : Nat, waiting : BOOLEAN, ref : BOOLEAN]
QueueShape == [owed : Nat, ready : Nat, delayed : Nat, dead : BOOLEAN]
LogShape == [calls : Nat, attempts : Nat, sends : Nat, lost : Nat, resets : Nat,
             disturbed : BOOLEAN]
WorkerShape == [at : Steps, on : Notifs \cup {NoNotif}, seen : Nat]

IdleIffFree(r) == r.at = "idle" <=> r.on = NoNotif

\* TypeOK, with the shapes by name.
LEMMA TypeParts ==
  TypeOK <=>
    /\ row \in [Notifs -> RowShape] /\ queue \in [Notifs -> QueueShape]
    /\ lock \in [Notifs -> BOOLEAN] /\ worker \in [Workers -> WorkerShape]
    /\ \A w \in Workers : IdleIffFree(worker[w])
    /\ hooks \subseteq Notifs /\ log \in [Notifs -> LogShape] /\ trouble \in Nat
BY DEF TypeOK, RowShape, QueueShape, LogShape, WorkerShape, IdleIffFree

\* The same in the next state.
LEMMA NextTypeParts ==
  TypeOK' <=>
    /\ row' \in [Notifs -> RowShape] /\ queue' \in [Notifs -> QueueShape]
    /\ lock' \in [Notifs -> BOOLEAN] /\ worker' \in [Workers -> WorkerShape]
    /\ \A w \in Workers : IdleIffFree(worker'[w])
    /\ hooks' \subseteq Notifs /\ log' \in [Notifs -> LogShape] /\ trouble' \in Nat
BY DEF TypeOK, RowShape, QueueShape, LogShape, WorkerShape, IdleIffFree

\* The initial state has its types.
LEMMA InitType == Init => TypeOK
<1> SUFFICES ASSUME Init PROVE TypeOK
  OBVIOUS
<1>1. row \in [Notifs -> RowShape]
  BY DEF Init, RowShape, Status
<1>2. queue \in [Notifs -> QueueShape]
  BY DEF Init, QueueShape
<1>3. worker \in [Workers -> WorkerShape] /\ \A w \in Workers : IdleIffFree(worker[w])
  BY DEF Init, WorkerShape, IdleIffFree, Steps
<1>4. log \in [Notifs -> LogShape]
  BY DEF Init, LogShape
<1>5. lock \in [Notifs -> BOOLEAN] /\ hooks \subseteq Notifs /\ trouble \in Nat
  BY DEF Init
<1> QED
  BY <1>1, <1>2, <1>3, <1>4, <1>5, TypeParts

-----------------------------------------------------------------------------
(* One worker changes.                                                      *)

\* What GoTo makes of the worker and leaves of the others.
LEMMA GoToMoves ==
  ASSUME TypeOK, NEW w \in Workers, NEW step \in Steps \ {"idle"},
         worker[w].at # "idle", GoTo(w, step)
  PROVE  /\ worker' \in [Workers -> WorkerShape]
         /\ \A v \in Workers : IdleIffFree(worker'[v])
         /\ worker'[w] = [at |-> step, on |-> worker[w].on, seen |-> worker[w].seen]
         /\ \A v \in Workers \ {w} : worker'[v] = worker[v]
<1>1. worker \in [Workers -> WorkerShape] /\ \A v \in Workers : IdleIffFree(worker[v])
  BY TypeParts
<1>2. /\ worker'[w] = [at |-> step, on |-> worker[w].on, seen |-> worker[w].seen]
      /\ \A v \in Workers \ {w} : worker'[v] = worker[v]
  BY <1>1 DEF GoTo, WorkerShape
<1>3. worker' \in [Workers -> WorkerShape]
  BY <1>1, <1>2 DEF GoTo, WorkerShape
<1> QED
  BY <1>1, <1>2, <1>3 DEF IdleIffFree

\* A worker whose whole record is replaced.
LEMMA WorkerReplaced ==
  ASSUME TypeOK, NEW w \in Workers, NEW r \in WorkerShape, IdleIffFree(r),
         worker' = [worker EXCEPT ![w] = r]
  PROVE  /\ worker' \in [Workers -> WorkerShape]
         /\ \A v \in Workers : IdleIffFree(worker'[v])
         /\ worker'[w] = r
         /\ \A v \in Workers \ {w} : worker'[v] = worker[v]
BY TypeParts

Free == [at |-> "idle", on |-> NoNotif, seen |-> 0]

\* An idle worker is free.
LEMMA FreeWorker == Free \in WorkerShape /\ IdleIffFree(Free)
BY DEF Free, WorkerShape, IdleIffFree, Steps

\* Types of a worker at work.
LEMMA WorkerTypes ==
  ASSUME TypeOK, NEW w \in Workers
  PROVE  /\ worker[w].at \in Steps /\ worker[w].seen \in Nat
         /\ worker[w].at # "idle" => worker[w].on \in Notifs
         /\ worker[w].at = "idle" => worker[w].on = NoNotif
BY TypeParts DEF WorkerShape, IdleIffFree

\* Types of a notification's records.
LEMMA RecordTypes ==
  ASSUME TypeOK, NEW n \in Notifs
  PROVE  /\ row[n] \in RowShape /\ row[n].status \in Status /\ row[n].retryCount \in Nat
         /\ row[n].waiting \in BOOLEAN /\ row[n].ref \in BOOLEAN
         /\ queue[n] \in QueueShape /\ queue[n].owed \in Nat /\ queue[n].ready \in Nat
         /\ queue[n].delayed \in Nat /\ queue[n].dead \in BOOLEAN
         /\ log[n] \in LogShape /\ log[n].calls \in Nat /\ log[n].attempts \in Nat
         /\ log[n].sends \in Nat /\ log[n].lost \in Nat /\ log[n].resets \in Nat
         /\ log[n].disturbed \in BOOLEAN /\ lock[n] \in BOOLEAN
BY TypeParts DEF RowShape, QueueShape, LogShape

\* A fault leaves its mark on the notification and nothing else.
LEMMA FaultMarks ==
  ASSUME TypeOK, NEW n \in Notifs, Fault(n)
  PROVE  /\ log' \in [Notifs -> LogShape] /\ trouble' \in Nat /\ hooks' = hooks
         /\ \A m \in Notifs \ {n} : log'[m] = log[m]
         /\ log'[n].disturbed
         /\ log'[n].sends = log[n].sends /\ log'[n].lost = log[n].lost
         /\ log'[n].resets = log[n].resets
<1>1. log \in [Notifs -> LogShape] /\ trouble \in Nat
  BY TypeParts
<1>2. log' = [log EXCEPT ![n].disturbed = TRUE]
  BY DEF Fault
<1>3. log' \in [Notifs -> LogShape]
  BY <1>1, <1>2 DEF LogShape
<1>4. trouble' \in Nat
  BY <1>1 DEF Fault, Troubled
<1>5. /\ \A m \in Notifs \ {n} : log'[m] = log[m]
      /\ log'[n].disturbed
      /\ log'[n].sends = log[n].sends /\ log'[n].lost = log[n].lost
      /\ log'[n].resets = log[n].resets
  BY <1>1, <1>2 DEF LogShape
<1> QED
  BY <1>3, <1>4, <1>5 DEF Fault

\* A write of a status leaves the rest of the row, and the other rows.
LEMMA StatusWritten ==
  ASSUME TypeOK, NEW n \in Notifs, NEW s \in Status, row' = [row EXCEPT ![n].status = s]
  PROVE  /\ row' \in [Notifs -> RowShape]
         /\ \A m \in Notifs \ {n} : row'[m] = row[m]
         /\ row'[n].status = s
         /\ row'[n].retryCount = row[n].retryCount /\ row'[n].ref = row[n].ref
BY TypeParts DEF RowShape

-----------------------------------------------------------------------------
(* Types.                                                                   *)

\* The steps of the API, the clocks and the webhooks keep the types.
LEMMA OutsideTypes ==
  ASSUME TypeOK, NEW n \in Notifs,
         \/ Enqueue(n) \/ Schedule(n) \/ Retry(n) \/ RetryDlqJob(n)
         \/ BackoffEnds(n) \/ JobFallsDue(n) \/ CallerDies(n) \/ LockExpires(n)
         \/ HookFinds(n) \/ HookWrites(n)
  PROVE  TypeOK'
<1> USE TypeParts, RecordTypes
<1>1. CASE Enqueue(n)
  <2> DEFINE s == IF row[n].status = "NONE" THEN "QUEUED" ELSE row[n].status
  <2>1. row' = [row EXCEPT ![n].status = s] /\ s \in Status
    BY <1>1 DEF Enqueue, Status, Claimable
  <2> HIDE DEF s
  <2>2. row' \in [Notifs -> RowShape]
    BY <2>1, StatusWritten
  <2>3. queue' \in [Notifs -> QueueShape]
    BY <1>1 DEF Enqueue, QueueShape
  <2>4. log' \in [Notifs -> LogShape]
    BY <1>1 DEF Enqueue, LogShape
  <2>5. trouble' \in Nat
    BY <1>1 DEF Enqueue, Troubled
  <2> QED
    BY <1>1, <2>2, <2>3, <2>4, <2>5, NextTypeParts DEF Enqueue
<1>2. CASE Schedule(n)
  BY <1>2, NextTypeParts DEF Schedule, QueueShape
<1>3. CASE Retry(n)
  <2>1. row' \in [Notifs -> RowShape]
    BY <1>3 DEF Retry, RowShape, Status, Claimable
  <2>2. queue' \in [Notifs -> QueueShape]
    BY <1>3 DEF Retry, QueueShape
  <2>3. log' \in [Notifs -> LogShape] /\ trouble' \in Nat
    BY <1>3 DEF Retry, Troubled, LogShape
  <2> QED
    BY <1>3, <2>1, <2>2, <2>3, NextTypeParts DEF Retry
<1>4. CASE RetryDlqJob(n)
  BY <1>4, NextTypeParts DEF RetryDlqJob, QueueShape
<1>5. CASE BackoffEnds(n)
  BY <1>5, NextTypeParts DEF BackoffEnds, RowShape
<1>6. CASE JobFallsDue(n)
  BY <1>6, NextTypeParts DEF JobFallsDue, QueueShape
<1>7. CASE CallerDies(n)
  <2>1. queue' \in [Notifs -> QueueShape]
    BY <1>7 DEF CallerDies, QueueShape
  <2>2. log' \in [Notifs -> LogShape] /\ trouble' \in Nat
    BY <1>7, FaultMarks DEF CallerDies
  <2> QED
    BY <1>7, <2>1, <2>2, NextTypeParts DEF CallerDies, Fault
<1>8. CASE LockExpires(n)
  BY <1>8, NextTypeParts DEF LockExpires, LogShape
<1>9. CASE HookFinds(n)
  BY <1>9, NextTypeParts DEF HookFinds
<1>10. CASE HookWrites(n)
  BY <1>10, NextTypeParts DEF HookWrites, RowShape, Status, Reported
<1> QED
  BY <1>1, <1>2, <1>3, <1>4, <1>5, <1>6, <1>7, <1>8, <1>9, <1>10

\* A handler's step, the hand-out of a job and the faults of a worker keep the types.
LEMMA WorkerTypesKept ==
  ASSUME TypeOK, NEW w \in Workers,
         HandlerStep(w) \/ JobStep(w) \/ Crash(w) \/ Stall(w) \/ Throw(w)
  PROVE  TypeOK'
<1> DEFINE n == worker[w].on
<1> USE TypeParts, RecordTypes
<1>0. worker[w].at # "idle" => n \in Notifs
  BY WorkerTypes
<1>1. CASE ReadRow(w)
  <2> DEFINE r == [at |-> IF row[n].status \in Terminal \cup {"DLQ"} THEN "unlock"
                          ELSE IF row[n].waiting THEN "postpone"
                          ELSE "claim",
                   on |-> n, seen |-> row[n].retryCount]
  <2>1. worker[w].at = "read" /\ worker' = [worker EXCEPT ![w] = r]
    BY <1>1 DEF ReadRow
  <2>2. n \in Notifs /\ n # NoNotif
    BY <1>0, <2>1, NotificationsAssumption
  <2>3. r \in WorkerShape /\ IdleIffFree(r)
    BY <2>2 DEF WorkerShape, IdleIffFree, Steps, Holding
  <2> HIDE DEF r, n
  <2> QED
    BY <1>1, <2>1, <2>3, WorkerReplaced, NextTypeParts DEF ReadRow
<1>2. CASE Claim(w)
  <2>1. n \in Notifs
    BY <1>0, <1>2 DEF Claim
  <2>2. row' \in [Notifs -> RowShape]
    BY <1>2, <2>1, StatusWritten DEF Claim, Status
  <2>3. \E s \in {"send", "unlock"} : GoTo(w, s)
    BY <1>2 DEF Claim
  <2> QED
    BY <1>2, <2>2, <2>3, GoToMoves, NextTypeParts DEF Claim, Steps, Holding
<1>3. CASE Dispatch(w)
  <2>1. n \in Notifs
    BY <1>0, <1>3 DEF Dispatch
  <2>2. log' \in [Notifs -> LogShape] /\ trouble' \in Nat
    BY <1>3, <2>1 DEF Dispatch, LogShape, Troubled
  <2>3. \E s \in {"sent", "failed"} : GoTo(w, s)
    BY <1>3 DEF Dispatch
  <2> QED
    BY <1>3, <2>2, <2>3, GoToMoves, NextTypeParts DEF Dispatch, Steps, Holding
<1>4. CASE MarkSent(w)
  <2>1. n \in Notifs
    BY <1>0, <1>4 DEF MarkSent
  <2>2. row' \in [Notifs -> RowShape]
    BY <1>4, <2>1 DEF MarkSent, RowShape, Status, Terminal
  <2> QED
    BY <1>4, <2>2, GoToMoves, NextTypeParts DEF MarkSent, Steps, Holding
<1>5. CASE HandleFailure(w)
  <2>1. n \in Notifs /\ worker[w].seen + 1 \in Nat
    BY <1>0, <1>5, WorkerTypes DEF HandleFailure
  <2>2. row' \in [Notifs -> RowShape]
    <3>1. CASE worker[w].seen + 1 >= MaxRetries
      <4>1. row' = [row EXCEPT ![n].status = "DLQ"]
        BY <1>5, <3>1 DEF HandleFailure
      <4> QED
        BY <2>1, <4>1, StatusWritten DEF Status
    <3>2. CASE ~(worker[w].seen + 1 >= MaxRetries)
      <4> DEFINE r == [status |-> "RETRYING", retryCount |-> worker[w].seen + 1,
                       waiting |-> TRUE, ref |-> row[n].ref]
      <4>1. row' = [row EXCEPT ![n] = r]
        BY <1>5, <3>2 DEF HandleFailure
      <4>2. r \in RowShape
        BY <2>1 DEF RowShape, Status, Claimable
      <4> HIDE DEF r, n
      <4> QED
        BY <2>1, <4>1, <4>2
    <3> QED
      BY <3>1, <3>2
  <2>3. \E s \in {"bury", "backoff"} : GoTo(w, s)
    BY <1>5 DEF HandleFailure
  <2> QED
    BY <1>5, <2>2, <2>3, GoToMoves, NextTypeParts DEF HandleFailure, Steps, Holding
<1>6. CASE AddToDlq(w)
  <2>1. n \in Notifs
    BY <1>0, <1>6 DEF AddToDlq
  <2>2. queue' \in [Notifs -> QueueShape]
    BY <1>6, <2>1 DEF AddToDlq, QueueShape
  <2> QED
    BY <1>6, <2>2, GoToMoves, NextTypeParts DEF AddToDlq, Steps, Holding
<1>7. CASE AddDelayed(w)
  <2>1. n \in Notifs
    BY <1>0, <1>7 DEF AddDelayed
  <2>2. queue' \in [Notifs -> QueueShape]
    <3>1. queue' = [queue EXCEPT ![n].delayed = @ + 1]
      BY <1>7 DEF AddDelayed
    <3> HIDE DEF n
    <3> QED
      BY <2>1, <3>1 DEF QueueShape
  <2>3. \E s \in {"rest", "unlock"} : GoTo(w, s)
    BY <1>7 DEF AddDelayed
  <2> QED
    BY <1>7, <2>2, <2>3, GoToMoves, NextTypeParts DEF AddDelayed, Steps, Holding
<1>8. CASE Unlock(w)
  <2>1. n \in Notifs
    BY <1>0, <1>8 DEF Unlock
  <2>2. lock' \in [Notifs -> BOOLEAN]
    BY <1>8, <2>1 DEF Unlock
  <2> QED
    BY <1>8, <2>2, FreeWorker, WorkerReplaced, NextTypeParts DEF Unlock, Free
<1>9. CASE JobStep(w)
  <2>1. PICK m \in Notifs : SkipJob(w, m) \/ TakeJob(w, m)
    BY <1>9 DEF JobStep
  <2>2. CASE SkipJob(w, m)
    BY <2>2, NextTypeParts DEF SkipJob, QueueShape
  <2>3. CASE TakeJob(w, m)
    <3>1. queue' \in [Notifs -> QueueShape] /\ lock' \in [Notifs -> BOOLEAN]
      BY <2>3 DEF TakeJob, QueueShape
    <3>2. [at |-> "read", on |-> m, seen |-> 0] \in WorkerShape
      BY DEF WorkerShape, Steps, Holding
    <3>3. IdleIffFree([at |-> "read", on |-> m, seen |-> 0])
      BY NotificationsAssumption DEF IdleIffFree
    <3> QED
      BY <2>3, <3>1, <3>2, <3>3, WorkerReplaced, NextTypeParts DEF TakeJob
  <2> QED
    BY <2>1, <2>2, <2>3
<1>10. CASE Crash(w) \/ Stall(w)
  <2>1. n \in Notifs
    BY <1>0, <1>10 DEF Crash, Stall
  <2>2. queue' \in [Notifs -> QueueShape]
    BY <1>10, <2>1 DEF Crash, Stall, QueueShape
  <2>3. log' \in [Notifs -> LogShape] /\ trouble' \in Nat
    BY <1>10, <2>1, FaultMarks DEF Crash, Stall
  <2>4. worker' \in [Workers -> WorkerShape] /\ \A v \in Workers : IdleIffFree(worker'[v])
    BY <1>10, FreeWorker, WorkerReplaced DEF Crash, Stall, Free
  <2> QED
    BY <1>10, <2>2, <2>3, <2>4, NextTypeParts DEF Crash, Stall, Fault
<1>11. CASE Throw(w)
  <2>1. n \in Notifs /\ worker[w].at # "idle"
    BY <1>0, <1>11 DEF Throw, Holding
  <2>2. log' \in [Notifs -> LogShape] /\ trouble' \in Nat
    BY <1>11, <2>1, FaultMarks DEF Throw
  <2> QED
    BY <1>11, <2>1, <2>2, GoToMoves, NextTypeParts DEF Throw, Fault, Steps
<1> QED
  BY <1>1, <1>2, <1>3, <1>4, <1>5, <1>6, <1>7, <1>8, <1>9, <1>10, <1>11 DEF HandlerStep

\* Every step keeps the types.
LEMMA NextType == TypeOK /\ [Next]_vars => TypeOK'
<1>1. ASSUME TypeOK, UNCHANGED vars PROVE TypeOK'
  BY <1>1 DEF TypeOK, vars
<1> QED
  BY <1>1, OutsideTypes, WorkerTypesKept DEF Next

\* Every reachable state has its types: TypeOK of Notifications.
THEOREM TypeCorrect == Spec => []TypeOK
<1> QED
  BY InitType, NextType, PTL DEF Spec

-----------------------------------------------------------------------------
(* What the actions of a handler do to its notification.                    *)

\* A worker moves on; the others and their notifications are as before.
Moves(w, r) == worker'[w] = r /\ \A v \in Workers \ {w} : worker'[v] = worker[v]

\* GoTo, as Moves.
LEMMA GoToIsMove ==
  ASSUME TypeOK, NEW w \in Workers, NEW step \in Steps \ {"idle"},
         worker[w].at # "idle", GoTo(w, step)
  PROVE  Moves(w, [at |-> step, on |-> worker[w].on, seen |-> worker[w].seen])
BY GoToMoves DEF Moves

\* Claim takes a claimable row, or leaves it.
LEMMA ClaimEffect ==
  ASSUME TypeOK, NEW w \in Workers, Claim(w)
  PROVE  LET n == worker[w].on IN
         /\ n \in Notifs /\ worker[w].at = "claim"
         /\ log' = log /\ lock' = lock /\ hooks' = hooks
         /\ \/ /\ row[n].status \in Claimable
               /\ row'[n].status = "PROCESSING"
               /\ row'[n].retryCount = row[n].retryCount /\ row'[n].ref = row[n].ref
               /\ \A m \in Notifs \ {n} : row'[m] = row[m]
               /\ Moves(w, [at |-> "send", on |-> n, seen |-> worker[w].seen])
            \/ /\ row[n].status \notin Claimable
               /\ row' = row
               /\ Moves(w, [at |-> "unlock", on |-> n, seen |-> worker[w].seen])
<1> DEFINE n == worker[w].on
<1>1. n \in Notifs /\ worker[w].at = "claim"
  BY WorkerTypes DEF Claim
<1>2. CASE row[n].status \in Claimable
  <2>1. row' = [row EXCEPT ![n].status = "PROCESSING"] /\ GoTo(w, "send")
    BY <1>2 DEF Claim
  <2> HIDE DEF n
  <2>2. /\ row'[n].status = "PROCESSING"
        /\ row'[n].retryCount = row[n].retryCount /\ row'[n].ref = row[n].ref
        /\ \A m \in Notifs \ {n} : row'[m] = row[m]
    BY <1>1, <2>1, StatusWritten DEF Status
  <2> QED
    BY <1>1, <1>2, <2>1, <2>2, GoToIsMove DEF Claim, Steps, Holding, n
<1>3. CASE row[n].status \notin Claimable
  BY <1>1, <1>3, GoToIsMove DEF Claim, Steps
<1> QED
  BY <1>2, <1>3

\* A dispatch counts, and its outcome is the worker's next step.
LEMMA DispatchEffect ==
  ASSUME TypeOK, NEW w \in Workers, Dispatch(w)
  PROVE  LET n == worker[w].on IN
         /\ n \in Notifs /\ worker[w].at = "send"
         /\ row' = row /\ lock' = lock /\ hooks' = hooks
         /\ \A m \in Notifs \ {n} : log'[m] = log[m]
         /\ log'[n].attempts = log[n].attempts + 1 /\ log'[n].resets = log[n].resets
         /\ log'[n].disturbed = log[n].disturbed
         /\ \E u \in {0, 1} :
               /\ log'[n].lost = log[n].lost + u
               /\ \/ /\ log'[n].sends = log[n].sends + 1 + u
                     /\ Moves(w, [at |-> "sent", on |-> n, seen |-> worker[w].seen])
                  \/ /\ log'[n].sends = log[n].sends + u
                     /\ Moves(w, [at |-> "failed", on |-> n, seen |-> worker[w].seen])
<1> DEFINE n == worker[w].on
<1>1. n \in Notifs /\ worker[w].at = "send"
  BY WorkerTypes DEF Dispatch
<1>2. PICK a \in {0, 1}, u \in {0, 1} :
        /\ log' = [log EXCEPT ![n] = [calls |-> @.calls, attempts |-> @.attempts + 1,
                                      sends |-> @.sends + a + u, lost |-> @.lost + u,
                                      resets |-> @.resets, disturbed |-> @.disturbed]]
        /\ GoTo(w, IF a = 1 THEN "sent" ELSE "failed")
  BY DEF Dispatch
<1>3. row' = row /\ lock' = lock /\ hooks' = hooks
  BY DEF Dispatch
<1> HIDE DEF n
<1>4. /\ \A m \in Notifs \ {n} : log'[m] = log[m]
      /\ log'[n].attempts = log[n].attempts + 1 /\ log'[n].resets = log[n].resets
      /\ log'[n].disturbed = log[n].disturbed
      /\ log'[n].lost = log[n].lost + u /\ log'[n].sends = log[n].sends + a + u
  BY <1>1, <1>2, TypeParts DEF LogShape
<1>5. CASE a = 1
  <2>1. Moves(w, [at |-> "sent", on |-> n, seen |-> worker[w].seen])
    BY <1>1, <1>2, <1>5, GoToIsMove DEF Steps, Holding, n
  <2> QED
    BY <1>1, <1>3, <1>4, <1>5, <2>1 DEF n
<1>6. CASE a = 0
  <2>1. Moves(w, [at |-> "failed", on |-> n, seen |-> worker[w].seen])
    BY <1>1, <1>2, <1>6, GoToIsMove DEF Steps, Holding, n
  <2>2. log'[n].sends = log[n].sends + u
    BY <1>4, <1>6, RecordTypes, <1>1
  <2> QED
    BY <1>1, <1>3, <1>4, <2>1, <2>2 DEF n
<1> QED
  BY <1>5, <1>6

\* An accepted message marks its row.
LEMMA SentEffect ==
  ASSUME TypeOK, NEW w \in Workers, MarkSent(w)
  PROVE  LET n == worker[w].on IN
         /\ n \in Notifs /\ worker[w].at = "sent"
         /\ log' = log /\ lock' = lock /\ hooks' = hooks
         /\ row'[n].status = "SENT" /\ row'[n].retryCount = row[n].retryCount
         /\ row'[n].ref = TRUE
         /\ \A m \in Notifs \ {n} : row'[m] = row[m]
         /\ Moves(w, [at |-> "unlock", on |-> n, seen |-> worker[w].seen])
<1>1. worker[w].on \in Notifs /\ worker[w].at = "sent"
  BY WorkerTypes DEF MarkSent
<1>2. Moves(w, [at |-> "unlock", on |-> worker[w].on, seen |-> worker[w].seen])
  BY <1>1, GoToIsMove DEF MarkSent, Steps
<1> QED
  BY <1>1, <1>2, TypeParts DEF MarkSent, RowShape

\* A failure ends in the dead letter queue or in a retry.
LEMMA FailureEffect ==
  ASSUME TypeOK, NEW w \in Workers, HandleFailure(w)
  PROVE  LET n == worker[w].on IN
         /\ n \in Notifs /\ worker[w].at = "failed" /\ log' = log /\ lock' = lock
         /\ hooks' = hooks /\ row'[n].ref = row[n].ref
         /\ \A m \in Notifs \ {n} : row'[m] = row[m]
         /\ \/ /\ worker[w].seen + 1 >= MaxRetries /\ row'[n].status = "DLQ"
               /\ Moves(w, [at |-> "bury", on |-> n, seen |-> worker[w].seen])
            \/ /\ worker[w].seen + 1 < MaxRetries /\ row'[n].status = "RETRYING"
               /\ row'[n].retryCount = worker[w].seen + 1
               /\ Moves(w, [at |-> "backoff", on |-> n, seen |-> worker[w].seen])
<1> DEFINE n == worker[w].on
<1>1. n \in Notifs /\ worker[w].at = "failed" /\ worker[w].seen \in Nat
  BY WorkerTypes DEF HandleFailure
<1>2. log' = log /\ lock' = lock /\ hooks' = hooks
  BY DEF HandleFailure
<1>3. CASE worker[w].seen + 1 >= MaxRetries
  <2>1. row' = [row EXCEPT ![n].status = "DLQ"] /\ GoTo(w, "bury")
    BY <1>3 DEF HandleFailure
  <2> HIDE DEF n
  <2>2. /\ row'[n].status = "DLQ" /\ row'[n].ref = row[n].ref
        /\ \A m \in Notifs \ {n} : row'[m] = row[m]
    BY <1>1, <2>1, StatusWritten DEF Status
  <2> QED
    BY <1>1, <1>2, <1>3, <2>1, <2>2, GoToIsMove DEF Steps, Holding, n
<1>4. CASE ~(worker[w].seen + 1 >= MaxRetries)
  <2>1. /\ row' = [row EXCEPT ![n] = [status |-> "RETRYING", retryCount |-> worker[w].seen + 1,
                                      waiting |-> TRUE, ref |-> @.ref]]
        /\ GoTo(w, "backoff")
    BY <1>4 DEF HandleFailure
  <2>2. worker[w].seen + 1 < MaxRetries
    BY <1>1, <1>4, NotificationsAssumption
  <2> HIDE DEF n
  <2>3. /\ row'[n].status = "RETRYING" /\ row'[n].retryCount = worker[w].seen + 1
        /\ row'[n].ref = row[n].ref /\ \A m \in Notifs \ {n} : row'[m] = row[m]
    BY <1>1, <2>1, TypeParts
  <2> QED
    BY <1>1, <1>2, <2>1, <2>2, <2>3, GoToIsMove DEF Steps, Holding, n
<1> QED
  BY <1>3, <1>4

-----------------------------------------------------------------------------
(* Sends.  A message is sent by a worker whose claim took the notification  *)
(* out of the claimable statuses; only a failed attempt or a manual retry   *)
(* puts it back.                                                            *)

\* The workers that have claimed a notification and not sent it.
Carry(f, n) == {w \in Workers : f[w].on = n /\ f[w].at \in {"send", "failed"}}

One(b) == IF b THEN 1 ELSE 0

\* Sends, claims under way and the claim that may come are covered by the enqueue,
\* the manual retries and the answers that were lost.
Covered(n) ==
    log[n].sends + Cardinality(Carry(worker, n)) + One(row[n].status \in Claimable)
        <= One(row[n].status # "NONE") + log[n].resets + log[n].lost

SendsCovered == \A n \in Notifs : Covered(n)

\* The claims under way are as many as before, one more or one less.
LEMMA CarryMoves ==
  ASSUME NEW w \in Workers, NEW r, Moves(w, r), NEW n \in Notifs
  PROVE  /\ Cardinality(Carry(worker, n)) \in Nat
         /\ (w \in Carry(worker, n) <=> w \in Carry(worker', n)) =>
                Carry(worker', n) = Carry(worker, n)
         /\ w \notin Carry(worker, n) /\ w \in Carry(worker', n) =>
                Cardinality(Carry(worker', n)) = Cardinality(Carry(worker, n)) + 1
         /\ w \in Carry(worker, n) /\ w \notin Carry(worker', n) =>
                Cardinality(Carry(worker', n)) = Cardinality(Carry(worker, n)) - 1
<1> DEFINE C == Carry(worker, n)
           D == Carry(worker', n)
<1>1. IsFiniteSet(C) /\ Cardinality(C) \in Nat
  BY NotificationsAssumption, FS_Subset, FS_CardinalityType DEF Carry
<1>2. \A v \in Workers \ {w} : v \in C <=> v \in D
  BY DEF Moves, Carry
<1>3. C \subseteq Workers /\ D \subseteq Workers
  BY DEF Carry
<1> HIDE DEF C, D
<1>4. (w \in C <=> w \in D) => D = C
  BY <1>2, <1>3
<1>5. w \notin C /\ w \in D => D = C \cup {w}
  BY <1>2, <1>3
<1>6. w \in C /\ w \notin D => D = C \ {w}
  BY <1>2, <1>3
<1>7. w \notin C /\ w \in D => Cardinality(D) = Cardinality(C) + 1
  BY <1>1, <1>5, FS_AddElement
<1>8. w \in C /\ w \notin D => Cardinality(D) = Cardinality(C) - 1
  BY <1>1, <1>6, FS_RemoveElement
<1> QED
  BY <1>1, <1>4, <1>7, <1>8 DEF C, D

\* Claims under way are a number.
LEMMA CarryCounts ==
  ASSUME NEW n \in Notifs
  PROVE  Cardinality(Carry(worker, n)) \in Nat
BY NotificationsAssumption, FS_Subset, FS_CardinalityType DEF Carry

\* A step that leaves log and row, and moves a worker that carries nothing after.
LEMMA QuietMove ==
  ASSUME TypeOK, SendsCovered, log' = log, row' = row,
         NEW w \in Workers, NEW r, Moves(w, r), r.at \notin {"send", "failed"}
  PROVE  SendsCovered'
<1> SUFFICES ASSUME NEW n \in Notifs PROVE Covered(n)'
  BY DEF SendsCovered
<1>1. Covered(n)
  BY DEF SendsCovered
<1>2. w \notin Carry(worker', n)
  BY DEF Moves, Carry
<1>3. Cardinality(Carry(worker', n)) <= Cardinality(Carry(worker, n))
      /\ Cardinality(Carry(worker', n)) \in Int
  BY <1>2, CarryMoves
<1> QED
  BY <1>1, <1>3, CarryCounts, RecordTypes DEF Covered, One

\* A step that moves no worker.
LEMMA StillWorkers ==
  ASSUME TypeOK, SendsCovered, worker' = worker, NEW n \in Notifs,
         \A m \in Notifs \ {n} : row'[m] = row[m] /\ log'[m] = log[m],
         log'[n].sends = log[n].sends, log'[n].lost = log[n].lost,
         log'[n].resets \in {log[n].resets, log[n].resets + 1},
         \/ row'[n].status = row[n].status
         \/ row'[n].status # "NONE" /\ row'[n].status \notin Claimable
         \/ row'[n].status # "NONE" /\ row[n].status = "NONE"
         \/ row'[n].status # "NONE" /\ log'[n].resets = log[n].resets + 1
  PROVE  SendsCovered'
<1> SUFFICES ASSUME NEW m \in Notifs PROVE Covered(m)'
  BY DEF SendsCovered
<1>1. Covered(m) /\ Carry(worker', m) = Carry(worker, m)
  BY DEF SendsCovered, Carry
<1>2. CASE m # n
  BY <1>1, <1>2 DEF Covered
<1>3. CASE m = n
  <2>1. "NONE" \notin Claimable
    BY DEF Claimable
  <2> QED
    BY <1>1, <1>3, <2>1, CarryCounts, RecordTypes DEF Covered, One
<1> QED
  BY <1>2, <1>3

\* The steps outside the workers keep the sends covered.
LEMMA OutsideCovered ==
  ASSUME TypeOK, SendsCovered, NEW n \in Notifs,
         \/ Enqueue(n) \/ Schedule(n) \/ Retry(n) \/ RetryDlqJob(n)
         \/ BackoffEnds(n) \/ JobFallsDue(n) \/ CallerDies(n) \/ LockExpires(n)
         \/ HookFinds(n) \/ HookWrites(n)
  PROVE  SendsCovered'
<1>1. CASE Schedule(n) \/ RetryDlqJob(n) \/ JobFallsDue(n) \/ HookFinds(n)
  BY <1>1, StillWorkers DEF Schedule, RetryDlqJob, JobFallsDue, HookFinds
<1>2. CASE Enqueue(n)
  <2> DEFINE s == IF row[n].status = "NONE" THEN "QUEUED" ELSE row[n].status
  <2>1. row' = [row EXCEPT ![n].status = s]
    BY <1>2 DEF Enqueue
  <2>2. s \in Status
    BY RecordTypes DEF Status, Claimable
  <2>3. s = row[n].status \/ (s # "NONE" /\ row[n].status = "NONE")
    OBVIOUS
  <2> HIDE DEF s
  <2>4. row'[n].status = s /\ \A m \in Notifs \ {n} : row'[m] = row[m]
    BY <2>1, <2>2, StatusWritten
  <2>5. /\ \A m \in Notifs \ {n} : log'[m] = log[m]
        /\ log'[n].sends = log[n].sends /\ log'[n].lost = log[n].lost
        /\ log'[n].resets = log[n].resets
    BY <1>2, TypeParts DEF Enqueue, LogShape
  <2> QED
    BY <1>2, <2>3, <2>4, <2>5, StillWorkers DEF Enqueue
<1>3. CASE Retry(n)
  <2>1. row'[n].status = "QUEUED" /\ \A m \in Notifs \ {n} : row'[m] = row[m]
    BY <1>3, TypeParts DEF Retry
  <2>2. /\ \A m \in Notifs \ {n} : log'[m] = log[m]
        /\ log'[n].sends = log[n].sends /\ log'[n].lost = log[n].lost
        /\ log'[n].resets = log[n].resets + 1
    BY <1>3, TypeParts DEF Retry
  <2> QED
    BY <1>3, <2>1, <2>2, StillWorkers DEF Retry
<1>4. CASE BackoffEnds(n)
  <2>1. row'[n].status = row[n].status /\ \A m \in Notifs \ {n} : row'[m] = row[m]
    BY <1>4, TypeParts DEF BackoffEnds, RowShape
  <2> QED
    BY <1>4, <2>1, StillWorkers DEF BackoffEnds
<1>5. CASE CallerDies(n)
  <2>1. /\ \A m \in Notifs \ {n} : log'[m] = log[m]
        /\ log'[n].sends = log[n].sends /\ log'[n].lost = log[n].lost
        /\ log'[n].resets = log[n].resets
    BY <1>5, FaultMarks DEF CallerDies
  <2> QED
    BY <1>5, <2>1, StillWorkers DEF CallerDies
<1>6. CASE LockExpires(n)
  <2>1. /\ \A m \in Notifs \ {n} : log'[m] = log[m]
        /\ log'[n].sends = log[n].sends /\ log'[n].lost = log[n].lost
        /\ log'[n].resets = log[n].resets
    BY <1>6, TypeParts DEF LockExpires, LogShape
  <2> QED
    BY <1>6, <2>1, StillWorkers DEF LockExpires
<1>7. CASE HookWrites(n)
  <2>1. PICK s \in Reported : row' = [row EXCEPT ![n].status = s]
    BY <1>7 DEF HookWrites
  <2>2. s \in Status /\ s # "NONE" /\ s \notin Claimable
    BY DEF Status, Reported, Claimable
  <2>3. row'[n].status = s /\ \A m \in Notifs \ {n} : row'[m] = row[m]
    BY <2>1, <2>2, StatusWritten
  <2> QED
    BY <1>7, <2>2, <2>3, StillWorkers DEF HookWrites
<1> QED
  BY <1>1, <1>2, <1>3, <1>4, <1>5, <1>6, <1>7

\* The calls of a handler, the hand-out of jobs and the faults keep the sends covered.
LEMMA WorkersCovered ==
  ASSUME TypeOK, SendsCovered, NEW w \in Workers,
         HandlerStep(w) \/ JobStep(w) \/ Crash(w) \/ Stall(w) \/ Throw(w)
  PROVE  SendsCovered'
<1> DEFINE n == worker[w].on
<1>0. "NONE" \notin Claimable /\ "PROCESSING" \notin Claimable /\ "SENT" \notin Claimable
      /\ "DLQ" \notin Claimable
  BY DEF Claimable
<1>1. CASE Claim(w)
  <2> SUFFICES ASSUME NEW m \in Notifs PROVE Covered(m)'
    BY DEF SendsCovered
  <2>1. Covered(m) /\ w \notin Carry(worker, m)
    BY <1>1 DEF SendsCovered, Carry, Claim
  <2>2. CASE row[n].status \notin Claimable
    <3>1. row' = row /\ log' = log /\ Moves(w, [at |-> "unlock", on |-> n, seen |-> worker[w].seen])
      BY <1>1, <2>2, ClaimEffect
    <3> QED
      BY <3>1, QuietMove DEF SendsCovered
  <2>3. CASE row[n].status \in Claimable
    <3>1. /\ log' = log /\ row'[n].status = "PROCESSING"
          /\ \A k \in Notifs \ {n} : row'[k] = row[k]
          /\ Moves(w, [at |-> "send", on |-> n, seen |-> worker[w].seen])
      BY <1>1, <2>3, ClaimEffect
    <3>2. w \in Carry(worker', m) <=> m = n
      BY <3>1 DEF Moves, Carry
    <3>3. CASE m = n
      <4>1. Cardinality(Carry(worker', m)) = Cardinality(Carry(worker, m)) + 1
        BY <2>1, <3>1, <3>2, <3>3, CarryMoves
      <4> QED
        BY <1>0, <2>1, <2>3, <3>1, <3>3, <4>1, CarryCounts, RecordTypes DEF Covered, One
    <3>4. CASE m # n
      <4>1. Cardinality(Carry(worker', m)) = Cardinality(Carry(worker, m))
        BY <2>1, <3>1, <3>2, <3>4, CarryMoves
      <4> QED
        BY <2>1, <3>1, <3>4, <4>1 DEF Covered
    <3> QED
      BY <3>3, <3>4
  <2> QED
    BY <2>2, <2>3
<1>2. CASE Dispatch(w)
  <2> SUFFICES ASSUME NEW m \in Notifs PROVE Covered(m)'
    BY DEF SendsCovered
  <2>1. Covered(m) /\ (w \in Carry(worker, m) <=> m = n)
    BY <1>2 DEF SendsCovered, Carry, Dispatch
  <2>2. PICK u \in {0, 1} :
          /\ log'[n].lost = log[n].lost + u
          /\ \/ /\ log'[n].sends = log[n].sends + 1 + u
                /\ Moves(w, [at |-> "sent", on |-> n, seen |-> worker[w].seen])
             \/ /\ log'[n].sends = log[n].sends + u
                /\ Moves(w, [at |-> "failed", on |-> n, seen |-> worker[w].seen])
    BY <1>2, DispatchEffect
  <2>3. /\ n \in Notifs /\ row' = row /\ log'[n].resets = log[n].resets
        /\ \A k \in Notifs \ {n} : log'[k] = log[k]
    BY <1>2, DispatchEffect
  <2>4. /\ log[m].sends \in Nat /\ log[m].lost \in Nat /\ log[m].resets \in Nat
        /\ Cardinality(Carry(worker, m)) \in Nat
        /\ One(row[m].status \in Claimable) \in Nat /\ One(row[m].status # "NONE") \in Nat
    BY CarryCounts, RecordTypes DEF One
  <2>5. CASE log'[n].sends = log[n].sends + 1 + u
             /\ Moves(w, [at |-> "sent", on |-> n, seen |-> worker[w].seen])
    <3>1. w \notin Carry(worker', m)
      BY <2>5 DEF Moves, Carry
    <3>2. m = n => Cardinality(Carry(worker', m)) = Cardinality(Carry(worker, m)) - 1
      BY <2>1, <2>5, <3>1, CarryMoves
    <3>3. m # n => Cardinality(Carry(worker', m)) = Cardinality(Carry(worker, m))
      BY <2>1, <2>5, <3>1, CarryMoves
    <3>4. CASE m = n
      BY <2>1, <2>2, <2>3, <2>5, <2>4, <3>2, <3>4 DEF Covered
    <3>5. CASE m # n
      BY <2>1, <2>3, <3>3, <3>5 DEF Covered
    <3> QED
      BY <3>4, <3>5
  <2>6. CASE log'[n].sends = log[n].sends + u
             /\ Moves(w, [at |-> "failed", on |-> n, seen |-> worker[w].seen])
    <3>1. w \in Carry(worker', m) <=> m = n
      BY <2>6 DEF Moves, Carry
    <3>2. Carry(worker', m) = Carry(worker, m)
      BY <2>1, <2>6, <3>1, CarryMoves
    <3>3. CASE m = n
      BY <2>1, <2>2, <2>3, <2>6, <2>4, <3>2, <3>3 DEF Covered
    <3>4. CASE m # n
      BY <2>1, <2>3, <3>2, <3>4 DEF Covered
    <3> QED
      BY <3>3, <3>4
  <2> QED
    BY <2>2, <2>5, <2>6
<1>3. CASE MarkSent(w)
  <2> SUFFICES ASSUME NEW m \in Notifs PROVE Covered(m)'
    BY DEF SendsCovered
  <2>1. /\ n \in Notifs /\ log' = log /\ row'[n].status = "SENT"
        /\ \A k \in Notifs \ {n} : row'[k] = row[k]
        /\ Moves(w, [at |-> "unlock", on |-> n, seen |-> worker[w].seen])
    BY <1>3, SentEffect
  <2>2. Covered(m) /\ w \notin Carry(worker, m)
    BY <1>3 DEF SendsCovered, Carry, MarkSent
  <2>3. w \notin Carry(worker', m)
    BY <2>1 DEF Moves, Carry
  <2>4. Carry(worker', m) = Carry(worker, m)
    BY <2>1, <2>2, <2>3, CarryMoves
  <2>5. CASE m = n
    BY <1>0, <2>1, <2>2, <2>4, <2>5, CarryCounts, RecordTypes DEF Covered, One
  <2>6. CASE m # n
    BY <2>1, <2>2, <2>4, <2>6 DEF Covered
  <2> QED
    BY <2>5, <2>6
<1>4. CASE HandleFailure(w)
  <2> SUFFICES ASSUME NEW m \in Notifs PROVE Covered(m)'
    BY DEF SendsCovered
  <2>1. /\ n \in Notifs /\ log' = log /\ row'[n].status \in {"DLQ", "RETRYING"}
        /\ \A k \in Notifs \ {n} : row'[k] = row[k]
    BY <1>4, FailureEffect
  <2>2. Covered(m) /\ (w \in Carry(worker, m) <=> m = n)
    BY <1>4 DEF SendsCovered, Carry, HandleFailure
  <2>3. PICK at \in {"bury", "backoff"} : Moves(w, [at |-> at, on |-> n, seen |-> worker[w].seen])
    BY <1>4, FailureEffect
  <2>4. w \notin Carry(worker', m)
    BY <2>3 DEF Moves, Carry
  <2>5. CASE m = n
    <3>1. Cardinality(Carry(worker', m)) = Cardinality(Carry(worker, m)) - 1
      BY <2>2, <2>3, <2>4, <2>5, CarryMoves
    <3> QED
      BY <1>0, <2>1, <2>2, <2>5, <3>1, CarryCounts, RecordTypes DEF Covered, One
  <2>6. CASE m # n
    <3>1. Carry(worker', m) = Carry(worker, m)
      BY <2>2, <2>3, <2>4, <2>6, CarryMoves
    <3> QED
      BY <2>1, <2>2, <2>6, <3>1 DEF Covered
  <2> QED
    BY <2>5, <2>6
<1>5. CASE ReadRow(w)
  <2>1. PICK at \in {"unlock", "postpone", "claim"} :
          worker' = [worker EXCEPT ![w] = [at |-> at, on |-> n, seen |-> row[n].retryCount]]
    BY <1>5 DEF ReadRow
  <2>2. Moves(w, [at |-> at, on |-> n, seen |-> row[n].retryCount])
    BY <2>1, TypeParts DEF Moves
  <2> QED
    BY <1>5, <2>2, QuietMove DEF ReadRow
<1>6. CASE AddToDlq(w) \/ AddDelayed(w)
  <2>1. PICK at \in {"unlock", "rest"} : GoTo(w, at)
    BY <1>6 DEF AddToDlq, AddDelayed
  <2>2. worker[w].at # "idle" /\ at \in Steps \ {"idle"}
    BY <1>6 DEF AddToDlq, AddDelayed, Steps
  <2>3. Moves(w, [at |-> at, on |-> n, seen |-> worker[w].seen])
    BY <2>1, <2>2, GoToIsMove
  <2> QED
    BY <1>6, <2>3, QuietMove DEF AddToDlq, AddDelayed
<1>7. CASE Unlock(w)
  <2>1. Moves(w, Free)
    BY <1>7, TypeParts DEF Moves, Unlock, Free
  <2> QED
    BY <1>7, <2>1, QuietMove DEF Unlock, Free
<1>8. CASE JobStep(w)
  <2>1. PICK m \in Notifs : SkipJob(w, m) \/ TakeJob(w, m)
    BY <1>8 DEF JobStep
  <2>2. CASE SkipJob(w, m)
    BY <2>2, StillWorkers DEF SkipJob
  <2>3. CASE TakeJob(w, m)
    <3>1. Moves(w, [at |-> "read", on |-> m, seen |-> 0])
      BY <2>3, TypeParts DEF Moves, TakeJob
    <3> QED
      BY <2>3, <3>1, QuietMove DEF TakeJob
  <2> QED
    BY <2>1, <2>2, <2>3
<1>9. CASE Crash(w) \/ Stall(w) \/ Throw(w)
  <2>1. n \in Notifs /\ worker[w].at # "idle" /\ Fault(n) /\ row' = row
    BY <1>9, WorkerTypes DEF Crash, Stall, Throw, Holding
  <2>2. \A m \in Notifs : /\ log'[m].sends = log[m].sends /\ log'[m].lost = log[m].lost
                          /\ log'[m].resets = log[m].resets
    BY <2>1, FaultMarks
  <2>3. \A m \in Notifs : /\ Cardinality(Carry(worker', m)) \in Nat
                          /\ Cardinality(Carry(worker', m)) <= Cardinality(Carry(worker, m))
    <3>1. CASE worker' = worker
      BY <3>1, CarryCounts
    <3>2. CASE \E r : r.at \notin {"send", "failed"} /\ Moves(w, r)
      <4> SUFFICES ASSUME NEW m \in Notifs
                   PROVE /\ Cardinality(Carry(worker', m)) \in Nat
                         /\ Cardinality(Carry(worker', m)) <= Cardinality(Carry(worker, m))
        OBVIOUS
      <4>1. PICK r : r.at \notin {"send", "failed"} /\ Moves(w, r)
        BY <3>2
      <4>2. w \notin Carry(worker', m)
        BY <4>1 DEF Moves, Carry
      <4>3. Carry(worker', m) \subseteq Carry(worker, m)
        BY <4>1, <4>2 DEF Moves, Carry
      <4>4. IsFiniteSet(Carry(worker, m))
        BY NotificationsAssumption, FS_Subset DEF Carry
      <4> QED
        BY <4>3, <4>4, FS_Subset, FS_CardinalityType
    <3>3. CASE Throw(w)
      <4>1. Moves(w, [at |-> "unlock", on |-> n, seen |-> worker[w].seen])
        BY <2>1, <3>3, GoToIsMove DEF Throw, Steps
      <4> QED
        BY <4>1, <3>2
    <3>4. CASE Crash(w)
      <4>1. Moves(w, Free)
        BY <3>4, TypeParts DEF Crash, Moves, Free
      <4> QED
        BY <4>1, <3>2 DEF Free
    <3> QED
      BY <1>9, <3>1, <3>3, <3>4 DEF Stall
  <2> HIDE DEF n
  <2> SUFFICES ASSUME NEW m \in Notifs PROVE Covered(m)'
    BY DEF SendsCovered
  <2>4. Covered(m)
    BY DEF SendsCovered
  <2> QED
    BY <2>1, <2>2, <2>3, <2>4, CarryCounts, RecordTypes DEF Covered, One
<1> QED
  BY <1>1, <1>2, <1>3, <1>4, <1>5, <1>6, <1>7, <1>8, <1>9 DEF HandlerStep

\* Nothing is sent at the start.
LEMMA InitCovered == Init => SendsCovered
<1> SUFFICES ASSUME Init, NEW n \in Notifs PROVE Covered(n)
  BY DEF SendsCovered
<1>1. Carry(worker, n) = {}
  BY DEF Init, Carry
<1>2. Cardinality(Carry(worker, n)) = 0
  BY <1>1, FS_EmptySet
<1> QED
  BY <1>2 DEF Init, Covered, One, Claimable

\* What a notification sends is accounted for, whatever the number of workers,
\* repeated calls, redeliveries and faults: SendsAccounted of Notifications.
THEOREM SendsAreAccounted == Spec => []SendsAccounted
<1>1. SendsCovered /\ TypeOK => SendsAccounted
  <2> SUFFICES ASSUME SendsCovered, TypeOK, NEW n \in Notifs
               PROVE log[n].sends <= 1 + log[n].resets + log[n].lost
    BY DEF SendsAccounted
  <2> QED
    BY CarryCounts, RecordTypes DEF SendsCovered, Covered, One
<1>2. TypeOK /\ SendsCovered /\ [Next]_vars => SendsCovered'
  <2>1. ASSUME SendsCovered, UNCHANGED vars PROVE SendsCovered'
    BY <2>1 DEF SendsCovered, Covered, Carry, vars
  <2> QED
    BY <2>1, OutsideCovered, WorkersCovered DEF Next
<1> QED
  BY <1>1, <1>2, InitCovered, TypeCorrect, PTL DEF Spec

-----------------------------------------------------------------------------
(* Retries.  As long as nothing disturbs a notification its lock admits one *)
(* worker at a time, so that the count read before the claim is still the   *)
(* count when the failure is recorded.                                      *)

\* The count of retries is the count of attempts, until the last one.
CountKept(n) ==
    /\ log[n].attempts <= MaxRetries
    /\ row[n].status \in Claimable \cup {"NONE"} =>
          log[n].attempts = row[n].retryCount /\ row[n].retryCount < MaxRetries
    /\ row[n].status = "DLQ" => log[n].attempts = MaxRetries

\* Only a sent message has a reference, and only a reference finds a webhook.
SentIsReferred(n) ==
    /\ n \in hooks => row[n].ref
    /\ row[n].ref => row[n].status \in Terminal \cup Reported

\* What the worker at a notification knows of it.
HandlerKnows(w, n) ==
    worker[w].on = n =>
        /\ lock[n]
        /\ \A v \in Workers : worker[v].on = n => v = w
        /\ worker[w].at = "claim" => worker[w].seen = row[n].retryCount
        /\ worker[w].at = "send" =>
              /\ row[n].status = "PROCESSING"
              /\ log[n].attempts = worker[w].seen /\ worker[w].seen < MaxRetries
        /\ worker[w].at \in {"sent", "failed"} =>
              /\ row[n].status = "PROCESSING"
              /\ log[n].attempts = worker[w].seen + 1

Orderly(n) == CountKept(n) /\ SentIsReferred(n) /\ \A w \in Workers : HandlerKnows(w, n)

Undisturbed == \A n \in Notifs : ~log[n].disturbed => Orderly(n)

\* A notification whose records and workers a step leaves alone stays in order.
LEMMA OrderElsewhere ==
  ASSUME TypeOK, Undisturbed, NEW m \in Notifs, row'[m] = row[m], log'[m] = log[m],
         lock'[m] = lock[m], m \in hooks' => m \in hooks,
         \A v \in Workers : worker'[v].on = m => worker'[v] = worker[v]
  PROVE  ~log'[m].disturbed => Orderly(m)'
<1> SUFFICES ASSUME ~log'[m].disturbed PROVE Orderly(m)'
  OBVIOUS
<1>1. Orderly(m)
  BY DEF Undisturbed
<1>2. CountKept(m)' /\ SentIsReferred(m)'
  BY <1>1 DEF Orderly, CountKept, SentIsReferred
<1>3. \A w \in Workers : HandlerKnows(w, m)'
  BY <1>1 DEF Orderly, HandlerKnows
<1> QED
  BY <1>2, <1>3 DEF Orderly

\* A step that changes nothing but queues keeps the order.
LEMMA OrderStays ==
  ASSUME TypeOK, Undisturbed, UNCHANGED <<row, log, lock, worker, hooks>>
  PROVE  Undisturbed'
BY OrderElsewhere DEF Undisturbed

\* The worker at a notification moves, and its row, log and lock with it.
LEMMA OrderHere ==
  ASSUME TypeOK, Undisturbed, NEW w \in Workers, NEW n \in Notifs, worker[w].on = n, NEW r,
         r.on = n, Moves(w, r), lock' = lock, hooks' = hooks,
         \A m \in Notifs \ {n} : row'[m] = row[m] /\ log'[m] = log[m],
         log'[n].disturbed = log[n].disturbed,
         ~log[n].disturbed =>
            /\ CountKept(n)' /\ SentIsReferred(n)'
            /\ r.at = "claim" => r.seen = row'[n].retryCount
            /\ r.at = "send" =>
                  /\ row'[n].status = "PROCESSING"
                  /\ log'[n].attempts = r.seen /\ r.seen < MaxRetries
            /\ r.at \in {"sent", "failed"} =>
                  /\ row'[n].status = "PROCESSING"
                  /\ log'[n].attempts = r.seen + 1
  PROVE  Undisturbed'
<1> SUFFICES ASSUME NEW m \in Notifs PROVE ~log'[m].disturbed => Orderly(m)'
  BY DEF Undisturbed
<1>1. CASE m # n
  <2>1. \A v \in Workers : worker'[v].on = m => worker'[v] = worker[v]
    BY <1>1 DEF Moves
  <2> QED
    BY <1>1, <2>1, OrderElsewhere
<1>2. CASE m = n
  <2> SUFFICES ASSUME ~log'[m].disturbed PROVE Orderly(m)'
    OBVIOUS
  <2>1. Orderly(m) /\ ~log[m].disturbed
    BY <1>2 DEF Undisturbed
  <2>2. lock[m] /\ \A v \in Workers : worker[v].on = m => v = w
    BY <1>2, <2>1 DEF Orderly, HandlerKnows
  <2>3. \A v \in Workers : worker'[v].on = m => v = w
    BY <1>2, <2>2 DEF Moves
  <2>4. \A v \in Workers \ {w} : HandlerKnows(v, m)'
    BY <2>3 DEF HandlerKnows
  <2>5. worker'[w] = r /\ r.on = m /\ lock'[m] = lock[m]
    BY <1>2 DEF Moves
  <2>6. HandlerKnows(w, m)'
    BY <1>2, <2>1, <2>2, <2>3, <2>5 DEF HandlerKnows
  <2>7. CountKept(m)' /\ SentIsReferred(m)'
    BY <1>2, <2>1
  <2> QED
    BY <2>4, <2>6, <2>7 DEF Orderly
<1> QED
  BY <1>1, <1>2

\* A step of no worker changes the row of a notification or the hooks.
LEMMA OrderOutside ==
  ASSUME TypeOK, Undisturbed, NEW n \in Notifs, worker' = worker, lock' = lock,
         \A m \in Notifs \ {n} : /\ row'[m] = row[m] /\ log'[m] = log[m]
                                 /\ m \in hooks' => m \in hooks,
         log'[n].attempts = log[n].attempts, log'[n].disturbed = log[n].disturbed,
         row'[n].retryCount = row[n].retryCount,
         row[n].status = "PROCESSING" /\ ~log[n].disturbed /\ Orderly(n) =>
            row'[n].status = "PROCESSING",
         ~log[n].disturbed /\ Orderly(n) => CountKept(n)' /\ SentIsReferred(n)'
  PROVE  Undisturbed'
<1> SUFFICES ASSUME NEW m \in Notifs PROVE ~log'[m].disturbed => Orderly(m)'
  BY DEF Undisturbed
<1>1. CASE m # n
  BY <1>1, OrderElsewhere
<1>2. CASE m = n
  <2> SUFFICES ASSUME ~log'[m].disturbed PROVE Orderly(m)'
    OBVIOUS
  <2>1. Orderly(m) /\ ~log[m].disturbed
    BY <1>2 DEF Undisturbed
  <2>2. \A v \in Workers : HandlerKnows(v, m)'
    BY <1>2, <2>1 DEF Orderly, HandlerKnows
  <2> QED
    BY <1>2, <2>1, <2>2 DEF Orderly
<1> QED
  BY <1>1, <1>2

\* The steps outside the workers keep the order.
LEMMA OutsideOrdered ==
  ASSUME TypeOK, Undisturbed, NEW n \in Notifs,
         \/ Enqueue(n) \/ Schedule(n) \/ Retry(n) \/ RetryDlqJob(n)
         \/ BackoffEnds(n) \/ JobFallsDue(n) \/ CallerDies(n) \/ LockExpires(n)
         \/ HookFinds(n) \/ HookWrites(n)
  PROVE  Undisturbed'
<1>1. CASE Schedule(n) \/ RetryDlqJob(n) \/ JobFallsDue(n)
  BY <1>1, OrderStays DEF Schedule, RetryDlqJob, JobFallsDue
<1>2. CASE Enqueue(n)
  <2> DEFINE s == IF row[n].status = "NONE" THEN "QUEUED" ELSE row[n].status
  <2>1. row' = [row EXCEPT ![n].status = s]
    BY <1>2 DEF Enqueue
  <2>2. s \in Status /\ (row[n].status # "NONE" => s = row[n].status)
        /\ (row[n].status = "NONE" => s \in Claimable)
    BY RecordTypes DEF Status, Claimable
  <2> HIDE DEF s
  <2>3. /\ row'[n].status = s /\ \A m \in Notifs \ {n} : row'[m] = row[m]
        /\ row'[n].retryCount = row[n].retryCount /\ row'[n].ref = row[n].ref
    BY <2>1, <2>2, StatusWritten
  <2>4. /\ \A m \in Notifs \ {n} : log'[m] = log[m]
        /\ log'[n].attempts = log[n].attempts /\ log'[n].disturbed = log[n].disturbed
    BY <1>2, TypeParts DEF Enqueue, LogShape
  <2>5. "NONE" \notin Terminal \cup Reported /\ "DLQ" \notin Claimable
    BY DEF Terminal, Reported, Claimable
  <2>6. hooks' = hooks /\ worker' = worker /\ lock' = lock
    BY <1>2 DEF Enqueue
  <2>7. Orderly(n) => CountKept(n)' /\ SentIsReferred(n)'
    BY <2>2, <2>3, <2>4, <2>5, <2>6 DEF Orderly, CountKept, SentIsReferred
  <2> QED
    BY <2>2, <2>3, <2>4, <2>6, <2>7, OrderOutside
<1>3. CASE Retry(n) \/ CallerDies(n) \/ LockExpires(n)
  <2>1. log'[n].disturbed /\ \A m \in Notifs \ {n} : log'[m] = log[m]
    <3>1. CASE Retry(n)
      BY <3>1, TypeParts DEF Retry
    <3>2. CASE CallerDies(n)
      BY <3>2, FaultMarks DEF CallerDies
    <3>3. CASE LockExpires(n)
      BY <3>3, TypeParts DEF LockExpires, LogShape
    <3> QED
      BY <1>3, <3>1, <3>2, <3>3
  <2>2. /\ \A m \in Notifs \ {n} : row'[m] = row[m] /\ lock'[m] = lock[m]
        /\ worker' = worker /\ hooks' = hooks
    BY <1>3, TypeParts DEF Retry, CallerDies, LockExpires, Fault
  <2> SUFFICES ASSUME NEW m \in Notifs PROVE ~log'[m].disturbed => Orderly(m)'
    BY DEF Undisturbed
  <2> QED
    BY <2>1, <2>2, OrderElsewhere
<1>4. CASE BackoffEnds(n)
  <2>1. /\ row'[n].status = row[n].status /\ row'[n].retryCount = row[n].retryCount
        /\ row'[n].ref = row[n].ref /\ \A m \in Notifs \ {n} : row'[m] = row[m]
    BY <1>4, TypeParts DEF BackoffEnds, RowShape
  <2>2. log' = log /\ hooks' = hooks /\ worker' = worker /\ lock' = lock
    BY <1>4 DEF BackoffEnds
  <2>3. Orderly(n) => CountKept(n)' /\ SentIsReferred(n)'
    BY <2>1, <2>2 DEF Orderly, CountKept, SentIsReferred
  <2> QED
    BY <2>1, <2>2, <2>3, OrderOutside
<1>5. CASE HookFinds(n)
  <2>1. /\ row' = row /\ log' = log /\ worker' = worker /\ lock' = lock
        /\ hooks' = hooks \cup {n} /\ row[n].ref
    BY <1>5 DEF HookFinds
  <2>2. Orderly(n) => CountKept(n)' /\ SentIsReferred(n)'
    BY <2>1 DEF Orderly, CountKept, SentIsReferred
  <2> QED
    BY <2>1, <2>2, OrderOutside
<1>6. CASE HookWrites(n)
  <2>1. PICK s \in Reported : row' = [row EXCEPT ![n].status = s]
    BY <1>6 DEF HookWrites
  <2>2. /\ s \in Status /\ s \notin Claimable \cup {"NONE", "DLQ"}
        /\ "PROCESSING" \notin Terminal \cup Reported
    BY DEF Status, Reported, Claimable, Terminal
  <2>3. /\ row'[n].status = s /\ \A m \in Notifs \ {n} : row'[m] = row[m]
        /\ row'[n].retryCount = row[n].retryCount /\ row'[n].ref = row[n].ref
    BY <2>1, <2>2, StatusWritten
  <2>4. log' = log /\ hooks' = hooks \ {n} /\ n \in hooks /\ worker' = worker /\ lock' = lock
    BY <1>6 DEF HookWrites
  <2>5. Orderly(n) => CountKept(n)' /\ SentIsReferred(n)' /\ row[n].status # "PROCESSING"
    BY <2>2, <2>3, <2>4 DEF Orderly, CountKept, SentIsReferred
  <2> QED
    BY <2>3, <2>4, <2>5, OrderOutside
<1> QED
  BY <1>1, <1>2, <1>3, <1>4, <1>5, <1>6

\* The calls of a handler, the hand-out of jobs and the faults keep the order.
LEMMA WorkersOrdered ==
  ASSUME TypeOK, Undisturbed, NEW w \in Workers,
         HandlerStep(w) \/ JobStep(w) \/ Crash(w) \/ Stall(w) \/ Throw(w)
  PROVE  Undisturbed'
<1>n. PICK n : worker[w].on = n
  OBVIOUS
<1> USE <1>n
<1>0. worker[w].at # "idle" => n \in Notifs
  BY WorkerTypes
<1>a. n \in Notifs /\ ~log[n].disturbed => Orderly(n) /\ HandlerKnows(w, n)
  BY DEF Undisturbed, Orderly
<1>1. CASE ReadRow(w)
  <2>1. PICK at \in {"unlock", "postpone", "claim"} :
          worker' = [worker EXCEPT ![w] = [at |-> at, on |-> n, seen |-> row[n].retryCount]]
    BY <1>1 DEF ReadRow
  <2> DEFINE r == [at |-> at, on |-> n, seen |-> row[n].retryCount]
  <2>2. Moves(w, r) /\ n \in Notifs
    BY <1>0, <1>1, <2>1, TypeParts DEF Moves, ReadRow
  <2>3. row' = row /\ log' = log /\ lock' = lock /\ hooks' = hooks
    BY <1>1 DEF ReadRow
  <2>4. ~log[n].disturbed => CountKept(n)' /\ SentIsReferred(n)'
    BY <1>a, <2>2, <2>3 DEF Orderly, CountKept, SentIsReferred
  <2> QED
    BY <2>2, <2>3, <2>4, OrderHere
<1>2. CASE Claim(w)
  <2>1. n \in Notifs /\ worker[w].at = "claim" /\ log' = log /\ lock' = lock /\ hooks' = hooks
    BY <1>2, ClaimEffect
  <2>2. CASE row[n].status \notin Claimable
    <3>1. row' = row /\ Moves(w, [at |-> "unlock", on |-> n, seen |-> worker[w].seen])
      BY <1>2, <2>2, ClaimEffect
    <3>2. ~log[n].disturbed => CountKept(n)' /\ SentIsReferred(n)'
      BY <1>a, <2>1, <3>1 DEF Orderly, CountKept, SentIsReferred
    <3> QED
      BY <2>1, <3>1, <3>2, OrderHere
  <2>3. CASE row[n].status \in Claimable
    <3>1. /\ row'[n].status = "PROCESSING" /\ row'[n].ref = row[n].ref
          /\ \A m \in Notifs \ {n} : row'[m] = row[m]
          /\ Moves(w, [at |-> "send", on |-> n, seen |-> worker[w].seen])
      BY <1>2, <2>3, ClaimEffect
    <3>2. ~log[n].disturbed => /\ log[n].attempts = worker[w].seen
                              /\ worker[w].seen < MaxRetries /\ ~row[n].ref
      BY <1>a, <2>1, <2>3 DEF Orderly, CountKept, SentIsReferred, HandlerKnows, Claimable,
                             Terminal, Reported
    <3>3. ~log[n].disturbed => CountKept(n)' /\ SentIsReferred(n)'
      BY <1>a, <2>1, <3>1, <3>2 DEF Orderly, CountKept, SentIsReferred, Claimable
    <3> QED
      BY <2>1, <3>1, <3>2, <3>3, OrderHere
  <2> QED
    BY <2>2, <2>3
<1>3. CASE Dispatch(w)
  <2>1. /\ n \in Notifs /\ worker[w].at = "send" /\ row' = row /\ lock' = lock
        /\ hooks' = hooks /\ \A m \in Notifs \ {n} : log'[m] = log[m]
        /\ log'[n].attempts = log[n].attempts + 1
        /\ log'[n].disturbed = log[n].disturbed
    BY <1>3, DispatchEffect
  <2>2. PICK at \in {"sent", "failed"} :
          Moves(w, [at |-> at, on |-> n, seen |-> worker[w].seen])
    BY <1>3, DispatchEffect
  <2>3. ~log[n].disturbed => /\ row[n].status = "PROCESSING"
                            /\ log[n].attempts = worker[w].seen /\ worker[w].seen < MaxRetries
    BY <1>a, <2>1 DEF HandlerKnows
  <2>4. MaxRetries \in Nat /\ log[n].attempts \in Nat
    BY <2>1, NotificationsAssumption, RecordTypes
  <2>5. ~log[n].disturbed => CountKept(n)' /\ SentIsReferred(n)'
    BY <1>a, <2>1, <2>3, <2>4 DEF Orderly, CountKept, SentIsReferred, Claimable
  <2> QED
    BY <2>1, <2>2, <2>3, <2>5, OrderHere
<1>4. CASE MarkSent(w)
  <2>1. /\ n \in Notifs /\ worker[w].at = "sent" /\ log' = log /\ lock' = lock
        /\ hooks' = hooks /\ row'[n].status = "SENT" /\ row'[n].ref = TRUE
        /\ \A m \in Notifs \ {n} : row'[m] = row[m]
        /\ Moves(w, [at |-> "unlock", on |-> n, seen |-> worker[w].seen])
    BY <1>4, SentEffect
  <2>2. ~log[n].disturbed => CountKept(n)' /\ SentIsReferred(n)'
    BY <1>a, <2>1 DEF Orderly, CountKept, SentIsReferred, Claimable, Terminal
  <2> QED
    BY <2>1, <2>2, OrderHere
<1>5. CASE HandleFailure(w)
  <2>1. /\ n \in Notifs /\ worker[w].at = "failed" /\ log' = log /\ lock' = lock
        /\ hooks' = hooks /\ row'[n].ref = row[n].ref
        /\ \A m \in Notifs \ {n} : row'[m] = row[m]
    BY <1>5, FailureEffect
  <2>2. ~log[n].disturbed => /\ row[n].status = "PROCESSING" /\ ~row[n].ref
                            /\ log[n].attempts = worker[w].seen + 1
                            /\ log[n].attempts <= MaxRetries
    BY <1>a, <2>1 DEF HandlerKnows, Orderly, CountKept, SentIsReferred, Terminal, Reported
  <2>3. MaxRetries \in Nat /\ log[n].attempts \in Nat
    BY <2>1, NotificationsAssumption, RecordTypes
  <2>4. CASE worker[w].seen + 1 >= MaxRetries /\ row'[n].status = "DLQ"
             /\ Moves(w, [at |-> "bury", on |-> n, seen |-> worker[w].seen])
    <3>1. ~log[n].disturbed => CountKept(n)' /\ SentIsReferred(n)'
      BY <1>a, <2>1, <2>2, <2>3, <2>4 DEF Orderly, CountKept, SentIsReferred, Claimable
    <3> QED
      BY <2>1, <2>4, <3>1, OrderHere
  <2>5. CASE worker[w].seen + 1 < MaxRetries /\ row'[n].status = "RETRYING"
             /\ row'[n].retryCount = worker[w].seen + 1
             /\ Moves(w, [at |-> "backoff", on |-> n, seen |-> worker[w].seen])
    <3>1. ~log[n].disturbed => CountKept(n)' /\ SentIsReferred(n)'
      BY <1>a, <2>1, <2>2, <2>3, <2>5 DEF Orderly, CountKept, SentIsReferred, Claimable
    <3> QED
      BY <2>1, <2>5, <3>1, OrderHere
  <2> QED
    BY <1>5, <2>4, <2>5, FailureEffect
<1>6. CASE AddToDlq(w) \/ AddDelayed(w)
  <2>1. PICK at \in {"unlock", "rest"} : GoTo(w, at)
    BY <1>6 DEF AddToDlq, AddDelayed
  <2>2. worker[w].at # "idle" /\ at \in Steps \ {"idle"}
    BY <1>6 DEF AddToDlq, AddDelayed, Steps
  <2>3. Moves(w, [at |-> at, on |-> n, seen |-> worker[w].seen])
    BY <2>1, <2>2, GoToIsMove
  <2>4. row' = row /\ log' = log /\ lock' = lock /\ hooks' = hooks /\ n \in Notifs
    BY <1>0, <1>6, <2>2 DEF AddToDlq, AddDelayed
  <2>5. ~log[n].disturbed => CountKept(n)' /\ SentIsReferred(n)'
    BY <1>a, <2>4 DEF Orderly, CountKept, SentIsReferred
  <2> QED
    BY <2>3, <2>4, <2>5, OrderHere
<1>7. CASE Unlock(w)
  <2>1. /\ n \in Notifs /\ Moves(w, Free) /\ row' = row /\ log' = log /\ hooks' = hooks
        /\ \A m \in Notifs \ {n} : lock'[m] = lock[m]
    BY <1>0, <1>7, TypeParts DEF Unlock, Moves, Free
  <2> SUFFICES ASSUME NEW m \in Notifs, ~log'[m].disturbed PROVE Orderly(m)'
    BY DEF Undisturbed
  <2>2. Orderly(m)
    BY <2>1 DEF Undisturbed
  <2>3. m # NoNotif
    BY NotificationsAssumption
  <2>4. CASE m # n
    <3>1. \A v \in Workers : worker'[v].on = m => worker'[v] = worker[v]
      BY <2>1, <2>3 DEF Moves, Free
    <3> QED
      BY <2>1, <2>4, <3>1, OrderElsewhere
  <2>5. CASE m = n
    <3>1. \A v \in Workers : worker'[v].on # m
      BY <2>1, <2>2, <2>3, <2>5 DEF Orderly, HandlerKnows, Moves, Free
    <3> QED
      BY <2>1, <2>2, <3>1 DEF Orderly, CountKept, SentIsReferred, HandlerKnows
  <2> QED
    BY <2>4, <2>5
<1>8. CASE JobStep(w)
  <2>1. PICK k \in Notifs : SkipJob(w, k) \/ TakeJob(w, k)
    BY <1>8 DEF JobStep
  <2>2. CASE SkipJob(w, k)
    BY <2>2, OrderStays DEF SkipJob
  <2>3. CASE TakeJob(w, k)
    <3> DEFINE r == [at |-> "read", on |-> k, seen |-> 0]
    <3>1. /\ Moves(w, r) /\ row' = row /\ log' = log /\ hooks' = hooks /\ ~lock[k]
          /\ lock'[k] /\ \A m \in Notifs \ {k} : lock'[m] = lock[m]
      BY <2>3, TypeParts DEF TakeJob, Moves
    <3> SUFFICES ASSUME NEW m \in Notifs, ~log'[m].disturbed PROVE Orderly(m)'
      BY DEF Undisturbed
    <3>2. Orderly(m)
      BY <3>1 DEF Undisturbed
    <3>3. CASE m # k
      <4>1. \A v \in Workers : worker'[v].on = m => worker'[v] = worker[v]
        BY <3>1, <3>3 DEF Moves
      <4> QED
        BY <3>1, <3>3, <4>1, OrderElsewhere
    <3>4. CASE m = k
      <4>1. \A v \in Workers : worker[v].on # m
        BY <3>1, <3>2, <3>4 DEF Orderly, HandlerKnows
      <4>2. \A v \in Workers : worker'[v].on = m => v = w
        BY <3>1, <4>1 DEF Moves
      <4>3. \A v \in Workers : HandlerKnows(v, m)'
        BY <3>1, <3>4, <4>2 DEF HandlerKnows, Moves
      <4> QED
        BY <3>1, <3>2, <4>3 DEF Orderly, CountKept, SentIsReferred
    <3> QED
      BY <3>3, <3>4
  <2> QED
    BY <2>1, <2>2, <2>3
<1>9. CASE Crash(w) \/ Stall(w) \/ Throw(w)
  <2>1. n \in Notifs /\ worker[w].at # "idle" /\ Fault(n) /\ row' = row /\ lock' = lock
    BY <1>9, WorkerTypes DEF Crash, Stall, Throw, Holding
  <2>2. /\ log'[n].disturbed /\ \A m \in Notifs \ {n} : log'[m] = log[m]
        /\ hooks' = hooks
    BY <2>1, FaultMarks
  <2>3. \A m \in Notifs \ {n} : \A v \in Workers : worker'[v].on = m => worker'[v] = worker[v]
    <3>1. CASE Throw(w)
      <4>1. Moves(w, [at |-> "unlock", on |-> n, seen |-> worker[w].seen])
        BY <2>1, <3>1, GoToIsMove DEF Throw, Steps
      <4> QED
        BY <4>1 DEF Moves
    <3>2. CASE Crash(w)
      BY <3>2, TypeParts, NotificationsAssumption DEF Crash
    <3>3. CASE Stall(w)
      BY <3>3 DEF Stall
    <3> QED
      BY <1>9, <3>1, <3>2, <3>3
  <2> SUFFICES ASSUME NEW m \in Notifs PROVE ~log'[m].disturbed => Orderly(m)'
    BY DEF Undisturbed
  <2> QED
    BY <2>1, <2>2, <2>3, OrderElsewhere
<1> QED
  BY <1>1, <1>2, <1>3, <1>4, <1>5, <1>6, <1>7, <1>8, <1>9 DEF HandlerStep

\* The start is in order.
LEMMA InitOrdered == Init => Undisturbed
<1> SUFFICES ASSUME Init, NEW n \in Notifs PROVE Orderly(n)
  BY DEF Undisturbed
<1>1. CountKept(n)
  BY NotificationsAssumption DEF Init, CountKept, Claimable
<1>2. SentIsReferred(n)
  BY DEF Init, SentIsReferred
<1>3. \A w \in Workers : HandlerKnows(w, n)
  BY NotificationsAssumption DEF Init, HandlerKnows
<1> QED
  BY <1>1, <1>2, <1>3 DEF Orderly

\* A notification that nothing disturbs has as many attempts as it may have, however
\* many workers and jobs there are: RetriesBounded of Notifications.
THEOREM RetriesAreBounded == Spec => []RetriesBounded
<1>1. Undisturbed => RetriesBounded
  BY DEF Undisturbed, Orderly, CountKept, RetriesBounded
<1>2. TypeOK /\ Undisturbed /\ [Next]_vars => Undisturbed'
  <2>1. ASSUME TypeOK, Undisturbed, UNCHANGED vars PROVE Undisturbed'
    BY <2>1, OrderStays DEF vars
  <2> QED
    BY <2>1, OutsideOrdered, WorkersOrdered DEF Next
<1> QED
  BY <1>1, <1>2, InitOrdered, TypeCorrect, PTL DEF Spec
=============================================================================
