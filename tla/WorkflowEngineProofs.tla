------------------------- MODULE WorkflowEngineProofs -------------------------
(***************************************************************************)
(* Theorems about WorkflowEngine, for every definition, every number of     *)
(* processes and every number of faults: types, that steps take effect once *)
(* and along the definition, and that the engine implements WorkflowWalk.   *)
(*                                                                         *)
(* StepsRunOnce is not inductive.  What carries it is that a claim is taken *)
(* from an execution that is PENDING and never given back: the process that *)
(* has it is the only one (Held), and an execution that was ever claimed is *)
(* neither missing nor PENDING again.  For the order of the steps, whatever *)
(* names a step (an execution, a process, the instance) names one that was  *)
(* reached (Reached).                                                       *)
(***************************************************************************)
EXTENDS WorkflowEngine, FiniteSetTheorems, TLAPS

ProcRows == [at : Calls, on : Steps \cup {NoStep}, next : Steps \cup {NoStep}]
JobCounts == [ready : Nat, delayed : Nat]

\* What a process is at says what it has: a step it executes, a step it schedules.
ProcOK(r) ==
    /\ r.at \in {"idle", "begin", "resume"} => r.on = NoStep
    /\ r.at \in Executing => r.on # NoStep
    /\ r.at \in Scheduling \cup {"resume", "park", "delay"} => r.next # NoStep
    /\ r.at = "complete" /\ Kind[r.on] # "COMPLETE" => r.next # NoStep

TypeInv == TypeOK /\ \A p \in Procs : ProcOK(proc[p])

Claimed(k) == exec[k] \notin {"NONE", "PENDING"}

\* A process past its claim has the step to itself, and takes effect once.
Held ==
    \A p \in Procs : proc[p].on # NoStep /\ proc[p].at # "claim" =>
        /\ Claimed(proc[p].on)
        /\ proc[p].at \in {"enter", "run"} => ran[proc[p].on] = 0
        /\ \A q \in Procs : proc[q].at # "claim" /\ proc[q].on = proc[p].on => q = p

Effects ==
    \A k \in Steps :
        /\ ran[k] <= 1
        /\ ran[k] > 0 => Claimed(k)
        /\ ran[k] = 0 => chosen[k] = {}
        /\ chosen[k] = {} \/ \E j \in Steps : chosen[k] = {j}

Reached(k) == k = StartAt \/ \E j \in Steps : ran[j] > 0 /\ k \in chosen[j]

NamesReached ==
    /\ \A k \in Steps : exec[k] # "NONE" => Reached(k)
    /\ \A p \in Procs : proc[p].next # NoStep => Reached(proc[p].next)
    /\ instance.current # NoStep => Reached(instance.current)

EngineInv == TypeInv /\ Held /\ Effects /\ NamesReached

-----------------------------------------------------------------------------
(* The helpers of the actions, as facts about single processes and counts.   *)

\* What GoOn makes of a process, and leaves of the others.
LEMMA GoOnMoves ==
  ASSUME TypeInv, NEW p \in Procs, NEW at \in Calls, NEW next \in Steps \cup {NoStep},
         GoOn(p, at, next), ProcOK([at |-> at, on |-> proc[p].on, next |-> next])
  PROVE  /\ proc' \in [Procs -> ProcRows] /\ \A q \in Procs : ProcOK(proc'[q])
         /\ proc'[p] = [at |-> at, on |-> proc[p].on, next |-> next]
         /\ \A q \in Procs \ {p} : proc'[q] = proc[q]
<1>1. proc \in [Procs -> ProcRows] /\ \A q \in Procs : ProcOK(proc[q])
  BY DEF TypeInv, TypeOK, ProcRows
<1>2. [at |-> at, on |-> proc[p].on, next |-> next] \in ProcRows
  BY <1>1 DEF ProcRows
<1> QED
  BY <1>1, <1>2 DEF GoOn

\* Ends makes a process idle.
LEMMA EndsIdle ==
  ASSUME TypeInv, NEW p \in Procs, Ends(p)
  PROVE  /\ proc' \in [Procs -> ProcRows] /\ \A q \in Procs : ProcOK(proc'[q])
         /\ proc'[p] = [at |-> "idle", on |-> NoStep, next |-> NoStep]
         /\ \A q \in Procs \ {p} : proc'[q] = proc[q]
<1>1. proc \in [Procs -> ProcRows] /\ \A q \in Procs : ProcOK(proc[q])
  BY DEF TypeInv, TypeOK, ProcRows
<1>2. Idle \in ProcRows /\ ProcOK(Idle)
  BY DEF ProcRows, ProcOK, Idle, Calls, Executing, Scheduling
<1> QED
  BY <1>1, <1>2 DEF Ends, Idle

\* Types of one process.
LEMMA ProcTypes ==
  ASSUME TypeInv, NEW p \in Procs
  PROVE  /\ proc \in [Procs -> ProcRows] /\ proc[p] \in ProcRows /\ ProcOK(proc[p])
         /\ proc[p].at \in Calls
         /\ proc[p].on \in Steps \cup {NoStep} /\ proc[p].next \in Steps \cup {NoStep}
BY DEF TypeInv, TypeOK, ProcRows

\* Jobs stay counts when one is added, redelivered or falls due.
LEMMA JobsAdded ==
  ASSUME TypeInv, NEW k \in Steps
  PROVE  /\ [jobs EXCEPT ![k].ready = @ + 1] \in [Steps -> JobCounts]
         /\ [jobs EXCEPT ![k].delayed = @ + 1] \in [Steps -> JobCounts]
         /\ jobs[k].ready > 0 => [jobs EXCEPT ![k].ready = @ - 1] \in [Steps -> JobCounts]
BY DEF TypeInv, TypeOK, JobCounts

\* The rest of TypeInv follows from the types of the processes.
LEMMA TypeFromParts ==
  ASSUME instance' \in [status : InstanceStatus, current : Steps \cup {NoStep}],
         exec' \in [Steps -> StepStatus], jobs' \in [Steps -> JobCounts],
         ran' \in [Steps -> Nat], chosen' \in [Steps -> SUBSET Steps],
         disturbed' \in BOOLEAN, trouble' \in Nat,
         proc' \in [Procs -> ProcRows], \A p \in Procs : ProcOK(proc'[p])
  PROVE  TypeInv'
BY DEF TypeInv, TypeOK, ProcOK, ProcRows, JobCounts
-----------------------------------------------------------------------------
(* Types.                                                                   *)

\* The initial state has its types.
LEMMA InitType == Init => TypeInv
<1> SUFFICES ASSUME Init PROVE TypeInv
  OBVIOUS
<1>1. Idle \in ProcRows /\ ProcOK(Idle)
  BY DEF ProcRows, ProcOK, Idle, Calls, Executing, Scheduling
<1>2. proc \in [Procs -> ProcRows] /\ \A p \in Procs : ProcOK(proc[p])
  BY <1>1 DEF Init
<1>3. jobs \in [Steps -> JobCounts]
  BY DEF Init, JobCounts
<1>4. instance \in [status : InstanceStatus, current : Steps \cup {NoStep}]
  <2>1. instance = [status |-> "NONE", current |-> NoStep]
    BY DEF Init
  <2> QED
    BY <2>1 DEF InstanceStatus
<1>5. /\ exec \in [Steps -> StepStatus] /\ ran \in [Steps -> Nat]
      /\ chosen \in [Steps -> SUBSET Steps] /\ disturbed \in BOOLEAN /\ trouble \in Nat
  BY DEF Init, StepStatus
<1> QED
  BY <1>2, <1>3, <1>4, <1>5 DEF TypeInv, TypeOK, ProcOK, ProcRows, JobCounts

\* The types of what no action but the one at hand changes.
LEMMA TypeParts ==
  ASSUME TypeInv
  PROVE  /\ instance \in [status : InstanceStatus, current : Steps \cup {NoStep}]
         /\ exec \in [Steps -> StepStatus] /\ jobs \in [Steps -> JobCounts]
         /\ ran \in [Steps -> Nat] /\ chosen \in [Steps -> SUBSET Steps]
         /\ disturbed \in BOOLEAN /\ trouble \in Nat
         /\ proc \in [Procs -> ProcRows] /\ \A p \in Procs : ProcOK(proc[p])
BY DEF TypeInv, TypeOK, JobCounts, ProcRows

\* SetStatus keeps the step the instance is at.
LEMMA StatusSet ==
  ASSUME TypeInv, NEW status \in InstanceStatus, SetStatus(status)
  PROVE  /\ instance' \in [status : InstanceStatus, current : Steps \cup {NoStep}]
         /\ instance'.current = instance.current
BY DEF TypeInv, TypeOK, SetStatus

\* scheduleStep only ever creates an execution.
LEMMA CreatedType ==
  ASSUME TypeInv, NEW k \in Steps
  PROVE  /\ Created(k) \in [Steps -> StepStatus]
         /\ \A j \in Steps : \/ Created(k)[j] = exec[j]
                             \/ (j = k /\ exec[j] = "NONE" /\ Created(k)[j] = "PENDING")
BY DEF TypeInv, TypeOK, Created, StepStatus

\* Every step keeps the types.
LEMMA TypeStep == TypeInv /\ [Next]_vars => TypeInv'
<1> SUFFICES ASSUME TypeInv, [Next]_vars PROVE TypeInv'
  OBVIOUS
<1>0. /\ instance \in [status : InstanceStatus, current : Steps \cup {NoStep}]
      /\ exec \in [Steps -> StepStatus] /\ jobs \in [Steps -> JobCounts]
      /\ ran \in [Steps -> Nat] /\ chosen \in [Steps -> SUBSET Steps]
      /\ disturbed \in BOOLEAN /\ trouble \in Nat
      /\ proc \in [Procs -> ProcRows] /\ \A p \in Procs : ProcOK(proc[p])
  BY TypeParts
<1>1. ASSUME NEW p \in Procs, Start(p) PROVE TypeInv'
  <2>1. trouble' \in Nat
    BY <1>0, <1>1 DEF Start, Troubled
  <2>2. instance' \in [status : InstanceStatus, current : Steps \cup {NoStep}]
    BY <1>1, StatusSet DEF Start, InstanceStatus
  <2>3. proc' \in [Procs -> ProcRows] /\ \A q \in Procs : ProcOK(proc'[q])
    <3>1. ProcOK([at |-> "begin", on |-> proc[p].on, next |-> proc[p].next])
      BY <1>1, ProcTypes DEF Start, ProcOK, Executing, Scheduling
    <3>2. GoOn(p, "begin", proc[p].next)
      BY <1>1 DEF Start, GoTo
    <3> QED
      BY <3>1, <3>2, ProcTypes, GoOnMoves DEF Calls, Executing, Scheduling
  <2> QED
    BY <1>0, <1>1, <2>1, <2>2, <2>3, TypeFromParts DEF Start
<1>2. ASSUME NEW p \in Procs, Begin(p) PROVE TypeInv'
  <2>1. instance' \in [status : InstanceStatus, current : Steps \cup {NoStep}]
    BY <1>2, StatusSet DEF Begin, InstanceStatus
  <2>2. ProcOK([at |-> "upsert", on |-> proc[p].on, next |-> StartAt])
    BY WorkflowAssumption DEF ProcOK, Executing
  <2>3. proc' \in [Procs -> ProcRows] /\ \A q \in Procs : ProcOK(proc'[q])
    BY <1>2, <2>2, WorkflowAssumption, GoOnMoves DEF Begin, Calls, Scheduling
  <2> QED
    BY <1>0, <1>2, <2>1, <2>3, TypeFromParts DEF Begin
<1>3. ASSUME NEW status \in {"PAUSED", "CANCELLED"}, Stop(status) PROVE TypeInv'
  <2>1. instance' \in [status : InstanceStatus, current : Steps \cup {NoStep}]
    BY <1>3, StatusSet DEF Stop, InstanceStatus
  <2> QED
    BY <1>0, <1>3, <2>1, TypeFromParts DEF Stop, Troubled
<1>4. ASSUME NEW p \in Procs, ReadResume(p), trouble' \in Nat PROVE TypeInv'
  <2>1. ProcOK([at |-> "resume", on |-> proc[p].on, next |-> instance.current])
    BY <1>4, ProcTypes DEF ReadResume, ProcOK, Executing
  <2>2. proc' \in [Procs -> ProcRows] /\ \A q \in Procs : ProcOK(proc'[q])
    BY <1>0, <1>4, <2>1, GoOnMoves DEF ReadResume, Calls
  <2> QED
    BY <1>0, <1>4, <2>2, TypeFromParts DEF ReadResume
<1>5. ASSUME NEW p \in Procs, Resume(p) PROVE TypeInv'
  <2>1. instance' \in [status : InstanceStatus, current : Steps \cup {NoStep}]
    BY <1>5, StatusSet DEF Resume, InstanceStatus
  <2>2. proc' \in [Procs -> ProcRows] /\ \A q \in Procs : ProcOK(proc'[q])
    <3>1. ProcOK([at |-> "upsert", on |-> proc[p].on, next |-> proc[p].next])
      BY <1>5, ProcTypes DEF Resume, ProcOK, Executing, Scheduling
    <3>2. GoOn(p, "upsert", proc[p].next)
      BY <1>5 DEF Resume, GoTo
    <3> QED
      BY <3>1, <3>2, ProcTypes, GoOnMoves DEF Calls, Executing, Scheduling
  <2> QED
    BY <1>0, <1>5, <2>1, <2>2, TypeFromParts DEF Resume
<1>6. ASSUME NEW p \in Procs, Upsert(p) PROVE TypeInv'
  <2>1. proc[p].next \in Steps
    BY <1>6, ProcTypes DEF Upsert, ProcOK, Executing, Scheduling
  <2>2. exec' \in [Steps -> StepStatus]
    BY <1>6, <2>1, CreatedType DEF Upsert
  <2>3. proc' \in [Procs -> ProcRows] /\ \A q \in Procs : ProcOK(proc'[q])
    <3>1. ProcOK([at |-> "mark", on |-> proc[p].on, next |-> proc[p].next])
      BY <1>6, ProcTypes DEF Upsert, ProcOK, Executing, Scheduling
    <3>2. GoOn(p, "mark", proc[p].next)
      BY <1>6 DEF Upsert, GoTo
    <3> QED
      BY <3>1, <3>2, ProcTypes, GoOnMoves DEF Calls, Executing, Scheduling
  <2> QED
    BY <1>0, <1>6, <2>2, <2>3, TypeFromParts DEF Upsert
<1>7. ASSUME NEW p \in Procs, Mark(p) PROVE TypeInv'
  <2>1. instance' \in [status : InstanceStatus, current : Steps \cup {NoStep}]
    BY <1>7, StatusSet DEF Mark, InstanceStatus
  <2>2. proc' \in [Procs -> ProcRows] /\ \A q \in Procs : ProcOK(proc'[q])
    <3>1. ProcOK([at |-> "add", on |-> proc[p].on, next |-> proc[p].next])
      BY <1>7, ProcTypes DEF Mark, ProcOK, Executing, Scheduling
    <3>2. GoOn(p, "add", proc[p].next)
      BY <1>7 DEF Mark, GoTo
    <3> QED
      BY <3>1, <3>2, ProcTypes, GoOnMoves DEF Calls, Executing, Scheduling
  <2> QED
    BY <1>0, <1>7, <2>1, <2>2, TypeFromParts DEF Mark
<1>8. ASSUME NEW p \in Procs, Add(p) PROVE TypeInv'
  <2>1. proc[p].next \in Steps
    BY <1>8, ProcTypes DEF Add, ProcOK, Executing, Scheduling
  <2>2. proc' \in [Procs -> ProcRows] /\ \A q \in Procs : ProcOK(proc'[q])
    BY <1>8, EndsIdle DEF Add
  <2> QED
    BY <1>0, <1>8, <2>1, <2>2, JobsAdded, TypeFromParts DEF Add
<1>9. ASSUME NEW p \in Procs, NEW k \in Steps, TakeJob(p, k) PROVE TypeInv'
  <2>2. jobs' \in [Steps -> JobCounts]
    BY <1>9, JobsAdded DEF TakeJob
  <2>3. /\ [at |-> "claim", on |-> k, next |-> NoStep] \in ProcRows
        /\ ProcOK([at |-> "claim", on |-> k, next |-> NoStep])
    BY WorkflowAssumption DEF ProcRows, ProcOK, Calls, Executing, Scheduling
  <2>4. proc' \in [Procs -> ProcRows] /\ \A q \in Procs : ProcOK(proc'[q])
    BY <1>0, <1>9, <2>3 DEF TakeJob
  <2> QED
    BY <1>0, <1>9, <2>2, <2>4, TypeFromParts DEF TakeJob
<1>10. ASSUME NEW p \in Procs, Claim(p) PROVE TypeInv'
  <2>1. exec' \in [Steps -> StepStatus]
    BY <1>0, <1>10 DEF Claim, StepStatus
  <2>2. proc' \in [Procs -> ProcRows] /\ \A q \in Procs : ProcOK(proc'[q])
    <3>1. CASE Ends(p)
      BY <3>1, EndsIdle
    <3>2. CASE GoTo(p, "enter")
      <4>1. ProcOK([at |-> "enter", on |-> proc[p].on, next |-> proc[p].next])
        BY <1>10, ProcTypes DEF Claim, ProcOK, Executing, Scheduling
      <4> QED
        BY <3>2, <4>1, ProcTypes, GoOnMoves DEF GoTo, Calls, Executing
    <3> QED
      BY <1>10, <3>1, <3>2 DEF Claim
  <2> QED
    BY <1>0, <1>10, <2>1, <2>2, TypeFromParts DEF Claim
<1>11. ASSUME NEW p \in Procs, Enter(p) PROVE TypeInv'
  <2>1. proc[p].on \in Steps
    BY <1>11, ProcTypes DEF Enter, ProcOK, Executing, Scheduling
  <2>2. instance' \in [status : InstanceStatus, current : Steps \cup {NoStep}]
    BY <1>0, <1>11, <2>1 DEF Enter
  <2>3. proc' \in [Procs -> ProcRows] /\ \A q \in Procs : ProcOK(proc'[q])
    <3>1. ProcOK([at |-> "run", on |-> proc[p].on, next |-> proc[p].next])
      BY <1>11, ProcTypes DEF Enter, ProcOK, Executing, Scheduling
    <3>2. GoOn(p, "run", proc[p].next)
      BY <1>11 DEF Enter, GoTo
    <3> QED
      BY <3>1, <3>2, ProcTypes, GoOnMoves DEF Calls, Executing, Scheduling
  <2> QED
    BY <1>0, <1>11, <2>2, <2>3, TypeFromParts DEF Enter
<1>12. ASSUME NEW p \in Procs, Run(p) PROVE TypeInv'
  <2>1. proc[p].on \in Steps /\ proc[p].at = "run"
    BY <1>12, ProcTypes DEF Run, ProcOK, Executing
  <2>2. PICK next \in IF Successors[proc[p].on] = {} THEN {NoStep} ELSE Successors[proc[p].on] :
          /\ GoOn(p, IF Kind[proc[p].on] = "DELAY" THEN "park" ELSE "complete", next)
          /\ chosen' = [chosen EXCEPT ![proc[p].on] = @ \cup ({next} \ {NoStep})]
    BY <1>12 DEF Run
  <2>3. /\ next \in Steps \cup {NoStep}
        /\ Kind[proc[p].on] # "COMPLETE" => next # NoStep
    BY <2>1, <2>2, WorkflowAssumption
  <2>4. chosen' \in [Steps -> SUBSET Steps] /\ ran' \in [Steps -> Nat]
    BY <1>0, <1>12, <2>1, <2>2, <2>3 DEF Run
  <2>5. instance' \in [status : InstanceStatus, current : Steps \cup {NoStep}]
    BY <1>0, <1>12 DEF Run, InstanceStatus
  <2>6. proc' \in [Procs -> ProcRows] /\ \A q \in Procs : ProcOK(proc'[q])
    <3>1. CASE Kind[proc[p].on] = "DELAY"
      <4>1. ProcOK([at |-> "park", on |-> proc[p].on, next |-> next])
        BY <2>1, <2>3, <3>1, WorkflowAssumption DEF ProcOK, Executing, Scheduling
      <4> QED
        BY <2>2, <2>3, <3>1, <4>1, GoOnMoves DEF Calls, Executing
    <3>2. CASE Kind[proc[p].on] # "DELAY"
      <4>1. ProcOK([at |-> "complete", on |-> proc[p].on, next |-> next])
        BY <2>1, <2>3, WorkflowAssumption DEF ProcOK, Executing, Scheduling
      <4> QED
        BY <2>2, <2>3, <3>2, <4>1, GoOnMoves DEF Calls, Executing
    <3> QED
      BY <3>1, <3>2
  <2> QED
    BY <1>0, <1>12, <2>4, <2>5, <2>6, TypeFromParts DEF Run
<1>13. ASSUME NEW p \in Procs, Park(p) PROVE TypeInv'
  <2>1. proc[p].next \in Steps
    BY <1>13, ProcTypes DEF Park, ProcOK, Executing, Scheduling
  <2>2. exec' \in [Steps -> StepStatus]
    BY <1>13, <2>1, CreatedType DEF Park
  <2>3. proc' \in [Procs -> ProcRows] /\ \A q \in Procs : ProcOK(proc'[q])
    <3>1. ProcOK([at |-> "delay", on |-> proc[p].on, next |-> proc[p].next])
      BY <1>13, ProcTypes DEF Park, ProcOK, Executing, Scheduling
    <3>2. GoOn(p, "delay", proc[p].next)
      BY <1>13 DEF Park, GoTo
    <3> QED
      BY <3>1, <3>2, ProcTypes, GoOnMoves DEF Calls, Executing, Scheduling
  <2> QED
    BY <1>0, <1>13, <2>2, <2>3, TypeFromParts DEF Park
<1>14. ASSUME NEW p \in Procs, Delay(p) PROVE TypeInv'
  <2>1. proc[p].next \in Steps
    BY <1>14, ProcTypes DEF Delay, ProcOK, Executing, Scheduling
  <2>2. proc' \in [Procs -> ProcRows] /\ \A q \in Procs : ProcOK(proc'[q])
    <3>1. ProcOK([at |-> "complete", on |-> proc[p].on, next |-> proc[p].next])
      BY <1>14, ProcTypes DEF Delay, ProcOK, Executing, Scheduling
    <3>2. GoOn(p, "complete", proc[p].next)
      BY <1>14 DEF Delay, GoTo
    <3> QED
      BY <3>1, <3>2, ProcTypes, GoOnMoves DEF Calls, Executing, Scheduling
  <2> QED
    BY <1>0, <1>14, <2>1, <2>2, JobsAdded, TypeFromParts DEF Delay
<1>15. ASSUME NEW p \in Procs, Complete(p) PROVE TypeInv'
  <2>1. exec' \in [Steps -> StepStatus]
    BY <1>0, <1>15 DEF Complete, StepStatus
  <2>2. proc' \in [Procs -> ProcRows] /\ \A q \in Procs : ProcOK(proc'[q])
    <3>1. CASE Ends(p)
      BY <3>1, EndsIdle
    <3>2. CASE GoTo(p, "finish")
      <4>1. ProcOK([at |-> "finish", on |-> proc[p].on, next |-> proc[p].next])
        BY <1>15, ProcTypes DEF Complete, ProcOK, Executing, Scheduling
      <4> QED
        BY <3>2, <4>1, ProcTypes, GoOnMoves DEF GoTo, Calls, Executing
    <3>3. CASE GoTo(p, "upsert") /\ Kind[proc[p].on] # "COMPLETE"
      <4>1. ProcOK([at |-> "upsert", on |-> proc[p].on, next |-> proc[p].next])
        BY <1>15, <3>3, ProcTypes DEF Complete, ProcOK, Executing, Scheduling
      <4> QED
        BY <3>3, <4>1, ProcTypes, GoOnMoves DEF GoTo, Calls, Scheduling
    <3> QED
      BY <1>15, <3>1, <3>2, <3>3 DEF Complete
  <2> QED
    BY <1>0, <1>15, <2>1, <2>2, TypeFromParts DEF Complete
<1>16. ASSUME NEW p \in Procs, Finish(p) PROVE TypeInv'
  <2>1. instance' \in [status : InstanceStatus, current : Steps \cup {NoStep}]
    BY <1>16, StatusSet DEF Finish, InstanceStatus
  <2>2. proc' \in [Procs -> ProcRows] /\ \A q \in Procs : ProcOK(proc'[q])
    BY <1>16, EndsIdle DEF Finish
  <2> QED
    BY <1>0, <1>16, <2>1, <2>2, TypeFromParts DEF Finish
<1>17. ASSUME NEW p \in Procs, FailStep(p) PROVE TypeInv'
  <2>1. exec' \in [Steps -> StepStatus]
    BY <1>0, <1>17 DEF FailStep, StepStatus
  <2>2. proc' \in [Procs -> ProcRows] /\ \A q \in Procs : ProcOK(proc'[q])
    <3>1. ProcOK([at |-> "retry", on |-> proc[p].on, next |-> proc[p].next])
      BY <1>17, ProcTypes DEF FailStep, ProcOK, Executing, Scheduling
    <3>2. GoOn(p, "retry", proc[p].next)
      BY <1>17 DEF FailStep, GoTo
    <3> QED
      BY <3>1, <3>2, ProcTypes, GoOnMoves DEF Calls, Executing, Scheduling
  <2> QED
    BY <1>0, <1>17, <2>1, <2>2, TypeFromParts DEF FailStep
<1>18. ASSUME NEW p \in Procs, AddRetry(p) PROVE TypeInv'
  <2>1. proc[p].on \in Steps
    BY <1>18, ProcTypes DEF AddRetry, ProcOK, Executing, Scheduling
  <2>2. proc' \in [Procs -> ProcRows] /\ \A q \in Procs : ProcOK(proc'[q])
    BY <1>18, EndsIdle DEF AddRetry
  <2> QED
    BY <1>0, <1>18, <2>1, <2>2, JobsAdded, TypeFromParts DEF AddRetry
<1>19. ASSUME NEW k \in Steps, FallsDue(k) PROVE TypeInv'
  <2>1. jobs' = [jobs EXCEPT ![k] = [ready |-> jobs[k].ready + 1,
                                     delayed |-> jobs[k].delayed - 1]]
    BY <1>19 DEF FallsDue
  <2>2. jobs' \in [Steps -> JobCounts]
    BY <1>0, <1>19, <2>1 DEF FallsDue, JobCounts
  <2> QED
    BY <1>0, <1>19, <2>2, TypeFromParts DEF FallsDue
<1>20. ASSUME NEW p \in Procs, Throw(p) PROVE TypeInv'
  <2>1. proc' \in [Procs -> ProcRows] /\ \A q \in Procs : ProcOK(proc'[q])
    <3>1. ProcOK([at |-> "fail", on |-> proc[p].on, next |-> proc[p].next])
      BY <1>20, ProcTypes DEF Throw, ProcOK, Executing, Scheduling
    <3>2. GoOn(p, "fail", proc[p].next)
      BY <1>20 DEF Throw, GoTo
    <3> QED
      BY <3>1, <3>2, ProcTypes, GoOnMoves DEF Calls, Executing, Scheduling
  <2> QED
    BY <1>0, <1>20, <2>1, TypeFromParts DEF Throw, Troubled
<1>21. ASSUME NEW p \in Procs, Stall(p) PROVE TypeInv'
  <2>1. proc[p].on \in Steps
    BY <1>21, ProcTypes DEF Stall
  <2>2. jobs' \in [Steps -> JobCounts]
    BY <1>21, <2>1, JobsAdded DEF Stall, Redelivered
  <2> QED
    BY <1>0, <1>21, <2>2, TypeFromParts DEF Stall, Troubled
<1>22. ASSUME NEW p \in Procs, Crash(p) PROVE TypeInv'
  <2>1. jobs' \in [Steps -> JobCounts]
    BY <1>0, <1>22, ProcTypes, JobsAdded DEF Crash, Redelivered
  <2>2. proc' \in [Procs -> ProcRows] /\ \A q \in Procs : ProcOK(proc'[q])
    BY <1>22, EndsIdle DEF Crash
  <2> QED
    BY <1>0, <1>22, <2>1, <2>2, TypeFromParts DEF Crash, Troubled
<1>23. CASE UNCHANGED vars
  BY <1>0, <1>23, TypeFromParts DEF vars
<1>24. ASSUME NEW p \in Procs, ThrowUncaught(p) PROVE TypeInv'
  <2>1. proc' \in [Procs -> ProcRows] /\ \A q \in Procs : ProcOK(proc'[q])
    BY <1>24, EndsIdle DEF ThrowUncaught
  <2> QED
    BY <1>0, <1>24, <2>1, TypeFromParts DEF ThrowUncaught, Troubled
<1> QED
  <2>1. ASSUME NEW p \in Procs, ResumeByStaff(p) PROVE TypeInv'
    BY <1>0, <1>4, <2>1 DEF ResumeByStaff, Troubled
  <2>2. ASSUME NEW p \in Procs, Recover(p) PROVE TypeInv'
    BY <1>0, <1>4, <2>2 DEF Recover
  <2>3. ASSUME NEW p \in Procs, ProcStep(p) PROVE TypeInv'
    BY <1>2, <1>5, <1>6, <1>7, <1>8, <1>10, <1>11, <1>12, <1>13, <1>14, <1>15, <1>16,
       <1>17, <1>18, <2>3 DEF ProcStep
  <2> QED
    BY <1>1, <1>3, <1>9, <1>19, <1>20, <1>21, <1>22, <1>23, <1>24, <2>1, <2>2, <2>3
       DEF Next
-----------------------------------------------------------------------------
(* Claims and effects.                                                      *)

\* A step of a process that neither claims a step nor lets one take effect: it gives
\* no claim back, goes on with the step it has, and names only what was named.
QuietStep(p) ==
    /\ UNCHANGED <<ran, chosen>>
    /\ \A k \in Steps : Claimed(k) => exec'[k] \notin {"NONE", "PENDING"}
    /\ \A k \in Steps : exec'[k] # "NONE" => exec[k] # "NONE" \/ k = proc[p].next
    /\ \A q \in Procs \ {p} : proc'[q] = proc[q]
    /\ \/ proc'[p].on = NoStep
       \/ proc'[p].at = "claim"
       \/ /\ proc'[p].on = proc[p].on /\ proc[p].at # "claim"
          /\ proc'[p].at \in {"enter", "run"} => proc[p].at \in {"enter", "run"}
    /\ proc'[p].next \in {proc[p].next, NoStep, StartAt, instance.current}
    /\ \/ instance'.current = instance.current
       \/ proc[p].at = "enter" /\ instance'.current = proc[p].on

\* A quiet step keeps the invariant.
LEMMA QuietKeeps ==
  ASSUME EngineInv, NEW p \in Procs, QuietStep(p), TypeInv'
  PROVE  Held' /\ Effects' /\ NamesReached'
<1>1. \A k \in Steps : Claimed(k) => Claimed(k)'
  BY DEF QuietStep, Claimed
<1>2. \A q \in Procs : /\ proc[q].on \in Steps \cup {NoStep}
                       /\ proc[q].next \in Steps \cup {NoStep}
                       /\ proc'[q].on \in Steps \cup {NoStep}
                       /\ proc'[q].next \in Steps \cup {NoStep}
  BY DEF EngineInv, TypeInv, TypeOK
<1>3. Held'
  <2> SUFFICES ASSUME NEW q \in Procs, proc'[q].on # NoStep, proc'[q].at # "claim"
               PROVE  /\ Claimed(proc[q].on)'
                      /\ proc'[q].at \in {"enter", "run"} => ran'[proc'[q].on] = 0
                      /\ \A r \in Procs : proc'[r].at # "claim" /\ proc'[r].on = proc'[q].on
                                          => r = q
    BY DEF Held
  <2>1. \A r \in Procs : proc'[r].on # NoStep /\ proc'[r].at # "claim" =>
           /\ proc'[r].on = proc[r].on /\ proc[r].at # "claim"
           /\ proc'[r].at \in {"enter", "run"} => proc[r].at \in {"enter", "run"}
    BY DEF QuietStep
  <2>2. /\ Claimed(proc[q].on)
        /\ proc[q].at \in {"enter", "run"} => ran[proc[q].on] = 0
        /\ \A r \in Procs : proc[r].at # "claim" /\ proc[r].on = proc[q].on => r = q
    BY <2>1 DEF EngineInv, Held
  <2>3. Claimed(proc[q].on)'
    BY <1>1, <1>2, <2>1, <2>2 DEF Claimed
  <2> QED
    BY <2>1, <2>2, <2>3 DEF QuietStep
<1>4. Effects'
  BY <1>1 DEF EngineInv, Effects, QuietStep
<1>5. \A k \in Steps : Reached(k) => Reached(k)'
  BY DEF Reached, QuietStep
<1>6. Reached(StartAt)
  BY DEF Reached
<1>7. \A k \in Steps : exec'[k] # "NONE" => Reached(k)'
  BY <1>5, WorkflowAssumption DEF EngineInv, NamesReached, QuietStep
<1>8. \A q \in Procs : proc'[q].next # NoStep => Reached(proc[q].next)'
  <2> SUFFICES ASSUME NEW q \in Procs, proc'[q].next # NoStep
               PROVE  Reached(proc[q].next)'
    OBVIOUS
  <2>1. proc'[q].next \in Steps
    BY <1>2
  <2>2. Reached(proc'[q].next)
    BY <1>6, WorkflowAssumption DEF EngineInv, NamesReached, QuietStep
  <2> QED
    BY <1>5, <2>1, <2>2 DEF Reached
<1>9. instance'.current # NoStep => Reached(instance.current)'
  <2> SUFFICES ASSUME instance'.current # NoStep PROVE Reached(instance.current)'
    OBVIOUS
  <2>1. instance'.current \in Steps
    BY DEF TypeInv, TypeOK
  <2>2. CASE instance'.current = instance.current
    <3>1. Reached(instance'.current)
      BY <2>2 DEF EngineInv, NamesReached
    <3> QED
      BY <1>5, <2>1, <3>1 DEF Reached
  <2>3. CASE proc[p].at = "enter" /\ instance'.current = proc[p].on
    <3>1. Claimed(proc[p].on)
      BY <2>3 DEF EngineInv, Held
    <3>2. Reached(instance'.current)
      BY <2>1, <2>3, <3>1 DEF EngineInv, NamesReached, Claimed
    <3> QED
      BY <1>5, <2>1, <3>2 DEF Reached
  <2> QED
    BY <2>2, <2>3 DEF QuietStep
<1> QED
  BY <1>3, <1>4, <1>7, <1>8, <1>9 DEF NamesReached

\* What a GoOn leaves of a process.
LEMMA GoneOn ==
  ASSUME TypeInv, NEW p \in Procs, NEW at, NEW next, GoOn(p, at, next)
  PROVE  /\ proc'[p] = [at |-> at, on |-> proc[p].on, next |-> next]
         /\ \A q \in Procs \ {p} : proc'[q] = proc[q]
BY DEF TypeInv, TypeOK, GoOn

\* All steps of a process but Claim and Run are quiet.
LEMMA QuietSteps ==
  ASSUME EngineInv, NEW p \in Procs,
         \/ Start(p) \/ Begin(p) \/ ReadResume(p) \/ Resume(p)
         \/ Upsert(p) \/ Mark(p) \/ Add(p) \/ Enter(p) \/ Park(p) \/ Delay(p)
         \/ Complete(p) \/ Finish(p) \/ FailStep(p) \/ AddRetry(p)
         \/ Throw(p) \/ ThrowUncaught(p) \/ Stall(p) \/ Crash(p)
         \/ \E k \in Steps : TakeJob(p, k)
  PROVE  QuietStep(p)
<1>0. /\ proc \in [Procs -> ProcRows] /\ ProcOK(proc[p]) /\ proc[p] \in ProcRows
      /\ exec \in [Steps -> StepStatus] /\ TypeInv
      /\ proc[p].on # NoStep /\ proc[p].at # "claim" => Claimed(proc[p].on)
  BY ProcTypes, TypeParts DEF EngineInv, Held
<1>1. CASE Start(p)
  <2>1. GoOn(p, "begin", proc[p].next) /\ proc[p].on = NoStep
    BY <1>0, <1>1 DEF Start, GoTo, ProcOK
  <2>2. instance'.current = instance.current
    BY <1>1, <1>0, StatusSet DEF Start, InstanceStatus
  <2>3. /\ proc'[p] = [at |-> "begin", on |-> proc[p].on, next |-> proc[p].next]
        /\ \A q \in Procs \ {p} : proc'[q] = proc[q]
    BY <2>1, <1>0, GoneOn
  <2> QED
    BY <1>1, <2>1, <2>2, <2>3 DEF Start, QuietStep, Claimed
<1>2. CASE Begin(p)
  <2>1. GoOn(p, "upsert", StartAt) /\ proc[p].on = NoStep
    BY <1>0, <1>2 DEF Begin, ProcOK
  <2>2. instance'.current = instance.current
    BY <1>2, <1>0, StatusSet DEF Begin, InstanceStatus
  <2>3. /\ proc'[p] = [at |-> "upsert", on |-> proc[p].on, next |-> StartAt]
        /\ \A q \in Procs \ {p} : proc'[q] = proc[q]
    BY <2>1, <1>0, GoneOn
  <2> QED
    BY <1>2, <2>1, <2>2, <2>3 DEF Begin, QuietStep, Claimed
<1>3. CASE ReadResume(p)
  <2>1. GoOn(p, "resume", instance.current) /\ proc[p].on = NoStep
    BY <1>0, <1>3 DEF ReadResume, ProcOK
  <2>2. /\ proc'[p] = [at |-> "resume", on |-> proc[p].on, next |-> instance.current]
        /\ \A q \in Procs \ {p} : proc'[q] = proc[q]
    BY <2>1, <1>0, GoneOn
  <2> QED
    BY <1>3, <2>1, <2>2 DEF ReadResume, QuietStep, Claimed
<1>4. CASE Resume(p)
  <2>1. GoOn(p, "upsert", proc[p].next) /\ proc[p].on = NoStep
    BY <1>0, <1>4 DEF Resume, GoTo, ProcOK
  <2>2. instance'.current = instance.current
    BY <1>4, <1>0, StatusSet DEF Resume, InstanceStatus
  <2>3. /\ proc'[p] = [at |-> "upsert", on |-> proc[p].on, next |-> proc[p].next]
        /\ \A q \in Procs \ {p} : proc'[q] = proc[q]
    BY <2>1, <1>0, GoneOn
  <2> QED
    BY <1>4, <2>1, <2>2, <2>3 DEF Resume, QuietStep, Claimed
<1>5. CASE Upsert(p)
  <2>1. GoOn(p, "mark", proc[p].next) /\ proc[p].at = "upsert"
    BY <1>5 DEF Upsert, GoTo
  <2>2. proc[p].next \in Steps
    BY <1>0, <2>1 DEF ProcOK, ProcRows, Scheduling
  <2>3. /\ proc'[p] = [at |-> "mark", on |-> proc[p].on, next |-> proc[p].next]
        /\ \A q \in Procs \ {p} : proc'[q] = proc[q]
    BY <2>1, <1>0, GoneOn
  <2> QED
    BY <1>5, <2>1, <2>2, <2>3, <1>0, CreatedType DEF Upsert, QuietStep, Claimed
<1>6. CASE Mark(p)
  <2>1. GoOn(p, "add", proc[p].next) /\ proc[p].at = "mark"
    BY <1>6 DEF Mark, GoTo
  <2>2. instance'.current = instance.current
    BY <1>6, <1>0, StatusSet DEF Mark, InstanceStatus
  <2>3. /\ proc'[p] = [at |-> "add", on |-> proc[p].on, next |-> proc[p].next]
        /\ \A q \in Procs \ {p} : proc'[q] = proc[q]
    BY <2>1, <1>0, GoneOn
  <2> QED
    BY <1>6, <2>1, <2>2, <2>3 DEF Mark, QuietStep, Claimed
<1>7. CASE Add(p)
  BY <1>7, <1>0, EndsIdle DEF Add, QuietStep, Claimed
<1>8. CASE Enter(p)
  <2>1. GoOn(p, "run", proc[p].next) /\ proc[p].at = "enter"
    BY <1>8 DEF Enter, GoTo
  <2>2. instance'.current = proc[p].on
    BY <1>0, <1>8, TypeParts DEF Enter
  <2>3. /\ proc'[p] = [at |-> "run", on |-> proc[p].on, next |-> proc[p].next]
        /\ \A q \in Procs \ {p} : proc'[q] = proc[q]
    BY <2>1, <1>0, GoneOn
  <2> QED
    BY <1>8, <2>1, <2>2, <2>3 DEF Enter, QuietStep, Claimed
<1>9. CASE Park(p)
  <2>1. GoOn(p, "delay", proc[p].next) /\ proc[p].at = "park"
    BY <1>9 DEF Park, GoTo
  <2>2. proc[p].next \in Steps
    BY <1>0, <2>1 DEF ProcOK, ProcRows
  <2>3. /\ proc'[p] = [at |-> "delay", on |-> proc[p].on, next |-> proc[p].next]
        /\ \A q \in Procs \ {p} : proc'[q] = proc[q]
    BY <2>1, <1>0, GoneOn
  <2> QED
    BY <1>9, <2>1, <2>2, <2>3, <1>0, CreatedType DEF Park, QuietStep, Claimed
<1>10. CASE Delay(p)
  <2>1. GoOn(p, "complete", proc[p].next) /\ proc[p].at = "delay"
    BY <1>10 DEF Delay, GoTo
  <2>2. /\ proc'[p] = [at |-> "complete", on |-> proc[p].on, next |-> proc[p].next]
        /\ \A q \in Procs \ {p} : proc'[q] = proc[q]
    BY <2>1, <1>0, GoneOn
  <2> QED
    BY <1>10, <2>1, <2>2 DEF Delay, QuietStep, Claimed
<1>11. CASE Complete(p)
  <2>1. proc[p].on \in Steps /\ proc[p].at = "complete"
    BY <1>0, <1>11 DEF Complete, ProcOK, ProcRows, Executing
  <2>2. \A k \in Steps : exec'[k] = IF k = proc[p].on THEN "COMPLETED" ELSE exec[k]
    BY <1>0, <1>11 DEF Complete
  <2>3. UNCHANGED <<instance, ran, chosen>>
    BY <1>11 DEF Complete
  <2>4. CASE Ends(p)
    BY <1>0, <2>1, <2>2, <2>4, <2>3, EndsIdle, WorkflowAssumption DEF QuietStep, Claimed
  <2>5. ASSUME NEW at \in {"finish", "upsert"}, GoTo(p, at) PROVE QuietStep(p)
    <3>1. /\ proc'[p] = [at |-> at, on |-> proc[p].on, next |-> proc[p].next]
          /\ \A q \in Procs \ {p} : proc'[q] = proc[q]
      BY <2>5, <1>0, GoneOn DEF GoTo
    <3> QED
      BY <1>0, <2>1, <2>2, <2>3, <3>1, WorkflowAssumption DEF QuietStep, Claimed
  <2> QED
    BY <1>11, <2>4, <2>5 DEF Complete
<1>12. CASE Finish(p)
  <2>1. instance'.current = instance.current
    BY <1>12, <1>0, StatusSet DEF Finish, InstanceStatus
  <2> QED
    BY <1>12, <2>1, <1>0, EndsIdle DEF Finish, QuietStep, Claimed
<1>13. CASE FailStep(p)
  <2>1. GoOn(p, "retry", proc[p].next) /\ proc[p].at = "fail" /\ proc[p].on \in Steps
    BY <1>0, <1>13 DEF FailStep, GoTo, ProcOK, ProcRows, Executing
  <2>2. \A k \in Steps : exec'[k] = IF k = proc[p].on THEN "FAILED" ELSE exec[k]
    BY <1>0, <1>13 DEF FailStep
  <2>3. /\ proc'[p] = [at |-> "retry", on |-> proc[p].on, next |-> proc[p].next]
        /\ \A q \in Procs \ {p} : proc'[q] = proc[q]
    BY <2>1, <1>0, GoneOn
  <2>4. UNCHANGED <<instance, ran, chosen>>
    BY <1>13 DEF FailStep
  <2> QED
    BY <1>0, <2>1, <2>2, <2>3, <2>4, WorkflowAssumption DEF QuietStep, Claimed
<1>14. CASE AddRetry(p)
  BY <1>14, <1>0, EndsIdle DEF AddRetry, QuietStep, Claimed
<1>15. CASE Throw(p)
  <2>1. GoOn(p, "fail", proc[p].next) /\ proc[p].at # "claim"
    BY <1>15 DEF Throw, GoTo, Scheduling
  <2>2. /\ proc'[p] = [at |-> "fail", on |-> proc[p].on, next |-> proc[p].next]
        /\ \A q \in Procs \ {p} : proc'[q] = proc[q]
    BY <2>1, <1>0, GoneOn
  <2> QED
    BY <1>15, <2>1, <2>2 DEF Throw, QuietStep, Claimed
<1>16. CASE Stall(p)
  BY <1>16 DEF Stall, QuietStep, Claimed
<1>17. CASE Crash(p)
  BY <1>17, <1>0, EndsIdle DEF Crash, QuietStep, Claimed
<1>18. ASSUME NEW k \in Steps, TakeJob(p, k) PROVE QuietStep(p)
  <2>1. \/ proc' = proc
        \/ proc' = [proc EXCEPT ![p] = [at |-> "claim", on |-> k, next |-> NoStep]]
    BY <1>18 DEF TakeJob
  <2>2. proc[p].on = NoStep
    BY <1>0, <1>18 DEF TakeJob, ProcOK
  <2> QED
    BY <1>0, <1>18, <2>1, <2>2 DEF TakeJob, QuietStep, Claimed
<1>19. CASE ThrowUncaught(p)
  BY <1>19, <1>0, EndsIdle DEF ThrowUncaught, QuietStep, Claimed
<1> QED
  BY <1>1, <1>2, <1>3, <1>4, <1>5, <1>6, <1>7, <1>8, <1>9, <1>10, <1>11, <1>12, <1>13,
     <1>14, <1>15, <1>16, <1>17, <1>18, <1>19
-----------------------------------------------------------------------------
(* The two steps that are not quiet.                                        *)

\* A claim is taken from an execution nobody else has.
LEMMA ClaimKeeps ==
  ASSUME EngineInv, NEW p \in Procs, Claim(p), TypeInv'
  PROVE  Held' /\ Effects' /\ NamesReached'
<1>0. /\ proc \in [Procs -> ProcRows] /\ ProcOK(proc[p]) /\ proc[p] \in ProcRows
      /\ exec \in [Steps -> StepStatus] /\ ran \in [Steps -> Nat]
  BY ProcTypes, TypeParts DEF EngineInv
<1>1. CASE exec[proc[p].on] = "PENDING"
  <2> DEFINE k == proc[p].on
  <2>1. k \in Steps /\ k # NoStep /\ proc[p].at = "claim"
    BY <1>0 DEF Claim, ProcOK, ProcRows, Executing
  <2>2. \A j \in Steps : exec'[j] = IF j = k THEN "RUNNING" ELSE exec[j]
    BY <1>0, <1>1 DEF Claim
  <2>3. /\ proc'[p] = [at |-> "enter", on |-> k, next |-> proc[p].next]
        /\ \A q \in Procs \ {p} : proc'[q] = proc[q]
    <3>1. GoOn(p, "enter", proc[p].next)
      BY <1>1 DEF Claim, GoTo
    <3> QED
      BY <3>1, GoneOn DEF EngineInv
  <2>4. ran' = ran /\ chosen' = chosen /\ instance' = instance
    BY DEF Claim
  <2>5. \A q \in Procs : proc[q].at # "claim" => proc[q].on # k
    BY <1>1, <2>1 DEF EngineInv, Held, Claimed
  <2>6. ran[k] = 0
    BY <1>0, <1>1, <2>1 DEF EngineInv, Effects, Claimed
  <2>7. \A q \in Procs : proc[q].on \in Steps \cup {NoStep}
    BY <1>0 DEF ProcRows
  <2>8. \A j \in Steps : Claimed(j) => Claimed(j)'
    BY <2>2 DEF Claimed
  <2>9. Held'
    <3> SUFFICES ASSUME NEW q \in Procs, proc'[q].on # NoStep, proc'[q].at # "claim"
                 PROVE  /\ Claimed(proc[q].on)'
                        /\ proc'[q].at \in {"enter", "run"} => ran'[proc'[q].on] = 0
                        /\ \A r \in Procs : proc'[r].at # "claim" /\ proc'[r].on = proc'[q].on
                                            => r = q
      BY DEF Held
    <3>1. CASE q = p
      <4>1. Claimed(proc[q].on)'
        BY <2>1, <2>2, <2>3, <3>1 DEF Claimed
      <4> QED
        BY <2>3, <2>4, <2>5, <2>6, <3>1, <4>1
    <3>2. CASE q # p
      <4>1. proc'[q] = proc[q] /\ proc[q].on # k
        BY <2>3, <2>5, <3>2
      <4>2. /\ Claimed(proc[q].on)
            /\ proc[q].at \in {"enter", "run"} => ran[proc[q].on] = 0
            /\ \A r \in Procs : proc[r].at # "claim" /\ proc[r].on = proc[q].on => r = q
        BY <4>1 DEF EngineInv, Held
      <4>3. Claimed(proc[q].on)'
        BY <2>7, <2>8, <4>1, <4>2 DEF Claimed
      <4> QED
        BY <2>3, <2>4, <4>1, <4>2, <4>3
    <3> QED
      BY <3>1, <3>2
  <2>10. Effects'
    BY <2>4, <2>8 DEF EngineInv, Effects
  <2>11. \A j \in Steps : Reached(j) => Reached(j)'
    BY <2>4 DEF Reached
  <2>12. \A j \in Steps : exec'[j] # "NONE" => exec[j] # "NONE"
    BY <1>1, <2>2
  <2>13. \A q \in Procs : proc'[q].next = proc[q].next /\ proc[q].next \in Steps \cup {NoStep}
    BY <1>0, <2>3 DEF ProcRows
  <2>14. instance.current \in Steps \cup {NoStep}
    BY DEF EngineInv, TypeInv, TypeOK
  <2>15. \A j \in Steps : exec'[j] # "NONE" => Reached(j)'
    BY <2>11, <2>12 DEF EngineInv, NamesReached
  <2>16. \A q \in Procs : proc'[q].next # NoStep => Reached(proc[q].next)'
    BY <2>11, <2>13 DEF EngineInv, NamesReached, Reached
  <2>17. instance'.current # NoStep => Reached(instance.current)'
    BY <2>4, <2>11, <2>14 DEF EngineInv, NamesReached, Reached
  <2> QED
    BY <2>9, <2>10, <2>15, <2>16, <2>17 DEF NamesReached
<1>2. CASE exec[proc[p].on] # "PENDING"
  <2>1. QuietStep(p)
    BY <1>2, EndsIdle DEF Claim, QuietStep, Claimed, EngineInv
  <2> QED
    BY <2>1, QuietKeeps
<1> QED
  BY <1>1, <1>2

\* A step takes effect while its process has it to itself, and for the first time.
LEMMA RunKeeps ==
  ASSUME EngineInv, NEW p \in Procs, Run(p), TypeInv'
  PROVE  Held' /\ Effects' /\ NamesReached'
<1> DEFINE k == proc[p].on
<1>0. /\ proc \in [Procs -> ProcRows] /\ ProcOK(proc[p]) /\ proc[p] \in ProcRows
      /\ ran \in [Steps -> Nat] /\ chosen \in [Steps -> SUBSET Steps]
      /\ instance \in [status : InstanceStatus, current : Steps \cup {NoStep}]
  BY ProcTypes, TypeParts DEF EngineInv
<1>1. k \in Steps /\ k # NoStep /\ proc[p].at = "run"
  BY <1>0 DEF Run, ProcOK, ProcRows, Executing
<1>2. PICK next \in IF Successors[k] = {} THEN {NoStep} ELSE Successors[k] :
        /\ GoOn(p, IF Kind[k] = "DELAY" THEN "park" ELSE "complete", next)
        /\ chosen' = [chosen EXCEPT ![k] = @ \cup ({next} \ {NoStep})]
  BY DEF Run
<1>3. next \in Steps \cup {NoStep}
  BY <1>1, <1>2, WorkflowAssumption
<1>4. /\ proc'[p].at \in {"park", "complete"} /\ proc'[p].on = k /\ proc'[p].next = next
      /\ \A q \in Procs \ {p} : proc'[q] = proc[q]
  <2>2. CASE Kind[k] = "DELAY"
    <3>1. GoOn(p, "park", next)
      BY <1>2, <2>2
    <3>2. /\ proc'[p] = [at |-> "park", on |-> k, next |-> next]
          /\ \A q \in Procs \ {p} : proc'[q] = proc[q]
      BY <3>1, GoneOn DEF EngineInv
    <3> QED
      BY <3>2
  <2>3. CASE Kind[k] # "DELAY"
    <3>1. GoOn(p, "complete", next)
      BY <1>2, <2>3
    <3>2. /\ proc'[p] = [at |-> "complete", on |-> k, next |-> next]
          /\ \A q \in Procs \ {p} : proc'[q] = proc[q]
      BY <3>1, GoneOn DEF EngineInv
    <3> QED
      BY <3>2
  <2> QED
    BY <2>2, <2>3
<1>5. /\ Claimed(k) /\ ran[k] = 0
      /\ \A q \in Procs : proc[q].at # "claim" /\ proc[q].on = k => q = p
  BY <1>1 DEF EngineInv, Held
<1>6. /\ exec' = exec /\ instance'.current = instance.current
      /\ \A j \in Steps : ran'[j] = IF j = k THEN 1 ELSE ran[j]
  <2>1. exec' = exec
    BY DEF Run
  <2>2. instance'.current = instance.current
    BY <1>0 DEF Run
  <2>3. ran' = [ran EXCEPT ![k] = @ + 1]
    BY DEF Run
  <2> QED
    BY <1>0, <1>1, <1>5, <2>1, <2>2, <2>3
<1>7. /\ chosen[k] = {}
      /\ \A j \in Steps : chosen'[j] = IF j = k THEN {next} \ {NoStep} ELSE chosen[j]
  <2>1. chosen[k] = {}
    BY <1>1, <1>5 DEF EngineInv, Effects
  <2> QED
    BY <1>0, <1>1, <1>2, <2>1
<1>8. Held'
  <2> SUFFICES ASSUME NEW q \in Procs, proc'[q].on # NoStep, proc'[q].at # "claim"
               PROVE  /\ Claimed(proc[q].on)'
                      /\ proc'[q].at \in {"enter", "run"} => ran'[proc'[q].on] = 0
                      /\ \A r \in Procs : proc'[r].at # "claim" /\ proc'[r].on = proc'[q].on
                                          => r = q
    BY DEF Held
  <2>1. CASE q = p
    <3>1. Claimed(proc[q].on)'
      BY <1>4, <1>5, <1>6, <2>1 DEF Claimed
    <3> QED
      BY <1>1, <1>4, <1>5, <2>1, <3>1
  <2>2. CASE q # p
    <3>1. proc'[q] = proc[q] /\ proc[q].on # k /\ proc[q].on \in Steps \cup {NoStep}
      BY <1>0, <1>4, <1>5, <2>2 DEF ProcRows
    <3>2. /\ Claimed(proc[q].on)
          /\ proc[q].at \in {"enter", "run"} => ran[proc[q].on] = 0
          /\ \A r \in Procs : proc[r].at # "claim" /\ proc[r].on = proc[q].on => r = q
      BY <3>1 DEF EngineInv, Held
    <3>3. Claimed(proc[q].on)'
      BY <1>6, <3>1, <3>2 DEF Claimed
    <3> QED
      BY <1>4, <1>6, <3>1, <3>2, <3>3
  <2> QED
    BY <2>1, <2>2
<1>9. Effects'
  <2> SUFFICES ASSUME NEW j \in Steps
               PROVE  /\ ran'[j] <= 1
                      /\ ran'[j] > 0 => Claimed(j)'
                      /\ ran'[j] = 0 => chosen'[j] = {}
                      /\ chosen'[j] = {} \/ \E i \in Steps : chosen'[j] = {i}
    BY DEF Effects
  <2>1. CASE j = k
    <3>1. chosen'[j] = {} \/ \E i \in Steps : chosen'[j] = {i}
      BY <1>3, <1>7, <2>1
    <3> QED
      BY <1>5, <1>6, <2>1, <3>1 DEF Claimed
  <2>2. CASE j # k
    BY <1>6, <1>7, <2>2 DEF EngineInv, Effects, Claimed
  <2> QED
    BY <2>1, <2>2
<1>10. \A j \in Steps : Reached(j) => Reached(j)'
  <2>1. \A i \in Steps : (ran[i] > 0 => ran'[i] > 0) /\ chosen[i] \subseteq chosen'[i]
    BY <1>5, <1>6, <1>7
  <2> QED
    BY <2>1 DEF Reached
<1>11. next # NoStep => Reached(proc[p].next)'
  BY <1>1, <1>4, <1>6, <1>7 DEF Reached
<1>12. \A j \in Steps : exec'[j] # "NONE" => Reached(j)'
  BY <1>6, <1>10 DEF EngineInv, NamesReached
<1>13. \A q \in Procs : proc'[q].next # NoStep => Reached(proc[q].next)'
  <2> SUFFICES ASSUME NEW q \in Procs \ {p}, proc'[q].next # NoStep
               PROVE  Reached(proc[q].next)'
    BY <1>4, <1>11
  <2>1. proc'[q].next = proc[q].next /\ proc[q].next \in Steps
    BY <1>0, <1>4 DEF ProcRows
  <2> QED
    BY <1>10, <2>1 DEF EngineInv, NamesReached, Reached
<1>14. instance'.current # NoStep => Reached(instance.current)'
  BY <1>0, <1>6, <1>10 DEF EngineInv, NamesReached, Reached
<1> QED
  BY <1>8, <1>9, <1>12, <1>13, <1>14 DEF NamesReached

-----------------------------------------------------------------------------
(* The invariant.                                                           *)

\* Nothing is claimed, has run or is named at the start.
LEMMA InitEngine == Init => EngineInv
<1> SUFFICES ASSUME Init PROVE EngineInv
  OBVIOUS
<1>1. TypeInv
  BY InitType
<1>2. \A p \in Procs : proc[p].on = NoStep /\ proc[p].next = NoStep
  BY DEF Init, Idle
<1>3. \A k \in Steps : exec[k] = "NONE" /\ ran[k] = 0 /\ chosen[k] = {}
  BY DEF Init
<1>4. instance.current = NoStep
  <2>1. instance = [status |-> "NONE", current |-> NoStep]
    BY DEF Init
  <2> QED
    BY <2>1
<1> QED
  BY <1>1, <1>2, <1>3, <1>4 DEF EngineInv, Held, Effects, NamesReached

\* What touches neither processes nor executions keeps it.
LEMMA UntouchedKeeps ==
  ASSUME EngineInv, UNCHANGED <<exec, proc, ran, chosen>>,
         instance'.current = instance.current
  PROVE  Held' /\ Effects' /\ NamesReached'
BY DEF EngineInv, Held, Effects, NamesReached, Reached, Claimed

\* Every step keeps the invariant: most are quiet.
LEMMA EngineStep == EngineInv /\ [Next]_vars => EngineInv'
<1> SUFFICES ASSUME EngineInv, [Next]_vars PROVE Held' /\ Effects' /\ NamesReached'
  BY TypeStep DEF EngineInv
<1>0. TypeInv /\ TypeInv'
  BY TypeStep DEF EngineInv
<1>1. ASSUME NEW p \in Procs, QuietStep(p) PROVE Held' /\ Effects' /\ NamesReached'
  BY <1>0, <1>1, QuietKeeps
<1>2. ASSUME NEW p \in Procs, ResumeByStaff(p) \/ Recover(p) PROVE QuietStep(p)
  BY <1>2, QuietSteps DEF ResumeByStaff, Recover
<1>3. ASSUME NEW p \in Procs, ProcStep(p) PROVE Held' /\ Effects' /\ NamesReached'
  <2>1. CASE Claim(p)
    BY <1>0, <2>1, ClaimKeeps
  <2>2. CASE Run(p)
    BY <1>0, <2>2, RunKeeps
  <2>3. CASE ~Claim(p) /\ ~Run(p)
    BY <1>1, <1>3, <2>3, QuietSteps DEF ProcStep
  <2> QED
    BY <2>1, <2>2, <2>3
<1>4. ASSUME NEW status \in {"PAUSED", "CANCELLED"}, Stop(status)
      PROVE  Held' /\ Effects' /\ NamesReached'
  <2>1. instance'.current = instance.current
    BY <1>0, <1>4, StatusSet DEF Stop, InstanceStatus
  <2> QED
    BY <1>4, <2>1, UntouchedKeeps DEF Stop
<1>5. ASSUME NEW k \in Steps, FallsDue(k) PROVE Held' /\ Effects' /\ NamesReached'
  BY <1>5, UntouchedKeeps DEF FallsDue
<1>6. CASE UNCHANGED vars
  BY <1>6, UntouchedKeeps DEF vars
<1>7. ASSUME NEW p \in Procs,
             \/ Start(p) \/ Throw(p) \/ ThrowUncaught(p) \/ Stall(p) \/ Crash(p)
             \/ \E k \in Steps : TakeJob(p, k)
      PROVE  QuietStep(p)
  BY <1>7, QuietSteps
<1> QED
  BY <1>1, <1>2, <1>3, <1>4, <1>5, <1>6, <1>7 DEF Next

\* The invariant holds in every reachable state.
LEMMA EngineAlways == Spec => []EngineInv
BY InitEngine, EngineStep, PTL DEF Spec

-----------------------------------------------------------------------------
(* The theorems.                                                            *)

\* Every reachable state has its type: a process at a step has a step, one that
\* schedules has a step to schedule (executeStepJob, scheduleStep).
THEOREM TypeCorrect == Spec => []TypeOK
<1>1. EngineInv => TypeOK
  BY DEF EngineInv, TypeInv
<1> QED
  BY <1>1, EngineAlways, PTL

\* No step takes effect twice, however many workers, events, redeliveries, crashes
\* and resumptions there are (claimStep, upsertStepExecution).
THEOREM EffectsHappenOnce == Spec => []StepsRunOnce
<1>1. EngineInv => StepsRunOnce
  BY DEF EngineInv, Effects, StepsRunOnce
<1> QED
  BY <1>1, EngineAlways, PTL

\* What took effect is one path of the definition from its start (runStep, resume).
THEOREM EffectsFollowDefinition == Spec => []StepsFollowDefinition
<1>1. ASSUME EngineInv PROVE StepsFollowDefinition
  <2> SUFFICES ASSUME NEW k \in Steps
               PROVE  /\ ran[k] > 0 => k = StartAt \/ \E j \in Steps : ran[j] > 0 /\ k \in chosen[j]
                      /\ Cardinality(chosen[k]) <= 1
    BY DEF StepsFollowDefinition
  <2>1. ran[k] > 0 => k = StartAt \/ \E j \in Steps : ran[j] > 0 /\ k \in chosen[j]
    BY <1>1 DEF EngineInv, Effects, NamesReached, Claimed, Reached
  <2>2. CASE chosen[k] = {}
    BY <2>1, <2>2, FS_EmptySet
  <2>3. ASSUME NEW j \in Steps, chosen[k] = {j} PROVE Cardinality(chosen[k]) <= 1
    BY <2>3, FS_Singleton
  <2> QED
    BY <1>1, <2>1, <2>2, <2>3 DEF EngineInv, Effects
<1> QED
  BY <1>1, EngineAlways, PTL

-----------------------------------------------------------------------------
(* The walk.                                                                *)

\* A step takes effect where the walk stands, and goes on to one successor.
LEMMA RunIsOneStep ==
  ASSUME EngineInv, NEW p \in Procs, Run(p)
  PROVE  Walk!Next
<1> DEFINE k == proc[p].on
<1>0. /\ ProcOK(proc[p]) /\ proc[p] \in ProcRows
      /\ ran \in [Steps -> Nat] /\ chosen \in [Steps -> SUBSET Steps]
  BY ProcTypes, TypeParts DEF EngineInv
<1>1. k \in Steps /\ k # NoStep /\ proc[p].at = "run"
  BY <1>0 DEF Run, ProcOK, ProcRows, Executing
<1>2. Claimed(k) /\ ran[k] = 0 /\ chosen[k] = {}
  BY <1>1 DEF EngineInv, Held, Effects
<1>3. Walk!TakeEffect(k)
  <2>1. Walk!IsNext(k)
    BY <1>1, <1>2 DEF Walk!IsNext, EngineInv, NamesReached, Reached, Claimed
  <2>2. ran' = [ran EXCEPT ![k] = 1]
    BY <1>0, <1>1, <1>2 DEF Run
  <2> QED
    BY <1>2, <2>1, <2>2 DEF Walk!TakeEffect
<1>4. PICK next \in IF Successors[k] = {} THEN {NoStep} ELSE Successors[k] :
        chosen' = [chosen EXCEPT ![k] = @ \cup ({next} \ {NoStep})]
  BY DEF Run
<1>5. CASE Successors[k] = {}
  <2>1. chosen' = chosen
    BY <1>0, <1>1, <1>4, <1>5
  <2> QED
    BY <1>1, <1>3, <1>5, <2>1 DEF Walk!End, Walk!Next
<1>6. CASE Successors[k] # {}
  <2>1. next \in Successors[k] /\ next # NoStep
    BY <1>1, <1>4, <1>6, WorkflowAssumption
  <2>2. chosen' = [chosen EXCEPT ![k] = {next}]
    BY <1>0, <1>1, <1>2, <1>4, <2>1
  <2> QED
    BY <1>1, <1>3, <2>1, <2>2 DEF Walk!GoOnTo, Walk!Next
<1> QED
  BY <1>5, <1>6

\* Nothing but Run lets a step take effect.
LEMMA OnlyRunMoves ==
  ASSUME Next
  PROVE  UNCHANGED <<ran, chosen>> \/ \E p \in Procs : Run(p)
<1>1. ASSUME NEW p \in Procs, ProcStep(p) PROVE UNCHANGED <<ran, chosen>> \/ Run(p)
  <2>1. CASE Begin(p) \/ Resume(p) \/ Upsert(p) \/ Mark(p) \/ Add(p) \/ Claim(p)
    BY <2>1 DEF Begin, Resume, ReadResume, Upsert, Mark, Add, Claim
  <2>2. CASE Enter(p) \/ Park(p) \/ Delay(p) \/ Complete(p)
    BY <2>2 DEF Enter, Park, Delay, Complete
  <2>3. CASE Finish(p) \/ FailStep(p) \/ AddRetry(p)
    BY <2>3 DEF Finish, FailStep, AddRetry
  <2> QED
    BY <1>1, <2>1, <2>2, <2>3 DEF ProcStep
<1>2. ASSUME NEW p \in Procs, Start(p) \/ ResumeByStaff(p) \/ Recover(p)
      PROVE  UNCHANGED <<ran, chosen>>
  BY <1>2 DEF Start, ResumeByStaff, Recover, ReadResume
<1>3. ASSUME NEW p \in Procs, Throw(p) \/ ThrowUncaught(p) \/ Stall(p) \/ Crash(p)
      PROVE  UNCHANGED <<ran, chosen>>
  BY <1>3 DEF Throw, ThrowUncaught, Stall, Crash
<1>4. ASSUME NEW p \in Procs, NEW k \in Steps, TakeJob(p, k)
      PROVE  UNCHANGED <<ran, chosen>>
  BY <1>4 DEF TakeJob
<1>5. ASSUME NEW status, Stop(status) PROVE UNCHANGED <<ran, chosen>>
  BY <1>5 DEF Stop
<1>6. ASSUME NEW k \in Steps, FallsDue(k) PROVE UNCHANGED <<ran, chosen>>
  BY <1>6 DEF FallsDue
<1> QED
  BY <1>1, <1>2, <1>3, <1>4, <1>5, <1>6 DEF Next

\* However jobs, events and resumptions repeat, workers stall or die and staff
\* intervene, an instance is a walk along its definition (executeStepJob, resume).
THEOREM EngineImplementsWalk == Spec => ImplementsWalk
<1>1. Init => Walk!Init
  BY DEF Init, Walk!Init
<1>2. EngineInv /\ [Next]_vars => [Walk!Next]_(Walk!walkVars)
  BY RunIsOneStep, OnlyRunMoves DEF vars, Walk!walkVars
<1> QED
  BY <1>1, <1>2, EngineAlways, PTL DEF Spec, Walk!Spec, ImplementsWalk
=============================================================================
