---------------------------- MODULE WorkflowEngine ----------------------------
(***************************************************************************)
(* One workflow instance (apps/api/src/modules/orchestration): a row in     *)
(* workflow_instances, a row in workflow_step_executions for each step that *)
(* was ever scheduled, and BullMQ jobs that workers take to execute a step  *)
(* and schedule the next.  Domain events start the instance, staff pause,   *)
(* resume and cancel it, a cron job resumes what is stuck.                  *)
(*                                                                         *)
(* No transaction spans two statements here, so every database or queue     *)
(* call is an action.  A process runs one call of the service or one job.   *)
(* Steps that set context or ask for an AI decision behave like NOTIFY and  *)
(* CONDITION; PARALLEL, which no seeded definition uses, is left out.       *)
(***************************************************************************)
EXTENDS Naturals, FiniteSets

CONSTANTS
    Steps, StartAt,
    Kind,        \* Kind[k]: the type of step k
    Successors,  \* Successors[k]: next, or onTrue and onFalse
    Procs,       \* workers of the queue, requests and the scheduler
    NoStep,
    MaxTrouble   \* bound: repeated events, calls of staff, faults

Kinds == {"DELAY", "CONDITION", "NOTIFY", "ESCALATE", "COMPLETE"}

ASSUME WorkflowAssumption ==
    /\ StartAt \in Steps /\ NoStep \notin Steps
    /\ Kind \in [Steps -> Kinds]
    /\ Successors \in [Steps -> SUBSET Steps]
    /\ \A k \in Steps : Successors[k] = {} <=> Kind[k] = "COMPLETE"
    /\ \A k \in Steps : Kind[k] # "CONDITION" => Cardinality(Successors[k]) <= 1
    /\ MaxTrouble \in Nat

VARIABLES
    instance,  \* status and currentStepKey of the instance
    exec,      \* status of each step execution
    jobs,      \* jobs of each step: ready, and delayed
    proc,      \* what each process is at
    ran,       \* history: how often each step has taken effect
    chosen,    \* history: the successors each step has gone on to
    disturbed, \* history: somebody paused or cancelled, a call failed, or a process died
    trouble    \* history: how much of MaxTrouble is used up

vars == <<instance, exec, jobs, proc, ran, chosen, disturbed, trouble>>

\* FAILED is written when a step fails with its last attempt; attempts are counted
\* by claims, and no step is claimed twice.
InstanceStatus == {"NONE", "PENDING", "RUNNING", "WAITING", "PAUSED", "ESCALATED",
                   "COMPLETED", "CANCELLED"}

\* claimStep takes WAITING as well; nothing writes it.
StepStatus == {"NONE", "PENDING", "RUNNING", "COMPLETED", "FAILED"}

\* A process is in a call: of a step of an instance (on), and with the step it
\* schedules (next).
Executing == {"claim", "enter", "run", "park", "delay", "complete", "finish", "fail", "retry"}
Scheduling == {"upsert", "mark", "add"}
Calls == {"idle", "begin", "resume"} \cup Executing \cup Scheduling

Idle == [at |-> "idle", on |-> NoStep, next |-> NoStep]

Init ==
    /\ instance = [status |-> "NONE", current |-> NoStep]
    /\ exec = [k \in Steps |-> "NONE"]
    /\ jobs = [k \in Steps |-> [ready |-> 0, delayed |-> 0]]
    /\ proc = [p \in Procs |-> Idle]
    /\ ran = [k \in Steps |-> 0]
    /\ chosen = [k \in Steps |-> {}]
    /\ disturbed = FALSE
    /\ trouble = 0

Troubled == trouble < MaxTrouble /\ trouble' = trouble + 1

GoOn(p, at, next) == proc' = [proc EXCEPT ![p] = [at |-> at, on |-> @.on, next |-> next]]
GoTo(p, at) == GoOn(p, at, proc[p].next)
Ends(p) == proc' = [proc EXCEPT ![p] = Idle]
SetStatus(status) == instance' = [instance EXCEPT !.status = status]

-----------------------------------------------------------------------------
(* startFromEvent, and what staff do.                                       *)

\* createInstance: the unique idempotency key lets one event create the instance;
\* another one goes on as well as long as the instance is PENDING.
Start(p) ==
    /\ proc[p].at = "idle"
    /\ instance.status \in {"NONE", "PENDING"}
    /\ IF instance.status = "NONE" THEN trouble' = trouble ELSE Troubled
    /\ SetStatus("PENDING")
    /\ GoTo(p, "begin")
    /\ UNCHANGED <<exec, jobs, ran, chosen, disturbed>>

Begin(p) ==
    /\ proc[p].at = "begin"
    /\ SetStatus("RUNNING")
    /\ GoOn(p, "upsert", StartAt)
    /\ UNCHANGED <<exec, jobs, ran, chosen, disturbed, trouble>>

\* pause and cancel, whatever the status.
Stop(status) ==
    /\ instance.status # "NONE"
    /\ Troubled
    /\ SetStatus(status)
    /\ disturbed' = TRUE
    /\ UNCHANGED <<exec, jobs, proc, ran, chosen>>

\* Mutant of ReadResume: the step after the one that was started last.
ReadResumeAhead(p) ==
    /\ proc[p].at = "idle"
    /\ instance.current # NoStep
    /\ \E k \in Successors[instance.current] : GoOn(p, "resume", k)
    /\ UNCHANGED <<instance, exec, jobs, ran, chosen, disturbed>>

\* resume schedules the step that was started last.
ReadResume(p) ==
    /\ proc[p].at = "idle"
    /\ instance.current # NoStep
    /\ GoOn(p, "resume", instance.current)
    /\ UNCHANGED <<instance, exec, jobs, ran, chosen, disturbed>>

ResumeByStaff(p) == Troubled /\ ReadResume(p)

\* recoverStuckWorkflows: RUNNING, and not updated for half an hour; no call lasts
\* so long, and no job waits so long for a worker.
Recover(p) ==
    /\ instance.status = "RUNNING"
    /\ \A q \in Procs : proc[q].at = "idle"
    /\ \A k \in Steps : jobs[k].ready = 0
    /\ ReadResume(p)
    /\ UNCHANGED trouble

Resume(p) ==
    /\ proc[p].at = "resume"
    /\ SetStatus("RUNNING")
    /\ GoTo(p, "upsert")
    /\ UNCHANGED <<exec, jobs, ran, chosen, disturbed, trouble>>

-----------------------------------------------------------------------------
(* scheduleStep.                                                            *)

\* Mutant of Created: a scheduled step is due again.
CreatedAnew(k) == [exec EXCEPT ![k] = "PENDING"]

\* upsertStepExecution: an execution that exists keeps its status.
Created(k) == [exec EXCEPT ![k] = IF @ = "NONE" THEN "PENDING" ELSE @]

Upsert(p) ==
    /\ proc[p].at = "upsert"
    /\ exec' = Created(proc[p].next)
    /\ GoTo(p, "mark")
    /\ UNCHANGED <<instance, jobs, ran, chosen, disturbed, trouble>>

Mark(p) ==
    /\ proc[p].at = "mark"
    /\ SetStatus("RUNNING")
    /\ GoTo(p, "add")
    /\ UNCHANGED <<exec, jobs, ran, chosen, disturbed, trouble>>

Add(p) ==
    /\ proc[p].at = "add"
    /\ jobs' = [jobs EXCEPT ![proc[p].next].ready = @ + 1]
    /\ Ends(p)
    /\ UNCHANGED <<instance, exec, ran, chosen, disturbed, trouble>>

-----------------------------------------------------------------------------
(* executeStepJob.                                                          *)

\* Mutant of TakeJob: only jobs of a RUNNING instance are executed.
TakeJobOfRunning(p, k) ==
    /\ proc[p].at = "idle"
    /\ jobs[k].ready > 0
    /\ jobs' = [jobs EXCEPT ![k].ready = @ - 1]
    /\ proc' = IF instance.status # "RUNNING" THEN proc
               ELSE [proc EXCEPT ![p] = [at |-> "claim", on |-> k, next |-> NoStep]]
    /\ UNCHANGED <<instance, exec, ran, chosen, disturbed, trouble>>

\* A job of an instance that is paused or over is dropped.
TakeJob(p, k) ==
    /\ proc[p].at = "idle"
    /\ jobs[k].ready > 0
    /\ jobs' = [jobs EXCEPT ![k].ready = @ - 1]
    /\ proc' = IF instance.status \in {"PAUSED", "COMPLETED", "CANCELLED"} THEN proc
               ELSE [proc EXCEPT ![p] = [at |-> "claim", on |-> k, next |-> NoStep]]
    /\ UNCHANGED <<instance, exec, ran, chosen, disturbed, trouble>>

\* Mutant of Claim: a failed or abandoned execution is claimed as well.
ClaimUnfinished(p) ==
    /\ proc[p].at = "claim"
    /\ IF exec[proc[p].on] # "COMPLETED"
       THEN exec' = [exec EXCEPT ![proc[p].on] = "RUNNING"] /\ GoTo(p, "enter")
       ELSE exec' = exec /\ Ends(p)
    /\ UNCHANGED <<instance, jobs, ran, chosen, disturbed, trouble>>

Claim(p) ==
    /\ proc[p].at = "claim"
    /\ IF exec[proc[p].on] = "PENDING"
       THEN exec' = [exec EXCEPT ![proc[p].on] = "RUNNING"] /\ GoTo(p, "enter")
       ELSE exec' = exec /\ Ends(p)
    /\ UNCHANGED <<instance, jobs, ran, chosen, disturbed, trouble>>

Enter(p) ==
    /\ proc[p].at = "enter"
    /\ instance' = [instance EXCEPT !.current = proc[p].on]
    /\ GoTo(p, "run")
    /\ UNCHANGED <<exec, jobs, ran, chosen, disturbed, trouble>>

\* runStep: the step takes effect and names its successor.
Run(p) ==
    LET k == proc[p].on IN
    /\ proc[p].at = "run"
    /\ ran' = [ran EXCEPT ![k] = @ + 1]
    /\ \E next \in IF Successors[k] = {} THEN {NoStep} ELSE Successors[k] :
          /\ GoOn(p, IF Kind[k] = "DELAY" THEN "park" ELSE "complete", next)
          /\ chosen' = [chosen EXCEPT ![k] = @ \cup ({next} \ {NoStep})]
    /\ instance' = [instance EXCEPT !.status = CASE Kind[k] = "DELAY" -> "WAITING"
                                                 [] Kind[k] = "ESCALATE" -> "ESCALATED"
                                                 [] OTHER -> @]
    /\ UNCHANGED <<exec, jobs, disturbed, trouble>>

\* Mutant of Park: the execution of the DELAY step waits with the instance.
ParkAsWaiting(p) ==
    /\ proc[p].at = "park"
    /\ exec' = [Created(proc[p].next) EXCEPT ![proc[p].on] = "WAITING"]
    /\ GoTo(p, "delay")
    /\ UNCHANGED <<instance, jobs, ran, chosen, disturbed, trouble>>

\* A DELAY step schedules its successor itself, without marking the instance.
Park(p) ==
    /\ proc[p].at = "park"
    /\ exec' = Created(proc[p].next)
    /\ GoTo(p, "delay")
    /\ UNCHANGED <<instance, jobs, ran, chosen, disturbed, trouble>>

Delay(p) ==
    /\ proc[p].at = "delay"
    /\ jobs' = [jobs EXCEPT ![proc[p].next].delayed = @ + 1]
    /\ GoTo(p, "complete")
    /\ UNCHANGED <<instance, exec, ran, chosen, disturbed, trouble>>

Complete(p) ==
    LET k == proc[p].on IN
    /\ proc[p].at = "complete"
    /\ exec' = [exec EXCEPT ![k] = "COMPLETED"]
    /\ CASE Kind[k] = "DELAY" -> Ends(p)
         [] Kind[k] = "COMPLETE" -> GoTo(p, "finish")
         [] OTHER -> GoTo(p, "upsert")
    /\ UNCHANGED <<instance, jobs, ran, chosen, disturbed, trouble>>

Finish(p) ==
    /\ proc[p].at = "finish"
    /\ SetStatus("COMPLETED")
    /\ Ends(p)
    /\ UNCHANGED <<exec, jobs, ran, chosen, disturbed, trouble>>

\* The catch block of a worker: the execution fails, and a job is scheduled for
\* its next attempt.
FailStep(p) ==
    /\ proc[p].at = "fail"
    /\ exec' = [exec EXCEPT ![proc[p].on] = "FAILED"]
    /\ GoTo(p, "retry")
    /\ UNCHANGED <<instance, jobs, ran, chosen, disturbed, trouble>>

AddRetry(p) ==
    /\ proc[p].at = "retry"
    /\ jobs' = [jobs EXCEPT ![proc[p].on].delayed = @ + 1]
    /\ Ends(p)
    /\ UNCHANGED <<instance, exec, ran, chosen, disturbed, trouble>>

\* BullMQ makes a delayed job ready.
FallsDue(k) ==
    /\ jobs[k].delayed > 0
    /\ jobs' = [jobs EXCEPT ![k] = [ready |-> @.ready + 1, delayed |-> @.delayed - 1]]
    /\ UNCHANGED <<instance, exec, proc, ran, chosen, disturbed, trouble>>

-----------------------------------------------------------------------------
(* Faults.                                                                  *)

\* A call inside the try block throws.
Throw(p) ==
    /\ proc[p].on # NoStep
    /\ proc[p].at \in {"enter", "run", "park", "delay", "complete", "finish"} \cup Scheduling
    /\ Troubled
    /\ disturbed' = TRUE
    /\ GoTo(p, "fail")
    /\ UNCHANGED <<instance, exec, jobs, ran, chosen>>

\* A call before the try block or in the catch block throws: jobs are added with
\* one attempt, so this one is over for good.
ThrowUncaught(p) ==
    /\ proc[p].at \in {"claim", "fail", "retry"}
    /\ Troubled
    /\ disturbed' = TRUE
    /\ Ends(p)
    /\ UNCHANGED <<instance, exec, jobs, ran, chosen>>

\* A worker stops answering, dead or only slow: BullMQ delivers its job again.
Redelivered(p) == [jobs EXCEPT ![proc[p].on].ready = @ + 1]

Stall(p) ==
    /\ proc[p].on # NoStep
    /\ Troubled
    /\ jobs' = Redelivered(p)
    /\ UNCHANGED <<instance, exec, proc, ran, chosen, disturbed>>

\* A request that throws ends like one whose process dies.
Crash(p) ==
    /\ proc[p].at # "idle"
    /\ Troubled
    /\ disturbed' = TRUE
    /\ jobs' = IF proc[p].on = NoStep THEN jobs ELSE Redelivered(p)
    /\ Ends(p)
    /\ UNCHANGED <<instance, exec, ran, chosen>>

-----------------------------------------------------------------------------

ProcStep(p) ==
    \/ Begin(p) \/ Resume(p) \/ Upsert(p) \/ Mark(p) \/ Add(p)
    \/ Claim(p) \/ Enter(p) \/ Run(p) \/ Park(p) \/ Delay(p) \/ Complete(p) \/ Finish(p)
    \/ FailStep(p) \/ AddRetry(p)

Next ==
    \/ \E p \in Procs :
          \/ Start(p) \/ ResumeByStaff(p) \/ Recover(p)
          \/ ProcStep(p) \/ Throw(p) \/ ThrowUncaught(p) \/ Stall(p) \/ Crash(p)
          \/ \E k \in Steps : TakeJob(p, k)
    \/ Stop("PAUSED") \/ Stop("CANCELLED")
    \/ \E k \in Steps : FallsDue(k)

Spec == Init /\ [][Next]_vars

\* Node runs every call on, BullMQ hands out jobs, and the scheduler ticks every
\* minute.  No event, nobody of the staff and no fault has to come.
Fairness ==
    /\ \A p \in Procs : WF_vars(ProcStep(p)) /\ WF_vars(Recover(p))
    /\ \A k \in Steps : WF_vars(\E p \in Procs : TakeJob(p, k)) /\ WF_vars(FallsDue(k))

FairSpec == Spec /\ Fairness

-----------------------------------------------------------------------------
(* Properties.                                                              *)

\* Types of the rows, the queue, the processes and the history.
TypeOK ==
    /\ instance \in [status : InstanceStatus, current : Steps \cup {NoStep}]
    /\ exec \in [Steps -> StepStatus]
    /\ jobs \in [Steps -> [ready : Nat, delayed : Nat]]
    /\ proc \in [Procs -> [at : Calls, on : Steps \cup {NoStep}, next : Steps \cup {NoStep}]]
    /\ \A p \in Procs : /\ proc[p].at \in Executing => proc[p].on # NoStep
                        /\ proc[p].at \in Scheduling => proc[p].next # NoStep
    /\ ran \in [Steps -> Nat] /\ chosen \in [Steps -> SUBSET Steps]
    /\ disturbed \in BOOLEAN /\ trouble \in Nat

\* A step takes effect at most once (one SMS, one escalation): however often its
\* event, its job or a resumption is repeated, and although a job is delivered
\* again when its worker fails in the middle.  (claimStep, upsertStepExecution)
StepsRunOnce == \A k \in Steps : ran[k] <= 1

\* The steps that took effect form one path of the definition from its start: a
\* step runs only because one before it went on to it, and a condition goes on to
\* one branch.  (executeStepJob, resume, the retry of a failed step)
StepsFollowDefinition ==
    \A k \in Steps :
        /\ ran[k] > 0 => k = StartAt \/ \E j \in Steps : ran[j] > 0 /\ k \in chosen[j]
        /\ Cardinality(chosen[k]) <= 1

\* Seen from its steps, an instance is a walk along its definition: at the moment a
\* step takes effect, one before it has gone on to it, and it goes on to one.  No
\* repeated event, job or resumption, retry or failure shows.  (executeStepJob, resume)
Walk == INSTANCE WorkflowWalk
ImplementsWalk == Walk!Spec

Ended == \E k \in Steps : Kind[k] = "COMPLETE" /\ ran[k] > 0

\* A started workflow runs to its end unless somebody stops it or a call fails,
\* also when events, jobs and resumptions repeat.
UndisturbedEnds == instance.status # "NONE" ~> Ended \/ disturbed

\* PHASE2B.md gives the scheduler the "stuck workflow recovery": a workflow does not
\* stay RUNNING for ever, short of its end, although nobody stops it.
StuckWorkflowsRecover ==
    instance.status = "RUNNING" ~> Ended \/ instance.status \in {"PAUSED", "CANCELLED"}
=============================================================================
