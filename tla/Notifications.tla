---------------------------- MODULE Notifications ----------------------------
(***************************************************************************)
(* The delivery pipeline of one tenant's notifications                      *)
(* (apps/api/src/modules/notifications): a row per notification and         *)
(* channel, a BullMQ queue of dispatch jobs, workers that take a job under  *)
(* a Redis lock, claim the row, hand the message to the providers and       *)
(* record the outcome, retries with backoff, the dead letter queue, manual  *)
(* retries, and the providers' delivery webhooks.                           *)
(*                                                                         *)
(* A worker's handler is one action per database, Redis or queue call.  A   *)
(* dispatch walks all providers of the channel and is one step with its     *)
(* possible outcomes.  A notification is identified by its idempotency key: *)
(* the unique index makes a second enqueue find the first row.              *)
(***************************************************************************)
EXTENDS Naturals, FiniteSets

CONSTANTS
    Notifs,      \* idempotency keys, each with its row once enqueued
    Workers,     \* concurrent handlers of the BullMQ worker
    MaxRetries,  \* NOTIFICATION_MAX_RETRIES
    MaxTrouble,  \* bound: repeated calls, manual retries, lost answers, faults
    NoNotif      \* an idle worker handles no notification

ASSUME NotificationsAssumption ==
    /\ IsFiniteSet(Notifs) /\ IsFiniteSet(Workers)
    /\ NoNotif \notin Notifs
    /\ MaxRetries \in Nat \ {0}
    /\ MaxTrouble \in Nat

VARIABLES
    row,     \* table notifications
    queue,   \* the jobs of a notification, in BullMQ and on their way to it
    lock,    \* Redis key notif:lock:<id>
    worker,  \* the handler each worker executes
    hooks,   \* webhooks that have found their row and not yet written it
    log,     \* history: what has happened to a notification
    trouble  \* history: how much of MaxTrouble is used up

vars == <<row, queue, lock, worker, hooks, log, trouble>>

Claimable == {"QUEUED", "RETRYING"}
Terminal == {"SENT", "DELIVERED"}
Reported == {"DELIVERED", "FAILED"}
Status == {"NONE", "PROCESSING", "DLQ"} \cup Claimable \cup Terminal \cup Reported

Holding == {"read", "claim", "send", "sent", "failed", "bury", "postpone", "backoff"}
Steps == Holding \cup {"idle", "unlock", "rest"}

Init ==
    /\ row = [n \in Notifs |-> [status |-> "NONE", retryCount |-> 0,
                                waiting |-> FALSE, ref |-> FALSE]]
    /\ queue = [n \in Notifs |-> [owed |-> 0, ready |-> 0, delayed |-> 0, dead |-> FALSE]]
    /\ lock = [n \in Notifs |-> FALSE]
    /\ worker = [w \in Workers |-> [at |-> "idle", on |-> NoNotif, seen |-> 0]]
    /\ hooks = {}
    /\ log = [n \in Notifs |-> [calls |-> 0, attempts |-> 0, sends |-> 0, lost |-> 0,
                                resets |-> 0, disturbed |-> FALSE]]
    /\ trouble = 0

-----------------------------------------------------------------------------
(* The API: enqueue, manual retry, retry from the dead letter queue.        *)

\* What happens beyond a first call is bounded: MaxTrouble units in a behaviour.
Troubled(units) == trouble' = trouble + units /\ trouble' <= MaxTrouble

\* createQueued inserts the row or, by the unique index, finds it; unless what
\* it finds was delivered, the call goes on to schedule a job.
Enqueue(n) ==
    /\ Troubled(IF log[n].calls = 0 THEN 0 ELSE 1)
    /\ row[n].status \notin Terminal
    /\ row' = [row EXCEPT ![n].status = IF @ = "NONE" THEN "QUEUED" ELSE @]
    /\ queue' = [queue EXCEPT ![n].owed = @ + 1]
    /\ log' = [log EXCEPT ![n].calls = @ + 1]
    /\ UNCHANGED <<lock, worker, hooks>>

\* The call's second step, queue.add; its job id ends in Date.now(), so jobs of
\* one notification are never merged.
Schedule(n) ==
    /\ queue[n].owed > 0
    /\ queue' = [queue EXCEPT ![n] = [owed |-> @.owed - 1, ready |-> @.ready + 1,
                                      delayed |-> @.delayed, dead |-> @.dead]]
    /\ UNCHANGED <<row, lock, worker, hooks, log, trouble>>

\* retry: resetForRetry whatever the status, then schedule.
Retry(n) ==
    /\ row[n].status # "NONE"
    /\ Troubled(1)
    /\ row' = [row EXCEPT ![n] = [status |-> "QUEUED", retryCount |-> 0,
                                  waiting |-> FALSE, ref |-> FALSE]]
    /\ queue' = [queue EXCEPT ![n].owed = @ + 1]
    /\ log' = [log EXCEPT ![n] = [calls |-> @.calls, attempts |-> @.attempts,
                                  sends |-> @.sends, lost |-> @.lost,
                                  resets |-> @.resets + 1, disturbed |-> TRUE]]
    /\ UNCHANGED <<lock, worker, hooks>>

\* retryDlqJob schedules the notification and removes the dead letter; the row
\* keeps its status.
RetryDlqJob(n) ==
    /\ queue[n].dead
    /\ queue' = [queue EXCEPT ![n] = [owed |-> @.owed, ready |-> @.ready + 1,
                                      delayed |-> @.delayed, dead |-> FALSE]]
    /\ UNCHANGED <<row, lock, worker, hooks, log, trouble>>

-----------------------------------------------------------------------------
(* processJob, one action per call.                                         *)

GoTo(w, step) == worker' = [worker EXCEPT ![w].at = step]

\* A job of a notification whose lock is taken ends at once, for good.
SkipJob(w, n) ==
    /\ worker[w].at = "idle"
    /\ queue[n].ready > 0
    /\ lock[n]
    /\ queue' = [queue EXCEPT ![n].ready = @ - 1]
    /\ UNCHANGED <<row, lock, worker, hooks, log, trouble>>

TakeJob(w, n) ==
    /\ worker[w].at = "idle"
    /\ queue[n].ready > 0
    /\ ~lock[n]
    /\ queue' = [queue EXCEPT ![n].ready = @ - 1]
    /\ lock' = [lock EXCEPT ![n] = TRUE]
    /\ worker' = [worker EXCEPT ![w] = [at |-> "read", on |-> n, seen |-> 0]]
    /\ UNCHANGED <<row, hooks, log, trouble>>

\* findById: a delivered or dead notification is left alone, one whose backoff
\* is not over is scheduled again; retryCount is remembered from this read.
ReadRow(w) ==
    LET n == worker[w].on IN
    /\ worker[w].at = "read"
    /\ worker' = [worker EXCEPT ![w] =
            [at |-> IF row[n].status \in Terminal \cup {"DLQ"} THEN "unlock"
                    ELSE IF row[n].waiting THEN "postpone"
                    ELSE "claim",
             on |-> n, seen |-> row[n].retryCount]]
    /\ UNCHANGED <<row, queue, lock, hooks, log, trouble>>

\* Mutant of Claim: an update by primary key.
ClaimUnchecked(w) ==
    /\ worker[w].at = "claim"
    /\ row' = [row EXCEPT ![worker[w].on].status = "PROCESSING"]
    /\ GoTo(w, "send")
    /\ UNCHANGED <<queue, lock, hooks, log, trouble>>

\* claimForProcessing, a compare-and-set on the status.
Claim(w) ==
    LET n == worker[w].on IN
    /\ worker[w].at = "claim"
    /\ IF row[n].status \in Claimable
       THEN /\ row' = [row EXCEPT ![n].status = "PROCESSING"]
            /\ GoTo(w, "send")
       ELSE /\ row' = row
            /\ GoTo(w, "unlock")
    /\ UNCHANGED <<queue, lock, hooks, log, trouble>>

\* dispatchWithFailover: providers are tried in turn until one accepts.  An
\* answer that is lost counts as a failure although the message went out.
Dispatch(w) ==
    LET n == worker[w].on IN
    /\ worker[w].at = "send"
    /\ \E accepted \in {0, 1}, unanswered \in {0, 1} :
          /\ Troubled(unanswered)
          /\ log' = [log EXCEPT ![n] = [calls |-> @.calls, attempts |-> @.attempts + 1,
                                        sends |-> @.sends + accepted + unanswered,
                                        lost |-> @.lost + unanswered,
                                        resets |-> @.resets, disturbed |-> @.disturbed]]
          /\ GoTo(w, IF accepted = 1 THEN "sent" ELSE "failed")
    /\ UNCHANGED <<row, queue, lock, hooks>>

MarkSent(w) ==
    LET n == worker[w].on IN
    /\ worker[w].at = "sent"
    /\ row' = [row EXCEPT ![n] = [status |-> "SENT", retryCount |-> @.retryCount,
                                  waiting |-> FALSE, ref |-> TRUE]]
    /\ GoTo(w, "unlock")
    /\ UNCHANGED <<queue, lock, hooks, log, trouble>>

\* Mutant of HandleFailure: the retries are counted off by one.
HandleFailureLate(w) ==
    LET n == worker[w].on IN
    /\ worker[w].at = "failed"
    /\ IF worker[w].seen >= MaxRetries
       THEN /\ row' = [row EXCEPT ![n].status = "DLQ"]
            /\ GoTo(w, "bury")
       ELSE /\ row' = [row EXCEPT ![n].status = "RETRYING", ![n].waiting = TRUE,
                                  ![n].retryCount = worker[w].seen + 1]
            /\ GoTo(w, "backoff")
    /\ UNCHANGED <<queue, lock, hooks, log, trouble>>

\* Mutant of HandleFailure: the retry is recorded and not scheduled.
HandleFailureForgets(w) ==
    LET n == worker[w].on IN
    /\ worker[w].at = "failed"
    /\ row' = [row EXCEPT ![n].status = "RETRYING", ![n].waiting = TRUE,
                          ![n].retryCount = worker[w].seen + 1]
    /\ GoTo(w, "unlock")
    /\ UNCHANGED <<queue, lock, hooks, log, trouble>>

\* handleFailure, from the retryCount read at the start.
HandleFailure(w) ==
    LET n == worker[w].on
        nextAttempt == worker[w].seen + 1
    IN
    /\ worker[w].at = "failed"
    /\ IF nextAttempt >= MaxRetries
       THEN /\ row' = [row EXCEPT ![n].status = "DLQ"]
            /\ GoTo(w, "bury")
       ELSE /\ row' = [row EXCEPT ![n] = [status |-> "RETRYING", retryCount |-> nextAttempt,
                                          waiting |-> TRUE, ref |-> @.ref]]
            /\ GoTo(w, "backoff")
    /\ UNCHANGED <<queue, lock, hooks, log, trouble>>

AddToDlq(w) ==
    /\ worker[w].at = "bury"
    /\ queue' = [queue EXCEPT ![worker[w].on].dead = TRUE]
    /\ GoTo(w, "unlock")
    /\ UNCHANGED <<row, lock, hooks, log, trouble>>

\* A delayed job: for the rest of the backoff (ReadRow), which may be almost
\* over, or for a whole one (handleFailure).
AddDelayed(w) ==
    /\ worker[w].at \in {"postpone", "backoff"}
    /\ queue' = [queue EXCEPT ![worker[w].on].delayed = @ + 1]
    /\ GoTo(w, IF worker[w].at = "backoff" THEN "rest" ELSE "unlock")
    /\ UNCHANGED <<row, lock, hooks, log, trouble>>

\* Mutant of Unlock: the worker keeps the notification.
UnlockAndKeep(w) ==
    /\ worker[w].at \in {"unlock", "rest"}
    /\ lock' = [lock EXCEPT ![worker[w].on] = FALSE]
    /\ GoTo(w, "idle")
    /\ UNCHANGED <<row, queue, hooks, log, trouble>>

\* The finally block deletes the lock, whoever holds it by now.
Unlock(w) ==
    /\ worker[w].at \in {"unlock", "rest"}
    /\ lock' = [lock EXCEPT ![worker[w].on] = FALSE]
    /\ worker' = [worker EXCEPT ![w] = [at |-> "idle", on |-> NoNotif, seen |-> 0]]
    /\ UNCHANGED <<row, queue, hooks, log, trouble>>

-----------------------------------------------------------------------------
(* Time: the backoff of the row ends (nextRetryAt), and then its delayed    *)
(* jobs become ready; a job of before a manual retry may come in a later    *)
(* backoff.  A whole backoff, five seconds at least, does not end between   *)
(* queue.add and the release of the lock that follows it.                   *)

BackoffEnds(n) ==
    /\ row[n].waiting
    /\ row' = [row EXCEPT ![n].waiting = FALSE]
    /\ UNCHANGED <<queue, lock, worker, hooks, log, trouble>>

JobFallsDue(n) ==
    /\ queue[n].delayed > 0
    /\ row[n].waiting => log[n].resets > 0
    /\ \A w \in Workers : worker[w].on = n => worker[w].at # "rest"
    /\ queue' = [queue EXCEPT ![n] = [owed |-> @.owed, ready |-> @.ready + 1,
                                      delayed |-> @.delayed - 1, dead |-> @.dead]]
    /\ UNCHANGED <<row, lock, worker, hooks, log, trouble>>

(* Webhooks: findByProviderRef, then an unconditional write of the status.  *)

HookFinds(n) ==
    /\ row[n].ref
    /\ hooks' = hooks \cup {n}
    /\ UNCHANGED <<row, queue, lock, worker, log, trouble>>

HookWrites(n) ==
    /\ n \in hooks
    /\ \E s \in Reported : row' = [row EXCEPT ![n].status = s]
    /\ hooks' = hooks \ {n}
    /\ UNCHANGED <<queue, lock, worker, log, trouble>>

-----------------------------------------------------------------------------
(* Faults.                                                                  *)

Fault(n) ==
    /\ Troubled(1)
    /\ log' = [log EXCEPT ![n].disturbed = TRUE]
    /\ UNCHANGED hooks

\* The process of a worker dies; BullMQ finds the stalled job and delivers it
\* again.  The lock stays.
Crash(w) ==
    /\ worker[w].at # "idle"
    /\ Fault(worker[w].on)
    /\ queue' = [queue EXCEPT ![worker[w].on].ready = @ + 1]
    /\ worker' = [worker EXCEPT ![w] = [at |-> "idle", on |-> NoNotif, seen |-> 0]]
    /\ UNCHANGED <<row, lock>>

\* A worker that is only slow is taken for dead: its job is delivered twice.
Stall(w) ==
    /\ worker[w].at # "idle"
    /\ Fault(worker[w].on)
    /\ queue' = [queue EXCEPT ![worker[w].on].ready = @ + 1]
    /\ UNCHANGED <<row, lock, worker>>

\* A call throws: the handler goes to its finally block, the job has one
\* attempt and is not delivered again.
Throw(w) ==
    /\ worker[w].at \in Holding
    /\ Fault(worker[w].on)
    /\ GoTo(w, "unlock")
    /\ UNCHANGED <<row, queue, lock>>

\* The caller of enqueue or retry dies before it schedules.
CallerDies(n) ==
    /\ queue[n].owed > 0
    /\ Fault(n)
    /\ queue' = [queue EXCEPT ![n].owed = @ - 1]
    /\ UNCHANGED <<row, lock, worker>>

\* The lock is set for 300 seconds and never renewed.
LockExpires(n) ==
    /\ lock[n]
    /\ lock' = [lock EXCEPT ![n] = FALSE]
    /\ log' = [log EXCEPT ![n].disturbed = TRUE]
    /\ UNCHANGED <<row, queue, worker, hooks, trouble>>

-----------------------------------------------------------------------------

HandlerStep(w) ==
    \/ ReadRow(w) \/ Claim(w) \/ Dispatch(w) \/ MarkSent(w) \/ HandleFailure(w)
    \/ AddToDlq(w) \/ AddDelayed(w) \/ Unlock(w)

JobStep(w) == \E n \in Notifs : SkipJob(w, n) \/ TakeJob(w, n)

Next ==
    \/ \E w \in Workers : HandlerStep(w) \/ JobStep(w) \/ Crash(w) \/ Stall(w) \/ Throw(w)
    \/ \E n \in Notifs :
          \/ Enqueue(n) \/ Schedule(n) \/ Retry(n) \/ RetryDlqJob(n)
          \/ BackoffEnds(n) \/ JobFallsDue(n) \/ CallerDies(n) \/ LockExpires(n)
          \/ HookFinds(n) \/ HookWrites(n)

Spec == Init /\ [][Next]_vars

\* Node runs every handler on, BullMQ keeps handing out jobs, clocks run and
\* Redis expires keys.  Nobody is obliged to enqueue, to retry or to fail.
Fairness ==
    /\ \A w \in Workers : WF_vars(HandlerStep(w)) /\ WF_vars(JobStep(w))
    /\ \A n \in Notifs : /\ WF_vars(Schedule(n)) /\ WF_vars(BackoffEnds(n))
                         /\ WF_vars(JobFallsDue(n)) /\ WF_vars(LockExpires(n))

FairSpec == Spec /\ Fairness

-----------------------------------------------------------------------------
(* Properties.                                                              *)

\* Types of the rows, the queue, the workers and the history.
TypeOK ==
    /\ row \in [Notifs -> [status : Status, retryCount : Nat, waiting : BOOLEAN, ref : BOOLEAN]]
    /\ queue \in [Notifs -> [owed : Nat, ready : Nat, delayed : Nat, dead : BOOLEAN]]
    /\ lock \in [Notifs -> BOOLEAN]
    /\ worker \in [Workers -> [at : Steps, on : Notifs \cup {NoNotif}, seen : Nat]]
    /\ \A w \in Workers : worker[w].at = "idle" <=> worker[w].on = NoNotif
    /\ hooks \subseteq Notifs
    /\ log \in [Notifs -> [calls : Nat, attempts : Nat, sends : Nat, lost : Nat,
                           resets : Nat, disturbed : BOOLEAN]]
    /\ trouble \in Nat

\* What a notification sends is accounted for: one message for its enqueue calls
\* together, one for each manual retry, one for each answer a provider gave and
\* the worker never got.  Concurrent workers, repeated calls, jobs delivered
\* twice, crashes, an expired lock and late webhooks add none (processJob).
SendsAccounted == \A n \in Notifs : log[n].sends <= 1 + log[n].resets + log[n].lost

\* A notification that no fault or manual retry disturbs is handed to the providers
\* at most maxRetries times, and with the last failure it is a dead letter, however
\* many jobs it has: handleFailure counts from a retryCount read before the claim,
\* and only the lock keeps that count from being old.
RetriesBounded ==
    \A n \in Notifs :
        ~log[n].disturbed =>
            /\ log[n].attempts <= MaxRetries
            /\ row[n].status = "DLQ" => log[n].attempts = MaxRetries

\* A notification enqueued once reaches its end, delivered, failed or dead, if no
\* fault or manual retry disturbs it: no job of it gets lost on the way.
EveryRequestSettles ==
    \A n \in Notifs :
        row[n].status # "NONE"
            ~> \/ row[n].status \in Terminal \cup {"FAILED", "DLQ"}
               \/ log[n].disturbed
               \/ log[n].calls > 1
=============================================================================
