----------------------------- MODULE Notifications -----------------------------
(***************************************************************************)
(* The notification pipeline: the rows and jobs of services/               *)
(* notifications.ts, the queue options of services/queue.ts, the worker of *)
(* workers/notification.ts, the cleanup of cron/notification-cleanup.ts    *)
(* and the shutdown of utils/shutdown.ts, with crashes.                    *)
(*                                                                         *)
(*   - A caller stores its rows and then adds its jobs: two stores, two    *)
(*     statements.  The second one may throw; today it always does, since  *)
(*     the payload holds a BigInt (JoinRequests, QueueTakesBigInt).        *)
(*   - Jobs are BullMQ's (4.18.3): an attempt is counted when it starts, a *)
(*     failed one comes back after a delay, the job of a dead worker is    *)
(*     found stalled and runs again.                                       *)
(*   - One process holds the callers and the worker and dies as a whole.   *)
(***************************************************************************)
EXTENDS Integers, FiniteSets

CONSTANTS
  Notification, \* ids; a cuid, which is the id of the job too
  Batches,      \* the sets of notifications that one call queues
  Handler,      \* updates that may be handled concurrently
  MaxAttempts,  \* attempts of queue.ts (3)
  MaxStalls,    \* maxStalledCount, BullMQ's default (1)
  MaxRetries,   \* maxRetryAttempts of auto-retry.middleware.ts (3)
  MaxStops      \* bound on shutdowns and crashes

ASSUME NotificationsAssumption ==
  /\ Batches \subseteq SUBSET Notification
  /\ {} \notin Batches
  /\ \A b, c \in Batches : b # c => b \cap c = {}
  /\ MaxAttempts \in Nat \ {0}
  /\ MaxStalls \in Nat /\ MaxRetries \in Nat /\ MaxStops \in Nat

VARIABLES
  row,      \* notifications: "absent", "stored" or "cleaned" (deleted by cron)
  job,      \* the state of the BullMQ job
  attempts, \* attemptsMade of the job
  stalls,   \* how often the job was found stalled
  copies,   \* history: copies of the message that reached the person
  called,   \* batches whose call has begun
  task,     \* the call each handler is in
  worker,   \* the job the worker runs and where it is
  phase,    \* of the process: see Shutdown
  stops     \* shutdowns and crashes so far

pipeline == <<job, attempts, stalls, copies>>
callers == <<called, task>>
process == <<phase, stops>>
notificationVars == <<row, pipeline, callers, worker, process>>

Idle == [at |-> "idle"]
Free == [at |-> "free"]

JobStates == {"absent", "waiting", "active", "delayed", "done", "failed"}
Phases == {"up", "bot_stopped", "worker_closed", "queue_closed", "exited"}
Call == [at: {"store", "add"}, batch: Batches]
Run == [at: {"send", "complete", "fail"}, id: Notification]

TypeOK ==
  /\ row \in [Notification -> {"absent", "stored", "cleaned"}]
  /\ job \in [Notification -> JobStates]
  /\ attempts \in [Notification -> 0 .. MaxAttempts + MaxStalls]
  /\ stalls \in [Notification -> 0 .. MaxStalls]
  /\ copies \in [Notification -> Nat]
  /\ called \subseteq Batches
  /\ task \in [Handler -> {Idle} \cup Call]
  /\ worker \in {Free} \cup Run
  /\ phase \in Phases
  /\ stops \in 0 .. MaxStops

Init ==
  /\ row = [n \in Notification |-> "absent"]
  /\ job = [n \in Notification |-> "absent"]
  /\ attempts = [n \in Notification |-> 0]
  /\ stalls = [n \in Notification |-> 0]
  /\ copies = [n \in Notification |-> 0]
  /\ called = {}
  /\ task = [h \in Handler |-> Idle]
  /\ worker = Free
  /\ phase = "up"
  /\ stops = 0

-----------------------------------------------------------------------------
(* queueNotification and queueBulkNotifications                             *)

Give(f, S, v) == [n \in Notification |-> IF n \in S THEN v ELSE f[n]]

Finish(h) == task' = [task EXCEPT ![h] = Idle]

(* The HTTP server of webhook mode takes updates until the process exits.   *)
CallQueue(h, b) ==
  /\ phase # "exited"
  /\ task[h] = Idle /\ b \notin called
  /\ called' = called \cup {b}
  /\ task' = [task EXCEPT ![h] = [at |-> "store", batch |-> b]]
  /\ UNCHANGED <<row, pipeline, worker, process>>

(* Fault: the bulk call creates its rows without a transaction.             *)
StoreRowsOneByOne(h) ==
  /\ task[h].at = "store"
  /\ \/ /\ row' = Give(row, task[h].batch, "stored")
        /\ task' = [task EXCEPT ![h].at = "add"]
     \/ \E S \in SUBSET task[h].batch : row' = Give(row, S, "stored") /\ Finish(h)
  /\ UNCHANGED <<pipeline, called, worker, process>>

(* A target without account violates the foreign key of the row.            *)
StoreRows(h) ==
  /\ task[h].at = "store"
  /\ \/ /\ row' = Give(row, task[h].batch, "stored")
        /\ task' = [task EXCEPT ![h].at = "add"]
     \/ Finish(h) /\ UNCHANGED row
  /\ UNCHANGED <<pipeline, called, worker, process>>

(* Fault: one add for each notification of the call.                         *)
AddJobsOneByOne(h) ==
  /\ task[h].at = "add"
  /\ \E S \in SUBSET task[h].batch :
       /\ phase \in {"up", "bot_stopped", "worker_closed"} \/ S = {}
       /\ job' = Give(job, S, "waiting")
  /\ Finish(h)
  /\ UNCHANGED <<row, attempts, stalls, copies, called, worker, process>>

(* add or addBulk, one transaction in Redis.  The call may throw, and does  *)
(* once the queue is closed.                                                *)
AddJobs(h) ==
  /\ task[h].at = "add"
  /\ \/ /\ phase \in {"up", "bot_stopped", "worker_closed"}
        /\ job' = Give(job, task[h].batch, "waiting")
     \/ UNCHANGED job
  /\ Finish(h)
  /\ UNCHANGED <<row, attempts, stalls, copies, called, worker, process>>

-----------------------------------------------------------------------------
(* The worker                                                               *)

Working == phase \in {"up", "bot_stopped"}
SetJob(n, s) == job' = [job EXCEPT ![n] = s]

Take(n) ==
  /\ Working /\ worker = Free
  /\ job[n] = "waiting"
  /\ SetJob(n, "active")
  /\ attempts' = [attempts EXCEPT ![n] = @ + 1]
  /\ worker' = [at |-> "send", id |-> n]
  /\ UNCHANGED <<row, stalls, copies, callers, process>>

(* The API call goes through autoRetry (bot/index.ts:64), which repeats it   *)
(* on timeouts, resets and 5xx answers: of the calls of one attempt any     *)
(* number arrives, whether an answer comes in the end or all are lost.      *)
Calls == MaxRetries + 1

Send ==
  /\ worker.at = "send"
  /\ \E k \in 0 .. Calls, threw \in BOOLEAN :
       /\ k = 0 => threw
       /\ copies' = [copies EXCEPT ![worker.id] = @ + k]
       /\ worker' = [worker EXCEPT !.at = IF threw THEN "fail" ELSE "complete"]
  /\ UNCHANGED <<row, job, attempts, stalls, callers, process>>

Complete ==
  /\ worker.at = "complete"
  /\ SetJob(worker.id, "done")
  /\ worker' = Free
  /\ UNCHANGED <<row, attempts, stalls, copies, callers, process>>

(* Fault: the attempts are not counted.                                     *)
FailRetriesAlways ==
  /\ worker.at = "fail"
  /\ SetJob(worker.id, "delayed")
  /\ worker' = Free
  /\ UNCHANGED <<row, attempts, stalls, copies, callers, process>>

(* A failed job is kept, and nothing looks at it again.                     *)
Fail ==
  /\ worker.at = "fail"
  /\ SetJob(worker.id, IF attempts[worker.id] < MaxAttempts THEN "delayed" ELSE "failed")
  /\ worker' = Free
  /\ UNCHANGED <<row, attempts, stalls, copies, callers, process>>

(* The backoff is over.                                                     *)
Promote(n) ==
  /\ Working /\ job[n] = "delayed"
  /\ SetJob(n, "waiting")
  /\ UNCHANGED <<row, attempts, stalls, copies, callers, worker, process>>

(* Fault: a job may be found stalled any number of times.                   *)
StallUncounted(n) ==
  /\ Working /\ job[n] = "active"
  /\ worker.at # "free" => worker.id # n
  /\ SetJob(n, "waiting")
  /\ UNCHANGED <<row, attempts, stalls, copies, callers, worker, process>>

(* Fault: a job that died in its last attempt is not looked for.            *)
StallSkipsLast(n) ==
  /\ Working /\ job[n] = "active"
  /\ worker.at # "free" => worker.id # n
  /\ attempts[n] < MaxAttempts
  /\ IF stalls[n] < MaxStalls
       THEN SetJob(n, "waiting") /\ stalls' = [stalls EXCEPT ![n] = @ + 1]
       ELSE SetJob(n, "failed") /\ UNCHANGED stalls
  /\ UNCHANGED <<row, attempts, copies, callers, worker, process>>

(* The lock of a job that no worker runs has expired.                       *)
Stall(n) ==
  /\ Working /\ job[n] = "active"
  /\ worker.at # "free" => worker.id # n
  /\ IF stalls[n] < MaxStalls
       THEN SetJob(n, "waiting") /\ stalls' = [stalls EXCEPT ![n] = @ + 1]
       ELSE SetJob(n, "failed") /\ UNCHANGED stalls
  /\ UNCHANGED <<row, attempts, copies, callers, worker, process>>

-----------------------------------------------------------------------------
(* Rows older than 90 days; the age of a row is not modelled.               *)
Cleanup ==
  /\ phase # "exited"
  /\ \E S \in SUBSET {n \in Notification : row[n] = "stored"} :
       S # {} /\ row' = Give(row, S, "cleaned")
  /\ UNCHANGED <<pipeline, callers, worker, process>>

(* The shutdown.  Closing the worker waits for the job it runs, nothing     *)
(* waits for the handlers.                                                  *)
StopBot ==
  /\ phase = "up" /\ stops < MaxStops
  /\ phase' = "bot_stopped" /\ stops' = stops + 1
  /\ UNCHANGED <<row, pipeline, callers, worker>>

CloseWorker ==
  /\ phase = "bot_stopped" /\ worker = Free
  /\ phase' = "worker_closed"
  /\ UNCHANGED <<row, pipeline, callers, worker, stops>>

CloseQueue ==
  /\ phase = "worker_closed"
  /\ phase' = "queue_closed"
  /\ UNCHANGED <<row, pipeline, callers, worker, stops>>

Dies ==
  /\ phase' = "exited"
  /\ task' = [h \in Handler |-> Idle]
  /\ worker' = Free

Exit ==
  /\ phase = "queue_closed"
  /\ Dies
  /\ UNCHANGED <<row, pipeline, called, stops>>

Crash ==
  /\ phase # "exited" /\ stops < MaxStops
  /\ Dies
  /\ stops' = stops + 1
  /\ UNCHANGED <<row, pipeline, called>>

Restart ==
  /\ phase = "exited"
  /\ phase' = "up"
  /\ UNCHANGED <<row, pipeline, callers, worker, stops>>

Shutdown == StopBot \/ CloseWorker \/ CloseQueue \/ Exit

-----------------------------------------------------------------------------
CallStep(h) == (\E b \in Batches : CallQueue(h, b)) \/ StoreRows(h) \/ AddJobs(h)

JobStep(n) == Take(n) \/ Promote(n) \/ Stall(n)

RunStep == Send \/ Complete \/ Fail

Next ==
  \/ \E h \in Handler : CallStep(h)
  \/ \E n \in Notification : JobStep(n)
  \/ RunStep
  \/ Cleanup
  \/ Shutdown
  \/ Crash
  \/ Restart

Safe == Init /\ [][Next]_notificationVars

(* The worker goes on while it runs, BullMQ returns delayed and stalled     *)
(* jobs to it, a shutdown that began ends, and a process that ended is      *)
(* started again (restart: unless-stopped in docker-compose.yml).           *)
Fairness ==
  /\ \A n \in Notification : WF_notificationVars(JobStep(n))
  /\ WF_notificationVars(RunStep)
  /\ WF_notificationVars(CloseWorker \/ CloseQueue \/ Exit)
  /\ WF_notificationVars(Restart)

Spec == Safe /\ Fairness

-----------------------------------------------------------------------------
(* A job that BullMQ counts as completed has reached its person: the worker *)
(* throws what sendMessage throws (workers/notification.ts:50).  Part of    *)
(* KeepsPromise, and the invariant its proof rests on.                      *)
DoneMeansReached == \A n \in Notification : job[n] = "done" => copies[n] > 0

(* However attempts, retries of the call, lost answers and crashes          *)
(* alternate, a person gets at most one copy for each call that the         *)
(* attempts allow: retries nest, three of queue.ts:12 around four of        *)
(* auto-retry.middleware.ts:10, with the process dying between sendMessage  *)
(* and the completion of the job.                                           *)
CopiesBounded ==
  \A n \in Notification : copies[n] <= (MaxAttempts + MaxStalls) * Calls

(* What is delivered was recorded: a job has a row, unless it was cleaned   *)
(* up, and the notifications of one call share their fate up to the queue   *)
(* (notifications.ts:15-26, 50-71).                                         *)
RecordedBeforeQueued ==
  /\ \A n \in Notification : job[n] # "absent" => row[n] # "absent"
  /\ \A b \in Batches : \A m, n \in b :
       /\ (row[m] = "absent") = (row[n] = "absent")
       /\ (job[m] = "absent") = (job[n] = "absent")

(* Every job ends: no sequence of errors, crashes and shutdowns leaves one  *)
(* behind as waiting, delayed or active for ever.                           *)
EveryJobEnds ==
  \A n \in Notification : job[n] = "waiting" ~> job[n] \in {"done", "failed"}

(* The pipeline keeps the promises of Outbox.                               *)
StageOf(n) ==
  IF job[n] = "absent" THEN IF row[n] = "absent" THEN "absent" ELSE "recorded"
  ELSE IF job[n] \in {"done", "failed"} THEN job[n] ELSE "queued"

Promise ==
  INSTANCE Outbox WITH
    stage <- [n \in Notification |-> StageOf(n)],
    reached <- {n \in Notification : copies[n] > 0}

KeepsPromise == Promise!Spec

===============================================================================
