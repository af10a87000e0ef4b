-------------------------- MODULE NotificationsProofs --------------------------
(***************************************************************************)
(* Proofs about module Notifications, for any number of notifications,     *)
(* batches and handlers, any number of attempts, stalls and retries,       *)
(* and crashes and shutdowns anywhere.  The invariant has two parts: CallInv follows   *)
(* one call from its rows to its jobs, JobInv counts the attempts of one   *)
(* job and the copies they can have delivered.  From both follow the       *)
(* refinement of Outbox and a measure of the steps a job has left.         *)
(***************************************************************************)
EXTENDS Notifications, TLAPS

(* TypeOK without the bound on attempts, which is part of JobInv.           *)
Types ==
  /\ row \in [Notification -> {"absent", "stored", "cleaned"}]
  /\ job \in [Notification -> JobStates]
  /\ attempts \in [Notification -> Nat]
  /\ stalls \in [Notification -> 0 .. MaxStalls]
  /\ copies \in [Notification -> Nat]
  /\ called \subseteq Batches
  /\ task \in [Handler -> {Idle} \cup Call]
  /\ worker \in {Free} \cup Run
  /\ phase \in Phases
  /\ stops \in 0 .. MaxStops

(* A batch is in the hands of one call at most, and its rows and jobs share *)
(* one fate.                                                                *)
CallInv ==
  /\ \A h \in Handler : task[h].at # "idle" => task[h].batch \in called
  /\ \A h, k \in Handler :
       task[h].at # "idle" /\ task[k].at # "idle" /\ h # k
         => task[h].batch # task[k].batch
  /\ \A b \in Batches \ called : \A n \in b : row[n] = "absent"
  /\ \A h \in Handler : \A n \in Notification :
       /\ task[h].at = "store" /\ n \in task[h].batch => row[n] = "absent"
       /\ task[h].at = "add" /\ n \in task[h].batch
            => row[n] # "absent" /\ job[n] = "absent"
  /\ RecordedBeforeQueued

(* An attempt delivers at most one copy for each of its calls; one that has *)
(* not sent yet, none.                                                      *)
JobInv ==
  /\ \A n \in Notification :
       /\ job[n] = "absent" => attempts[n] = 0
       /\ job[n] \in {"waiting", "delayed"} => attempts[n] <= MaxAttempts + stalls[n] - 1
       /\ attempts[n] <= MaxAttempts + stalls[n]
       /\ copies[n] <= attempts[n] * Calls
       /\ job[n] = "done" => copies[n] > 0
  /\ worker.at # "free" => job[worker.id] = "active"
  /\ worker.at = "send" => copies[worker.id] <= (attempts[worker.id] - 1) * Calls
  /\ worker.at = "complete" => copies[worker.id] > 0

(* A record whose stage is one of a call or a run has its fields.           *)
LEMMA CallShape ==
  ASSUME NEW t \in {Idle} \cup Call, t.at # "idle"
  PROVE  t \in Call /\ t.batch \in Batches /\ t.at \in {"store", "add"}
BY DEF Idle, Call

LEMMA RunShape ==
  ASSUME NEW w \in {Free} \cup Run, w.at # "free"
  PROVE  w \in Run /\ w.id \in Notification /\ w.at \in {"send", "complete", "fail"}
BY DEF Free, Run

LEMMA TypesInit == Init => Types
BY NotificationsAssumption DEF Init, Types, JobStates, Phases

LEMMA TypesStep == Types /\ [Next]_notificationVars => Types'
<1> SUFFICES ASSUME Types, [Next]_notificationVars
             PROVE  Types'
  OBVIOUS
<1> USE NotificationsAssumption
    DEF Types, JobStates, Phases, pipeline, callers, process
<1>1. ASSUME NEW h \in Handler, NEW b \in Batches, CallQueue(h, b)
      PROVE  Types'
  BY <1>1 DEF CallQueue, Call
<1>2. ASSUME NEW h \in Handler, StoreRows(h)
      PROVE  Types'
  <2>1. task[h] \in Call
    BY <1>2, CallShape DEF StoreRows
  <2>2. [task[h] EXCEPT !.at = "add"] \in Call
    BY <2>1 DEF Call
  <2>3. QED
    BY <1>2, <2>2 DEF StoreRows, Give, Finish
<1>3. ASSUME NEW h \in Handler, AddJobs(h)
      PROVE  Types'
  BY <1>3 DEF AddJobs, Give, Finish
<1>4. ASSUME NEW n \in Notification, JobStep(n)
      PROVE  Types'
  <2>1. CASE Take(n)
    BY <2>1 DEF Take, SetJob, Run
  <2>2. CASE Promote(n)
    BY <2>2 DEF Promote, SetJob
  <2>3. CASE Stall(n)
    BY <2>3 DEF Stall, SetJob
  <2>4. QED
    BY <1>4, <2>1, <2>2, <2>3 DEF JobStep
<1>5. CASE RunStep
  <2>1. worker \in Run
    BY <1>5, RunShape DEF RunStep, Send, Complete, Fail
  <2>2. CASE Send
    BY <2>1, <2>2 DEF Send, Run
  <2>3. CASE Complete \/ Fail
    BY <2>1, <2>3 DEF Complete, Fail, SetJob, Run
  <2>4. QED
    BY <1>5, <2>2, <2>3 DEF RunStep
<1>6. CASE Cleanup
  BY <1>6 DEF Cleanup, Give
<1>7. CASE Shutdown
  BY <1>7 DEF Shutdown, StopBot, CloseWorker, CloseQueue, Exit, Dies
<1>8. CASE Crash
  BY <1>8 DEF Crash, Dies
<1>9. CASE Restart
  BY <1>9 DEF Restart
<1>10. CASE UNCHANGED notificationVars
  BY <1>10 DEF notificationVars
<1>11. QED
  BY <1>1, <1>2, <1>3, <1>4, <1>5, <1>6, <1>7, <1>8, <1>9, <1>10 DEF Next, CallStep

-----------------------------------------------------------------------------
(* Calls                                                                    *)

LEMMA CallInit == Init => CallInv
BY NotificationsAssumption DEF Init, CallInv, RecordedBeforeQueued, Idle

(* What only moves jobs between states other than absent keeps the calls.   *)
LEMMA CallKept ==
  ASSUME Types, CallInv, UNCHANGED <<row, callers>>,
         \A n \in Notification : (job'[n] = "absent") = (job[n] = "absent")
  PROVE  CallInv'
BY NotificationsAssumption DEF CallInv, RecordedBeforeQueued, Types, callers

LEMMA CallStepKeeps == Types /\ CallInv /\ JobInv /\ [Next]_notificationVars => CallInv'
<1> SUFFICES ASSUME Types, CallInv, JobInv, [Next]_notificationVars
             PROVE  CallInv'
  OBVIOUS
<1> USE NotificationsAssumption
<1>1. ASSUME NEW h \in Handler, NEW b \in Batches, CallQueue(h, b)
      PROVE  CallInv'
  BY <1>1 DEF CallQueue, CallInv, RecordedBeforeQueued, Types, pipeline, process
<1>2. ASSUME NEW h \in Handler, StoreRows(h)
      PROVE  CallInv'
  <2> DEFINE b == task[h].batch
  <2>1. task[h] \in Call /\ b \in Batches /\ b \in called
    BY <1>2, CallShape DEF StoreRows, Types, CallInv
  <2>2. \A n \in b : row[n] = "absent" /\ job[n] = "absent"
    BY <1>2, <2>1 DEF StoreRows, CallInv, RecordedBeforeQueued
  <2>3. \A k \in Handler \ {h} :
          /\ task'[k] = task[k]
          /\ task[k].at # "idle" => task[k].batch \in Batches /\ task[k].batch # b
    BY <1>2, <2>1, CallShape DEF StoreRows, Finish, CallInv, Types
  <2>4. CASE /\ row' = Give(row, b, "stored")
             /\ task' = [task EXCEPT ![h].at = "add"]
    <3>1. task'[h].at = "add" /\ task'[h].batch = b
      BY <2>1, <2>4 DEF Types, Call
    <3>2. \A n \in Notification : row'[n] = IF n \in b THEN "stored" ELSE row[n]
      BY <2>4 DEF Give
    <3>3. RecordedBeforeQueued'
      <4>1. job' = job
        BY <1>2 DEF StoreRows, pipeline
      <4>2. \A n \in Notification : job'[n] # "absent" => row'[n] # "absent"
        BY <3>2, <4>1 DEF CallInv, RecordedBeforeQueued
      <4>3. ASSUME NEW c \in Batches, NEW m \in c, NEW n \in c
            PROVE  /\ (row'[m] = "absent") = (row'[n] = "absent")
                   /\ (job'[m] = "absent") = (job'[n] = "absent")
        <5>1. m \in Notification /\ n \in Notification
          OBVIOUS
        <5>2. (m \in b) = (n \in b)
          BY <2>1, <4>3
        <5>3. QED
          BY <3>2, <4>1, <5>1, <5>2 DEF CallInv, RecordedBeforeQueued
      <4>4. QED
        BY <4>2, <4>3 DEF RecordedBeforeQueued
    <3>4. QED
      BY <1>2, <2>1, <2>2, <2>3, <3>1, <3>2, <3>3 DEF StoreRows, CallInv, Types, pipeline
  <2>5. CASE Finish(h) /\ UNCHANGED row
    <3>1. task'[h].at = "idle"
      BY <2>5 DEF Finish, Types, Idle
    <3>2. RecordedBeforeQueued'
      BY <1>2, <2>5 DEF StoreRows, pipeline, CallInv, RecordedBeforeQueued
    <3>3. QED
      BY <1>2, <2>1, <2>3, <2>5, <3>1, <3>2 DEF StoreRows, CallInv, Types, pipeline
  <2>6. QED
    BY <1>2, <2>4, <2>5 DEF StoreRows
<1>3. ASSUME NEW h \in Handler, AddJobs(h)
      PROVE  CallInv'
  <2> DEFINE b == task[h].batch
  <2>1. task[h] \in Call /\ b \in Batches /\ b \in called
    BY <1>3, CallShape DEF AddJobs, Types, CallInv
  <2>2. task' = [task EXCEPT ![h] = Idle] /\ task'[h].at = "idle"
    BY <1>3 DEF AddJobs, Finish, Types, Idle
  <2>3. \A k \in Handler \ {h} :
          /\ task'[k] = task[k]
          /\ task[k].at # "idle" => task[k].batch \in Batches /\ task[k].batch # b
    BY <1>3, <2>1, <2>2, CallShape DEF AddJobs, CallInv, Types
  <2>4. row' = row /\ called' = called
    BY <1>3 DEF AddJobs
  <2>5. \E S \in {b, {}} : \A n \in Notification :
          job'[n] = IF n \in S THEN "waiting" ELSE job[n]
    BY <1>3 DEF AddJobs, Give
  <2>6. \A n \in b : row[n] # "absent" /\ job[n] = "absent"
    BY <1>3, <2>1 DEF AddJobs, CallInv
  <2>7. RecordedBeforeQueued'
    <3>1. \A n \in Notification : job'[n] # "absent" => row'[n] # "absent"
      BY <2>4, <2>5, <2>6 DEF CallInv, RecordedBeforeQueued
    <3>2. ASSUME NEW c \in Batches, NEW m \in c, NEW n \in c
          PROVE  /\ (row'[m] = "absent") = (row'[n] = "absent")
                 /\ (job'[m] = "absent") = (job'[n] = "absent")
      <4>1. m \in Notification /\ n \in Notification /\ (m \in b) = (n \in b)
        BY <2>1, <3>2
      <4>2. QED
        BY <2>4, <2>5, <4>1 DEF CallInv, RecordedBeforeQueued
    <3>3. QED
      BY <3>1, <3>2 DEF RecordedBeforeQueued
  <2>8. \A k \in Handler \ {h}, n \in b : task[k].at # "idle" => n \notin task[k].batch
    BY <2>1, <2>3
  <2>9. QED
    BY <2>1, <2>2, <2>3, <2>4, <2>5, <2>7, <2>8 DEF CallInv, Types
<1>4. ASSUME NEW n \in Notification, JobStep(n)
      PROVE  CallInv'
  BY <1>4, CallKept
     DEF JobStep, Take, Promote, Stall, SetJob, Types, callers, process
<1>5. CASE RunStep
  <2>1. worker.at # "free" /\ worker.id \in Notification /\ job[worker.id] = "active"
    BY <1>5, RunShape DEF RunStep, Send, Complete, Fail, Types, JobInv
  <2>2. QED
    BY <1>5, <2>1, CallKept
       DEF RunStep, Send, Complete, Fail, SetJob, Types, callers, process
<1>6. CASE Cleanup
  BY <1>6 DEF Cleanup, Give, CallInv, RecordedBeforeQueued, Types, pipeline, callers
<1>7. CASE StopBot \/ CloseWorker \/ CloseQueue \/ Restart
  BY <1>7, CallKept DEF StopBot, CloseWorker, CloseQueue, Restart, pipeline
<1>8. CASE Exit \/ Crash
  <2>1. \A h \in Handler : task'[h].at = "idle"
    BY <1>8 DEF Exit, Crash, Dies, Idle
  <2>2. UNCHANGED <<row, job, called>>
    BY <1>8 DEF Exit, Crash, pipeline
  <2>3. QED
    BY <2>1, <2>2 DEF CallInv, RecordedBeforeQueued
<1>9. CASE UNCHANGED notificationVars
  BY <1>9, CallKept DEF notificationVars, pipeline, callers
<1>10. QED
  BY <1>1, <1>2, <1>3, <1>4, <1>5, <1>6, <1>7, <1>8, <1>9 DEF Next, CallStep, Shutdown

-----------------------------------------------------------------------------
(* Attempts and copies                                                      *)

LEMMA MoreAttemptsMoreCalls ==
  ASSUME NEW a \in Nat, NEW b \in Nat, a <= b
  PROVE  a * Calls <= b * Calls /\ (a + 1) * Calls = a * Calls + Calls
BY NotificationsAssumption DEF Calls

LEMMA JobInit == Init => JobInv
<1>1. 0 * Calls = 0
  BY NotificationsAssumption DEF Calls
<1>2. QED
  BY <1>1, NotificationsAssumption DEF Init, JobInv, Free

LEMMA JobStepKeeps == Types /\ CallInv /\ JobInv /\ [Next]_notificationVars => JobInv'
<1> SUFFICES ASSUME Types, CallInv, JobInv, [Next]_notificationVars
             PROVE  JobInv'
  OBVIOUS
<1> USE NotificationsAssumption DEF JobInv
<1>1. ASSUME NEW h \in Handler, NEW b \in Batches, CallQueue(h, b)
      PROVE  JobInv'
  BY <1>1 DEF CallQueue, pipeline
<1>2. ASSUME NEW h \in Handler, StoreRows(h)
      PROVE  JobInv'
  BY <1>2 DEF StoreRows, pipeline
<1>3. ASSUME NEW h \in Handler, AddJobs(h)
      PROVE  JobInv'
  <2>1. \A n \in Notification :
          job'[n] = job[n] \/ (job[n] = "absent" /\ job'[n] = "waiting")
    BY <1>3 DEF AddJobs, Give, CallInv, Types
  <2>2. UNCHANGED <<attempts, stalls, copies, worker>>
    BY <1>3 DEF AddJobs
  <2>3. worker.at # "free" => worker.id \in Notification /\ job'[worker.id] = "active"
    BY <2>1, RunShape DEF Types
  <2>4. \A n \in Notification : attempts[n] \in Nat /\ stalls[n] \in Nat
    BY DEF Types
  <2>5. QED
    BY <2>1, <2>2, <2>3, <2>4
<1>4. ASSUME NEW n \in Notification, Take(n)
      PROVE  JobInv'
  <2>1. /\ job[n] = "waiting" /\ worker.at = "free"
        /\ job' = [job EXCEPT ![n] = "active"]
        /\ attempts' = [attempts EXCEPT ![n] = attempts[n] + 1]
        /\ worker'.at = "send" /\ worker'.id = n
        /\ UNCHANGED <<stalls, copies>>
    BY <1>4 DEF Take, SetJob, Free
  <2>2. attempts'[n] = attempts[n] + 1 /\ attempts[n] \in Nat
    BY <2>1 DEF Types
  <2>3. \A m \in Notification : m # n => attempts'[m] = attempts[m] /\ job'[m] = job[m]
    BY <2>1 DEF Types
  <2>4. copies[n] <= attempts[n] * Calls /\ attempts'[n] - 1 = attempts[n]
    BY <2>2
  <2>5. copies[n] <= attempts'[n] * Calls
    <3>1. attempts[n] * Calls <= attempts'[n] * Calls
      BY <2>2, MoreAttemptsMoreCalls
    <3>2. /\ attempts[n] * Calls \in Int /\ attempts'[n] * Calls \in Int
          /\ copies[n] \in Int
      BY <2>2 DEF Calls, Types
    <3>3. QED
      BY <2>4, <3>1, <3>2
  <2>6. job'[n] = "active"
    BY <2>1 DEF Types
  <2>7. attempts'[n] <= MaxAttempts + stalls'[n]
    BY <2>1, <2>2 DEF Types
  <2>8. copies'[n] <= attempts'[n] * Calls /\ copies'[n] <= (attempts'[n] - 1) * Calls
    BY <2>1, <2>4, <2>5
  <2>9. QED
    BY <2>1, <2>3, <2>6, <2>7, <2>8
<1>5. ASSUME NEW n \in Notification, Promote(n)
      PROVE  JobInv'
  BY <1>5 DEF Promote, SetJob, Types
<1>6. ASSUME NEW n \in Notification, Stall(n)
      PROVE  JobInv'
  <2>1. worker.at # "free" => worker.id \in Notification /\ worker.id # n
    BY <1>6, RunShape DEF Stall, Types
  <2>2. QED
    BY <1>6, <2>1 DEF Stall, SetJob, Types
<1>7. CASE RunStep
  <2>1. worker \in Run /\ worker.id \in Notification /\ job[worker.id] = "active"
    BY <1>7, RunShape DEF RunStep, Send, Complete, Fail, Types
  <2>2. CASE Send
    <3>1. PICK k \in 0 .. Calls, threw \in BOOLEAN :
            /\ k = 0 => threw
            /\ copies' = [copies EXCEPT ![worker.id] = @ + k]
            /\ worker' = [worker EXCEPT !.at = IF threw THEN "fail" ELSE "complete"]
      BY <2>2 DEF Send
    <3>2. worker'.id = worker.id /\ worker'.at \in {"fail", "complete"}
      BY <2>1, <3>1 DEF Run
    <3>3. worker'.at = "complete" => k # 0
      BY <2>1, <3>1 DEF Run
    <3>k. k \in Nat /\ k <= Calls /\ Calls \in Nat
      BY <3>1 DEF Calls
    <3>4. \A n \in Notification : copies[n] <= copies'[n] /\ copies'[n] \in Nat
      BY <2>1, <3>1, <3>k DEF Types
    <3>5. \A n \in Notification : n # worker.id => copies'[n] = copies[n]
      BY <2>1, <3>1 DEF Types
    <3>6. copies'[worker.id] <= attempts[worker.id] * Calls
      <4>1. copies'[worker.id] = copies[worker.id] + k
        BY <2>1, <3>1 DEF Types
      <4>2. attempts[worker.id] - 1 \in Nat \/ attempts[worker.id] = 0
        BY <2>1 DEF Types
      <4>3. copies[worker.id] <= (attempts[worker.id] - 1) * Calls
        BY <2>2 DEF Send
      <4>4. CASE attempts[worker.id] - 1 \in Nat
        <5>1. attempts[worker.id] * Calls = (attempts[worker.id] - 1) * Calls + Calls
          <6> DEFINE a == attempts[worker.id] - 1
          <6>1. a \in Nat /\ a + 1 = attempts[worker.id]
            BY <2>1, <4>4 DEF Types
          <6>2. (a + 1) * Calls = a * Calls + Calls
            BY <6>1, MoreAttemptsMoreCalls
          <6>3. QED
            BY <6>1, <6>2
        <5>2. (attempts[worker.id] - 1) * Calls \in Int /\ copies[worker.id] \in Nat
          BY <2>1, <3>k, <4>4 DEF Types
        <5>3. QED
          BY <3>k, <4>1, <4>3, <5>1, <5>2
      <4>5. CASE attempts[worker.id] = 0
        <5>1. copies[worker.id] <= -Calls /\ copies[worker.id] \in Nat
          BY <2>1, <3>k, <4>3, <4>5 DEF Types
        <5>2. QED
          BY <3>k, <4>1, <4>5, <5>1
      <4>6. QED
        BY <4>2, <4>4, <4>5
    <3>7. k # 0 => copies'[worker.id] > 0
      BY <2>1, <3>1, <3>k DEF Types
    <3>8. UNCHANGED <<job, attempts, stalls>>
      BY <2>2 DEF Send
    <3>9. QED
      BY <2>1, <3>2, <3>3, <3>4, <3>5, <3>6, <3>7, <3>8 DEF Types
  <2>3. CASE Complete
    BY <2>1, <2>3 DEF Complete, SetJob, Types, Free
  <2>4. CASE Fail
    BY <2>1, <2>4 DEF Fail, SetJob, Types, Free
  <2>5. QED
    BY <1>7, <2>2, <2>3, <2>4 DEF RunStep
<1>8. CASE Cleanup \/ StopBot \/ CloseWorker \/ CloseQueue \/ Restart
  BY <1>8 DEF Cleanup, StopBot, CloseWorker, CloseQueue, Restart, pipeline
<1>9. CASE Exit \/ Crash
  BY <1>9 DEF Exit, Crash, Dies, pipeline, Free
<1>10. CASE UNCHANGED notificationVars
  BY <1>10 DEF notificationVars, pipeline
<1>11. QED
  BY <1>1, <1>2, <1>3, <1>4, <1>5, <1>6, <1>7, <1>8, <1>9, <1>10
     DEF Next, CallStep, JobStep, Shutdown

LEMMA Invariants == Safe => [](Types /\ CallInv /\ JobInv)
<1>1. Init => Types /\ CallInv /\ JobInv
  BY TypesInit, CallInit, JobInit
<1>2. Types /\ CallInv /\ JobInv /\ [Next]_notificationVars
        => Types' /\ CallInv' /\ JobInv'
  BY TypesStep, CallStepKeeps, JobStepKeeps
<1>3. QED
  BY <1>1, <1>2, PTL DEF Safe

-----------------------------------------------------------------------------
(* Rows, jobs, calls, the worker and the process stay well formed; BullMQ   *)
(* never starts more than attempts + maxStalledCount attempts of a job      *)
(* (queue.ts:12).                                                           *)
THEOREM NotificationsTypeCorrect == Safe => []TypeOK
<1>1. Types /\ JobInv => TypeOK
  <2> SUFFICES ASSUME Types, JobInv
               PROVE  TypeOK
    OBVIOUS
  <2>1. \A n \in Notification : attempts[n] \in 0 .. MaxAttempts + MaxStalls
    BY NotificationsAssumption DEF Types, JobInv
  <2>2. attempts \in [Notification -> 0 .. MaxAttempts + MaxStalls]
    BY <2>1 DEF Types
  <2>3. QED
    BY <2>2 DEF Types, TypeOK
<1>2. QED
  BY <1>1, Invariants, PTL

(* A job that BullMQ counts as completed has reached its person, however    *)
(* errors, lost answers, crashes and shutdowns alternate.                   *)
THEOREM CompletedJobsReached == Safe => []DoneMeansReached
<1>1. JobInv => DoneMeansReached
  BY DEF JobInv, DoneMeansReached
<1>2. QED
  BY <1>1, Invariants, PTL

(* Nobody gets more copies of a notification than the calls of its attempts *)
(* and stalls: queue.ts:12 times auto-retry.middleware.ts:10.               *)
THEOREM CopiesAreBounded == Safe => []CopiesBounded
<1>1. Types /\ JobInv => CopiesBounded
  <2> SUFFICES ASSUME Types, JobInv, NEW n \in Notification
               PROVE  copies[n] <= (MaxAttempts + MaxStalls) * Calls
    BY DEF CopiesBounded
  <2>1. /\ attempts[n] \in Nat /\ copies[n] \in Nat
        /\ attempts[n] <= MaxAttempts + MaxStalls
        /\ MaxAttempts + MaxStalls \in Nat /\ Calls \in Nat
    BY NotificationsAssumption DEF Types, JobInv, Calls
  <2>2. attempts[n] * Calls <= (MaxAttempts + MaxStalls) * Calls
    BY <2>1, MoreAttemptsMoreCalls
  <2>3. copies[n] <= attempts[n] * Calls
    BY DEF JobInv
  <2>4. attempts[n] * Calls \in Nat /\ (MaxAttempts + MaxStalls) * Calls \in Nat
    BY <2>1
  <2>5. QED
    BY <2>1, <2>2, <2>3, <2>4
<1>2. QED
  BY <1>1, Invariants, PTL

(* What is delivered was recorded, and the notifications of one call share  *)
(* their fate up to the queue.                                              *)
THEOREM QueuedMeansRecorded == Safe => []RecordedBeforeQueued
<1>1. CallInv => RecordedBeforeQueued
  BY DEF CallInv
<1>2. QED
  BY <1>1, Invariants, PTL
-----------------------------------------------------------------------------
(* The pipeline implements Outbox                                           *)

LEMMA StageKept ==
  ASSUME \A n \in Notification : StageOf(n)' = StageOf(n),
         \A n \in Notification : copies'[n] > 0 <=> copies[n] > 0
  PROVE  UNCHANGED Promise!outboxVars
BY DEF Promise!outboxVars

LEMMA StageMoved ==
  ASSUME NEW S \in SUBSET Notification, NEW from, NEW to,
         \A n \in S : StageOf(n) = from,
         \A n \in Notification : StageOf(n)' = IF n \in S THEN to ELSE StageOf(n),
         copies' = copies
  PROVE  /\ Promise!Move(S, from, to)
         /\ UNCHANGED {n \in Notification : copies[n] > 0}
BY DEF Promise!Move

LEMMA PromiseInit == Init => Promise!Init
BY DEF Init, Promise!Init, StageOf

LEMMA PromiseStep ==
  Types /\ CallInv /\ JobInv /\ [Next]_notificationVars
    => [Promise!Next]_Promise!outboxVars
<1> SUFFICES ASSUME Types, CallInv, JobInv, [Next]_notificationVars
             PROVE  [Promise!Next]_Promise!outboxVars
  OBVIOUS
<1>1. ASSUME UNCHANGED <<row, job, copies>>
      PROVE  UNCHANGED Promise!outboxVars
  BY <1>1, StageKept DEF StageOf
<1>2. ASSUME NEW h \in Handler, StoreRows(h)
      PROVE  [Promise!Next]_Promise!outboxVars
  <2> DEFINE b == task[h].batch
  <2>1. b \in Batches /\ b \subseteq Notification
    BY <1>2, CallShape, NotificationsAssumption DEF StoreRows, Types
  <2>2. UNCHANGED <<job, copies>>
    BY <1>2 DEF StoreRows, pipeline
  <2>3. CASE row' = Give(row, b, "stored")
    <3>1. \A n \in b : row[n] = "absent" /\ job[n] = "absent"
      BY <1>2, <2>1 DEF StoreRows, CallInv, RecordedBeforeQueued
    <3>2. \A n \in b : StageOf(n) = "absent"
      BY <3>1 DEF StageOf
    <3>3. \A n \in Notification :
            StageOf(n)' = IF n \in b THEN "recorded" ELSE StageOf(n)
      BY <2>2, <2>3, <3>1 DEF StageOf, Give
    <3>4. Promise!Record(b)
      BY <2>1, <2>2, <3>2, <3>3, StageMoved DEF Promise!Record
    <3>5. QED
      BY <2>1, <3>4 DEF Promise!Next
  <2>4. CASE UNCHANGED row
    BY <1>1, <2>2, <2>4
  <2>5. QED
    BY <1>2, <2>3, <2>4 DEF StoreRows
<1>3. ASSUME NEW h \in Handler, AddJobs(h)
      PROVE  [Promise!Next]_Promise!outboxVars
  <2> DEFINE b == task[h].batch
  <2>1. b \in Batches /\ b \subseteq Notification
    BY <1>3, CallShape, NotificationsAssumption DEF AddJobs, Types
  <2>2. UNCHANGED <<row, copies>>
    BY <1>3 DEF AddJobs
  <2>3. CASE job' = Give(job, b, "waiting")
    <3>1. \A n \in b : row[n] # "absent" /\ job[n] = "absent"
      BY <1>3, <2>1 DEF AddJobs, CallInv
    <3>2. \A n \in b : StageOf(n) = "recorded"
      BY <3>1 DEF StageOf
    <3>3. \A n \in Notification :
            StageOf(n)' = IF n \in b THEN "queued" ELSE StageOf(n)
      BY <2>2, <2>3, <3>1 DEF StageOf, Give
    <3>4. Promise!HandOver(b)
      BY <2>1, <2>2, <3>2, <3>3, StageMoved DEF Promise!HandOver
    <3>5. QED
      BY <2>1, <3>4 DEF Promise!Next
  <2>4. CASE UNCHANGED job
    BY <1>1, <2>2, <2>4
  <2>5. QED
    BY <1>3, <2>3, <2>4 DEF AddJobs
<1>4. ASSUME NEW n \in Notification, NEW s \in JobStates,
             SetJob(n, s), job[n] \in {"waiting", "active", "delayed"},
             UNCHANGED <<row, copies>>,
             s \in {"waiting", "active", "delayed", "failed"} \/ copies[n] > 0,
             s # "absent"
      PROVE  [Promise!Next]_Promise!outboxVars
  <2>1. StageOf(n) = "queued"
    BY <1>4 DEF StageOf
  <2>2. CASE s \in {"waiting", "active", "delayed"}
    <3>1. \A m \in Notification : StageOf(m)' = StageOf(m)
      BY <1>4, <2>2 DEF StageOf, SetJob, Types
    <3>2. QED
      BY <1>4, <3>1, StageKept
  <2>3. CASE s \in {"done", "failed"}
    <3>1. \A m \in Notification : StageOf(m)' = IF m \in {n} THEN s ELSE StageOf(m)
      BY <1>4, <2>3 DEF StageOf, SetJob, Types
    <3>2. Promise!Move({n}, "queued", s) /\ UNCHANGED {m \in Notification : copies[m] > 0}
      BY <1>4, <2>1, <3>1, StageMoved
    <3>3. Promise!Settle(n)
      BY <1>4, <2>3, <3>2 DEF Promise!Settle, Promise!Finish, Promise!GiveUp
    <3>4. QED
      BY <3>3 DEF Promise!Next
  <2>4. QED
    BY <1>4, <2>2, <2>3 DEF JobStates
<1>5. ASSUME NEW n \in Notification, JobStep(n)
      PROVE  [Promise!Next]_Promise!outboxVars
  <2>1. CASE Take(n)
    BY <1>4, <2>1 DEF Take, JobStates
  <2>2. CASE Promote(n)
    BY <1>4, <2>2 DEF Promote, JobStates
  <2>3. CASE Stall(n)
    BY <1>4, <2>3 DEF Stall, JobStates
  <2>4. QED
    BY <1>5, <2>1, <2>2, <2>3 DEF JobStep
<1>6. CASE RunStep
  <2>1. worker.id \in Notification /\ job[worker.id] = "active"
    BY <1>6, RunShape DEF RunStep, Send, Complete, Fail, Types, JobInv
  <2>2. CASE Send
    <3>1. UNCHANGED <<row, job>>
      BY <2>2 DEF Send
    <3>2. PICK k \in 0 .. Calls : copies' = [copies EXCEPT ![worker.id] = @ + k]
      BY <2>2 DEF Send
    <3>3. CASE k = 0
      <4>1. copies' = copies
        BY <3>2, <3>3 DEF Types
      <4>2. QED
        BY <1>1, <3>1, <4>1
    <3>4. CASE k # 0
      <4>1. \A m \in Notification : StageOf(m)' = StageOf(m)
        BY <3>1 DEF StageOf
      <4>2. k \in Nat \ {0}
        BY <3>4 DEF Calls
      <4>3. \A m \in Notification : copies'[m] > 0 <=> copies[m] > 0 \/ m = worker.id
        BY <2>1, <3>2, <4>2 DEF Types
      <4>4. PICK n \in Notification : n = worker.id
        BY <2>1
      <4>5. Promise!Deliver(n)
        BY <2>1, <4>1, <4>3, <4>4 DEF Promise!Deliver, StageOf
      <4>6. QED
        BY <4>5 DEF Promise!Next
    <3>5. QED
      BY <3>3, <3>4
  <2>3. CASE Complete
    BY <1>4, <2>1, <2>3 DEF Complete, JobInv, JobStates
  <2>4. CASE Fail
    BY <1>4, <2>1, <2>4 DEF Fail, JobStates
  <2>5. QED
    BY <1>6, <2>2, <2>3, <2>4 DEF RunStep
<1>7. CASE Cleanup
  <2>1. UNCHANGED <<job, copies>>
    BY <1>7 DEF Cleanup, pipeline
  <2>2. \A n \in Notification : row'[n] = "absent" <=> row[n] = "absent"
    BY <1>7 DEF Cleanup, Give, Types
  <2>3. QED
    BY <2>1, <2>2, StageKept DEF StageOf
<1>8. ASSUME NEW h \in Handler, NEW b \in Batches, CallQueue(h, b)
      PROVE  UNCHANGED Promise!outboxVars
  BY <1>1, <1>8 DEF CallQueue, pipeline
<1>9. CASE Shutdown \/ Crash \/ Restart \/ UNCHANGED notificationVars
  BY <1>1, <1>9 DEF Shutdown, StopBot, CloseWorker, CloseQueue, Exit, Crash, Restart,
                    pipeline, notificationVars
<1>10. QED
  BY <1>2, <1>3, <1>5, <1>6, <1>7, <1>8, <1>9 DEF Next, CallStep

(* Every run of the pipeline is a run of Outbox: the notifications of a     *)
(* call are recorded and handed over together, each one ends at most once,  *)
(* and ends as done only if the person was reached.                         *)
THEOREM PipelineImplementsOutbox == Safe => Promise!Safe
BY PromiseInit, PromiseStep, Invariants, PTL DEF Safe, Promise!Safe

-----------------------------------------------------------------------------
(* Ends                                                                     *)

(* What ended has ended: a job that is done or failed is never run again,   *)
(* and its person gets no further copy, whatever stalls and restarts.       *)
EndsAreFinal ==
  [][\A n \in Notification :
       job[n] \in {"done", "failed"} => job'[n] = job[n] /\ copies'[n] = copies[n]
    ]_notificationVars

LEMMA EndStep ==
  ASSUME Types, CallInv, JobInv, [Next]_notificationVars,
         NEW n \in Notification, job[n] \in {"done", "failed"}
  PROVE  job'[n] = job[n] /\ copies'[n] = copies[n]
<1>1. ASSUME NEW h \in Handler, AddJobs(h)
      PROVE  job'[n] = job[n] /\ copies'[n] = copies[n]
  BY <1>1 DEF AddJobs, Give, CallInv, Types
<1>2. ASSUME NEW m \in Notification, JobStep(m)
      PROVE  job'[n] = job[n] /\ copies'[n] = copies[n]
  BY <1>2 DEF JobStep, Take, Promote, Stall, SetJob, Types
<1>3. CASE RunStep
  <2>1. worker.id \in Notification /\ worker.id # n
    BY <1>3, RunShape DEF RunStep, Send, Complete, Fail, Types, JobInv
  <2>2. QED
    BY <1>3, <2>1 DEF RunStep, Send, Complete, Fail, SetJob, Types
<1>4. CASE \/ \E h \in Handler, b \in Batches : CallQueue(h, b)
           \/ \E h \in Handler : StoreRows(h)
           \/ Cleanup \/ Shutdown \/ Crash \/ Restart
           \/ UNCHANGED notificationVars
  BY <1>4 DEF CallQueue, StoreRows, Cleanup, Shutdown, StopBot, CloseWorker, CloseQueue,
              Exit, Crash, Restart, pipeline, notificationVars
<1>5. QED
  BY <1>1, <1>2, <1>3, <1>4 DEF Next, CallStep

(* A notification is not sent again once its job has ended.                 *)
THEOREM EndedJobsStay == Safe => EndsAreFinal
<1>1. Types /\ CallInv /\ JobInv /\ [Next]_notificationVars =>
        [\A n \in Notification :
           job[n] \in {"done", "failed"} => job'[n] = job[n] /\ copies'[n] = copies[n]
        ]_notificationVars
  BY EndStep
<1>2. QED
  BY <1>1, Invariants, PTL DEF Safe, EndsAreFinal

-----------------------------------------------------------------------------
(* Progress: what EveryJobEnds rests on apart from fairness                 *)

(* Where the run of a job is, if the worker has it.                         *)
RunOf(n) == IF worker.at # "free" /\ worker.id = n THEN worker.at ELSE "none"

(* The steps that an attempt can still take: sending, ending or being lost, *)
(* stalling or coming back from the delay, and the next start.              *)
StepsOfAttempt(n) ==
  CASE job[n] = "absent"  -> 2
    [] job[n] = "waiting" -> 1
    [] job[n] = "delayed" -> 2
    [] job[n] = "active"  -> IF RunOf(n) = "send" THEN 5
                             ELSE IF RunOf(n) \in {"complete", "fail"} THEN 4 ELSE 3
    [] OTHER -> 0

(* A bound on the steps of a job until it has ended.                        *)
StepsLeft(n) ==
  IF job[n] \in {"done", "failed"} THEN 0
  ELSE 5 * (MaxAttempts + MaxStalls - attempts[n]) + StepsOfAttempt(n)

(* Every step that concerns a job brings its end nearer, and no step of     *)
(* another job, of a caller or of the process moves it away.                *)
Progress(n) ==
  /\ StepsLeft(n)' <= StepsLeft(n)
  /\ <<job[n], attempts[n], RunOf(n)>>' # <<job[n], attempts[n], RunOf(n)>>
       => StepsLeft(n)' < StepsLeft(n)

StepsAreUsedUp == [][\A n \in Notification : Progress(n)]_notificationVars

StepsBounded ==
  \A n \in Notification : StepsLeft(n) \in 0 .. 5 * (MaxAttempts + MaxStalls) + 2

(* The bound is a number: no job has more than MaxAttempts + MaxStalls      *)
(* attempts before it.                                                      *)
LEMMA StepsTyped ==
  ASSUME Types, JobInv, NEW n \in Notification
  PROVE  /\ MaxAttempts + MaxStalls - attempts[n] \in 0 .. MaxAttempts + MaxStalls
         /\ StepsOfAttempt(n) \in 0 .. 5
         /\ job[n] \in {"waiting", "delayed", "absent"} =>
              MaxAttempts + MaxStalls - attempts[n] >= 1
         /\ StepsLeft(n) \in Nat
<1>1. /\ attempts[n] \in Nat /\ stalls[n] \in 0 .. MaxStalls /\ job[n] \in JobStates
      /\ attempts[n] <= MaxAttempts + stalls[n]
      /\ job[n] \in {"waiting", "delayed"} => attempts[n] <= MaxAttempts + stalls[n] - 1
      /\ job[n] = "absent" => attempts[n] = 0
      /\ MaxAttempts \in Nat \ {0} /\ MaxStalls \in Nat
  BY NotificationsAssumption DEF Types, JobInv
<1>2. StepsOfAttempt(n) \in 0 .. 5
  BY <1>1 DEF StepsOfAttempt, JobStates
<1>3. QED
  BY <1>1, <1>2 DEF StepsLeft

(* Nothing happens to a job whose state, attempts and run stay.             *)
LEMMA Untouched ==
  ASSUME Types, JobInv, NEW n \in Notification,
         job'[n] = job[n], attempts'[n] = attempts[n], RunOf(n)' = RunOf(n)
  PROVE  Progress(n)
BY StepsTyped DEF Progress, StepsLeft, StepsOfAttempt

LEMMA ProgressStep ==
  ASSUME Types, CallInv, JobInv, [Next]_notificationVars, NEW n \in Notification
  PROVE  Progress(n)
<1> DEFINE B == MaxAttempts + MaxStalls - attempts[n]
<1>0. /\ B \in Nat /\ StepsLeft(n) \in Nat
      /\ job[n] \in {"waiting", "delayed", "absent"} => B >= 1
      /\ attempts[n] \in Nat /\ job[n] \in JobStates
  BY StepsTyped DEF Types
<1>b. B = MaxAttempts + MaxStalls - attempts[n] /\ MaxAttempts \in Nat /\ MaxStalls \in Nat
  BY NotificationsAssumption
<1> HIDE DEF B
(* The run of a job is active, and the worker has a job.                    *)
<1>w. /\ RunOf(n) \in {"none", "send", "complete", "fail"}
      /\ RunOf(n) # "none" => job[n] = "active"
      /\ worker.at # "free" => worker \in Run /\ worker.id \in Notification
  BY RunShape DEF RunOf, Types, JobInv
<1>1. ASSUME NEW h \in Handler, AddJobs(h)
      PROVE  Progress(n)
  <2>1. /\ attempts'[n] = attempts[n] /\ RunOf(n)' = RunOf(n)
        /\ job'[n] = job[n] \/ (job[n] = "absent" /\ job'[n] = "waiting")
    BY <1>1 DEF AddJobs, Give, RunOf, CallInv
  <2>2. CASE job[n] = "absent" /\ job'[n] = "waiting"
    BY <1>0, <1>b, <2>1, <2>2 DEF Progress, StepsLeft, StepsOfAttempt
  <2>3. QED
    BY <2>1, <2>2, Untouched
<1>2. ASSUME NEW m \in Notification, Take(m)
      PROVE  Progress(n)
  <2>1. CASE m = n
    <3>1. /\ job[n] = "waiting" /\ job'[n] = "active"
          /\ attempts'[n] = attempts[n] + 1 /\ RunOf(n)' = "send"
      BY <1>2, <2>1 DEF Take, SetJob, RunOf, Types
    <3>2. StepsLeft(n) = 5 * B + 1 /\ StepsLeft(n)' = 5 * (B - 1) + 5
      BY <1>0, <1>b, <3>1 DEF StepsLeft, StepsOfAttempt
    <3>3. QED
      BY <1>0, <3>2 DEF Progress
  <2>2. CASE m # n
    <3>1. job'[n] = job[n] /\ attempts'[n] = attempts[n] /\ RunOf(n)' = RunOf(n)
      BY <1>2, <2>2 DEF Take, SetJob, RunOf, Types, Free
    <3>2. QED
      BY <3>1, Untouched
  <2>3. QED
    BY <2>1, <2>2
<1>3. ASSUME NEW m \in Notification, Promote(m) \/ Stall(m)
      PROVE  Progress(n)
  <2>1. attempts'[n] = attempts[n] /\ RunOf(n)' = RunOf(n)
    BY <1>3 DEF Promote, Stall, RunOf
  <2>2. CASE m = n
    <3>1. \/ job[n] = "delayed" /\ job'[n] = "waiting"
          \/ job[n] = "active" /\ RunOf(n) = "none" /\ job'[n] \in {"waiting", "failed"}
      BY <1>3, <2>2 DEF Promote, Stall, SetJob, RunOf, Types
    <3>2. QED
      BY <1>0, <1>b, <2>1, <3>1 DEF Progress, StepsLeft, StepsOfAttempt
  <2>3. CASE m # n
    <3>1. job'[n] = job[n]
      BY <1>3, <2>3 DEF Promote, Stall, SetJob, Types
    <3>2. QED
      BY <2>1, <3>1, Untouched
  <2>4. QED
    BY <2>2, <2>3
<1>4. CASE RunStep
  <2>1. worker \in Run /\ worker.id \in Notification /\ job[worker.id] = "active"
    BY <1>4, <1>w DEF RunStep, Send, Complete, Fail, JobInv
  <2>2. attempts' = attempts
    BY <1>4 DEF RunStep, Send, Complete, Fail
  <2>3. CASE worker.id # n
    <3>1. worker' = Free \/ worker'.id = worker.id
      BY <1>4, <2>1 DEF RunStep, Send, Complete, Fail, Run
    <3>2. job'[n] = job[n]
      BY <1>4, <2>3 DEF RunStep, Send, Complete, Fail, SetJob, Types
    <3>3. RunOf(n)' = RunOf(n)
      BY <2>3, <3>1 DEF RunOf, Free
    <3>4. QED
      BY <2>2, <3>2, <3>3, Untouched
  <2>4. CASE worker.id = n /\ Send
    <3>1. job'[n] = "active" /\ job[n] = "active"
      BY <2>1, <2>4 DEF Send
    <3>2. RunOf(n) = "send" /\ RunOf(n)' \in {"complete", "fail"}
      BY <2>1, <2>4 DEF Send, RunOf, Run
    <3>3. QED
      BY <1>0, <1>b, <2>2, <3>1, <3>2 DEF Progress, StepsLeft, StepsOfAttempt
  <2>5. CASE worker.id = n /\ (Complete \/ Fail)
    <3>1. job[n] = "active" /\ job'[n] \in {"done", "failed", "delayed"}
      BY <2>1, <2>5 DEF Complete, Fail, SetJob, Types
    <3>2. RunOf(n) \in {"complete", "fail"}
      BY <2>5 DEF Complete, Fail, RunOf
    <3>3. QED
      BY <1>0, <1>b, <2>2, <3>1, <3>2 DEF Progress, StepsLeft, StepsOfAttempt
  <2>6. QED
    BY <1>4, <2>3, <2>4, <2>5 DEF RunStep
<1>5. CASE Exit \/ Crash
  <2>1. job' = job /\ attempts' = attempts /\ RunOf(n)' = "none"
    BY <1>5 DEF Exit, Crash, Dies, pipeline, RunOf, Free
  <2>2. CASE RunOf(n) = "none"
    BY <2>1, <2>2, Untouched
  <2>3. CASE RunOf(n) # "none"
    BY <1>0, <1>b, <1>w, <2>1, <2>3 DEF Progress, StepsLeft, StepsOfAttempt
  <2>4. QED
    BY <2>2, <2>3
<1>6. CASE \/ \E h \in Handler, b \in Batches : CallQueue(h, b)
           \/ \E h \in Handler : StoreRows(h)
           \/ Cleanup \/ StopBot \/ CloseWorker \/ CloseQueue \/ Restart
           \/ UNCHANGED notificationVars
  <2>1. UNCHANGED <<job, attempts, worker>>
    BY <1>6 DEF CallQueue, StoreRows, Cleanup, StopBot, CloseWorker, CloseQueue, Restart,
                pipeline, notificationVars
  <2>2. QED
    BY <2>1, Untouched DEF RunOf
<1>7. QED
  BY <1>1, <1>2, <1>3, <1>4, <1>5, <1>6 DEF Next, CallStep, JobStep, Shutdown

(* A job takes no more than 5 * (MaxAttempts + MaxStalls) + 2 steps to its  *)
(* end, however its attempts fail and whenever the process dies: it can be  *)
(* left without an end only if it is left alone.                            *)
THEOREM JobsRunOutOfSteps == Safe => []StepsBounded /\ StepsAreUsedUp
<1>1. Init => StepsBounded
  BY NotificationsAssumption DEF Init, StepsBounded, StepsLeft, StepsOfAttempt
<1>2. Types /\ JobInv => \A n \in Notification : StepsLeft(n) \in Nat
  BY StepsTyped
<1>3. (Types /\ JobInv => \A n \in Notification : StepsLeft(n) \in Nat)'
  BY <1>2, PTL
<1>4. Types /\ CallInv /\ JobInv /\ StepsBounded /\ [Next]_notificationVars
        => StepsBounded'
  <2> SUFFICES ASSUME Types, CallInv, JobInv, StepsBounded, [Next]_notificationVars,
                      NEW n \in Notification
               PROVE  StepsLeft(n)' \in 0 .. 5 * (MaxAttempts + MaxStalls) + 2
    BY DEF StepsBounded
  <2>1. /\ StepsLeft(n) \in 0 .. 5 * (MaxAttempts + MaxStalls) + 2
        /\ StepsLeft(n)' <= StepsLeft(n)
    BY ProgressStep DEF StepsBounded, Progress
  <2>2. StepsLeft(n)' \in Nat
    BY <1>3, TypesStep, JobStepKeeps
  <2>3. QED
    BY <2>1, <2>2, NotificationsAssumption
<1>5. Types /\ CallInv /\ JobInv /\ [Next]_notificationVars =>
        [\A n \in Notification : Progress(n)]_notificationVars
  BY ProgressStep
<1>6. QED
  BY <1>1, <1>4, <1>5, Invariants, PTL DEF Safe, StepsAreUsedUp

-----------------------------------------------------------------------------
(* Shutdown                                                                 *)

(* Once the worker is closed it runs nothing, until the process starts      *)
(* again (shutdown.ts closes it before the queue).                          *)
ClosedMeansFree ==
  phase \in {"worker_closed", "queue_closed", "exited"} => worker = Free

LEMMA ClosedStep == ClosedMeansFree /\ [Next]_notificationVars => ClosedMeansFree'
<1> SUFFICES ASSUME ClosedMeansFree, [Next]_notificationVars
             PROVE  ClosedMeansFree'
  OBVIOUS
<1> USE DEF ClosedMeansFree, process
<1>1. ASSUME NEW h \in Handler, CallStep(h)
      PROVE  ClosedMeansFree'
  BY <1>1 DEF CallStep, CallQueue, StoreRows, AddJobs
<1>2. ASSUME NEW n \in Notification, JobStep(n)
      PROVE  ClosedMeansFree'
  BY <1>2 DEF JobStep, Take, Promote, Stall, Working
<1>3. CASE RunStep
  <2>1. worker # Free /\ phase' = phase
    BY <1>3 DEF RunStep, Send, Complete, Fail, Free
  <2>2. QED
    BY <2>1
<1>4. CASE Cleanup \/ Shutdown \/ Crash \/ Restart \/ UNCHANGED notificationVars
  BY <1>4 DEF Cleanup, Shutdown, StopBot, CloseWorker, CloseQueue, Exit, Crash, Dies,
              Restart, notificationVars
<1>5. QED
  BY <1>1, <1>2, <1>3, <1>4 DEF Next

(* A shutdown cuts no run short: the run that was under way when it began   *)
(* has ended when the worker counts as closed, and none begins behind it.   *)
THEOREM ShutdownCutsNoRun == Safe => []ClosedMeansFree
<1>1. Init => ClosedMeansFree
  BY DEF Init, ClosedMeansFree
<1>2. QED
  BY <1>1, ClosedStep, PTL DEF Safe
==============================================================================
