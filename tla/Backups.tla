-------------------------------- MODULE Backups --------------------------------
(***************************************************************************)
(* Backups of the database: createBackup, restoreBackup, deleteBackup and  *)
(* cleanupOldBackups of backup.service.ts, called by the handlers of       *)
(* backup.ts and settings.ts and by the schedule of backup-schedule.ts.    *)
(*                                                                         *)
(* A backup is a row of backup_metadata and a file; no statement changes   *)
(* both, and the process may die between any two of them.  The schedule    *)
(* runs beside the updates, in polling mode too.  The rows are themselves  *)
(* part of what is dumped and restored.                                    *)
(***************************************************************************)
EXTENDS Integers

CONSTANTS
  Backup,  \* ids of backups; each has a file name of its own
  Handler, \* updates that may be handled concurrently
  Cron,    \* the schedule; one run of it at a time
  None,    \* no restore is to be confirmed
  MaxStops \* bound on deaths of the process

ASSUME BackupsAssumption ==
  None \notin Backup /\ Cron \notin Handler /\ MaxStops \in Nat

Actor == Handler \cup {Cron}

VARIABLES
  row,      \* backup_metadata: the status, or "absent" before and "gone" after
  file,     \* "none", "open", "streamed" or "sealed" (the auth tag is appended)
  cut,      \* backups whose pg_dump ended with an error after it had started
  snapshot, \* the rows that each dump contains
  old,      \* backups that started before the cutoff date
  pending,  \* session.pendingRestore of the SUPER_ADMIN
  task,     \* what each actor is doing
  lost,     \* history: rows in progress that nobody works on, and why is known
  stuck,    \* history: files that could not be deleted
  stops     \* deaths of the process

backupVars == <<row, file, cut, snapshot, old, pending, task, lost, stuck, stops>>
files == <<file, cut, snapshot>>
history == <<lost, stuck>>

Statuses == {"pending", "in_progress", "completed", "failed"}
RowStates == Statuses \cup {"absent", "gone"}
Idle == [at |-> "idle"]
CreateTask == [at: {"mark", "open", "stream", "seal", "complete", "fail"}, id: Backup]
RestoreTask == [at: {"find", "read", "apply", "answer"}, id: Backup]
CleanTask == [at: {"list"}] \cup [at: {"unlink_old"}, rest: SUBSET Backup]
             \cup [at: {"delete_old"}, rest: SUBSET Backup, id: Backup]

TypeOK ==
  /\ row \in [Backup -> RowStates]
  /\ file \in [Backup -> {"none", "open", "streamed", "sealed"}]
  /\ cut \subseteq Backup /\ old \subseteq Backup
  /\ lost \subseteq Backup /\ stuck \subseteq Backup
  /\ snapshot \in [Backup -> [Backup -> RowStates]]
  /\ pending \in Backup \cup {None}
  /\ task \in [Actor -> {Idle} \cup CreateTask \cup RestoreTask \cup CleanTask]
  /\ stops \in 0 .. MaxStops

NoRows == [b \in Backup |-> "absent"]

Init ==
  /\ row = NoRows
  /\ file = [b \in Backup |-> "none"]
  /\ cut = {} /\ old = {} /\ lost = {} /\ stuck = {}
  /\ snapshot = [b \in Backup |-> NoRows]
  /\ pending = None
  /\ task = [a \in Actor |-> Idle]
  /\ stops = 0

Goto(a, stage) == task' = [task EXCEPT ![a].at = stage]
Begin(a, t) == task[a] = Idle /\ task' = [task EXCEPT ![a] = t]
Finish(a) == task' = [task EXCEPT ![a] = Idle]
SetRow(b, s) == row' = [row EXCEPT ![b] = s]
SetFile(b, s) == file' = [file EXCEPT ![b] = s]
Exists(b) == row[b] \in Statuses
Creating(b) == \E a \in Actor : task[a] \in CreateTask /\ task[a].id = b

-----------------------------------------------------------------------------
(* createBackup.  Whatever throws after the row was created leads to the    *)
(* catch block.                                                             *)

Create(a, b) ==
  /\ row[b] = "absent"
  /\ Begin(a, [at |-> "mark", id |-> b])
  /\ SetRow(b, "pending")
  /\ UNCHANGED <<files, old, pending, history, stops>>

Throws(a) == Goto(a, "fail")

Mark(a) ==
  /\ task[a].at = "mark"
  /\ \/ SetRow(task[a].id, "in_progress") /\ Goto(a, "open")
     \/ Throws(a) /\ UNCHANGED row
  /\ UNCHANGED <<files, old, pending, history, stops>>

(* pg_dump reads all tables at one point in time.                           *)
Open(a) ==
  /\ task[a].at = "open"
  /\ \/ /\ SetFile(task[a].id, "open")
        /\ snapshot' = [snapshot EXCEPT ![task[a].id] = row]
        /\ Goto(a, "stream")
     \/ Throws(a) /\ UNCHANGED <<file, snapshot>>
  /\ UNCHANGED <<row, cut, old, pending, history, stops>>

(* The pipeline ends when pg_dump closes its output, whatever its exit      *)
(* code; it fails when the file cannot be written.                          *)
Stream(a) ==
  /\ task[a].at = "stream"
  /\ \/ /\ SetFile(task[a].id, "streamed")
        /\ cut' \in {cut, cut \cup {task[a].id}}
        /\ Goto(a, "seal")
     \/ Throws(a) /\ UNCHANGED <<file, cut>>
  /\ UNCHANGED <<row, snapshot, old, pending, history, stops>>

Seal(a) ==
  /\ task[a].at = "seal"
  /\ \/ SetFile(task[a].id, "sealed") /\ Goto(a, "complete")
     \/ Throws(a) /\ UNCHANGED file
  /\ UNCHANGED <<row, cut, snapshot, old, pending, history, stops>>

(* The schedule goes on with the cleanup.                                   *)
Complete(a) ==
  /\ task[a].at = "complete"
  /\ \/ /\ SetRow(task[a].id, "completed")
        /\ IF a = Cron THEN task' = [task EXCEPT ![a] = [at |-> "list"]] ELSE Finish(a)
     \/ Throws(a) /\ UNCHANGED row
  /\ UNCHANGED <<files, old, pending, history, stops>>

(* Fault: the error is logged and thrown again, but not stored.             *)
FailUnrecorded(a) ==
  /\ task[a].at = "fail"
  /\ Finish(a)
  /\ UNCHANGED <<row, files, old, pending, history, stops>>

(* The error is thrown again, and the schedule leaves the cleanup out.  The *)
(* update of the catch block may throw as well, and nothing repairs the row.*)
Fail(a) ==
  /\ task[a].at = "fail"
  /\ \/ SetRow(task[a].id, "failed") /\ UNCHANGED lost
     \/ lost' = lost \cup {task[a].id} /\ UNCHANGED row
  /\ Finish(a)
  /\ UNCHANGED <<files, old, pending, stuck, stops>>

-----------------------------------------------------------------------------
(* restoreBackup, behind its two-step confirmation                          *)

AskRestore(h, b) ==
  /\ task[h] = Idle /\ Exists(b)
  /\ pending' = b
  /\ UNCHANGED <<row, files, old, task, history, stops>>

(* Another text, or a known command (bot/index.ts:109).                     *)
Decline(h) ==
  /\ task[h] = Idle /\ pending # None
  /\ pending' = None
  /\ UNCHANGED <<row, files, old, task, history, stops>>

(* Fault: the keyword is enough, whether or not a restore was asked for.    *)
ConfirmUnasked(h) ==
  /\ Begin(h, [at |-> "find", id |-> pending])
  /\ UNCHANGED <<row, files, old, pending, history, stops>>

Confirm(h) ==
  /\ pending # None
  /\ Begin(h, [at |-> "find", id |-> pending])
  /\ UNCHANGED <<row, files, old, pending, history, stops>>

RestoreFind(h) ==
  /\ task[h].at = "find"
  /\ Goto(h, IF row[task[h].id] = "completed" THEN "read" ELSE "answer")
  /\ UNCHANGED <<row, files, old, pending, history, stops>>

(* A file that is gone or has no auth tag is refused; writing the decrypted *)
(* dump may fail.  That plaintext is not modelled.                          *)
RestoreRead(h) ==
  /\ task[h].at = "read"
  /\ \/ file[task[h].id] = "sealed" /\ Goto(h, "apply")
     \/ Goto(h, "answer")
  /\ UNCHANGED <<row, files, old, pending, history, stops>>

(* What the COPY of backup_metadata does: one row that is there already     *)
(* stops it, and psql goes on with the next table.                          *)
Copied(S) ==
  IF \E b \in Backup : S[b] \in Statuses /\ Exists(b) THEN row
  ELSE [b \in Backup |-> IF S[b] \in Statuses THEN S[b] ELSE row[b]]

InProgress(r) == {b \in Backup : r[b] \in {"pending", "in_progress"}}

(* Fault: the dump drops the tables before it fills them.                   *)
RestoreApplyClean(h) ==
  /\ task[h].at = "apply"
  /\ row' = snapshot[task[h].id]
  /\ lost' = lost \cup (InProgress(row') \ InProgress(row))
  /\ Goto(h, "answer")
  /\ UNCHANGED <<files, old, pending, stuck, stops>>

(* psql may fail before it did anything.                                    *)
RestoreApply(h) ==
  /\ task[h].at = "apply"
  /\ row' \in {row, Copied(snapshot[task[h].id])}
  /\ lost' = lost \cup (InProgress(row') \ InProgress(row))
  /\ Goto(h, "answer")
  /\ UNCHANGED <<files, old, pending, stuck, stops>>

RestoreAnswer(h) ==
  /\ task[h].at = "answer"
  /\ pending' = None
  /\ Finish(h)
  /\ UNCHANGED <<row, files, old, history, stops>>

-----------------------------------------------------------------------------
(* cleanupOldBackups, called by the schedule only                           *)

(* A backup does not run for as long as backups are kept.                   *)
Age(b) ==
  /\ Exists(b) /\ ~Creating(b) /\ b \notin old
  /\ old' = old \cup {b}
  /\ UNCHANGED <<row, files, pending, task, history, stops>>

(* Fault: every row is taken for an old one.                                *)
CleanListAll ==
  /\ task[Cron].at = "list"
  /\ task' = [task EXCEPT ![Cron] =
                [at |-> "unlink_old", rest |-> {b \in Backup : Exists(b)}]]
  /\ UNCHANGED <<row, files, old, pending, history, stops>>

(* The age decides, not the status.                                         *)
CleanList ==
  /\ task[Cron].at = "list"
  /\ task' = [task EXCEPT ![Cron] =
                [at |-> "unlink_old", rest |-> {b \in old : Exists(b)}]]
  /\ UNCHANGED <<row, files, old, pending, history, stops>>

(* Fault: deleteBackup deletes the row and leaves the file.                 *)
CleanUnlinkForgotten ==
  /\ task[Cron].at = "unlink_old"
  /\ \E b \in task[Cron].rest :
       task' = [task EXCEPT ![Cron] =
                  [at |-> "delete_old", rest |-> task[Cron].rest \ {b}, id |-> b]]
  /\ UNCHANGED <<row, files, old, pending, history, stops>>

(* deleteBackup goes on when the file cannot be deleted; one that is not    *)
(* there is no loss.                                                        *)
CleanUnlink ==
  /\ task[Cron].at = "unlink_old"
  /\ \E b \in task[Cron].rest :
       /\ \/ SetFile(b, "none") /\ UNCHANGED stuck
          \/ file[b] # "none" /\ stuck' = stuck \cup {b} /\ UNCHANGED file
       /\ task' = [task EXCEPT ![Cron] =
                     [at |-> "delete_old", rest |-> task[Cron].rest \ {b}, id |-> b]]
  /\ UNCHANGED <<row, cut, snapshot, old, pending, lost, stops>>

CleanDelete ==
  /\ task[Cron].at = "delete_old"
  /\ SetRow(task[Cron].id, "gone")
  /\ task' = [task EXCEPT ![Cron] = [at |-> "unlink_old", rest |-> task[Cron].rest]]
  /\ UNCHANGED <<files, old, pending, history, stops>>

(* The run ends with its last backup or with the first statement that       *)
(* throws.                                                                  *)
CleanEnd ==
  /\ task[Cron].at \in {"list", "unlink_old", "delete_old"}
  /\ Finish(Cron)
  /\ UNCHANGED <<row, files, old, pending, history, stops>>

(* Also the way out of a missing pg_dump: spawn emits an error that nobody  *)
(* listens to, and shutdown.ts:63-67 ends the process.                      *)
Crash ==
  /\ stops < MaxStops
  /\ stops' = stops + 1
  /\ lost' = lost \cup {b \in InProgress(row) : Creating(b)}
  /\ task' = [a \in Actor |-> Idle]
  /\ UNCHANGED <<row, files, old, pending, stuck>>

-----------------------------------------------------------------------------
CreateStep(a) ==
  \/ \E b \in Backup : Create(a, b)
  \/ Mark(a) \/ Open(a) \/ Stream(a) \/ Seal(a) \/ Complete(a) \/ Fail(a)

RestoreStep(h) ==
  \/ \E b \in Backup : AskRestore(h, b)
  \/ Decline(h) \/ Confirm(h)
  \/ RestoreFind(h) \/ RestoreRead(h) \/ RestoreApply(h) \/ RestoreAnswer(h)

CleanStep == CleanList \/ CleanUnlink \/ CleanDelete \/ CleanEnd

Next ==
  \/ \E a \in Actor : CreateStep(a)
  \/ \E h \in Handler : RestoreStep(h)
  \/ CleanStep
  \/ \E b \in Backup : Age(b)
  \/ Crash

Spec == Init /\ [][Next]_backupVars

-----------------------------------------------------------------------------
(* A completed backup that is not past the retention has its file, with the *)
(* auth tag: a restore that is asked for today can be read                  *)
(* (backup.service.ts:111-122, 244-257).                                    *)
YoungIsKept ==
  \A b \in Backup : row[b] = "completed" /\ b \notin old => file[b] = "sealed"

(* No file is left that no row names, but for one that could not be deleted *)
(* with its row: the cleanup would never find it                            *)
(* (backup.service.ts:59-85, 230-237).                                      *)
FilesHaveRows ==
  \A b \in Backup : file[b] # "none" => Exists(b) \/ b \in stuck

(* A row says that its backup runs only while it runs, with three           *)
(* exceptions that nothing repairs: the process died in the middle of the   *)
(* backup, the update of the catch block threw (backup.service.ts:129), or  *)
(* a restore brought the row back (backup.service.ts:127-138).              *)
InProgressIsWorkedOn ==
  \A b \in InProgress(row) : Creating(b) \/ b \in lost

(* A completed or failed backup keeps its status until it is deleted: not   *)
(* even a restore, whose dump holds the row of the backup in progress,      *)
(* brings an earlier status back (data-model.md, state transitions).        *)
StatusIsFinal ==
  [][\A b \in Backup :
       row[b] \in {"completed", "failed"} => row'[b] \in {row[b], "gone"}]_backupVars

(* A backup whose dump was cut short does not end as completed              *)
(* (data-model.md, transition rules).                                       *)
CompletedIsWhole ==
  \A b \in Backup : row[b] = "completed" => b \notin cut

===============================================================================
