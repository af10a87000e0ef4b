------------------------------ MODULE BackupsProofs ------------------------------
(***************************************************************************)
(* Proofs about Backups, for every set of backups and handlers and any     *)
(* number of deaths of the process.                                        *)
(*                                                                         *)
(* The argument rests on what nobody else may touch: a backup in the       *)
(* making has one maker, its row says so, and it is not old (MakersHold,   *)
(* OneMaker); the cleanup has only old ones in hand (CleanerHolds); what   *)
(* is gone was old, and what a dump contains has existed (PastIsKnown), so *)
(* that a restore brings back old backups only.                            *)
(***************************************************************************)
EXTENDS Backups, TLAPS

MakePlaces == {"mark", "open", "stream", "seal", "complete", "fail"}
RestorePlaces == {"find", "read", "apply", "answer"}
Files == {"none", "open", "streamed", "sealed"}

(* The place of an actor tells what kind of task it has.                    *)
LEMMA TaskShape ==
  ASSUME TypeOK, NEW a \in Actor
  PROVE  /\ task[a].at \in MakePlaces <=> task[a] \in CreateTask
         /\ task[a].at \in RestorePlaces => task[a] \in RestoreTask
         /\ task[a].at = "unlink_old" =>
              task[a] \in [at: {"unlink_old"}, rest: SUBSET Backup]
         /\ task[a].at = "delete_old" =>
              task[a] \in [at: {"delete_old"}, rest: SUBSET Backup, id: Backup]
<1>1. task[a] \in {Idle} \cup CreateTask \cup RestoreTask \cup CleanTask
  BY DEF TypeOK
<1>2. QED
  BY <1>1 DEF Idle, CreateTask, RestoreTask, CleanTask, MakePlaces, RestorePlaces

LEMMA HandlersAct == Handler \subseteq Actor /\ Cron \in Actor /\ Cron \notin Handler
BY BackupsAssumption DEF Actor

-----------------------------------------------------------------------------
(* Types                                                                    *)

Tasks == {Idle} \cup CreateTask \cup RestoreTask \cup CleanTask

LEMMA CreateTyped ==
  ASSUME TypeOK, NEW a \in Actor, CreateStep(a)
  PROVE  TypeOK'
<1> USE DEF files, history
<1>1. ASSUME NEW b \in Backup, Create(a, b)
      PROVE  TypeOK'
  <2>1. [at |-> "mark", id |-> b] \in Tasks
    BY DEF Tasks, CreateTask
  <2>2. row' \in [Backup -> RowStates]
    BY <1>1 DEF TypeOK, Create, SetRow, RowStates, Statuses
  <2>3. task' \in [Actor -> Tasks]
    BY <1>1, <2>1 DEF TypeOK, Create, Begin, Tasks
  <2>4. QED
    BY <1>1, <2>2, <2>3 DEF TypeOK, Create, Tasks
<1>2. CASE Mark(a) \/ Open(a) \/ Stream(a) \/ Seal(a) \/ Complete(a) \/ Fail(a)
  <2>1. task[a] \in CreateTask /\ task[a].id \in Backup
    BY <1>2, TaskShape
       DEF MakePlaces, CreateTask, Mark, Open, Stream, Seal, Complete, Fail
  <2>2. \A p \in MakePlaces : [task[a] EXCEPT !.at = p] \in Tasks
    BY <2>1 DEF Tasks, CreateTask, MakePlaces
  <2>3. [at |-> "list"] \in Tasks /\ Idle \in Tasks
    BY DEF Tasks, CleanTask
  <2>4. task' \in [Actor -> Tasks]
    BY <1>2, <2>2, <2>3
       DEF TypeOK, Mark, Open, Stream, Seal, Complete, Fail, Throws, Goto, Finish, MakePlaces, Tasks
  <2>5. row' \in [Backup -> RowStates]
    BY <1>2, <2>1
       DEF TypeOK, Mark, Open, Stream, Seal, Complete, Fail, SetRow, RowStates, Statuses
  <2>6. file' \in [Backup -> Files]
    BY <1>2, <2>1 DEF TypeOK, Mark, Open, Stream, Seal, Complete, Fail, SetFile, Files
  <2>7. snapshot' \in [Backup -> [Backup -> RowStates]] /\ cut' \subseteq Backup
    BY <1>2, <2>1 DEF TypeOK, Mark, Open, Stream, Seal, Complete, Fail
  <2>8. UNCHANGED <<old, pending, stuck, stops>> /\ lost' \subseteq Backup
    BY <1>2, <2>1 DEF TypeOK, Mark, Open, Stream, Seal, Complete, Fail
  <2>9. QED
    BY <2>4, <2>5, <2>6, <2>7, <2>8 DEF TypeOK, Tasks, Files
<1>3. QED
  BY <1>1, <1>2 DEF CreateStep

(* A restore fills in rows that are not there, or changes nothing.          *)
LEMMA CopiedRows ==
  ASSUME TypeOK, NEW S \in [Backup -> RowStates], NEW r, r \in {row, Copied(S)}
  PROVE  /\ r \in [Backup -> RowStates]
         /\ \A b \in Backup : r[b] = row[b] \/ (~Exists(b) /\ S[b] \in Statuses /\ r[b] = S[b])
<1>1. CASE r = row
  BY <1>1 DEF TypeOK
<1>2. CASE r # row
  BY <1>2 DEF Copied, TypeOK, Exists
<1>3. QED
  BY <1>1, <1>2

LEMMA RestoreTyped ==
  ASSUME TypeOK, NEW h \in Handler, RestoreStep(h)
  PROVE  TypeOK'
<1> USE DEF files, history
<1>0. h \in Actor
  BY HandlersAct
<1>1. ASSUME NEW b \in Backup, AskRestore(h, b)
      PROVE  TypeOK'
  BY <1>1 DEF TypeOK, AskRestore
<1>2. CASE Decline(h)
  BY <1>2 DEF TypeOK, Decline
<1>3. CASE Confirm(h)
  <2>1. [at |-> "find", id |-> pending] \in Tasks
    BY <1>3 DEF TypeOK, Confirm, Tasks, RestoreTask
  <2>2. task' \in [Actor -> Tasks]
    BY <1>0, <1>3, <2>1 DEF TypeOK, Confirm, Begin, Tasks
  <2>3. QED
    BY <1>3, <2>2 DEF TypeOK, Confirm, Tasks
<1>4. CASE RestoreFind(h) \/ RestoreRead(h) \/ RestoreApply(h)
           \/ RestoreAnswer(h)
  <2>1. task[h] \in RestoreTask /\ task[h].id \in Backup
    BY <1>0, <1>4, TaskShape
       DEF RestorePlaces, RestoreTask, RestoreFind, RestoreRead, RestoreApply,
           RestoreAnswer
  <2>2. /\ \A p \in RestorePlaces : [task[h] EXCEPT !.at = p] \in Tasks
        /\ Idle \in Tasks
    BY <2>1 DEF Tasks, RestoreTask, RestorePlaces
  <2>3. task' \in [Actor -> Tasks]
    BY <1>0, <1>4, <2>2
       DEF TypeOK, RestoreFind, RestoreRead, RestoreApply, RestoreAnswer,
           Goto, Finish, RestorePlaces, Tasks
  <2>4. row' \in [Backup -> RowStates] /\ lost' \subseteq Backup
    <3>1. CASE RestoreApply(h)
      <4>1. snapshot[task[h].id] \in [Backup -> RowStates]
        BY <2>1 DEF TypeOK
      <4>2. row' \in [Backup -> RowStates]
        BY <3>1, <4>1, CopiedRows DEF RestoreApply
      <4>3. QED
        BY <3>1, <4>2 DEF TypeOK, RestoreApply, InProgress
    <3>2. CASE ~RestoreApply(h)
      BY <1>4, <3>2 DEF TypeOK, RestoreFind, RestoreRead, RestoreAnswer
    <3>3. QED
      BY <3>1, <3>2
  <2>5. pending' \in Backup \cup {None}
    BY <1>4
       DEF TypeOK, RestoreFind, RestoreRead, RestoreApply, RestoreAnswer
  <2>6. UNCHANGED <<files, old, stuck, stops>>
    BY <1>4 DEF RestoreFind, RestoreRead, RestoreApply, RestoreAnswer
  <2>7. QED
    BY <2>3, <2>4, <2>5, <2>6 DEF TypeOK, Tasks
<1>5. QED
  BY <1>1, <1>2, <1>3, <1>4 DEF RestoreStep

LEMMA CleanTyped ==
  ASSUME TypeOK, CleanStep
  PROVE  TypeOK'
<1> USE DEF files, history
<1>0. Cron \in Actor
  BY HandlersAct
<1>1. CASE CleanList
  <2>1. [at |-> "unlink_old", rest |-> {b \in old : Exists(b)}] \in Tasks
    BY DEF TypeOK, Tasks, CleanTask
  <2>2. task' \in [Actor -> Tasks]
    BY <1>0, <1>1, <2>1 DEF TypeOK, CleanList, Tasks
  <2>3. QED
    BY <1>1, <2>2 DEF TypeOK, CleanList, Tasks
<1>2. CASE CleanUnlink
  <2>1. PICK b \in task[Cron].rest :
          /\ file' \in {file, [file EXCEPT ![b] = "none"]} /\ stuck' \in {stuck, stuck \cup {b}}
          /\ task' = [task EXCEPT ![Cron] =
                        [at |-> "delete_old", rest |-> task[Cron].rest \ {b}, id |-> b]]
    BY <1>2 DEF CleanUnlink, SetFile
  <2>2. b \in Backup /\ task[Cron].rest \subseteq Backup
    BY <1>0, <1>2, TaskShape DEF CleanUnlink
  <2>3. [at |-> "delete_old", rest |-> task[Cron].rest \ {b}, id |-> b] \in Tasks
    BY <2>2 DEF Tasks, CleanTask
  <2>4. task' \in [Actor -> Tasks]
    BY <1>0, <2>1, <2>3 DEF TypeOK, Tasks
  <2>5. file' \in [Backup -> Files] /\ stuck' \subseteq Backup
    BY <2>1, <2>2 DEF TypeOK, Files
  <2>6. UNCHANGED <<row, cut, snapshot, old, pending, lost, stops>>
    BY <1>2 DEF CleanUnlink
  <2>7. QED
    BY <2>4, <2>5, <2>6 DEF TypeOK, Tasks, Files
<1>3. CASE CleanDelete
  <2>1. task[Cron].id \in Backup /\ task[Cron].rest \subseteq Backup
    BY <1>0, <1>3, TaskShape DEF CleanDelete
  <2>2. [at |-> "unlink_old", rest |-> task[Cron].rest] \in Tasks
    BY <2>1 DEF Tasks, CleanTask
  <2>3. task' \in [Actor -> Tasks]
    BY <1>0, <1>3, <2>2 DEF TypeOK, CleanDelete, Tasks
  <2>4. row' \in [Backup -> RowStates]
    BY <1>3, <2>1 DEF TypeOK, CleanDelete, SetRow, RowStates
  <2>5. QED
    BY <1>3, <2>3, <2>4 DEF TypeOK, CleanDelete, Tasks
<1>4. CASE CleanEnd
  BY <1>0, <1>4 DEF TypeOK, CleanEnd, Finish
<1>5. QED
  BY <1>1, <1>2, <1>3, <1>4 DEF CleanStep

LEMMA TypeStep == TypeOK /\ [Next]_backupVars => TypeOK'
<1> SUFFICES ASSUME TypeOK, [Next]_backupVars
             PROVE  TypeOK'
  OBVIOUS
<1> USE DEF files, history
<1>1. ASSUME NEW b \in Backup, Age(b)
      PROVE  TypeOK'
  BY <1>1 DEF TypeOK, Age
<1>2. CASE Crash
  <2>1. lost' \subseteq Backup
    BY <1>2 DEF TypeOK, Crash, InProgress
  <2>2. stops' \in 0 .. MaxStops
    BY <1>2, BackupsAssumption DEF TypeOK, Crash
  <2>3. task' \in [Actor -> Tasks]
    BY <1>2 DEF Crash, Tasks
  <2>4. QED
    BY <1>2, <2>1, <2>2, <2>3 DEF TypeOK, Crash, Tasks
<1>3. CASE UNCHANGED backupVars
  BY <1>3 DEF TypeOK, backupVars
<1>4. QED
  BY <1>1, <1>2, <1>3, CreateTyped, RestoreTyped, CleanTyped DEF Next

LEMMA TypeInit == Init => TypeOK
BY BackupsAssumption DEF Init, TypeOK, NoRows, RowStates

(* Rows, files, dumps and the actors stay well formed.                      *)
THEOREM BackupsTypeCorrect == Spec => []TypeOK
BY TypeInit, TypeStep, PTL DEF Spec

-----------------------------------------------------------------------------
(* Who may touch what                                                       *)

(* The row of a backup in the making says how far it is, its file is sealed *)
(* before it is completed, and it is not an old one.                        *)
RowOf(p) ==
  CASE p = "mark" -> {"pending"}
    [] p = "fail" -> {"pending", "in_progress"}
    [] OTHER      -> {"in_progress"}

MakersHold ==
  \A a \in Actor :
    LET t == task[a] IN
    t \in CreateTask =>
      /\ row[t.id] \in RowOf(t.at)
      /\ t.at = "complete" => file[t.id] = "sealed"
      /\ t.id \notin old

OneMaker ==
  \A a, c \in Actor :
    task[a] \in CreateTask /\ task[c] \in CreateTask /\ task[a].id = task[c].id => a = c

(* What is gone was old, and so was what could not be deleted; what is old  *)
(* or in a dump has existed.                                                *)
PastIsKnown ==
  /\ \A b \in Backup : row[b] = "gone" => b \in old
  /\ \A b \in old : row[b] # "absent"
  /\ stuck \subseteq old
  /\ \A b, c \in Backup : snapshot[c][b] \in Statuses => row[b] # "absent"

CleanerHolds ==
  LET t == task[Cron] IN
  /\ t.at = "unlink_old" => t.rest \subseteq old
  /\ t.at = "delete_old" => /\ t.rest \subseteq old /\ t.id \in old
                           /\ (file[t.id] = "none" \/ t.id \in stuck)

BackupInv ==
  MakersHold /\ OneMaker /\ PastIsKnown /\ CleanerHolds /\ YoungIsKept /\ FilesHaveRows

(* A step of the maker of a backup                                          *)
LEMMA MakerMoves ==
  ASSUME TypeOK, BackupInv, NEW a \in Actor, task[a] \in CreateTask,
         NEW s \in Statuses, NEW f \in Files, NEW t,
         row' = [row EXCEPT ![task[a].id] = s],
         file' = [file EXCEPT ![task[a].id] = f],
         snapshot' \in {snapshot, [snapshot EXCEPT ![task[a].id] = row]},
         task' = [task EXCEPT ![a] = t],
         UNCHANGED <<old, stuck>>,
         t \in CreateTask => /\ t.id = task[a].id
                             /\ s \in RowOf(t.at)
                             /\ t.at = "complete" => f = "sealed",
         t \notin CreateTask => t.at \in {"idle", "list"},
         s = "completed" => f = "sealed"
  PROVE  BackupInv'
<1> DEFINE b == task[a].id
<1>0. b \in Backup /\ b \notin old /\ row[b] \in {"pending", "in_progress"} /\ Cron \in Actor
  BY HandlersAct DEF BackupInv, MakersHold, RowOf, CreateTask
<1>1. task'[a] = t /\ \A c \in Actor \ {a} : task'[c] = task[c]
  BY DEF TypeOK
<1>2. /\ row'[b] = s /\ \A d \in Backup \ {b} : row'[d] = row[d]
      /\ file'[b] = f /\ \A d \in Backup \ {b} : file'[d] = file[d]
  BY <1>0 DEF TypeOK
<1>3. \A c \in Actor \ {a} : task[c] \in CreateTask => task[c].id \in Backup \ {b}
  BY DEF BackupInv, OneMaker, CreateTask
<1>4. MakersHold'
  BY <1>0, <1>1, <1>2, <1>3 DEF BackupInv, MakersHold, RowOf
<1>5. OneMaker'
  BY <1>1 DEF BackupInv, OneMaker
<1>6. PastIsKnown'
  <2>1. s # "gone" /\ s # "absent" /\ \A d \in Backup : row[d] # "absent" => row'[d] # "absent"
    BY <1>2 DEF Statuses
  <2>2. \A d \in Backup : row'[d] = "gone" => d \in old
    BY <1>2, <2>1 DEF BackupInv, PastIsKnown
  <2>3. \A d \in old : row'[d] # "absent"
    BY <2>1 DEF BackupInv, PastIsKnown, TypeOK
  <2>4. \A d, c \in Backup : snapshot'[c][d] \in Statuses => row[d] # "absent"
    <3> SUFFICES ASSUME NEW d \in Backup, NEW c \in Backup, snapshot'[c][d] \in Statuses
                 PROVE  row[d] # "absent"
      OBVIOUS
    <3>1. snapshot'[c] = snapshot[c] \/ snapshot'[c] = row
      BY <1>0 DEF TypeOK
    <3>2. QED
      BY <3>1 DEF BackupInv, PastIsKnown, Statuses
  <2>5. QED
    BY <2>1, <2>2, <2>3, <2>4 DEF BackupInv, PastIsKnown, TypeOK
<1>7. CleanerHolds'
  <2>1. CASE a = Cron
    BY <1>1, <2>1 DEF CleanerHolds, CreateTask
  <2>2. CASE a # Cron
    <3>1. task'[Cron] = task[Cron]
      BY <1>0, <1>1, <2>2
    <3>2. task[Cron].at = "delete_old" => task[Cron].id \in Backup \ {b}
      BY <1>0, TaskShape DEF BackupInv, CleanerHolds
    <3>3. QED
      BY <1>2, <3>1, <3>2 DEF BackupInv, CleanerHolds
  <2>3. QED
    BY <2>1, <2>2
<1>8. YoungIsKept' /\ FilesHaveRows'
  BY <1>2 DEF BackupInv, YoungIsKept, FilesHaveRows, Exists, Statuses
<1>9. QED
  BY <1>4, <1>5, <1>6, <1>7, <1>8 DEF BackupInv

(* A step of an actor that makes no backup and has none to clean up         *)
LEMMA OthersMove ==
  ASSUME TypeOK, BackupInv, NEW a \in Actor, NEW t,
         task[a] \notin CreateTask, t \notin CreateTask,
         t.at \notin {"unlink_old", "delete_old"},
         task' = [task EXCEPT ![a] = t],
         UNCHANGED <<row, file, snapshot, old, stuck>>
  PROVE  BackupInv'
<1>1. task'[a] = t /\ \A c \in Actor \ {a} : task'[c] = task[c]
  BY DEF TypeOK
<1>2. MakersHold' /\ OneMaker'
  BY <1>1 DEF BackupInv, MakersHold, OneMaker
<1>3. CleanerHolds'
  BY <1>1, HandlersAct DEF BackupInv, CleanerHolds
<1>4. QED
  BY <1>2, <1>3 DEF BackupInv, PastIsKnown, YoungIsKept, FilesHaveRows, Exists

LEMMA CreateKeeps ==
  ASSUME TypeOK, BackupInv, NEW a \in Actor, CreateStep(a)
  PROVE  BackupInv'
<1> USE DEF files, history
<1>1. ASSUME NEW b \in Backup, Create(a, b)
      PROVE  BackupInv'
  <2>1. /\ row[b] = "absent" /\ task[a] = Idle
        /\ row' = [row EXCEPT ![b] = "pending"]
        /\ task' = [task EXCEPT ![a] = [at |-> "mark", id |-> b]]
        /\ UNCHANGED <<file, snapshot, old, stuck>>
    BY <1>1 DEF Create, Begin, SetRow
  <2>2. /\ task'[a] = [at |-> "mark", id |-> b]
        /\ \A c \in Actor \ {a} : task'[c] = task[c]
        /\ row'[b] = "pending" /\ \A d \in Backup \ {b} : row'[d] = row[d]
    BY <2>1 DEF TypeOK
  <2>3. b \notin old /\ file[b] = "none"
    BY <2>1 DEF BackupInv, PastIsKnown, FilesHaveRows, Exists, Statuses
  <2>4. \A c \in Actor : task[c] \in CreateTask => task[c].id \in Backup \ {b}
    BY <2>1 DEF BackupInv, MakersHold, RowOf, CreateTask
  <2>5. MakersHold' /\ OneMaker'
    BY <2>1, <2>2, <2>3, <2>4 DEF BackupInv, MakersHold, RowOf, OneMaker
  <2>6. PastIsKnown'
    <3>1. \A d \in Backup : row[d] # "absent" => row'[d] # "absent"
      BY <2>2
    <3>2. \A d \in old : d \in Backup
      BY DEF TypeOK
    <3>3. \A d \in Backup : row'[d] = "gone" => d \in old
      BY <2>2 DEF BackupInv, PastIsKnown
    <3>4. QED
      BY <2>1, <3>1, <3>2, <3>3 DEF BackupInv, PastIsKnown
  <2>7. CleanerHolds'
    BY <2>1, <2>2, HandlersAct DEF BackupInv, CleanerHolds
  <2>8. YoungIsKept' /\ FilesHaveRows'
    BY <2>1, <2>2 DEF BackupInv, YoungIsKept, FilesHaveRows, Exists, Statuses
  <2>9. QED
    BY <2>5, <2>6, <2>7, <2>8 DEF BackupInv
<1>2. ASSUME task[a] \in CreateTask
      PROVE  /\ task[a].id \in Backup
             /\ row[task[a].id] \in RowOf(task[a].at)
             /\ row[task[a].id] \in Statuses /\ row[task[a].id] \in RowOf("fail")
             /\ task[a].at = "complete" => file[task[a].id] = "sealed"
             /\ row = [row EXCEPT ![task[a].id] = row[task[a].id]]
             /\ file = [file EXCEPT ![task[a].id] = file[task[a].id]]
             /\ file[task[a].id] \in Files
             /\ "pending" \in Statuses /\ "in_progress" \in Statuses
             /\ \A p \in MakePlaces : /\ [task[a] EXCEPT !.at = p] \in CreateTask
                                      /\ [task[a] EXCEPT !.at = p].id = task[a].id
                                      /\ [task[a] EXCEPT !.at = p].at = p
  BY <1>2 DEF BackupInv, MakersHold, RowOf, TypeOK, CreateTask, Files, Statuses, MakePlaces
<1>3. [at |-> "list"] \notin CreateTask /\ Idle \notin CreateTask
  BY DEF CreateTask, Idle
(* What throws leaves row and file as they are.                             *)
<1>t. ASSUME task[a] \in CreateTask, Throws(a), UNCHANGED <<row, file, snapshot, old, stuck>>
      PROVE  BackupInv'
  <2> DEFINE t == [task[a] EXCEPT !.at = "fail"]
             s == row[task[a].id]
             f == file[task[a].id]
  <2>1. t \in CreateTask /\ t.id = task[a].id /\ t.at = "fail"
    BY <1>2, <1>t DEF MakePlaces
  <2>2. task' = [task EXCEPT ![a] = t]
    BY <1>t DEF Throws, Goto
  <2>3. /\ row' = [row EXCEPT ![task[a].id] = s] /\ file' = [file EXCEPT ![task[a].id] = f]
        /\ s \in Statuses /\ s \in RowOf("fail") /\ f \in Files
        /\ UNCHANGED <<snapshot, old, stuck>>
    BY <1>2, <1>t
  <2>4. s # "completed"
    BY <2>3 DEF RowOf
  <2> HIDE DEF t, s, f
  <2>5. QED
    BY <1>t, <2>1, <2>2, <2>3, <2>4, MakerMoves
<1>4. CASE Mark(a)
  <2>1. task[a] \in CreateTask /\ "open" \in MakePlaces
    BY <1>4, TaskShape DEF Mark, MakePlaces
  <2> DEFINE t == [task[a] EXCEPT !.at = "open"]
  <2>2. UNCHANGED <<file, snapshot, old, stuck>>
    BY <1>4 DEF Mark
  <2>3. CASE row' = [row EXCEPT ![task[a].id] = "in_progress"] /\ task' = [task EXCEPT ![a] = t]
    <3>1. t \in CreateTask /\ t.id = task[a].id /\ t.at = "open" /\ "in_progress" \in RowOf("open")
      BY <1>2, <2>1 DEF RowOf
    <3> HIDE DEF t
    <3>2. QED
      BY <1>2, <2>1, <2>2, <2>3, <3>1, MakerMoves
  <2>4. CASE Throws(a) /\ UNCHANGED row
    BY <1>t, <2>1, <2>2, <2>4
  <2>5. QED
    BY <1>4, <2>3, <2>4 DEF Mark, SetRow, Goto
<1>5. CASE Open(a)
  <2>1. task[a] \in CreateTask /\ "stream" \in MakePlaces /\ task[a].at = "open"
    BY <1>5, TaskShape DEF Open, MakePlaces
  <2> DEFINE t == [task[a] EXCEPT !.at = "stream"]
  <2>2. UNCHANGED <<row, old, stuck>>
    BY <1>5 DEF Open
  <2>3. CASE /\ file' = [file EXCEPT ![task[a].id] = "open"] /\ task' = [task EXCEPT ![a] = t]
             /\ snapshot' = [snapshot EXCEPT ![task[a].id] = row]
    <3>1. /\ t \in CreateTask /\ t.id = task[a].id /\ t.at = "stream" /\ "open" \in Files
          /\ "in_progress" \in RowOf("stream")
      BY <1>2, <2>1 DEF Files, RowOf
    <3>2. row[task[a].id] = "in_progress"
      BY <1>2, <2>1 DEF RowOf
    <3>3. row' = [row EXCEPT ![task[a].id] = "in_progress"]
      BY <1>2, <2>1, <2>2, <3>2
    <3> HIDE DEF t
    <3>4. QED
      BY <1>2, <2>1, <2>2, <2>3, <3>1, <3>3, MakerMoves
  <2>4. CASE Throws(a) /\ UNCHANGED <<file, snapshot>>
    BY <1>t, <2>1, <2>2, <2>4
  <2>5. QED
    BY <1>5, <2>3, <2>4 DEF Open, SetFile, Goto
<1>6. CASE Stream(a) \/ Seal(a)
  <2>1. task[a] \in CreateTask /\ task[a].at \in {"stream", "seal"}
    BY <1>6, TaskShape DEF Stream, Seal, MakePlaces
  <2>2. PICK p \in {"seal", "complete", "fail"}, f \in Files :
          /\ file' = [file EXCEPT ![task[a].id] = f]
          /\ task' = [task EXCEPT ![a] = [task[a] EXCEPT !.at = p]]
          /\ p = "complete" => f = "sealed"
    <3>1. CASE file' = file
      BY <1>2, <1>6, <2>1, <3>1 DEF Stream, Seal, Throws, Goto, SetFile, TypeOK, Files
    <3>2. CASE file' # file
      BY <1>6, <3>2 DEF Stream, Seal, Throws, Goto, SetFile, Files
    <3>3. QED
      BY <3>1, <3>2
  <2> DEFINE t == [task[a] EXCEPT !.at = p]
  <2>3. t \in CreateTask /\ t.id = task[a].id /\ t.at = p /\ p # "mark"
    BY <1>2, <2>1 DEF MakePlaces
  <2>4. UNCHANGED <<row, snapshot, old, stuck>>
    BY <1>6 DEF Stream, Seal
  <2>5. row' = [row EXCEPT ![task[a].id] = "in_progress"]
    BY <1>2, <2>1, <2>4 DEF RowOf
  <2>6. task' = [task EXCEPT ![a] = t]
    BY <2>2
  <2> HIDE DEF t
  <2>7. t \in CreateTask => /\ t.id = task[a].id
                            /\ "in_progress" \in RowOf(t.at)
                            /\ t.at = "complete" => f = "sealed"
    BY <2>2, <2>3 DEF RowOf
  <2>8. "in_progress" \in Statuses /\ f \in Files
    BY <1>2, <2>1
  <2>9. file' = [file EXCEPT ![task[a].id] = f]
    BY <2>2
  <2>10. QED
    BY <2>1, <2>3, <2>4, <2>5, <2>6, <2>7, <2>8, <2>9, MakerMoves
<1>7. CASE Complete(a)
  <2>1. task[a] \in CreateTask /\ task[a].at = "complete"
    BY <1>7, TaskShape DEF Complete, MakePlaces
  <2>2. UNCHANGED <<file, snapshot, old, stuck>>
    BY <1>7 DEF Complete
  <2>3. CASE /\ row' = [row EXCEPT ![task[a].id] = "completed"]
             /\ \E t \in {[at |-> "list"], Idle} : task' = [task EXCEPT ![a] = t]
    <3>1. PICK t \in {[at |-> "list"], Idle} : task' = [task EXCEPT ![a] = t]
      BY <2>3
    <3>2. t \notin CreateTask /\ t.at \in {"idle", "list"} /\ "completed" \in Statuses
      BY <1>3 DEF Idle, Statuses
    <3>3. file' = [file EXCEPT ![task[a].id] = "sealed"] /\ "sealed" \in Files
      BY <1>2, <2>1, <2>2 DEF Files
    <3>4. QED
      BY <2>1, <2>2, <2>3, <3>1, <3>2, <3>3, MakerMoves
  <2>4. CASE Throws(a) /\ UNCHANGED row
    BY <1>t, <2>1, <2>2, <2>4
  <2>5. QED
    BY <1>7, <2>3, <2>4 DEF Complete, SetRow, Finish
<1>8. CASE Fail(a)
  <2>1. task[a] \in CreateTask
    BY <1>8, TaskShape DEF Fail, MakePlaces
  <2>2. task' = [task EXCEPT ![a] = Idle] /\ Idle.at \in {"idle", "list"}
    BY <1>8 DEF Fail, Finish, Idle
  <2>3. PICK s \in {"failed", row[task[a].id]} : row' = [row EXCEPT ![task[a].id] = s]
    BY <1>2, <1>8, <2>1 DEF Fail, SetRow
  <2>4. s \in Statuses /\ s # "completed"
    BY <1>2, <2>1 DEF Statuses, RowOf
  <2>5. UNCHANGED <<file, snapshot, old, stuck>>
    BY <1>8 DEF Fail
  <2>6. QED
    BY <1>2, <1>3, <2>1, <2>2, <2>3, <2>4, <2>5, MakerMoves
<1>9. QED
  BY <1>1, <1>4, <1>5, <1>6, <1>7, <1>8 DEF CreateStep

LEMMA RestoreKeeps ==
  ASSUME TypeOK, BackupInv, NEW h \in Handler, RestoreStep(h)
  PROVE  BackupInv'
<1> USE DEF files, history
<1>0. h \in Actor
  BY HandlersAct
<1>1. ASSUME UNCHANGED <<row, file, snapshot, old, task, stuck>>
      PROVE  BackupInv'
  BY <1>1 DEF BackupInv, MakersHold, OneMaker, PastIsKnown, CleanerHolds, YoungIsKept,
              FilesHaveRows, Exists
<1>2. CASE (\E b \in Backup : AskRestore(h, b)) \/ Decline(h)
  BY <1>1, <1>2 DEF AskRestore, Decline
<1>3. CASE \/ Confirm(h) \/ RestoreFind(h) \/ RestoreRead(h) \/ RestoreApply(h)
           \/ RestoreAnswer(h)
  <2>1. /\ task[h] \notin CreateTask
        /\ UNCHANGED <<file, snapshot, old, stuck>>
    BY <1>0, <1>3, TaskShape
       DEF Confirm, RestoreFind, RestoreRead, RestoreApply, RestoreAnswer,
           Begin, MakePlaces, Idle
  <2>2. PICK t : /\ task' = [task EXCEPT ![h] = t]
                 /\ t.at \in RestorePlaces \cup {"idle"}
    <3>1. CASE Confirm(h)
      <4>1. /\ task' = [task EXCEPT ![h] = [at |-> "find", id |-> pending]]
            /\ [at |-> "find", id |-> pending].at = "find" /\ "find" \in RestorePlaces
        BY <3>1 DEF Confirm, Begin, RestorePlaces
      <4>2. QED
        BY <4>1
    <3>2. CASE RestoreAnswer(h)
      <4>1. task' = [task EXCEPT ![h] = Idle] /\ Idle.at = "idle"
        BY <3>2 DEF RestoreAnswer, Finish, Idle
      <4>2. QED
        BY <4>1
    <3>3. CASE RestoreFind(h) \/ RestoreRead(h) \/ RestoreApply(h)
      <4>1. task[h] \in RestoreTask
        BY <1>0, <3>3, TaskShape
           DEF RestoreFind, RestoreRead, RestoreApply, RestorePlaces
      <4>2. \E p \in RestorePlaces : task' = [task EXCEPT ![h] = [task[h] EXCEPT !.at = p]]
        BY <3>3 DEF RestoreFind, RestoreRead, RestoreApply, RestorePlaces, Goto
      <4>3. \A p \in RestorePlaces : [task[h] EXCEPT !.at = p].at = p
        BY <4>1 DEF RestoreTask
      <4>4. QED
        BY <4>2, <4>3
    <3>4. QED
      BY <1>3, <3>1, <3>2, <3>3
  <2>3. t \notin CreateTask /\ t.at \notin {"unlink_old", "delete_old"}
    BY <2>2 DEF CreateTask, RestorePlaces
  <2>4. CASE UNCHANGED row
    BY <1>0, <2>1, <2>2, <2>3, <2>4, OthersMove
  <2>5. CASE ~UNCHANGED row
    <3>1. RestoreApply(h) /\ task[h] \in RestoreTask
      BY <1>0, <1>3, <2>5, TaskShape
         DEF Confirm, RestoreFind, RestoreRead, RestoreApply, RestoreAnswer,
             RestorePlaces
    <3>2. task[h].id \in Backup /\ snapshot[task[h].id] \in [Backup -> RowStates]
      BY <3>1 DEF RestoreTask, TypeOK
    <3>3. \A b \in Backup : \/ row'[b] = row[b]
                            \/ /\ ~Exists(b) /\ snapshot[task[h].id][b] \in Statuses
                               /\ row'[b] = snapshot[task[h].id][b]
      BY <3>1, <3>2, CopiedRows DEF RestoreApply
    <3>4. \A b \in Backup : \/ row'[b] = row[b]
                            \/ row[b] = "gone" /\ b \in old /\ row'[b] \in Statuses
      <4>1. \A b \in Backup : ~Exists(b) => row[b] \in {"absent", "gone"}
        BY DEF TypeOK, Exists, RowStates
      <4>2. QED
        BY <3>2, <3>3, <4>1 DEF BackupInv, PastIsKnown
    <3>5. task'[h] = t /\ \A c \in Actor \ {h} : task'[c] = task[c]
      BY <1>0, <2>2 DEF TypeOK
    <3>6. MakersHold' /\ OneMaker'
      <4>1. \A c \in Actor : task[c] \in CreateTask =>
               /\ task[c].id \in Backup
               /\ row'[task[c].id] = row[task[c].id]
        BY <3>4 DEF BackupInv, MakersHold, CreateTask
      <4>2. QED
        BY <2>1, <2>3, <3>5, <4>1 DEF BackupInv, MakersHold, OneMaker
    <3>7. PastIsKnown'
      <4>1. old \subseteq Backup
        BY DEF TypeOK
      <4>2. QED
        BY <2>1, <3>4, <4>1 DEF BackupInv, PastIsKnown, Statuses
    <3>8. CleanerHolds'
      BY <2>1, <3>5, HandlersAct DEF BackupInv, CleanerHolds
    <3>9. YoungIsKept' /\ FilesHaveRows'
      BY <2>1, <3>4 DEF BackupInv, YoungIsKept, FilesHaveRows, Exists, Statuses
    <3>10. QED
      BY <3>6, <3>7, <3>8, <3>9 DEF BackupInv
  <2>6. QED
    BY <2>4, <2>5
<1>4. QED
  BY <1>2, <1>3 DEF RestoreStep

(* The cleanup has old backups in hand only, so no maker is disturbed.      *)
LEMMA CleanKeeps ==
  ASSUME TypeOK, BackupInv, CleanStep
  PROVE  BackupInv'
<1> USE DEF files, history
<1>0. Cron \in Actor /\ old \subseteq Backup
  BY HandlersAct DEF TypeOK
<1>1. \A c \in Actor : task[c] \in CreateTask => task[c].id \in Backup \ old
  BY DEF BackupInv, MakersHold, CreateTask
<1>2. CASE CleanList
  <2> DEFINE t == [at |-> "unlink_old", rest |-> {b \in old : Exists(b)}]
  <2>1. /\ task' = [task EXCEPT ![Cron] = t] /\ task[Cron].at = "list"
        /\ UNCHANGED <<row, file, snapshot, old, stuck>>
    BY <1>2 DEF CleanList
  <2>2. t.at = "unlink_old" /\ t.rest \subseteq old /\ t \notin CreateTask
    BY DEF CreateTask
  <2> HIDE DEF t
  <2>3. task'[Cron] = t /\ \A c \in Actor \ {Cron} : task'[c] = task[c]
    BY <1>0, <2>1 DEF TypeOK
  <2>4. MakersHold' /\ OneMaker'
    BY <2>1, <2>2, <2>3 DEF BackupInv, MakersHold, OneMaker
  <2>5. CleanerHolds'
    BY <2>1, <2>2, <2>3 DEF CleanerHolds
  <2>6. QED
    BY <2>1, <2>4, <2>5 DEF BackupInv, PastIsKnown, YoungIsKept, FilesHaveRows, Exists
<1>3. CASE CleanUnlink
  <2>1. PICK b \in task[Cron].rest :
          /\ \/ file' = [file EXCEPT ![b] = "none"] /\ stuck' = stuck
             \/ file' = file /\ stuck' = stuck \cup {b}
          /\ task' = [task EXCEPT ![Cron] =
                        [at |-> "delete_old", rest |-> task[Cron].rest \ {b}, id |-> b]]
    BY <1>3 DEF CleanUnlink, SetFile
  <2> DEFINE t == [at |-> "delete_old", rest |-> task[Cron].rest \ {b}, id |-> b]
  <2>2. b \in old /\ b \in Backup /\ task[Cron].rest \subseteq old
    BY <1>0, <1>3, <2>1 DEF CleanUnlink, BackupInv, CleanerHolds
  <2>3. t.at = "delete_old" /\ t.rest \subseteq old /\ t.id = b /\ t \notin CreateTask
    BY <2>2 DEF CreateTask
  <2>4. task' = [task EXCEPT ![Cron] = t]
    BY <2>1
  <2> HIDE DEF t
  <2>5. task'[Cron] = t /\ \A c \in Actor \ {Cron} : task'[c] = task[c]
    BY <1>0, <2>4 DEF TypeOK
  <2>6. UNCHANGED <<row, snapshot, old>>
    BY <1>3 DEF CleanUnlink
  <2>7. /\ file'[b] = "none" \/ b \in stuck'
        /\ \A d \in Backup : file'[d] \in {file[d], "none"}
        /\ \A d \in Backup \ {b} : file'[d] = file[d]
        /\ stuck \subseteq stuck' /\ stuck' \subseteq stuck \cup {b}
    BY <2>1, <2>2 DEF TypeOK
  <2>8. MakersHold' /\ OneMaker'
    BY <1>1, <2>2, <2>3, <2>5, <2>6, <2>7 DEF BackupInv, MakersHold, OneMaker
  <2>9. CleanerHolds'
    BY <2>2, <2>3, <2>5, <2>6, <2>7 DEF CleanerHolds
  <2>10. YoungIsKept' /\ FilesHaveRows'
    BY <2>2, <2>6, <2>7 DEF BackupInv, YoungIsKept, FilesHaveRows, Exists
  <2>11. PastIsKnown'
    BY <2>2, <2>6, <2>7 DEF BackupInv, PastIsKnown
  <2>12. QED
    BY <2>8, <2>9, <2>10, <2>11 DEF BackupInv
<1>4. CASE CleanDelete
  <2> DEFINE b == task[Cron].id
             t == [at |-> "unlink_old", rest |-> task[Cron].rest]
  <2>1. /\ task[Cron].rest \subseteq old /\ b \in old /\ b \in Backup
        /\ (file[b] = "none" \/ b \in stuck)
    BY <1>0, <1>4 DEF CleanDelete, BackupInv, CleanerHolds
  <2>2. t.at = "unlink_old" /\ t.rest \subseteq old /\ t \notin CreateTask
    BY <2>1 DEF CreateTask
  <2>3. /\ task' = [task EXCEPT ![Cron] = t] /\ row' = [row EXCEPT ![b] = "gone"]
        /\ UNCHANGED <<file, snapshot, old, stuck>>
    BY <1>4 DEF CleanDelete, SetRow
  <2> HIDE DEF t, b
  <2>4. task'[Cron] = t /\ \A c \in Actor \ {Cron} : task'[c] = task[c]
    BY <1>0, <2>3 DEF TypeOK
  <2>5. row'[b] = "gone" /\ \A d \in Backup \ {b} : row'[d] = row[d]
    BY <2>1, <2>3 DEF TypeOK
  <2>6. MakersHold' /\ OneMaker'
    BY <1>1, <2>1, <2>2, <2>3, <2>4, <2>5 DEF BackupInv, MakersHold, OneMaker
  <2>7. PastIsKnown'
    <3>1. \A d \in Backup : row[d] # "absent" => row'[d] # "absent"
      BY <2>5
    <3>2. \A d \in Backup : row'[d] = "gone" => d \in old
      BY <2>1, <2>5 DEF BackupInv, PastIsKnown
    <3>3. QED
      BY <1>0, <2>3, <3>1, <3>2 DEF BackupInv, PastIsKnown
  <2>8. CleanerHolds'
    BY <2>2, <2>3, <2>4 DEF CleanerHolds
  <2>9. YoungIsKept' /\ FilesHaveRows'
    BY <2>1, <2>3, <2>5 DEF BackupInv, YoungIsKept, FilesHaveRows, Exists
  <2>10. QED
    BY <2>6, <2>7, <2>8, <2>9 DEF BackupInv
<1>5. CASE CleanEnd
  <2>1. /\ task[Cron] \notin CreateTask /\ task' = [task EXCEPT ![Cron] = Idle]
        /\ UNCHANGED <<row, file, snapshot, old, stuck>>
    BY <1>0, <1>5, TaskShape DEF CleanEnd, Finish, MakePlaces
  <2>2. Idle \notin CreateTask /\ Idle.at \notin {"unlink_old", "delete_old"}
    BY DEF Idle, CreateTask
  <2>3. QED
    BY <1>0, <2>1, <2>2, OthersMove
<1>6. QED
  BY <1>2, <1>3, <1>4, <1>5 DEF CleanStep

LEMMA BackupStep == TypeOK /\ BackupInv /\ [Next]_backupVars => BackupInv'
<1> SUFFICES ASSUME TypeOK, BackupInv, [Next]_backupVars
             PROVE  BackupInv'
  OBVIOUS
<1> USE DEF files, history
<1>1. ASSUME NEW b \in Backup, Age(b)
      PROVE  BackupInv'
  <2>1. /\ old' = old \cup {b} /\ row[b] \in Statuses
        /\ \A a \in Actor : task[a] \in CreateTask => task[a].id # b
        /\ UNCHANGED <<row, file, snapshot, task, stuck>>
    BY <1>1 DEF Age, Creating, Exists
  <2>2. MakersHold' /\ OneMaker'
    BY <2>1 DEF BackupInv, MakersHold, OneMaker
  <2>3. PastIsKnown'
    BY <2>1 DEF BackupInv, PastIsKnown, Statuses
  <2>4. CleanerHolds'
    BY <2>1 DEF BackupInv, CleanerHolds
  <2>5. QED
    BY <2>1, <2>2, <2>3, <2>4 DEF BackupInv, YoungIsKept, FilesHaveRows, Exists
<1>2. CASE Crash
  <2>1. (\A a \in Actor : task'[a] = Idle) /\ UNCHANGED <<row, file, snapshot, old, stuck>>
    BY <1>2 DEF Crash
  <2>2. Idle \notin CreateTask /\ Idle.at = "idle"
    BY DEF Idle, CreateTask
  <2>3. MakersHold' /\ OneMaker' /\ CleanerHolds'
    BY <2>1, <2>2, HandlersAct DEF MakersHold, OneMaker, CleanerHolds
  <2>4. QED
    BY <2>1, <2>3 DEF BackupInv, PastIsKnown, YoungIsKept, FilesHaveRows, Exists
<1>3. CASE UNCHANGED backupVars
  BY <1>3 DEF backupVars, BackupInv, MakersHold, OneMaker, PastIsKnown, CleanerHolds,
              YoungIsKept, FilesHaveRows, Exists
<1>4. QED
  BY <1>1, <1>2, <1>3, CreateKeeps, RestoreKeeps, CleanKeeps DEF Next

LEMMA BackupInit == Init => BackupInv
<1>1. Idle \notin CreateTask /\ Idle.at = "idle"
  BY DEF Idle, CreateTask
<1>2. QED
  BY <1>1, HandlersAct
     DEF Init, BackupInv, MakersHold, OneMaker, PastIsKnown, CleanerHolds, YoungIsKept,
         FilesHaveRows, NoRows, Statuses

LEMMA BackupInvariant == Spec => [](TypeOK /\ BackupInv)
BY TypeInit, TypeStep, BackupInit, BackupStep, PTL DEF Spec

(* A completed backup that is not past the retention has its sealed file,   *)
(* whatever the schedule, a restore or a death of the process does.         *)
THEOREM YoungBackupsAreKept == Spec => []YoungIsKept
<1>1. BackupInv => YoungIsKept
  BY DEF BackupInv
<1>2. QED
  BY <1>1, BackupInvariant, PTL

(* Every file in the backup directory is named by a row, so that the        *)
(* cleanup finds it when it is old, or could not be deleted with its row.   *)
THEOREM NoFileIsForgotten == Spec => []FilesHaveRows
<1>1. BackupInv => FilesHaveRows
  BY DEF BackupInv
<1>2. QED
  BY <1>1, BackupInvariant, PTL

-----------------------------------------------------------------------------
(* What a row says                                                          *)

(* A step of one actor that puts no row in progress but the one it works on *)
(* or the ones it knows to be lost                                          *)
LEMMA StaysWorkedOn ==
  ASSUME TypeOK, InProgressIsWorkedOn, NEW a \in Actor, NEW t,
         task' = [task EXCEPT ![a] = t],
         lost \subseteq lost',
         \A b \in InProgress(row') :
           b \in InProgress(row) \cup lost' \/ (t \in CreateTask /\ t.id = b),
         task[a] \in CreateTask =>
           \/ t \in CreateTask /\ t.id = task[a].id
           \/ task[a].id \notin InProgress(row') \/ task[a].id \in lost'
  PROVE  InProgressIsWorkedOn'
<1> SUFFICES ASSUME NEW b \in InProgress(row'), b \notin lost'
             PROVE  Creating(b)'
  BY DEF InProgressIsWorkedOn
<1>1. task'[a] = t /\ \A c \in Actor \ {a} : task'[c] = task[c]
  BY DEF TypeOK
<1>2. CASE t \in CreateTask /\ t.id = b
  BY <1>1, <1>2 DEF Creating
<1>3. CASE b \in InProgress(row)
  <2>1. PICK c \in Actor : task[c] \in CreateTask /\ task[c].id = b
    BY <1>3 DEF InProgressIsWorkedOn, Creating
  <2>2. CASE c = a
    BY <1>1, <2>1, <2>2 DEF Creating
  <2>3. CASE c # a
    BY <1>1, <2>1, <2>3 DEF Creating
  <2>4. QED
    BY <2>2, <2>3
<1>4. QED
  BY <1>2, <1>3

LEMMA WorkedOnStep ==
  TypeOK /\ InProgressIsWorkedOn /\ [Next]_backupVars => InProgressIsWorkedOn'
<1> SUFFICES ASSUME TypeOK, InProgressIsWorkedOn, [Next]_backupVars
             PROVE  InProgressIsWorkedOn'
  OBVIOUS
<1> USE DEF files, history
<1>0. Cron \in Actor /\ Handler \subseteq Actor
  BY HandlersAct DEF Actor
<1>1. ASSUME NEW a \in Actor, NEW b \in Backup, Create(a, b)
      PROVE  InProgressIsWorkedOn'
  <2> DEFINE t == [at |-> "mark", id |-> b]
  <2>1. /\ task' = [task EXCEPT ![a] = t] /\ task[a] \notin CreateTask /\ lost' = lost
        /\ row' = [row EXCEPT ![b] = "pending"]
    BY <1>1 DEF Create, Begin, SetRow, Idle, CreateTask
  <2>2. t \in CreateTask /\ t.id = b
    BY DEF CreateTask
  <2>3. \A d \in InProgress(row') : d \in InProgress(row) \cup lost' \/ d = b
    BY <2>1 DEF InProgress, TypeOK
  <2> HIDE DEF t
  <2>4. QED
    BY <2>1, <2>2, <2>3, StaysWorkedOn
<1>2. ASSUME NEW a \in Actor, Mark(a) \/ Open(a) \/ Stream(a) \/ Seal(a)
      PROVE  InProgressIsWorkedOn'
  <2>1. task[a] \in CreateTask /\ task[a].id \in Backup /\ lost' = lost
    BY <1>2, TaskShape DEF Mark, Open, Stream, Seal, MakePlaces, CreateTask
  <2>2. PICK p \in MakePlaces : task' = [task EXCEPT ![a] = [task[a] EXCEPT !.at = p]]
    BY <1>2 DEF Mark, Open, Stream, Seal, Throws, Goto, MakePlaces
  <2> DEFINE t == [task[a] EXCEPT !.at = p]
  <2>3. t \in CreateTask /\ t.id = task[a].id
    BY <2>1 DEF CreateTask, MakePlaces
  <2>4. \A d \in InProgress(row') : d \in InProgress(row) \/ d = task[a].id
    BY <1>2, <2>1 DEF Mark, Open, Stream, Seal, SetRow, InProgress, TypeOK
  <2>5. task' = [task EXCEPT ![a] = t]
    BY <2>2
  <2> HIDE DEF t
  <2>6. QED
    BY <2>1, <2>3, <2>4, <2>5, StaysWorkedOn
<1>3. ASSUME NEW a \in Actor, Complete(a) \/ Fail(a)
      PROVE  InProgressIsWorkedOn'
  <2>1. task[a] \in CreateTask /\ task[a].id \in Backup /\ lost \subseteq lost'
    BY <1>3, TaskShape DEF Complete, Fail, MakePlaces, CreateTask
  <2>2. PICK t : /\ task' = [task EXCEPT ![a] = t]
                 /\ \/ t \in CreateTask /\ t.id = task[a].id
                    \/ task[a].id \notin InProgress(row') \/ task[a].id \in lost'
    <3>1. CASE Complete(a) /\ Throws(a)
      <4> DEFINE t == [task[a] EXCEPT !.at = "fail"]
      <4>1. task' = [task EXCEPT ![a] = t] /\ t \in CreateTask /\ t.id = task[a].id
        BY <2>1, <3>1 DEF Throws, Goto, CreateTask
      <4>2. QED
        BY <4>1
    <3>2. CASE Complete(a) /\ ~Throws(a)
      <4>1. row' = [row EXCEPT ![task[a].id] = "completed"]
        BY <3>2 DEF Complete, SetRow
      <4>2. task[a].id \notin InProgress(row')
        BY <2>1, <4>1 DEF InProgress, TypeOK
      <4>3. \E t : task' = [task EXCEPT ![a] = t]
        BY <3>2 DEF Complete, Finish
      <4>4. QED
        BY <4>2, <4>3
    <3>3. CASE Fail(a)
      <4>1. task' = [task EXCEPT ![a] = Idle]
        BY <3>3 DEF Fail, Finish
      <4>2. task[a].id \notin InProgress(row') \/ task[a].id \in lost'
        BY <2>1, <3>3 DEF Fail, SetRow, InProgress, TypeOK
      <4>3. QED
        BY <4>1, <4>2
    <3>4. QED
      BY <1>3, <3>1, <3>2, <3>3
  <2>3. InProgress(row') \subseteq InProgress(row)
    BY <1>3, <2>1 DEF Complete, Fail, SetRow, InProgress, TypeOK
  <2>4. QED
    BY <2>1, <2>2, <2>3, StaysWorkedOn
<1>4. ASSUME NEW h \in Handler, RestoreStep(h)
      PROVE  InProgressIsWorkedOn'
  <2>1. CASE (\E b \in Backup : AskRestore(h, b)) \/ Decline(h)
    BY <2>1 DEF AskRestore, Decline, InProgressIsWorkedOn, InProgress, Creating
  <2>2. CASE \/ Confirm(h) \/ RestoreFind(h) \/ RestoreRead(h) \/ RestoreApply(h)
             \/ RestoreAnswer(h)
    <3>1. task[h] \notin CreateTask
      BY <1>0, <2>2, TaskShape
         DEF Confirm, RestoreFind, RestoreRead, RestoreApply, RestoreAnswer,
             Begin, MakePlaces, Idle
    <3>2. PICK t : task' = [task EXCEPT ![h] = t]
      BY <2>2 DEF Confirm, RestoreFind, RestoreRead, RestoreApply, 
                  RestoreAnswer, Begin, Goto, Finish
    <3>3. /\ lost \subseteq lost'
          /\ InProgress(row') \subseteq InProgress(row) \cup lost'
      BY <2>2 DEF Confirm, RestoreFind, RestoreRead, RestoreApply, RestoreAnswer
    <3>4. QED
      BY <1>0, <3>1, <3>2, <3>3, StaysWorkedOn
  <2>3. QED
    BY <1>4, <2>1, <2>2 DEF RestoreStep
<1>5. CASE CleanStep
  <2>1. task[Cron] \notin CreateTask /\ lost' = lost
    BY <1>0, <1>5, TaskShape
       DEF CleanStep, CleanList, CleanUnlink, CleanDelete, CleanEnd, MakePlaces
  <2>2. PICK t : task' = [task EXCEPT ![Cron] = t]
    BY <1>5 DEF CleanStep, CleanList, CleanUnlink, CleanDelete, CleanEnd, Finish
  <2>3. InProgress(row') \subseteq InProgress(row)
    BY <1>5 DEF CleanStep, CleanList, CleanUnlink, CleanDelete, CleanEnd, SetRow, InProgress,
                TypeOK
  <2>4. QED
    BY <1>0, <2>1, <2>2, <2>3, StaysWorkedOn
<1>6. ASSUME NEW b \in Backup, Age(b)
      PROVE  InProgressIsWorkedOn'
  BY <1>6 DEF Age, InProgressIsWorkedOn, InProgress, Creating
<1>7. CASE Crash
  BY <1>7 DEF Crash, InProgressIsWorkedOn, InProgress, Creating
<1>8. CASE UNCHANGED backupVars
  BY <1>8 DEF backupVars, InProgressIsWorkedOn, InProgress, Creating
<1>9. QED
  BY <1>1, <1>2, <1>3, <1>4, <1>5, <1>6, <1>7, <1>8 DEF Next, CreateStep

(* A row in progress is worked on, but for a death of the process, an       *)
(* update of the catch block that threw, or a restore that brought the row  *)
(* back.                                                                    *)
THEOREM InProgressMeansWorkedOn == Spec => []InProgressIsWorkedOn
<1>1. Init => InProgressIsWorkedOn
  BY DEF Init, InProgressIsWorkedOn, InProgress, NoRows
<1>2. QED
  BY <1>1, BackupsTypeCorrect, WorkedOnStep, PTL DEF Spec

KeepsFinal ==
  \A b \in Backup : row[b] \in {"completed", "failed"} => row'[b] \in {row[b], "gone"}

LEMMA FinalStep == TypeOK /\ BackupInv /\ [Next]_backupVars => KeepsFinal
<1> SUFFICES ASSUME TypeOK, BackupInv, [Next]_backupVars
             PROVE  KeepsFinal
  OBVIOUS
<1> USE DEF files, history
<1>0. Handler \subseteq Actor
  BY DEF Actor
<1>1. ASSUME row' = row
      PROVE  KeepsFinal
  BY <1>1 DEF KeepsFinal
<1>2. ASSUME NEW b \in Backup, NEW s, row' = [row EXCEPT ![b] = s],
             row[b] \notin {"completed", "failed"} \/ s = "gone"
      PROVE  KeepsFinal
  BY <1>2 DEF KeepsFinal, TypeOK
<1>3. ASSUME NEW a \in Actor, CreateStep(a)
      PROVE  KeepsFinal
  <2>1. ASSUME NEW b \in Backup, Create(a, b)
        PROVE  KeepsFinal
    BY <1>2, <2>1 DEF Create, SetRow
  <2>2. CASE Mark(a) \/ Complete(a) \/ Fail(a)
    <3>1. task[a] \in CreateTask /\ task[a].id \in Backup
      BY <2>2, TaskShape DEF Mark, Complete, Fail, MakePlaces, CreateTask
    <3>2. row[task[a].id] \in {"pending", "in_progress"}
      BY <3>1 DEF BackupInv, MakersHold, RowOf
    <3>3. CASE row' = row
      BY <1>1, <3>3
    <3>4. CASE \E s : row' = [row EXCEPT ![task[a].id] = s]
      BY <1>2, <3>1, <3>2, <3>4
    <3>5. QED
      BY <2>2, <3>3, <3>4 DEF Mark, Complete, Fail, SetRow
  <2>3. CASE Open(a) \/ Stream(a) \/ Seal(a)
    BY <1>1, <2>3 DEF Open, Stream, Seal
  <2>4. QED
    BY <1>3, <2>1, <2>2, <2>3 DEF CreateStep
<1>4. ASSUME NEW h \in Handler, RestoreStep(h)
      PROVE  KeepsFinal
  <2>1. CASE RestoreApply(h)
    <3>1. task[h] \in RestoreTask
      BY <1>0, <2>1, TaskShape DEF RestoreApply, RestorePlaces
    <3>2. snapshot[task[h].id] \in [Backup -> RowStates]
      BY <3>1 DEF RestoreTask, TypeOK
    <3>3. \A b \in Backup : row'[b] = row[b] \/ ~Exists(b)
      BY <2>1, <3>2, CopiedRows DEF RestoreApply
    <3>4. QED
      BY <3>3 DEF KeepsFinal, Exists, Statuses
  <2>2. CASE ~RestoreApply(h)
    BY <1>1, <1>4, <2>2
       DEF RestoreStep, AskRestore, Decline, Confirm, RestoreFind, RestoreRead, 
           RestoreAnswer
  <2>3. QED
    BY <2>1, <2>2
<1>5. CASE CleanStep
  <2>1. CASE CleanDelete
    <3>1. task[Cron].id \in Backup
      BY <2>1 DEF CleanDelete, BackupInv, CleanerHolds, TypeOK
    <3>2. QED
      BY <1>2, <2>1, <3>1 DEF CleanDelete, SetRow
  <2>2. CASE ~CleanDelete
    BY <1>1, <1>5, <2>2 DEF CleanStep, CleanList, CleanUnlink, CleanEnd
  <2>3. QED
    BY <2>1, <2>2
<1>6. CASE (\E b \in Backup : Age(b)) \/ Crash \/ UNCHANGED backupVars
  BY <1>1, <1>6 DEF Age, Crash, backupVars
<1>7. QED
  BY <1>3, <1>4, <1>5, <1>6 DEF Next

(* A backup that is completed or failed keeps its status until it is        *)
(* deleted.                                                                 *)
THEOREM StatusStaysFinal == Spec => StatusIsFinal
<1>1. TypeOK /\ BackupInv /\ [Next]_backupVars =>
        [\A b \in Backup :
           row[b] \in {"completed", "failed"} => row'[b] \in {row[b], "gone"}]_backupVars
  BY FinalStep DEF KeepsFinal
<1>2. QED
  BY <1>1, BackupInvariant, PTL DEF Spec, StatusIsFinal

===============================================================================
