--------------------------- MODULE SessionStoreProofs ---------------------------
(***************************************************************************)
(* Proofs about SessionStore, for every set of members and roles, any      *)
(* number of handlers, of updates, of outages and of crashes.              *)
(*                                                                         *)
(* That a logout lasts needs to know why nobody writes the session of one  *)
(* who was logged out: his account is there and not active                 *)
(* (DismissedAreRefused), so that his updates end at the check, and none   *)
(* of them is past it (PassedAreWelcome).                                  *)
(***************************************************************************)
EXTENDS SessionStore, TLAPS

SwitchPlaces == {"activate", "deactivate", "del"}
Busy == {"work", "save", "set"} \cup SwitchPlaces

(* The place of a handler tells what kind of task it has.                   *)
LEMMA TaskShape ==
  ASSUME TypeOK, NEW h \in Handler
  PROVE  /\ task[h] \in Tasks
         /\ task[h].at \in {"get", "check", "work", "save", "set"} => task[h] \in Update
         /\ task[h].at \in SwitchPlaces => task[h] \in Switch
BY DEF TypeOK, Tasks, Idle, Update, Switch, SwitchPlaces

(* Sessions as the program makes them have a role.                          *)
LEMMA SessionShapes ==
  DefaultSession \in Role /\ \A s \in Sessions : OrDefault(s) \in Role
BY SessionAssumption DEF DefaultSession, OrDefault, Sessions, NoSession

(* What becomes of the task of a handler that moves on                      *)
LEMMA Moves ==
  ASSUME TypeOK, NEW h \in Handler
  PROVE  /\ Finish(h) => task' = [task EXCEPT ![h] = Idle]
         /\ Reply(h) => task' = [task EXCEPT ![h] =
                           [at |-> "save", who |-> task[h].who, role |-> task[h].role]]
         /\ \A p : Goto(h, p) => task' = [task EXCEPT ![h] = [task[h] EXCEPT !.at = p]]
BY DEF TypeOK, Finish, Reply, Goto

LEMMA TaskTyped ==
  ASSUME TypeOK, NEW h \in Handler, NEW t \in Tasks, task' = [task EXCEPT ![h] = t]
  PROVE  task' \in [Handler -> Tasks]
BY DEF TypeOK

-----------------------------------------------------------------------------
(* Types                                                                    *)

(* Every step of a handler gives it one task.                               *)
LEMMA StorageMoves ==
  ASSUME TypeOK, NEW h \in Handler, StorageStep(h)
  PROVE  /\ task[h] \in Update
         /\ \E t \in Tasks : /\ task' = [task EXCEPT ![h] = t]
                             /\ \/ t.at \in {"check", "idle"}
                                \/ /\ task[h].at = "save" /\ t.at = "set"
                                   /\ t.who = task[h].who
<1>1. task[h] \in Update
  BY TaskShape DEF StorageStep, Get, Save, Set
<1>2. CASE Get(h)
  <2>1. ASSUME NEW s \in Sessions, Loaded(h, s)
        PROVE  \E t \in Tasks : task' = [task EXCEPT ![h] = t] /\ t.at = "check"
    <3> DEFINE t == [task[h] EXCEPT !.at = "check", !.role = OrDefault(s)]
    <3>1. OrDefault(s) \in Role
      BY SessionShapes
    <3>2. t \in Tasks /\ t.at = "check"
      BY <1>1, <3>1 DEF Update, Tasks
    <3>3. task' = [task EXCEPT ![h] = t]
      BY <2>1 DEF Loaded, TypeOK
    <3>4. QED
      BY <3>2, <3>3
  <2>2. redis[task[h].who] \in Sessions /\ memory[task[h].who] \in Sessions
    BY <1>1 DEF TypeOK, Update
  <2>3. QED
    BY <1>1, <1>2, <2>1, <2>2 DEF Get
<1>3. CASE Save(h) \/ Set(h)
  <2>1. Idle \in Tasks /\ Idle.at = "idle"
    BY DEF Tasks, Idle
  <2>2. CASE Finish(h)
    BY <1>1, <2>1, <2>2, Moves
  <2>3. CASE Goto(h, "set") /\ task[h].at = "save"
    <3> DEFINE t == [task[h] EXCEPT !.at = "set"]
    <3>1. t \in Tasks /\ t.at = "set" /\ t.who = task[h].who
      BY <1>1 DEF Update, Tasks
    <3>2. task' = [task EXCEPT ![h] = t]
      BY <2>3, Moves
    <3>3. QED
      BY <1>1, <2>3, <3>1, <3>2
  <2>4. QED
    BY <1>3, <2>2, <2>3 DEF Save, Set
<1>4. QED
  BY <1>2, <1>3 DEF StorageStep

LEMMA StorageTyped ==
  ASSUME TypeOK, NEW h \in Handler, StorageStep(h)
  PROVE  TypeOK'
<1> USE DEF stores, link, accounts, history, bounds
<1>1. task[h] \in Update /\ task' \in [Handler -> Tasks]
  BY StorageMoves, TaskTyped
<1>2. redis' \in [Member -> Sessions] /\ memory' \in [Member -> Sessions]
  BY <1>1
     DEF TypeOK, StorageStep, Get, Save, Set, ToMemory, ToRedis, Update, Sessions
<1>3. up' \in BOOLEAN /\ available' \in BOOLEAN /\ timer' \in {"none", "armed", "pinging"}
  BY DEF TypeOK, StorageStep, Get, Save, Set, LoseRedis
<1>4. UNCHANGED <<account, active, late, dismissed, updates, faults>>
  BY DEF StorageStep, Get, Save, Set
<1>5. QED
  BY <1>1, <1>2, <1>3, <1>4 DEF TypeOK

LEMMA HandlingTyped ==
  ASSUME TypeOK, NEW h \in Handler, HandlingStep(h)
  PROVE  TypeOK'
<1> USE DEF stores, link, accounts, history, bounds
<1>1. task[h] \in Update \cup Switch
  BY TaskShape
     DEF HandlingStep, Check, Work, Throw, Admit, ChangeRole, FindStatus, Activate,
         Deactivate, Logout, SwitchPlaces
<1>2. Idle \in Tasks
  BY DEF Tasks
<1>3. [at |-> "save", who |-> task[h].who, role |-> task[h].role] \in Tasks
  BY <1>1 DEF Tasks, Update, Switch
<1>4. Reply(h) \/ Finish(h) => task' \in [Handler -> Tasks]
  BY <1>2, <1>3, Moves, TaskTyped
<1>5. UNCHANGED <<memory, up, available, timer, updates, faults>>
  BY DEF HandlingStep, Check, Work, Throw, Admit, ChangeRole, FindStatus, Activate,
         Deactivate, Logout
<1>6. \A S : Proceed(h, S) => late' \subseteq Handler
  BY DEF Proceed
<1>7. CASE Check(h)
  <2>1. CASE Finish(h)
    BY <1>4, <1>5, <1>7, <2>1 DEF TypeOK, Check
  <2>2. CASE ~Finish(h)
    <3> DEFINE r == IF account[task[h].who] = "none" THEN task[h].role
                    ELSE account[task[h].who]
               t == [task[h] EXCEPT !.at = "work", !.role = r]
    <3>1. task[h] \in Update
      BY <1>7, TaskShape DEF Check
    <3>2. r \in Role
      BY <3>1 DEF TypeOK, Update
    <3>3. t \in Tasks
      BY <3>1, <3>2 DEF Update, Tasks
    <3>4. task' = [task EXCEPT ![h] = t]
      BY <1>7, <2>2 DEF Check, TypeOK
    <3>5. task' \in [Handler -> Tasks]
      BY <3>3, <3>4, TaskTyped
    <3>6. QED
      BY <1>5, <1>7, <3>5 DEF TypeOK, Check
  <2>3. QED
    BY <2>1, <2>2
<1>8. CASE Work(h) \/ Throw(h)
  BY <1>4, <1>5, <1>6, <1>8 DEF TypeOK, Work, Throw
<1>9. ASSUME NEW m \in Member, Admit(h, m)
      PROVE  TypeOK'
  <2>1. account' \in [Member -> Role \cup {"none"}]
    BY <1>9, SessionAssumption DEF TypeOK, Admit
  <2>2. QED
    BY <1>4, <1>5, <1>6, <1>9, <2>1 DEF TypeOK, Admit
<1>10. ASSUME NEW m \in Member, NEW r \in Role, ChangeRole(h, m, r)
       PROVE  TypeOK'
  BY <1>4, <1>5, <1>6, <1>10 DEF TypeOK, ChangeRole
<1>11. ASSUME NEW m \in Member, FindStatus(h, m)
       PROVE  TypeOK'
  <2> DEFINE t == [at |-> IF m \in active THEN "deactivate" ELSE "activate",
                   who |-> task[h].who, role |-> task[h].role, target |-> m]
  <2>1. t \in Tasks
    BY <1>1 DEF Tasks, Update, Switch
  <2>2. task' = [task EXCEPT ![h] = t]
    BY <1>11 DEF FindStatus, TypeOK
  <2>3. task' \in [Handler -> Tasks]
    BY <2>1, <2>2, TaskTyped
  <2>4. QED
    BY <1>5, <1>6, <1>11, <2>3 DEF TypeOK, FindStatus
<1>12. CASE Activate(h)
  <2>1. task[h].target \in Member
    BY <1>12, TaskShape DEF Activate, SwitchPlaces, Switch
  <2>2. QED
    BY <1>4, <1>5, <1>6, <1>12, <2>1 DEF TypeOK, Activate
<1>13. CASE Deactivate(h)
  <2>1. task[h] \in Switch
    BY <1>13, TaskShape DEF Deactivate, SwitchPlaces
  <2>2. [task[h] EXCEPT !.at = "del"] \in Tasks
    BY <2>1 DEF Switch, Tasks
  <2>3. task' \in [Handler -> Tasks]
    BY <1>13, <2>2, Moves, TaskTyped DEF Deactivate
  <2>4. QED
    BY <1>5, <1>6, <1>13, <2>3 DEF TypeOK, Deactivate
<1>14. CASE Logout(h)
  <2>1. task[h].target \in Member
    BY <1>14, TaskShape DEF Logout, SwitchPlaces, Switch
  <2>2. redis' \in [Member -> Sessions] /\ dismissed' \subseteq Member
    BY <1>14, <2>1 DEF TypeOK, Logout, ToRedis, Sessions, Dismiss
  <2>3. task' \in [Handler -> Tasks]
    BY <1>4, <1>14 DEF Logout
  <2>4. UNCHANGED <<account, active, late>>
    BY <1>14 DEF Logout
  <2>5. QED
    BY <1>5, <2>2, <2>3, <2>4 DEF TypeOK
<1>15. QED
  BY <1>7, <1>8, <1>9, <1>10, <1>11, <1>12, <1>13, <1>14 DEF HandlingStep

LEMMA TypeStep == TypeOK /\ [Next]_sessionVars => TypeOK'
<1> SUFFICES ASSUME TypeOK, [Next]_sessionVars
             PROVE  TypeOK'
  OBVIOUS
<1> USE DEF stores, link, accounts, history, bounds
<1>1. ASSUME NEW h \in Handler, NEW m \in Member, Begin(h, m)
      PROVE  TypeOK'
  <2>1. OrDefault(memory[m]) \in Role /\ DefaultSession \in Role
    BY SessionShapes DEF TypeOK
  <2>2. task' \in [Handler -> Tasks]
    BY <1>1, <2>1 DEF Begin, TypeOK, Update, Tasks
  <2>3. updates' \in 0 .. MaxUpdates
    BY <1>1, SessionAssumption DEF Begin, TypeOK
  <2>4. QED
    BY <1>1, <2>2, <2>3 DEF TypeOK, Begin
<1>2. CASE ReconnectStep
  BY <1>2 DEF TypeOK, ReconnectStep, Fire, Ping
<1>3. ASSUME NEW m \in Member, Expire(m)
      PROVE  TypeOK'
  BY <1>3 DEF TypeOK, Expire, ToRedis, Sessions
<1>4. CASE Outage \/ Return
  <2>1. faults' \in 0 .. MaxFaults
    BY <1>4, SessionAssumption DEF TypeOK, Outage, Return
  <2>2. up' \in BOOLEAN
    BY <1>4 DEF Outage, Return
  <2>3. UNCHANGED <<redis, memory, available, timer, account, active, task, late, dismissed,
                    updates>>
    BY <1>4 DEF Outage, Return
  <2>4. QED
    BY <2>1, <2>2, <2>3 DEF TypeOK
<1>5. CASE Crash
  <2>1. memory' \in [Member -> Sessions] /\ late' = {}
    BY <1>5 DEF Crash, Sessions
  <2>2. task' \in [Handler -> Tasks]
    BY <1>5 DEF Crash, Tasks
  <2>3. faults' \in 0 .. MaxFaults
    BY <1>5, SessionAssumption DEF TypeOK, Crash
  <2>4. available' \in BOOLEAN /\ timer' = "none"
    BY <1>5 DEF Crash
  <2>5. UNCHANGED <<redis, up, account, active, dismissed, updates>>
    BY <1>5 DEF Crash
  <2>6. QED
    BY <2>1, <2>2, <2>3, <2>4, <2>5 DEF TypeOK
<1>6. CASE UNCHANGED sessionVars
  BY <1>6 DEF TypeOK, sessionVars
<1>7. QED
  BY <1>1, <1>2, <1>3, <1>4, <1>5, <1>6, StorageTyped, HandlingTyped DEF Next

LEMMA TypeInit == Init => TypeOK
BY SessionAssumption DEF Init, TypeOK, Sessions, Tasks

(* Sessions, accounts, link and updates stay well typed.                    *)
THEOREM SessionsTypeCorrect == Spec => []TypeOK
BY TypeInit, TypeStep, PTL DEF Spec

-----------------------------------------------------------------------------
(* While the storage is in memory a timer is armed or a ping is under way,  *)
(* and there is never a second one (scheduleReconnect).                     *)
RecoveryArmed == available <=> timer = "none"

(* However errors, pings and crashes interleave, nothing loses the timer.   *)
THEOREM RecoveryIsArmed == Spec => []RecoveryArmed
<1>1. Init => RecoveryArmed
  BY DEF Init, RecoveryArmed
<1>2. TypeOK /\ RecoveryArmed /\ [Next]_sessionVars => RecoveryArmed'
  <2> SUFFICES ASSUME TypeOK, RecoveryArmed, [Next]_sessionVars
               PROVE  RecoveryArmed'
    OBVIOUS
  <2> USE DEF link, RecoveryArmed
  <2>1. ASSUME NEW h \in Handler, StorageStep(h)
        PROVE  RecoveryArmed'
    BY <2>1 DEF StorageStep, Get, Save, Set, LoseRedis, TypeOK
  <2>2. ASSUME NEW h \in Handler, HandlingStep(h)
        PROVE  RecoveryArmed'
    BY <2>2 DEF HandlingStep, Check, Work, Throw, Admit, ChangeRole, FindStatus,
               Activate, Deactivate, Logout
  <2>3. ASSUME NEW h \in Handler, NEW m \in Member, Begin(h, m)
        PROVE  RecoveryArmed'
    BY <2>3 DEF Begin
  <2>4. CASE ReconnectStep
    BY <2>4 DEF ReconnectStep, Fire, Ping, TypeOK
  <2>5. CASE Outage \/ Return \/ Crash
    BY <2>5 DEF Outage, Return, Crash
  <2>6. ASSUME NEW m \in Member, Expire(m)
        PROVE  RecoveryArmed'
    BY <2>6 DEF Expire
  <2>7. CASE UNCHANGED sessionVars
    BY <2>7 DEF sessionVars
  <2>8. QED
    BY <2>1, <2>2, <2>3, <2>4, <2>5, <2>6, <2>7 DEF Next
<1>3. QED
  BY TypeInit, TypeStep, <1>1, <1>2, PTL DEF Spec

(* How many steps of the reconnection are missing until Redis is used again.*)
Distance == IF timer = "none" THEN 0 ELSE IF timer = "pinging" THEN 1 ELSE 2

(* While Redis answers, nothing moves the recovery back, and each step of   *)
(* the timer or of its ping brings it nearer.                               *)
RecoveryAdvances ==
  [][up /\ up' => /\ Distance' <= Distance
                  /\ ReconnectStep => Distance' < Distance]_sessionVars

LEMMA DistanceStep ==
  TypeOK /\ RecoveryArmed /\ [Next]_sessionVars =>
    [up /\ up' => /\ Distance' <= Distance
                  /\ ReconnectStep => Distance' < Distance]_sessionVars
<1> SUFFICES ASSUME TypeOK, RecoveryArmed, Next, up, up'
             PROVE  /\ Distance' <= Distance
                    /\ ReconnectStep => Distance' < Distance
  BY DEF sessionVars
<1> USE DEF link
<1>1. ReconnectStep => Distance' < Distance
  <2>1. Fire => timer = "armed" /\ timer' = "pinging"
    BY DEF Fire
  <2>2. Ping => timer = "pinging" /\ timer' = "none"
    BY DEF Ping
  <2>3. QED
    BY <2>1, <2>2 DEF ReconnectStep, Distance
<1>2. timer' = timer => Distance' <= Distance
  BY DEF Distance
<1>3. timer' \in {timer, "none"} \/ ReconnectStep
  <2>1. ASSUME NEW h \in Handler, NEW m \in Member, Begin(h, m)
        PROVE  timer' = timer
    BY <2>1 DEF Begin
  <2>2. ASSUME NEW h \in Handler, StorageStep(h)
        PROVE  timer' = timer
    BY <2>2 DEF StorageStep, Get, Save, Set
  <2>3. ASSUME NEW h \in Handler, HandlingStep(h)
        PROVE  timer' = timer
    BY <2>3 DEF HandlingStep, Check, Work, Throw, Admit, ChangeRole, FindStatus,
               Activate, Deactivate, Logout
  <2>4. QED
    BY <2>1, <2>2, <2>3 DEF Next, Expire, Outage, Return, Crash
<1>4. timer' = "none" => Distance' <= Distance
  BY DEF Distance
<1>5. Distance \in {0, 1, 2} /\ Distance' \in {0, 1, 2}
  BY DEF Distance
<1>6. QED
  BY <1>1, <1>2, <1>3, <1>4, <1>5

(* The argument behind Recovers, without the fairness that makes the two    *)
(* steps happen: the storage is in memory only while a step is missing, and *)
(* as long as Redis answers the missing steps are used up.                  *)
THEOREM RecoveryComesNearer == Spec => RecoveryAdvances /\ [](available <=> Distance = 0)
<1>1. RecoveryArmed => (available <=> Distance = 0)
  BY DEF RecoveryArmed, Distance
<1>2. QED
  BY SessionsTypeCorrect, RecoveryIsArmed, DistanceStep, <1>1, PTL DEF Spec, RecoveryAdvances

-----------------------------------------------------------------------------
(* Roles and logouts                                                        *)

(* Who was logged out has an account, and it is not active.                 *)
DismissedAreRefused == \A m \in dismissed : account[m] # "none" /\ m \notin active

(* An update past the check is nobody's who was logged out, and whose       *)
(* status is to be switched has an account.                                 *)
PassedAreWelcome ==
  \A h \in Handler :
    LET t == task[h] IN
    /\ t.at \in Busy => t.who \notin dismissed
    /\ t.at \in SwitchPlaces => account[t.target] # "none"

AccessInv == RoleIsCurrent /\ LoggedOut /\ DismissedAreRefused /\ PassedAreWelcome

(* A step of one handler that changes the accounts of S only                *)
LEMMA AccessMove ==
  ASSUME TypeOK, AccessInv, NEW h \in Handler, NEW t, NEW S \in SUBSET Member,
         task' = [task EXCEPT ![h] = t],
         \A m \in Member \ S : account'[m] = account[m] /\ (m \in active' <=> m \in active),
         \A m \in Member : account[m] # "none" => account'[m] # "none",
         \A k \in Handler \ {h} :
           task[k].at = "work" /\ (k \in late \/ task[k].who \in S) => k \in late',
         t.at = "work" => t.who \in Member /\ (account'[t.who] # "none" =>
                            t.role = account'[t.who] /\ t.who \in active'),
         t.at \in Busy => t.who \notin dismissed',
         t.at \in SwitchPlaces => account'[t.target] # "none",
         \A m \in dismissed' :
           \/ m \in dismissed /\ m \notin active' /\ redis'[m] \in {redis[m], NoSession}
           \/ /\ m \in Member /\ account'[m] # "none" /\ m \notin active'
              /\ PastCheck(m) = {} /\ redis'[m] = NoSession
  PROVE  AccessInv'
<1>1. task'[h] = t /\ \A k \in Handler \ {h} : task'[k] = task[k] /\ task[k] \in Tasks
  BY DEF TypeOK
<1>2. RoleIsCurrent'
  <2> SUFFICES ASSUME NEW k \in Handler \ late', task'[k].at = "work",
                      account'[task'[k].who] # "none"
               PROVE  task'[k].role = account'[task'[k].who] /\ task'[k].who \in active'
    BY DEF RoleIsCurrent
  <2>1. CASE k = h
    BY <1>1, <2>1
  <2>2. CASE k # h
    <3>1. task'[k] = task[k] /\ k \notin late /\ task[k].who \notin S
      BY <1>1, <2>2
    <3>2. task[k].who \in Member
      BY <3>1, TaskShape DEF Update
    <3>3. QED
      BY <3>1, <3>2 DEF AccessInv, RoleIsCurrent
  <2>3. QED
    BY <2>1, <2>2
<1>3. LoggedOut'
  BY DEF AccessInv, LoggedOut
<1>4. DismissedAreRefused'
  BY DEF AccessInv, DismissedAreRefused, TypeOK
<1>5. PassedAreWelcome'
  <2> SUFFICES ASSUME NEW k \in Handler
               PROVE  /\ task'[k].at \in Busy => task'[k].who \notin dismissed'
                      /\ task'[k].at \in SwitchPlaces => account'[task'[k].target] # "none"
    BY DEF PassedAreWelcome
  <2>1. CASE k = h
    BY <1>1, <2>1
  <2>2. CASE k # h
    <3>1. task[k].at \in Busy => task[k].who \notin dismissed'
      BY <1>1, <2>2 DEF AccessInv, PassedAreWelcome, PastCheck, Busy, SwitchPlaces
    <3>2. task[k].at \in SwitchPlaces => task[k].target \in Member
      BY TaskShape DEF Switch
    <3>3. QED
      BY <1>1, <2>2, <3>1, <3>2 DEF AccessInv, PassedAreWelcome
  <2>3. QED
    BY <2>1, <2>2
<1>6. QED
  BY <1>2, <1>3, <1>4, <1>5 DEF AccessInv

LEMMA AccessStorage ==
  ASSUME TypeOK, AccessInv, NEW h \in Handler, StorageStep(h)
  PROVE  AccessInv'
<1> USE DEF stores, link, accounts, history, bounds
<1>1. UNCHANGED <<account, active, late, dismissed>>
  BY DEF StorageStep, Get, Save, Set
<1>2. PICK t \in Tasks : /\ task' = [task EXCEPT ![h] = t]
                         /\ \/ t.at \in {"check", "idle"}
                            \/ /\ task[h].at = "save" /\ t.at = "set"
                               /\ t.who = task[h].who
  BY StorageMoves
<1>3. task[h].who \in Member /\ (task[h].at \in Busy => task[h].who \notin dismissed)
  BY StorageMoves DEF AccessInv, PassedAreWelcome, Update
<1>4. \A m \in dismissed : redis'[m] \in {redis[m], NoSession}
  <2>1. redis' = redis \/ (/\ task[h].at = "set"
                           /\ redis' = [redis EXCEPT ![task[h].who] = task[h].role])
    BY DEF StorageStep, Get, Save, Set, ToRedis
  <2>2. QED
    BY <1>3, <2>1 DEF TypeOK, Busy
<1>5. dismissed \subseteq Member
  BY DEF TypeOK
<1>6. /\ t.at # "work" /\ t.at \notin SwitchPlaces
      /\ t.at \in Busy => t.who \notin dismissed
  BY <1>2, <1>3 DEF Busy, SwitchPlaces
<1>7. \A m \in dismissed : m \notin active
  BY DEF AccessInv, DismissedAreRefused
<1>8. QED
  BY <1>1, <1>2, <1>4, <1>5, <1>6, <1>7, AccessMove, {} \in SUBSET Member

LEMMA AccessHandling ==
  ASSUME TypeOK, AccessInv, NEW h \in Handler, HandlingStep(h)
  PROVE  AccessInv'
<1> USE DEF stores, link, accounts, history, bounds
<1>0. /\ task[h] \in Update \cup Switch /\ task[h].who \in Member
      /\ account \in [Member -> Role \cup {"none"}] /\ dismissed \subseteq Member
  <2>1. task[h] \in Update \cup Switch
    BY TaskShape
       DEF HandlingStep, Check, Work, Throw, Admit, ChangeRole, FindStatus, Activate,
           Deactivate, Logout, SwitchPlaces
  <2>2. QED
    BY <2>1 DEF TypeOK, Update, Switch
<1>1. \A m \in dismissed : account[m] # "none" /\ m \notin active
  BY DEF AccessInv, DismissedAreRefused
<1>2. /\ task[h].at \in Busy => task[h].who \notin dismissed
      /\ task[h].at \in SwitchPlaces => task[h].target \in Member
                                        /\ account[task[h].target] # "none"
  BY TaskShape DEF AccessInv, PassedAreWelcome, Switch
(* The two ways in which a handler leaves its update alone                  *)
<1>3. ASSUME NEW t, t \in {Idle, [at |-> "save", who |-> task[h].who, role |-> task[h].role]}
      PROVE  /\ t.at # "work" /\ t.at \notin SwitchPlaces
             /\ t.at \in Busy => t.who = task[h].who
  BY <1>3 DEF Idle, Busy, SwitchPlaces
<1>4. ASSUME NEW S, Proceed(h, S), NEW k \in Handler \ {h}, task[k].at = "work",
             k \in late \/ task[k].who \in S
      PROVE  k \in late'
  BY <1>4 DEF Proceed
<1>5. CASE Check(h)
  <2>0. UNCHANGED <<redis, account, active, late, dismissed>> /\ task[h] \in Update
    BY <1>5, TaskShape DEF Check
  <2>1. CASE Refused(task[h].who)
    <3>1. PICK t : t = Idle /\ task' = [task EXCEPT ![h] = t]
      BY <1>5, <2>1 DEF Check, Finish
    <3>2. t.at # "work" /\ t.at \notin Busy /\ t.at \notin SwitchPlaces
      BY <3>1 DEF Idle, Busy, SwitchPlaces
    <3>3. QED
      BY <1>0, <1>1, <2>0, <3>1, <3>2, AccessMove, {} \in SUBSET Member
  <2>2. CASE ~Refused(task[h].who)
    <3> DEFINE r == IF account[task[h].who] = "none" THEN task[h].role
                    ELSE account[task[h].who]
               t == [task[h] EXCEPT !.at = "work", !.role = r]
    <3>1. task' = [task EXCEPT ![h] = t]
      BY <1>5, <2>2 DEF Check, TypeOK
    <3>2. /\ t.at = "work" /\ t.at \notin SwitchPlaces /\ t.who = task[h].who
          /\ account[t.who] # "none" => t.role = account[t.who] /\ t.who \in active
          /\ t.who \notin dismissed
      BY <1>1, <2>0, <2>2 DEF Update, Refused, SwitchPlaces
    <3> HIDE DEF t
    <3>3. QED
      BY <1>0, <1>1, <2>0, <3>1, <3>2, AccessMove, {} \in SUBSET Member
  <2>3. QED
    BY <2>1, <2>2
<1>6. CASE Work(h) \/ Throw(h)
  <2>1. UNCHANGED <<redis, account, active, dismissed>> /\ Proceed(h, {})
    BY <1>6 DEF Work, Throw
  <2>2. PICK t \in {Idle, [at |-> "save", who |-> task[h].who, role |-> task[h].role]} :
          /\ task' = [task EXCEPT ![h] = t]
          /\ t = Idle \/ task[h].at = "work"
    BY <1>6, Moves DEF Work, Throw
  <2>3. t.at \in Busy => t.who \notin dismissed
    BY <1>2, <1>3, <2>2 DEF Idle, Busy
  <2>4. QED
    BY <1>0, <1>1, <1>3, <1>4, <2>1, <2>2, <2>3, AccessMove, {} \in SUBSET Member
<1>7. ASSUME NEW m \in Member, Admit(h, m)
      PROVE  AccessInv'
  <2> DEFINE t == [at |-> "save", who |-> task[h].who, role |-> task[h].role]
  <2>1. /\ UNCHANGED redis /\ Proceed(h, {m}) /\ task' = [task EXCEPT ![h] = t]
        /\ account' = [account EXCEPT ![m] = "EMPLOYEE"] /\ active' = active \cup {m}
        /\ dismissed' = dismissed \ {m} /\ task[h].at = "work"
    BY <1>7, Moves DEF Admit
  <2>2. t.at \in Busy => t.who \notin dismissed'
    BY <1>2, <2>1 DEF Busy
  <2>3. t.at # "work" /\ t.at \notin SwitchPlaces
    BY DEF SwitchPlaces
  <2> HIDE DEF t
  <2>4. QED
    BY <1>0, <1>1, <1>4, <2>1, <2>2, <2>3, AccessMove, {m} \in SUBSET Member
<1>8. ASSUME NEW m \in Member, NEW r \in Role, ChangeRole(h, m, r)
      PROVE  AccessInv'
  <2> DEFINE t == [at |-> "save", who |-> task[h].who, role |-> task[h].role]
  <2>1. /\ UNCHANGED <<redis, active, dismissed>> /\ Proceed(h, {m})
        /\ task' = [task EXCEPT ![h] = t]
        /\ account' = [account EXCEPT ![m] = r] /\ task[h].at = "work"
    BY <1>8, Moves DEF ChangeRole
  <2>2. r # "none"
    BY SessionAssumption
  <2>3. t.at \in Busy => t.who \notin dismissed'
    BY <1>2, <2>1 DEF Busy
  <2>4. t.at # "work" /\ t.at \notin SwitchPlaces
    BY DEF SwitchPlaces
  <2> HIDE DEF t
  <2>5. QED
    BY <1>0, <1>1, <1>4, <2>1, <2>2, <2>3, <2>4, AccessMove, {m} \in SUBSET Member
<1>9. ASSUME NEW m \in Member, FindStatus(h, m)
      PROVE  AccessInv'
  <2> DEFINE t == [at |-> IF m \in active THEN "deactivate" ELSE "activate",
                   who |-> task[h].who, role |-> task[h].role, target |-> m]
  <2>1. /\ UNCHANGED <<redis, account, active, dismissed>> /\ Proceed(h, {})
        /\ task' = [task EXCEPT ![h] = t]
        /\ account[m] # "none" /\ task[h].at = "work"
    BY <1>9 DEF FindStatus, TypeOK
  <2>2. t.who \notin dismissed' /\ t.target = m /\ t.at # "work"
    BY <1>2, <2>1 DEF Busy
  <2> HIDE DEF t
  <2>3. QED
    BY <1>0, <1>1, <1>4, <2>1, <2>2, AccessMove, {} \in SUBSET Member
<1>10. CASE Activate(h)
  <2> DEFINE m == task[h].target
             t == [at |-> "save", who |-> task[h].who, role |-> task[h].role]
  <2>1. /\ UNCHANGED <<redis, account>> /\ Proceed(h, {m})
        /\ task' = [task EXCEPT ![h] = t]
        /\ active' = active \cup {m} /\ dismissed' = dismissed \ {m}
        /\ task[h].at = "activate"
    BY <1>10, Moves DEF Activate
  <2>2. m \in Member /\ (t.at \in Busy => t.who \notin dismissed')
    BY <1>2, <2>1 DEF Busy, SwitchPlaces
  <2>3. t.at # "work" /\ t.at \notin SwitchPlaces
    BY DEF SwitchPlaces
  <2> HIDE DEF t
  <2>4. QED
    BY <1>0, <1>1, <1>4, <2>1, <2>2, <2>3, AccessMove, {m} \in SUBSET Member
<1>11. CASE Deactivate(h)
  <2> DEFINE m == task[h].target
             t == [task[h] EXCEPT !.at = "del"]
  <2>1. /\ UNCHANGED <<redis, account, dismissed>> /\ Proceed(h, {m})
        /\ task' = [task EXCEPT ![h] = t]
        /\ active' = active \ {m} /\ task[h].at = "deactivate"
    BY <1>11, Moves DEF Deactivate
  <2>2. task[h] \in Switch /\ m \in Member /\ account[m] # "none"
    BY <1>2, <2>1, TaskShape DEF SwitchPlaces
  <2>3. t.at = "del" /\ t.who = task[h].who /\ t.target = m
    BY <2>2 DEF Switch
  <2>4. t.who \notin dismissed'
    BY <1>2, <2>1, <2>3 DEF Busy, SwitchPlaces
  <2>5. /\ t.at # "work" /\ (t.at \in SwitchPlaces => account'[t.target] # "none")
        /\ \A n \in Member : account[n] # "none" => account'[n] # "none"
        /\ \A n \in Member \ {m} : account'[n] = account[n] /\ (n \in active' <=> n \in active)
        /\ \A n \in dismissed' : /\ n \in dismissed /\ n \notin active'
                               /\ redis'[n] \in {redis[n], NoSession}
    BY <1>1, <2>1, <2>2, <2>3
  <2>6. \A k \in Handler \ {h} :
          task[k].at = "work" /\ (k \in late \/ task[k].who \in {m}) => k \in late'
    BY <1>4, <2>1
  <2>7. {m} \in SUBSET Member /\ task' = [task EXCEPT ![h] = t]
    BY <2>1, <2>2
  <2> HIDE DEF t, m
  <2>8. QED
    BY <2>4, <2>5, <2>6, <2>7, AccessMove
<1>12. CASE Logout(h)
  <2> DEFINE m == task[h].target
  <2>1. /\ task[h].at = "del" /\ m \in Member /\ account[m] # "none"
        /\ UNCHANGED <<account, active, late>>
    BY <1>2, <1>12 DEF Logout, SwitchPlaces
  <2>2. PICK t \in {Idle, [at |-> "save", who |-> task[h].who, role |-> task[h].role]} :
          task' = [task EXCEPT ![h] = t]
    BY <1>12, Moves DEF Logout
  <2>3. redis' = redis \/ redis' = [redis EXCEPT ![m] = NoSession]
    BY <1>12 DEF Logout, ToRedis
  <2>4. \/ dismissed' = dismissed
        \/ /\ dismissed' = dismissed \cup {m} /\ m \notin active /\ PastCheck(m) = {}
           /\ redis' = [redis EXCEPT ![m] = NoSession]
    BY <1>12 DEF Logout, ToRedis, Dismiss
  <2>5. \A n \in Member : redis'[n] \in {redis[n], NoSession}
    BY <2>1, <2>3 DEF TypeOK
  <2>6. \A n \in dismissed' : n \in dismissed \/ (n = m /\ n \notin active
                                /\ PastCheck(n) = {} /\ redis'[n] = NoSession)
    BY <2>1, <2>4 DEF TypeOK
  <2>7. task[h].who \notin dismissed'
    <3>1. task[h].who \notin dismissed /\ h \in PastCheck(task[h].who)
      BY <1>2, <2>1 DEF Busy, SwitchPlaces, PastCheck
    <3>2. QED
      BY <2>6, <3>1
  <2>8. t.at \in Busy => t.who \notin dismissed'
    BY <1>3, <2>2, <2>7
  <2>9. t.at # "work" /\ t.at \notin SwitchPlaces
    BY <1>3, <2>2
  <2>10. /\ \A n \in Member : account'[n] = account[n]
         /\ \A k \in Handler : k \in late => k \in late'
         /\ active' = active
    BY <2>1
  <2>11. \A n \in dismissed' :
           \/ n \in dismissed /\ n \notin active' /\ redis'[n] \in {redis[n], NoSession}
           \/ /\ n \in Member /\ account'[n] # "none" /\ n \notin active'
              /\ PastCheck(n) = {} /\ redis'[n] = NoSession
    BY <1>0, <1>1, <2>1, <2>5, <2>6
  <2> HIDE DEF m
  <2>12. QED
    BY <2>2, <2>8, <2>9, <2>10, <2>11, AccessMove, {} \in SUBSET Member
<1>13. QED
  BY <1>5, <1>6, <1>7, <1>8, <1>9, <1>10, <1>11, <1>12 DEF HandlingStep

LEMMA AccessStep == TypeOK /\ AccessInv /\ [Next]_sessionVars => AccessInv'
<1> SUFFICES ASSUME TypeOK, AccessInv, [Next]_sessionVars
             PROVE  AccessInv'
  OBVIOUS
<1> USE DEF stores, link, accounts, history, bounds
<1>1. ASSUME NEW h \in Handler, NEW m \in Member, Begin(h, m)
      PROVE  AccessInv'
  <2>1. UNCHANGED <<redis, account, active, late, dismissed>> /\ dismissed \subseteq Member
    BY <1>1 DEF Begin, TypeOK
  <2>2. PICK t : task' = [task EXCEPT ![h] = t] /\ t.at \in {"get", "check"}
    <3> DEFINE t == [at |-> IF available THEN "get" ELSE "check", who |-> m,
                     role |-> IF available THEN DefaultSession ELSE OrDefault(memory[m])]
    <3>1. task' = [task EXCEPT ![h] = t] /\ t.at \in {"get", "check"}
      BY <1>1 DEF Begin
    <3>2. QED
      BY <3>1
  <2>3. t.at # "work" /\ t.at \notin Busy /\ t.at \notin SwitchPlaces
    BY <2>2 DEF Busy, SwitchPlaces
  <2>4. \A n \in dismissed : n \notin active
    BY DEF AccessInv, DismissedAreRefused
  <2>5. QED
    BY <2>1, <2>2, <2>3, <2>4, AccessMove, {} \in SUBSET Member
<1>2. ASSUME UNCHANGED <<account, active, late, dismissed, task>>,
             \A m \in Member : redis'[m] \in {redis[m], NoSession}
      PROVE  AccessInv'
  BY <1>2 DEF AccessInv, RoleIsCurrent, PassedAreWelcome, LoggedOut, DismissedAreRefused,
              TypeOK
<1>3. CASE ReconnectStep
  BY <1>2, <1>3 DEF ReconnectStep, Fire, Ping
<1>4. ASSUME NEW m \in Member, Expire(m)
      PROVE  AccessInv'
  BY <1>2, <1>4 DEF Expire, ToRedis, TypeOK
<1>5. CASE Outage \/ Return
  BY <1>2, <1>5 DEF Outage, Return
<1>6. CASE Crash
  <2>1. UNCHANGED <<redis, account, active, dismissed>>
    BY <1>6 DEF Crash
  <2>2. \A h \in Handler : task'[h].at = "idle"
    BY <1>6 DEF Crash, Idle
  <2>3. RoleIsCurrent' /\ PassedAreWelcome'
    BY <2>2 DEF RoleIsCurrent, PassedAreWelcome, Busy, SwitchPlaces
  <2>4. QED
    BY <2>1, <2>3 DEF AccessInv, LoggedOut, DismissedAreRefused
<1>7. CASE UNCHANGED sessionVars
  BY <1>2, <1>7 DEF sessionVars
<1>8. QED
  BY <1>1, <1>3, <1>4, <1>5, <1>6, <1>7, AccessStorage, AccessHandling DEF Next

LEMMA AccessInvariant == Spec => []AccessInv
<1>1. Init => AccessInv
  <2> SUFFICES ASSUME Init
               PROVE  AccessInv
    OBVIOUS
  <2>1. dismissed = {}
    BY DEF Init
  <2>2. \A h \in Handler : task[h].at = "idle"
    BY DEF Init, Idle
  <2>3. RoleIsCurrent /\ PassedAreWelcome
    BY <2>2 DEF RoleIsCurrent, PassedAreWelcome, Busy, SwitchPlaces
  <2>4. QED
    BY <2>1, <2>3 DEF AccessInv, LoggedOut, DismissedAreRefused
<1>2. QED
  BY TypeInit, TypeStep, AccessStep, <1>1, PTL DEF Spec

(* However many updates are handled at once, a handler decides on the role  *)
(* its sender has now, unless the account changed while it was at work.     *)
THEOREM RolesAreCurrent == Spec => []RoleIsCurrent
<1>1. AccessInv => RoleIsCurrent
  BY DEF AccessInv
<1>2. QED
  BY AccessInvariant, <1>1, PTL

(* However many updates are handled at once, no session of one who was      *)
(* logged out with no update past the check comes back to Redis.            *)
THEOREM LogoutLasts == Spec => []LoggedOut
<1>1. AccessInv => LoggedOut
  BY DEF AccessInv
<1>2. QED
  BY AccessInvariant, <1>1, PTL

===============================================================================
