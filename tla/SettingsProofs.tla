----------------------------- MODULE SettingsProofs -----------------------------
(***************************************************************************)
(* Proofs about Settings, for every set of types, languages and defaults   *)
(* and any number of switches, with crashes between any two commands.      *)
(* What the presses promise rests on one update at a time (Polling): what  *)
(* a handler has looked at stays so until it writes.  Sound says, for each *)
(* place, what the handler still knows.                                    *)
(***************************************************************************)
EXTENDS Settings, TLAPS

(* Long polling: there is one handler.                                      *)
Polling == \A g, h \in Handler : g = h

Tasks == {Idle} \cup ToggleTask \cup BulkTask \cup SwitchTask \cup GateTask
TogglePlaces == {"look", "check", "write", "told"}
SwitchPlaces == {"switch_get", "switch_set", "switch_audit"}

(* The place of a handler tells what kind of task it has.                   *)
LEMMA TaskShape ==
  ASSUME TypeOK, NEW h \in Handler
  PROVE  /\ task[h].at \in TogglePlaces => task[h] \in ToggleTask
         /\ task[h].at = "bulk" => task[h] \in BulkTask
         /\ task[h].at \in SwitchPlaces => task[h] \in SwitchTask
         /\ task[h].at \in {"gate", "work"} => task[h] \in GateTask
<1>1. task[h] \in Tasks
  BY DEF TypeOK, Tasks
<1>2. QED
  BY <1>1 DEF Tasks, Idle, ToggleTask, BulkTask, SwitchTask, GateTask, TogglePlaces, SwitchPlaces

(* What a step leaves in the hands of its handler                           *)
Moves(h, t) == task' = [task EXCEPT ![h] = t]

LEMMA MovesTyped ==
  ASSUME TypeOK, NEW h \in Handler, NEW t \in Tasks, Moves(h, t)
  PROVE  task' \in [Handler -> Tasks]
BY DEF TypeOK, Moves, Tasks

LEMMA ToggleMoves ==
  ASSUME TypeOK, NEW h \in Handler
  PROVE  /\ ToggleLook(h) =>
              LET t == task[h] IN
              /\ t \in ToggleTask
              /\ Moves(h, [at |-> "check", type |-> t.type, wasActive |-> t.type \in active,
                           isActive |-> t.isActive])
         /\ ToggleCheck(h) =>
              LET t == task[h] IN
              /\ t \in ToggleTask
              /\ Moves(h, [at |-> "write", type |-> t.type, wasActive |-> t.wasActive,
                           isActive |-> t.type \in active])
         /\ ToggleWrite(h) =>
              LET t == task[h] IN
              /\ t \in ToggleTask
              /\ Moves(h, [at |-> "told", type |-> t.type, wasActive |-> t.wasActive,
                           isActive |-> t.isActive])
<1>1. task \in [Handler -> Tasks]
  BY DEF TypeOK, Tasks
<1>2. CASE task[h] \in ToggleTask
  <2>1. task[h] = [at |-> task[h].at, type |-> task[h].type, wasActive |-> task[h].wasActive,
                   isActive |-> task[h].isActive]
    BY <1>2 DEF ToggleTask
  <2>2. QED
    BY <1>1, <1>2, <2>1 DEF Moves, ToggleLook, ToggleCheck, ToggleWrite, Goto
<1>3. CASE task[h] \notin ToggleTask
  BY <1>3, TaskShape DEF ToggleLook, ToggleCheck, ToggleWrite, TogglePlaces
<1>4. QED
  BY <1>2, <1>3

LEMMA BulkMoves ==
  ASSUME TypeOK, NEW h \in Handler
  PROVE  /\ \A op \in BulkOps : Bulk(h, op) =>
              Moves(h, [at |-> "bulk", op |-> op,
                        rest |-> IF op = "reset" THEN Defaults ELSE Type])
         /\ BulkWrite(h) =>
              LET t == task[h] IN
              /\ t \in BulkTask
              /\ \E x \in t.rest :
                   /\ Moves(h, [at |-> "bulk", op |-> t.op, rest |-> t.rest \ {x}])
                   /\ active' = IF t.op = "disable" THEN active \ {x} ELSE active \cup {x}
<1>1. task \in [Handler -> Tasks]
  BY DEF TypeOK, Tasks
<1>2. \A op \in BulkOps : Bulk(h, op) =>
        Moves(h, [at |-> "bulk", op |-> op, rest |-> IF op = "reset" THEN Defaults ELSE Type])
  BY DEF Bulk, Begin, Moves
<1>3. ASSUME BulkWrite(h)
      PROVE  LET t == task[h] IN
             /\ t \in BulkTask
             /\ \E x \in t.rest :
                  /\ Moves(h, [at |-> "bulk", op |-> t.op, rest |-> t.rest \ {x}])
                  /\ active' = IF t.op = "disable" THEN active \ {x} ELSE active \cup {x}
  <2>1. task[h] \in BulkTask
    BY <1>3, TaskShape DEF BulkWrite
  <2>2. PICK x \in task[h].rest :
          /\ active' = IF task[h].op = "disable" THEN active \ {x} ELSE active \cup {x}
          /\ task' = [task EXCEPT ![h] = [task[h] EXCEPT !.rest = @ \ {x}]]
    BY <1>3 DEF BulkWrite
  <2>3. [task[h] EXCEPT !.rest = @ \ {x}] =
          [at |-> "bulk", op |-> task[h].op, rest |-> task[h].rest \ {x}]
    BY <2>1 DEF BulkTask
  <2>4. QED
    BY <2>1, <2>2, <2>3 DEF Moves
<1>4. QED
  BY <1>2, <1>3

LEMMA SwitchMoves ==
  ASSUME TypeOK, NEW h \in Handler
  PROVE  /\ SwitchGet(h) => Moves(h, [at |-> "switch_set", on |-> ~maintenance])
         /\ SwitchSet(h) => /\ task[h].on \in BOOLEAN
                            /\ Moves(h, [at |-> "switch_audit", on |-> task[h].on])
         /\ SwitchAudit(h) => task[h].on \in BOOLEAN /\ Moves(h, Idle)
<1>1. task \in [Handler -> Tasks]
  BY DEF TypeOK, Tasks
<1>2. CASE task[h] \in SwitchTask
  <2>1. task[h] = [at |-> task[h].at, on |-> task[h].on] /\ task[h].on \in BOOLEAN
    BY <1>2 DEF SwitchTask
  <2>2. QED
    BY <1>1, <1>2, <2>1 DEF Moves, SwitchGet, SwitchSet, SwitchAudit, Goto, Finish
<1>3. CASE task[h] \notin SwitchTask
  BY <1>3, TaskShape DEF SwitchGet, SwitchSet, SwitchAudit, SwitchPlaces
<1>4. QED
  BY <1>2, <1>3

LEMMA GateMoves ==
  ASSUME TypeOK, NEW h \in Handler, Gate(h)
  PROVE  Moves(h, IF maintenance THEN Idle ELSE [at |-> "work"])
<1>1. task[h] \in GateTask
  BY TaskShape DEF Gate
<1>2. [task[h] EXCEPT !.at = "work"] = [at |-> "work"]
  BY <1>1 DEF GateTask
<1>3. QED
  BY <1>2 DEF Gate, Finish, Goto, Moves

-----------------------------------------------------------------------------
(* Types                                                                    *)

LEMMA TypeStep == TypeOK /\ [Next]_settingsVars => TypeOK'
<1> SUFFICES ASSUME TypeOK, [Next]_settingsVars
             PROVE  TypeOK'
  OBVIOUS
<1>1. ASSUME NEW h \in Handler, NEW t \in Tasks, Moves(h, t), active' \subseteq Type,
             maintenance' \in BOOLEAN, language' = language, trail' \in Seq(BOOLEAN)
      PROVE  TypeOK'
  <2>1. task' \in [Handler -> Tasks]
    BY <1>1, MovesTyped
  <2>2. QED
    BY <1>1, <2>1 DEF TypeOK, Tasks
<1>2. /\ Idle \in Tasks /\ active \subseteq Type /\ maintenance \in BOOLEAN
      /\ trail \in Seq(BOOLEAN)
  BY DEF Tasks, TypeOK
<1>3. ASSUME NEW h \in Handler, NotificationStep(h)
      PROVE  TypeOK'
  <2>1. maintenance' = maintenance /\ language' = language /\ trail' = trail
    BY <1>3 DEF NotificationStep, Toggle, ToggleLook, ToggleCheck, ToggleWrite, Bulk, BulkWrite,
                Answer
  <2>2. ASSUME NEW t \in Type, Toggle(h, t)
        PROVE  TypeOK'
    <3>1. Moves(h, [at |-> "look", type |-> t, wasActive |-> FALSE, isActive |-> FALSE])
      BY <2>2 DEF Toggle, Begin, Moves
    <3>2. [at |-> "look", type |-> t, wasActive |-> FALSE, isActive |-> FALSE] \in Tasks
      BY DEF Tasks, ToggleTask
    <3>3. active' = active
      BY <2>2 DEF Toggle
    <3>4. QED
      BY <1>1, <1>2, <2>1, <3>1, <3>2, <3>3
  <2>3. CASE ToggleLook(h) \/ ToggleCheck(h) \/ ToggleWrite(h)
    <3>1. task[h] \in ToggleTask /\ task[h].type \in Type
      BY <2>3, ToggleMoves DEF ToggleTask
    <3>2. active' \subseteq Type
      BY <1>2, <2>3, <3>1 DEF ToggleLook, ToggleCheck, ToggleWrite
    <3>3. \A w, i \in BOOLEAN, p \in TogglePlaces :
            [at |-> p, type |-> task[h].type, wasActive |-> w, isActive |-> i] \in Tasks
      BY <3>1 DEF Tasks, ToggleTask, TogglePlaces
    <3>4. /\ task[h].wasActive \in BOOLEAN /\ task[h].isActive \in BOOLEAN
          /\ (task[h].type \in active) \in BOOLEAN
      BY <3>1 DEF ToggleTask
    <3>5. \E t \in Tasks : Moves(h, t)
      BY <2>3, <3>3, <3>4, ToggleMoves DEF TogglePlaces
    <3>6. QED
      BY <1>1, <1>2, <2>1, <3>2, <3>5
  <2>4. ASSUME NEW op \in BulkOps, Bulk(h, op)
        PROVE  TypeOK'
    <3>1. [at |-> "bulk", op |-> op, rest |-> IF op = "reset" THEN Defaults ELSE Type] \in Tasks
      BY SettingsAssumption DEF Tasks, BulkTask
    <3>2. active' \subseteq Type
      BY <1>2, <2>4 DEF Bulk
    <3>3. QED
      BY <1>1, <1>2, <2>1, <2>4, <3>1, <3>2, BulkMoves
  <2>5. CASE BulkWrite(h)
    <3>1. task[h] \in BulkTask
      BY <2>5, BulkMoves
    <3>2. PICK x \in task[h].rest :
            /\ Moves(h, [at |-> "bulk", op |-> task[h].op, rest |-> task[h].rest \ {x}])
            /\ active' = IF task[h].op = "disable" THEN active \ {x} ELSE active \cup {x}
      BY <2>5, BulkMoves
    <3>3. [at |-> "bulk", op |-> task[h].op, rest |-> task[h].rest \ {x}] \in Tasks
      BY <3>1 DEF Tasks, BulkTask
    <3>4. active' \subseteq Type
      BY <1>2, <3>1, <3>2 DEF BulkTask
    <3>5. QED
      BY <1>1, <1>2, <2>1, <3>2, <3>3, <3>4
  <2>6. CASE Answer(h)
    BY <1>1, <1>2, <2>1, <2>6 DEF Answer, Finish, Moves
  <2>7. QED
    BY <1>3, <2>2, <2>3, <2>4, <2>5, <2>6 DEF NotificationStep
<1>4. ASSUME NEW h \in Handler, NEW l \in Language, SetLanguage(h, l)
      PROVE  TypeOK'
  BY <1>4 DEF TypeOK, SetLanguage
<1>5. ASSUME NEW h \in Handler, MaintenanceStep(h)
      PROVE  TypeOK'
  <2>1. active' = active /\ language' = language
    BY <1>5 DEF MaintenanceStep, Switch, SwitchGet, SwitchSet, SwitchAudit, Arrive, Gate, Work
  <2>2. \A p \in SwitchPlaces, b \in BOOLEAN : [at |-> p, on |-> b] \in Tasks
    BY DEF Tasks, SwitchTask, SwitchPlaces
  <2>3. CASE Switch(h)
    <3>1. Moves(h, [at |-> "switch_get", on |-> FALSE])
      BY <2>3 DEF Switch, Begin, Moves
    <3>2. [at |-> "switch_get", on |-> FALSE] \in Tasks
      BY <2>2 DEF SwitchPlaces
    <3>3. QED
      BY <1>1, <1>2, <2>1, <2>3, <3>1, <3>2 DEF Switch
  <2>4. CASE SwitchGet(h)
    <3>1. [at |-> "switch_set", on |-> ~maintenance] \in Tasks
      BY <2>2 DEF SwitchPlaces
    <3>2. QED
      BY <1>1, <1>2, <2>1, <2>4, <3>1, SwitchMoves DEF SwitchGet
  <2>5. CASE SwitchSet(h)
    <3>1. task[h].on \in BOOLEAN /\ Moves(h, [at |-> "switch_audit", on |-> task[h].on])
      BY <2>5, SwitchMoves
    <3>2. [at |-> "switch_audit", on |-> task[h].on] \in Tasks
      BY <2>2, <3>1 DEF SwitchPlaces
    <3>3. QED
      BY <1>1, <1>2, <2>1, <2>5, <3>1, <3>2 DEF SwitchSet
  <2>6. CASE SwitchAudit(h)
    <3>1. task[h].on \in BOOLEAN /\ Moves(h, Idle)
      BY <2>6, SwitchMoves
    <3>2. trail' \in Seq(BOOLEAN)
      BY <1>2, <2>6, <3>1 DEF SwitchAudit
    <3>3. QED
      BY <1>1, <1>2, <2>1, <2>6, <3>1, <3>2 DEF SwitchAudit
  <2>7. CASE Arrive(h) \/ Gate(h) \/ Work(h)
    <3>1. [at |-> "gate"] \in Tasks /\ [at |-> "work"] \in Tasks
      BY DEF Tasks, GateTask
    <3>2. \E t \in Tasks : Moves(h, t)
      BY <1>2, <2>7, <3>1, GateMoves DEF Arrive, Work, Begin, Finish, Moves
    <3>3. QED
      BY <1>1, <1>2, <2>1, <2>7, <3>2 DEF Arrive, Gate, Work
  <2>8. QED
    BY <1>5, <2>3, <2>4, <2>5, <2>6, <2>7 DEF MaintenanceStep
<1>6. CASE Crash
  BY <1>6 DEF Crash, TypeOK
<1>7. CASE UNCHANGED settingsVars
  BY <1>7 DEF settingsVars, TypeOK
<1>8. QED
  BY <1>3, <1>4, <1>5, <1>6, <1>7 DEF Next

LEMMA TypeInit == Init => TypeOK
<1>1. <<>> \in Seq(BOOLEAN) /\ {} \subseteq Type /\ FALSE \in BOOLEAN
  OBVIOUS
<1>2. Init => task \in [Handler -> Tasks]
  BY DEF Init, Tasks
<1>3. QED
  BY <1>1, <1>2 DEF Init, TypeOK, Tasks

(* The settings and the handlers stay well formed, for any number of        *)
(* handlers.                                                                *)
THEOREM SettingsTypeCorrect == Spec => []TypeOK
BY TypeInit, TypeStep, PTL DEF Spec

-----------------------------------------------------------------------------
(* One update at a time                                                     *)

(* What the handler knows at each place                                     *)
TogglerKnows(t) ==
  /\ t.at = "check" => (t.wasActive <=> t.type \in active)
  /\ t.at = "write" => /\ t.wasActive <=> t.type \in active
                       /\ t.isActive <=> t.type \in active
  /\ t.at = "told" => (t.wasActive <=> t.type \notin active)

BulkKnows(t) ==
  t.at = "bulk" =>
    /\ t.op = "enable" => Type \ active \subseteq t.rest
    /\ t.op = "disable" => active \subseteq t.rest
    /\ t.op = "reset" => t.rest \subseteq Defaults /\ active = Defaults \ t.rest

MaintenanceKnows(t) == t.at = "switch_set" => (t.on <=> ~maintenance)

Sound(t) == TogglerKnows(t) /\ BulkKnows(t) /\ MaintenanceKnows(t)

SettingsInv == \A h \in Handler : Sound(task[h])

LEMMA SoundStep == Polling /\ TypeOK /\ SettingsInv /\ [Next]_settingsVars => SettingsInv'
<1> SUFFICES ASSUME Polling, TypeOK, SettingsInv, [Next]_settingsVars
             PROVE  SettingsInv'
  OBVIOUS
<1> USE DEF Sound, TogglerKnows, BulkKnows, MaintenanceKnows
<1>1. ASSUME NEW h \in Handler, Sound(task[h])'
      PROVE  SettingsInv'
  BY <1>1 DEF SettingsInv, Polling
<1>2. ASSUME NEW h \in Handler, NEW t, Moves(h, t)
      PROVE  task'[h] = t
  BY <1>2 DEF Moves, TypeOK
<1>3. ASSUME NEW h \in Handler,
             task'[h].at \in {"idle", "look", "switch_get", "switch_audit", "gate"}
      PROVE  SettingsInv'
  BY <1>1, <1>3
<1>4. Idle.at = "idle"
  BY DEF Idle
<1>5. ASSUME NEW h \in Handler, NotificationStep(h)
      PROVE  SettingsInv'
  <2>1. maintenance' = maintenance /\ Sound(task[h])
    BY <1>5 DEF NotificationStep, Toggle, ToggleLook, ToggleCheck, ToggleWrite, Bulk, BulkWrite,
                Answer, SettingsInv
  <2>2. ASSUME NEW t \in Type, Toggle(h, t)
        PROVE  SettingsInv'
    <3>1. Moves(h, [at |-> "look", type |-> t, wasActive |-> FALSE, isActive |-> FALSE])
      BY <2>2 DEF Toggle, Begin, Moves
    <3>2. QED
      BY <1>2, <1>3, <3>1
  <2>3. CASE ToggleLook(h)
    <3>1. task'[h] = [at |-> "check", type |-> task[h].type,
                      wasActive |-> task[h].type \in active, isActive |-> task[h].isActive]
      BY <1>2, <2>3, ToggleMoves
    <3>2. active' = active
      BY <2>3 DEF ToggleLook
    <3>3. task'[h].at = "check" /\ task'[h].type = task[h].type
      BY <3>1
    <3> DEFINE p == task[h].type \in active
    <3>4. task'[h].wasActive = p
      <4>1. task'[h] = [at |-> "check", type |-> task[h].type, wasActive |-> p,
                        isActive |-> task[h].isActive]
        BY <3>1
      <4> HIDE DEF p
      <4>2. QED
        BY <4>1
    <3>5. task'[h].wasActive <=> task[h].type \in active
      BY <3>4
    <3>6. QED
      BY <1>1, <3>2, <3>3, <3>5
  <2>4. CASE ToggleCheck(h)
    <3>1. task'[h] = [at |-> "write", type |-> task[h].type, wasActive |-> task[h].wasActive,
                      isActive |-> task[h].type \in active]
      BY <1>2, <2>4, ToggleMoves
    <3>2. active' = active /\ (task[h].wasActive <=> task[h].type \in active)
      BY <2>1, <2>4 DEF ToggleCheck
    <3>3. task'[h].at = "write" /\ task'[h].type = task[h].type
      BY <3>1
    <3> DEFINE p == task[h].type \in active
    <3>4. task'[h].isActive = p /\ task'[h].wasActive = task[h].wasActive
      <4>1. task'[h] = [at |-> "write", type |-> task[h].type, wasActive |-> task[h].wasActive,
                        isActive |-> p]
        BY <3>1
      <4> HIDE DEF p
      <4>2. QED
        BY <4>1
    <3>5. /\ task'[h].isActive <=> task[h].type \in active
          /\ task'[h].wasActive <=> task[h].type \in active
      BY <3>2, <3>4
    <3>6. QED
      BY <1>1, <3>2, <3>3, <3>5
  <2>5. CASE ToggleWrite(h)
    <3>1. task'[h] = [at |-> "told", type |-> task[h].type, wasActive |-> task[h].wasActive,
                      isActive |-> task[h].isActive]
      BY <1>2, <2>5, ToggleMoves
    <3>2. task[h].type \in active' <=> task[h].type \notin active
      BY <2>1, <2>5 DEF ToggleWrite
    <3>3. task[h].wasActive <=> task[h].type \in active
      BY <2>1, <2>5 DEF ToggleWrite
    <3>4. QED
      BY <1>1, <3>1, <3>2, <3>3
  <2>6. ASSUME NEW op \in BulkOps, Bulk(h, op)
        PROVE  SettingsInv'
    <3>1. task'[h] = [at |-> "bulk", op |-> op, rest |-> IF op = "reset" THEN Defaults ELSE Type]
      BY <1>2, <2>6, BulkMoves
    <3>2. active' = IF op = "reset" THEN {} ELSE active
      BY <2>6 DEF Bulk
    <3>3. QED
      BY <1>1, <3>1, <3>2 DEF TypeOK
  <2>7. CASE BulkWrite(h)
    <3>1. task[h].at = "bulk"
      BY <2>7 DEF BulkWrite
    <3>2. PICK x \in task[h].rest :
            /\ Moves(h, [at |-> "bulk", op |-> task[h].op, rest |-> task[h].rest \ {x}])
            /\ active' = IF task[h].op = "disable" THEN active \ {x} ELSE active \cup {x}
      BY <2>7, BulkMoves
    <3>3. task'[h] = [at |-> "bulk", op |-> task[h].op, rest |-> task[h].rest \ {x}]
      BY <1>2, <3>2
    <3>4. QED
      BY <1>1, <2>1, <3>1, <3>2, <3>3
  <2>8. CASE Answer(h)
    BY <1>2, <1>3, <1>4, <2>8 DEF Answer, Finish, Moves
  <2>9. QED
    BY <1>5, <2>2, <2>3, <2>4, <2>5, <2>6, <2>7, <2>8 DEF NotificationStep
<1>6. ASSUME NEW h \in Handler, MaintenanceStep(h)
      PROVE  SettingsInv'
  <2>1. active' = active
    BY <1>6 DEF MaintenanceStep, Switch, SwitchGet, SwitchSet, SwitchAudit, Arrive, Gate, Work
  <2>2. CASE Switch(h)
    <3>1. Moves(h, [at |-> "switch_get", on |-> FALSE])
      BY <2>2 DEF Switch, Begin, Moves
    <3>2. QED
      BY <1>2, <1>3, <3>1
  <2>3. CASE SwitchGet(h)
    <3>1. task'[h] = [at |-> "switch_set", on |-> ~maintenance]
      BY <1>2, <2>3, SwitchMoves
    <3>2. maintenance' = maintenance
      BY <2>3 DEF SwitchGet
    <3> DEFINE p == ~maintenance
    <3>3. task'[h].at = "switch_set" /\ task'[h].on = p
      <4>1. task'[h] = [at |-> "switch_set", on |-> p]
        BY <3>1
      <4> HIDE DEF p
      <4>2. QED
        BY <4>1
    <3>4. task'[h].on <=> ~maintenance
      BY <3>3
    <3>5. QED
      BY <1>1, <3>2, <3>3, <3>4
  <2>4. CASE SwitchSet(h) \/ SwitchAudit(h) \/ Arrive(h) \/ Work(h)
    <3>1. task'[h].at \in {"switch_audit", "idle", "gate"}
      BY <1>2, <1>4, <2>4, SwitchMoves DEF Arrive, Work, Begin, Finish, Moves
    <3>2. QED
      BY <1>3, <3>1
  <2>5. CASE Gate(h)
    <3>1. task'[h] = IF maintenance THEN Idle ELSE [at |-> "work"]
      BY <1>2, <2>5, GateMoves
    <3>2. maintenance' = maintenance
      BY <2>5 DEF Gate
    <3>3. QED
      BY <1>1, <1>4, <3>1, <3>2
  <2>6. QED
    BY <1>6, <2>2, <2>3, <2>4, <2>5 DEF MaintenanceStep
<1>7. CASE Crash
  BY <1>3, <1>4, <1>7 DEF Crash
<1>8. CASE UNCHANGED settingsVars \/ \E h \in Handler, l \in Language : SetLanguage(h, l)
  BY <1>8 DEF settingsVars, SetLanguage, SettingsInv
<1>9. QED
  BY <1>5, <1>6, <1>7, <1>8 DEF Next

LEMMA SoundInit == Init => SettingsInv
BY DEF Init, SettingsInv, Sound, TogglerKnows, BulkKnows, MaintenanceKnows, Idle

LEMMA SettingsInvariant ==
  ASSUME Polling
  PROVE  Spec => [](TypeOK /\ SettingsInv)
<1>1. TypeOK /\ SettingsInv /\ [Next]_settingsVars => SettingsInv'
  BY SoundStep
<1>2. QED
  BY <1>1, TypeInit, TypeStep, SoundInit, PTL DEF Spec

(* One update at a time, the menu after a press shows what MenuAfterPress   *)
(* says, whatever the presses that were cut short have left in the set.     *)
THEOREM MenuFollowsPresses ==
  ASSUME Polling
  PROVE  Spec => []MenuAfterPress
<1>1. TypeOK /\ SettingsInv => MenuAfterPress
  <2> SUFFICES ASSUME TypeOK, SettingsInv, NEW h \in Handler
               PROVE  /\ task[h].at = "told" =>
                           (task[h].type \in Effective <=> ~task[h].wasActive \/ active = {})
                      /\ task[h].at = "bulk" /\ task[h].rest = {} =>
                           Effective = IF task[h].op = "reset" THEN Defaults ELSE Type
    BY DEF MenuAfterPress
  <2>1. active \subseteq Type
    BY DEF TypeOK
  <2>2. ASSUME task[h].at = "told"
        PROVE  task[h].type \in Effective <=> ~task[h].wasActive \/ active = {}
    <3>1. task[h].type \in Type
      BY <2>2, TaskShape DEF TogglePlaces, ToggleTask
    <3>2. task[h].wasActive <=> task[h].type \notin active
      BY <2>2 DEF SettingsInv, Sound, TogglerKnows
    <3>3. QED
      BY <3>1, <3>2 DEF Effective
  <2>3. ASSUME task[h].at = "bulk", task[h].rest = {}
        PROVE  Effective = IF task[h].op = "reset" THEN Defaults ELSE Type
    <3>1. task[h].op \in {"enable", "disable", "reset"}
      BY <2>3, TaskShape DEF BulkTask, BulkOps
    <3>2. BulkKnows(task[h])
      BY DEF SettingsInv, Sound
    <3>3. CASE task[h].op = "enable"
      BY <2>1, <2>3, <3>2, <3>3 DEF BulkKnows, Effective
    <3>4. CASE task[h].op = "disable"
      BY <2>3, <3>2, <3>4 DEF BulkKnows, Effective
    <3>5. CASE task[h].op = "reset"
      BY <2>3, <3>2, <3>5, SettingsAssumption DEF BulkKnows, Effective
    <3>6. QED
      BY <3>1, <3>3, <3>4, <3>5
  <2>4. QED
    BY <2>2, <2>3
<1>2. QED
  BY <1>1, SettingsInvariant, PTL

(* One update at a time, every press on the switch changes the status.      *)
THEOREM SwitchesCount ==
  ASSUME Polling
  PROVE  Spec => EverySwitchCounts
<1>1. TypeOK /\ SettingsInv /\ [Next]_settingsVars =>
        [\A h \in Handler :
           task[h].at = "switch_set" /\ task'[h].at = "switch_audit"
             => maintenance' = ~maintenance]_settingsVars
  <2> SUFFICES ASSUME TypeOK, SettingsInv, Next, NEW h \in Handler,
                      task[h].at = "switch_set", task'[h].at = "switch_audit"
               PROVE  maintenance' = ~maintenance
    OBVIOUS
  <2>1. SwitchSet(h)
    <3>1. PICK g \in Handler : NotificationStep(g) \/ (\E l \in Language : SetLanguage(g, l))
                               \/ MaintenanceStep(g)
      BY DEF Next, Crash, Idle
    <3>2. g = h
      BY DEF Polling
    <3>3. task[h] \in SwitchTask /\ task[h] # Idle
      BY TaskShape DEF SwitchPlaces, SwitchTask, Idle
    <3>4. QED
      BY <3>1, <3>2, <3>3
         DEF NotificationStep, SetLanguage, MaintenanceStep, Toggle, ToggleLook, ToggleCheck,
             ToggleWrite, Bulk, BulkWrite, Answer, Switch, SwitchGet, SwitchAudit, Arrive, Gate,
             Work, Begin
  <2>2. task[h].on <=> ~maintenance
    BY DEF SettingsInv, Sound, MaintenanceKnows
  <2>3. task[h].on \in BOOLEAN /\ maintenance \in BOOLEAN /\ maintenance' = task[h].on
    BY <2>1, SwitchMoves DEF SwitchSet, TypeOK
  <2>4. QED
    BY <2>2, <2>3
<1>2. QED
  <2>1. Spec => [](TypeOK /\ SettingsInv)
    BY SettingsInvariant
  <2>2. QED
    BY <1>1, <2>1, PTL DEF Spec, EverySwitchCounts

===============================================================================
