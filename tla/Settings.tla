-------------------------------- MODULE Settings --------------------------------
(***************************************************************************)
(* The settings shared through Redis: the set of active notification types *)
(* (services/settings.ts, handlers/settings.ts) and the maintenance switch *)
(* (services/maintenance.ts, handlers/maintenance.ts) with the middleware  *)
(* that closes the bot to everybody but SUPER_ADMINs.                      *)
(*                                                                         *)
(* Every Redis command is a step of its own: a toggle looks twice before   *)
(* it writes, the buttons for all types write one type after the other.    *)
(* The callbacks settings:... check no role: whoever has the menu in the   *)
(* chat can press its buttons.                                             *)
(***************************************************************************)
EXTENDS Integers, Sequences

CONSTANTS
  Type,     \* notification types (NOTIFICATION_TYPES)
  Defaults, \* the types that a reset leaves active (defaultTypes)
  Language, \* "ar" and "en"
  Handler,  \* updates that may be handled concurrently
  MaxTrail  \* bound on maintenance switches

ASSUME SettingsAssumption ==
  Defaults \subseteq Type /\ Defaults # {} /\ MaxTrail \in Nat

VARIABLES
  active,      \* system:activeNotificationTypes
  maintenance, \* system:maintenance:status is "on"
  language,    \* system:defaultLanguage
  trail,       \* the MAINTENANCE_ON and MAINTENANCE_OFF entries of the audit log
  task         \* what each handler is doing

settingsVars == <<active, maintenance, language, trail, task>>

Idle == [at |-> "idle"]

ToggleTask == [at: {"look", "check", "write", "told"}, type: Type,
               wasActive: BOOLEAN, isActive: BOOLEAN]
BulkOps == {"enable", "disable", "reset"}
BulkTask == [at: {"bulk"}, op: BulkOps, rest: SUBSET Type]
SwitchTask == [at: {"switch_get", "switch_set", "switch_audit"}, on: BOOLEAN]
GateTask == [at: {"gate", "work"}]

TypeOK ==
  /\ active \subseteq Type
  /\ maintenance \in BOOLEAN
  /\ language \in Language
  /\ trail \in Seq(BOOLEAN)
  /\ task \in [Handler -> {Idle} \cup ToggleTask \cup BulkTask \cup SwitchTask \cup GateTask]

Init ==
  /\ active = {}
  /\ maintenance = FALSE
  /\ language \in Language
  /\ trail = <<>>
  /\ task = [h \in Handler |-> Idle]

Goto(h, stage) == task' = [task EXCEPT ![h].at = stage]
Begin(h, t) == task[h] = Idle /\ task' = [task EXCEPT ![h] = t]
Finish(h) == task' = [task EXCEPT ![h] = Idle]

(* getActiveNotificationTypes: an empty set stands for every type.          *)
Effective == IF active = {} THEN Type ELSE active

-----------------------------------------------------------------------------
(* One type                                                                 *)

Toggle(h, t) ==
  /\ Begin(h, [at |-> "look", type |-> t, wasActive |-> FALSE, isActive |-> FALSE])
  /\ UNCHANGED <<active, maintenance, language, trail>>

(* Fault: the handler looks at what the menu shows, not at the set.         *)
ToggleLookAtMenu(h) ==
  /\ task[h].at = "look"
  /\ task' = [task EXCEPT ![h].at = "check", ![h].wasActive = task[h].type \in Effective]
  /\ UNCHANGED <<active, maintenance, language, trail>>

(* The handler looks, for the sake of its answer.                           *)
ToggleLook(h) ==
  /\ task[h].at = "look"
  /\ task' = [task EXCEPT ![h].at = "check", ![h].wasActive = task[h].type \in active]
  /\ UNCHANGED <<active, maintenance, language, trail>>

(* The service looks, for the sake of its choice.                           *)
ToggleCheck(h) ==
  /\ task[h].at = "check"
  /\ task' = [task EXCEPT ![h].at = "write", ![h].isActive = task[h].type \in active]
  /\ UNCHANGED <<active, maintenance, language, trail>>

ToggleWrite(h) ==
  /\ task[h].at = "write"
  /\ active' = IF task[h].isActive THEN active \ {task[h].type}
                                   ELSE active \cup {task[h].type}
  /\ Goto(h, "told")
  /\ UNCHANGED <<maintenance, language, trail>>

-----------------------------------------------------------------------------
(* All types: one SADD or SREM each; the order of the loop is left open     *)

Bulk(h, op) ==
  /\ Begin(h, [at |-> "bulk", op |-> op, rest |-> IF op = "reset" THEN Defaults ELSE Type])
  /\ active' = IF op = "reset" THEN {} ELSE active
  /\ UNCHANGED <<maintenance, language, trail>>

BulkWrite(h) ==
  /\ task[h].at = "bulk"
  /\ \E t \in task[h].rest :
       /\ active' = IF task[h].op = "disable" THEN active \ {t} ELSE active \cup {t}
       /\ task' = [task EXCEPT ![h].rest = @ \ {t}]
  /\ UNCHANGED <<maintenance, language, trail>>

(* The answer is sent and the menu is drawn again from the set.             *)
Answer(h) ==
  /\ task[h].at = "told" \/ (task[h].at = "bulk" /\ task[h].rest = {})
  /\ Finish(h)
  /\ UNCHANGED <<active, maintenance, language, trail>>

(* Fault: the wrong part of the button's data settings:lang:<l> is stored.  *)
SetLanguageWrongPart(h, l) ==
  /\ task[h] = Idle
  /\ language' = "lang"
  /\ UNCHANGED <<active, maintenance, trail, task>>

SetLanguage(h, l) ==
  /\ task[h] = Idle
  /\ language' = l
  /\ UNCHANGED <<active, maintenance, trail, task>>

-----------------------------------------------------------------------------
(* Maintenance                                                              *)

Switch(h) ==
  /\ Len(trail) < MaxTrail
  /\ Begin(h, [at |-> "switch_get", on |-> FALSE])
  /\ UNCHANGED <<active, maintenance, language, trail>>

(* Fault: the status is taken from the log.                                 *)
SwitchGetFromTrail(h) ==
  /\ task[h].at = "switch_get"
  /\ task' = [task EXCEPT ![h].at = "switch_set",
                          ![h].on = trail = <<>> \/ ~trail[Len(trail)]]
  /\ UNCHANGED <<active, maintenance, language, trail>>

SwitchGet(h) ==
  /\ task[h].at = "switch_get"
  /\ task' = [task EXCEPT ![h].at = "switch_set", ![h].on = ~maintenance]
  /\ UNCHANGED <<active, maintenance, language, trail>>

SwitchSet(h) ==
  /\ task[h].at = "switch_set"
  /\ maintenance' = task[h].on
  /\ Goto(h, "switch_audit")
  /\ UNCHANGED <<active, language, trail>>

(* The publication before it reaches nobody: subscribeToUpdates has no      *)
(* caller.  The audit service swallows its errors, so that the entry may    *)
(* be missing (audit-logs.ts).                                              *)
SwitchAudit(h) ==
  /\ task[h].at = "switch_audit"
  /\ trail' \in {trail, Append(trail, task[h].on)}
  /\ Finish(h)
  /\ UNCHANGED <<active, maintenance, language>>

(* An update of a person who is no SUPER_ADMIN; that of a SUPER_ADMIN goes  *)
(* on without a look at the status.                                         *)
Arrive(h) ==
  /\ Begin(h, [at |-> "gate"])
  /\ UNCHANGED <<active, maintenance, language, trail>>

Gate(h) ==
  /\ task[h].at = "gate"
  /\ IF maintenance THEN Finish(h) ELSE Goto(h, "work")
  /\ UNCHANGED <<active, maintenance, language, trail>>

Work(h) ==
  /\ task[h].at = "work"
  /\ Finish(h)
  /\ UNCHANGED <<active, maintenance, language, trail>>

(* The process dies; what is in Redis and in the log stays.                 *)
Crash ==
  /\ \E h \in Handler : task[h] # Idle
  /\ task' = [h \in Handler |-> Idle]
  /\ UNCHANGED <<active, maintenance, language, trail>>

-----------------------------------------------------------------------------
NotificationStep(h) ==
  \/ \E t \in Type : Toggle(h, t)
  \/ ToggleLook(h) \/ ToggleCheck(h) \/ ToggleWrite(h)
  \/ \E op \in BulkOps : Bulk(h, op)
  \/ BulkWrite(h)
  \/ Answer(h)

MaintenanceStep(h) ==
  \/ Switch(h) \/ SwitchGet(h) \/ SwitchSet(h) \/ SwitchAudit(h)
  \/ Arrive(h) \/ Gate(h) \/ Work(h)

Next ==
  \/ \E h \in Handler :
       \/ NotificationStep(h)
       \/ \E l \in Language : SetLanguage(h, l)
       \/ MaintenanceStep(h)
  \/ Crash

Spec == Init /\ [][Next]_settingsVars

-----------------------------------------------------------------------------
(* What the menu that is drawn after a press (handlers/settings.ts:206)     *)
(* shows, given the answer.  A type shows as the answer says, although the  *)
(* answer rests on one look (:225) and the change on another                *)
(* (services/settings.ts:54), except when the last type went off: then all  *)
(* types show as on.  After a button for all types the menu is the same     *)
(* whatever an interrupted press had left behind: everything after 'enable' *)
(* and, by way of the empty set, after 'disable', and the default types     *)
(* after 'reset'.  One update at a time only.                               *)
MenuAfterPress ==
  \A h \in Handler :
    /\ task[h].at = "told" =>
         (task[h].type \in Effective <=> ~task[h].wasActive \/ active = {})
    /\ task[h].at = "bulk" /\ task[h].rest = {} =>
         Effective = IF task[h].op = "reset" THEN Defaults ELSE Type

(* The buttons do what their texts and the comments at handlers/            *)
(* settings.ts:184 and :191 say: a type that is answered as disabled is not *)
(* in effect, 'Disable all notifications' leaves none in effect, and the    *)
(* reset leaves all enabled.                                                *)
ButtonsDoWhatTheySay ==
  \A h \in Handler :
    /\ task[h].at = "told" /\ task[h].wasActive => task[h].type \notin Effective
    /\ task[h].at = "bulk" /\ task[h].rest = {} =>
         /\ task[h].op = "disable" => Effective = {}
         /\ task[h].op = "reset" => Effective = Type

(* Every press on the switch changes the status (maintenance.ts:50-55), no  *)
(* matter which entries or processes were lost.  One update at a time only: *)
(* two presses at once read the same status.                                *)
EverySwitchCounts ==
  [][\A h \in Handler :
       task[h].at = "switch_set" /\ task'[h].at = "switch_audit"
         => maintenance' = ~maintenance]_settingsVars

===============================================================================
