------------------------------- MODULE Accounts -------------------------------
(***************************************************************************)
(* The users table and the handlers that administer it                     *)
(* (bot/handlers/users.ts behind middlewares/rbac.ts).                     *)
(*                                                                         *)
(*   - A handler runs one Telegram update.  Each await on PostgreSQL or    *)
(*     Redis is a point where the handlers of other updates run, so every  *)
(*     statement of a handler is a step of its own; the first one is taken *)
(*     together with the arrival of the update and rbacMiddleware.         *)
(*   - Handler is the set of updates that can be in flight at once: one in *)
(*     polling mode, several in webhook mode.                              *)
(*   - prisma.$transaction runs at READ COMMITTED: a statement sees what   *)
(*     was committed when it starts, and the last statement is taken       *)
(*     together with the commit.                                           *)
(***************************************************************************)
EXTENDS Integers, FiniteSets

CONSTANTS
  User,           \* Telegram ids
  Handler,        \* updates that may be handled concurrently
  GrantableRoles, \* the roles the bounded model hands out
  Seed            \* contents the users table may have at startup

Roles == {"SUPER_ADMIN", "ADMIN", "EMPLOYEE", "VISITOR"}

NoRow == "NO_ROW"   \* no row of the users table has this telegram_id

(* A users table: the role of each id, NoRow for an id without a row.      *)
UserTables == [role: [User -> Roles \cup {NoRow}], isActive: [User -> BOOLEAN]]

ASSUME AccountsAssumption ==
  /\ IsFiniteSet(User)
  /\ GrantableRoles \subseteq Roles
  /\ Seed \subseteq UserTables

VARIABLES
  role,      \* users.role, NoRow when there is no row
  isActive,  \* users.is_active
  keyboards, \* the widest user-administration keyboard a chat displays
  confirm,   \* pairs with a key confirm:user_toggle:{admin}:{target}
  unspent,   \* history: confirmations pressed and not used by an execute yet
  task       \* what each handler is doing

table == <<role, isActive>>
accountVars == <<role, isActive, keyboards, confirm, unspent, task>>

Idle == [at |-> "idle"]

RoleTask == [at: {"role_find", "role_count", "role_update"},
             actor: User, target: User, newRole: Roles]

ToggleTask == [at: {"toggle_del", "toggle_find", "toggle_update", "toggle_logout"},
               actor: User, target: User, found: BOOLEAN]

AccountsTypeOK ==
  /\ role \in [User -> Roles \cup {NoRow}]
  /\ isActive \in [User -> BOOLEAN]
  /\ keyboards \in [User -> {"none", "plain", "super"}]
  /\ confirm \subseteq User \X User
  /\ unspent \subseteq User \X User
  /\ task \in [Handler -> {Idle} \cup RoleTask \cup ToggleTask]

HasRow(u) == role[u] # NoRow

(* count({role: SUPER_ADMIN, isActive: true})                              *)
ActiveSuperAdmins == {u \in User : role[u] = "SUPER_ADMIN" /\ isActive[u]}

(* rbacMiddleware halts the update of a deactivated user.                  *)
RbacAdmits(a) == ~(HasRow(a) /\ ~isActive[a])

Goto(h, stage) == task' = [task EXCEPT ![h].at = stage]
Finish(h) == task' = [task EXCEPT ![h] = Idle]

AccountsInit ==
  /\ \E t \in Seed : role = t.role /\ isActive = t.isActive
  /\ keyboards = [u \in User |-> "none"]
  /\ confirm = {}
  /\ unspent = {}
  /\ task = [h \in Handler |-> Idle]

-----------------------------------------------------------------------------
(* The keyboards of usersHandler and showUserProfile.  The list opens with  *)
(* a button of an old menu too, whose callback rbacMiddleware lets pass,    *)
(* and a profile stays on screen after its reader lost the role it was      *)
(* rendered for.                                                            *)

OpenUsers(h, a) ==
  /\ task[h] = Idle
  /\ RbacAdmits(a)
  /\ \/ /\ role[a] = "SUPER_ADMIN"
        /\ keyboards' = [keyboards EXCEPT ![a] = "super"]
     \/ /\ role[a] # "SUPER_ADMIN" /\ keyboards[a] = "none"
        /\ keyboards' = [keyboards EXCEPT ![a] = "plain"]
  /\ UNCHANGED <<role, isActive, confirm, unspent, task>>

(* A callback query reaches userActionsHandler: the sender is not halted,   *)
(* presses a button rendered for it and does not aim at its own row.        *)
Presses(h, a, t) ==
  /\ task[h] = Idle
  /\ RbacAdmits(a)
  /\ keyboards[a] # "none"
  /\ HasRow(t) /\ a # t

-----------------------------------------------------------------------------
(* user:role:<target>:<role>                                                *)

ChangeRole(h, a, t, r) ==
  /\ Presses(h, a, t)
  /\ r = "SUPER_ADMIN" => keyboards[a] = "super"
  /\ task' = [task EXCEPT ![h] =
       [at |-> IF r = "SUPER_ADMIN" THEN "role_update" ELSE "role_find",
        actor |-> a, target |-> t, newRole |-> r]]
  /\ UNCHANGED <<role, isActive, keyboards, confirm, unspent>>

RoleFind(h) ==
  /\ task[h].at = "role_find"
  /\ Goto(h, IF role[task[h].target] = "SUPER_ADMIN" THEN "role_count"
                                                     ELSE "role_update")
  /\ UNCHANGED <<role, isActive, keyboards, confirm, unspent>>

RoleCount(h) ==
  /\ task[h].at = "role_count"
  /\ IF Cardinality(ActiveSuperAdmins) <= 1
       THEN Finish(h)
       ELSE Goto(h, "role_update")
  /\ UNCHANGED <<role, isActive, keyboards, confirm, unspent>>

RoleUpdate(h) ==
  /\ task[h].at = "role_update"
  /\ role' = [role EXCEPT ![task[h].target] = task[h].newRole]
  /\ Finish(h)
  /\ UNCHANGED <<isActive, keyboards, confirm, unspent>>

-----------------------------------------------------------------------------
(* user:toggle_confirm, user:toggle_cancel, user:toggle_execute             *)

ToggleConfirm(h, a, t) ==
  /\ Presses(h, a, t)
  /\ confirm' = confirm \cup {<<a, t>>}
  /\ unspent' = unspent \cup {<<a, t>>}
  /\ UNCHANGED <<role, isActive, keyboards, task>>

(* TOGGLE_CANCEL, or the 300 seconds of the key run out.                    *)
ToggleWithdraw(a, t) ==
  /\ <<a, t>> \in confirm
  /\ confirm' = confirm \ {<<a, t>>}
  /\ UNCHANGED <<role, isActive, keyboards, unspent, task>>

ToggleExecute(h, a, t) ==
  /\ Presses(h, a, t)
  /\ <<a, t>> \in confirm
  /\ task' = [task EXCEPT ![h] =
       [at |-> "toggle_del", actor |-> a, target |-> t, found |-> FALSE]]
  /\ UNCHANGED <<role, isActive, keyboards, confirm, unspent>>

(* Fault: the confirmation stays until its 300 seconds are over.            *)
ToggleDelKeepsKey(h) ==
  /\ task[h].at = "toggle_del"
  /\ Goto(h, "toggle_find")
  /\ UNCHANGED <<role, isActive, keyboards, confirm, unspent>>

ToggleDel(h) ==
  /\ task[h].at = "toggle_del"
  /\ confirm' = confirm \ {<<task[h].actor, task[h].target>>}
  /\ Goto(h, "toggle_find")
  /\ UNCHANGED <<role, isActive, keyboards, unspent>>

ToggleFind(h) ==
  /\ task[h].at = "toggle_find"
  /\ task' = [task EXCEPT ![h].at = "toggle_update",
                          ![h].found = isActive[task[h].target]]
  /\ UNCHANGED <<role, isActive, keyboards, confirm, unspent>>

ToggleUpdate(h) ==
  /\ task[h].at = "toggle_update"
  /\ isActive' = [isActive EXCEPT ![task[h].target] = ~task[h].found]
  /\ unspent' = unspent \ {<<task[h].actor, task[h].target>>}
  /\ IF task[h].found THEN Goto(h, "toggle_logout") ELSE Finish(h)
  /\ UNCHANGED <<role, keyboards, confirm>>

(* A deactivation is followed by the deletion of the user's session.        *)
ToggleLogout(h) ==
  /\ task[h].at = "toggle_logout"
  /\ Finish(h)
  /\ UNCHANGED <<role, isActive, keyboards, confirm, unspent>>

-----------------------------------------------------------------------------
(* The process dies: open transactions roll back, Redis keeps its keys.     *)
Crash ==
  /\ \E h \in Handler : task[h] # Idle
  /\ task' = [h \in Handler |-> Idle]
  /\ UNCHANGED <<role, isActive, keyboards, confirm, unspent>>

RoleStep(h) == RoleFind(h) \/ RoleCount(h) \/ RoleUpdate(h)
ToggleStep(h) ==
  ToggleDel(h) \/ ToggleFind(h) \/ ToggleUpdate(h) \/ ToggleLogout(h)

RoleRequest(h) ==
  \E a, t \in User, r \in GrantableRoles : ChangeRole(h, a, t, r)

ToggleRequest(h) ==
  \E a, t \in User : ToggleConfirm(h, a, t) \/ ToggleExecute(h, a, t)

AccountsHandler(h) ==
  \/ \E a \in User : OpenUsers(h, a)
  \/ RoleRequest(h)
  \/ ToggleRequest(h)
  \/ RoleStep(h)
  \/ ToggleStep(h)

AccountsNext ==
  \/ \E h \in Handler : AccountsHandler(h)
  \/ \E a, t \in User : ToggleWithdraw(a, t)
  \/ Crash

AccountsSpec == AccountsInit /\ [][AccountsNext]_accountVars

-----------------------------------------------------------------------------
(* user:role takes the role of a SUPER_ADMIN while another one is active    *)
(* (users.ts:154, "Use transaction to atomically check and update").        *)
DemotionsAreAtomic ==
  \A h \in Handler :
    (task[h].at = "role_update" /\ task[h].newRole # "SUPER_ADMIN" /\
     role[task[h].target] = "SUPER_ADMIN" /\ role' # role /\ task'[h] # task[h])
      => ActiveSuperAdmins \ {task[h].target} # {}

(* An execute spends the confirmation it was started by: a handler that has *)
(* passed the check of users.ts:108 holds a confirmation pressed after the  *)
(* last switch the same admin made of the same user.                        *)
ConfirmationUsedOnce ==
  \A h \in Handler :
    task[h].at \in {"toggle_del", "toggle_find", "toggle_update"} =>
      <<task[h].actor, task[h].target>> \in unspent

=============================================================================
