---------------------------- MODULE AccountsProofs ----------------------------
(***************************************************************************)
(* Proofs about the users table of module Accounts.  The types hold for    *)
(* every set of users and of concurrent handlers; a confirmation is used   *)
(* once when updates are handled one at a time, as the long polling of     *)
(* main.ts does.                                                           *)
(***************************************************************************)
EXTENDS Accounts, FiniteSetTheorems, TLAPS

(* One update at a time.                                                    *)
Polling == \E h : Handler = {h}

Confirmation(h) == <<task[h].actor, task[h].target>>

(* Every key that can still be used was pressed and not used; the handler   *)
(* that deleted its key is the only one that can switch on its behalf.      *)
ConfirmInv ==
  /\ confirm \subseteq unspent
  /\ ConfirmationUsedOnce
  /\ \A h \in Handler :
       task[h].at \in {"toggle_find", "toggle_update"} => Confirmation(h) \notin confirm

(* A demotion that passed the count leaves another active SUPER_ADMIN.      *)
CountHolds ==
  \A h \in Handler :
    (/\ task[h].at = "role_update" /\ task[h].newRole # "SUPER_ADMIN"
     /\ role[task[h].target] = "SUPER_ADMIN")
      => ActiveSuperAdmins \ {task[h].target} # {}

(* A task whose stage is one of a flow has the fields of that flow.         *)
LEMMA TaskShape ==
  ASSUME NEW t \in {Idle} \cup RoleTask \cup ToggleTask
  PROVE  /\ t.at \in {"role_find", "role_count", "role_update"} => t \in RoleTask
         /\ t.at \in {"toggle_del", "toggle_find", "toggle_update", "toggle_logout"}
              => t \in ToggleTask
BY DEF RoleTask, ToggleTask, Idle

LEMMA TypeInit == AccountsInit => AccountsTypeOK
BY AccountsAssumption DEF AccountsInit, AccountsTypeOK, UserTables

LEMMA TypeStep == AccountsTypeOK /\ [AccountsNext]_accountVars => AccountsTypeOK'
<1> SUFFICES ASSUME AccountsTypeOK, [AccountsNext]_accountVars
             PROVE  AccountsTypeOK'
  OBVIOUS
<1> USE DEF AccountsTypeOK
<1>1. ASSUME NEW h \in Handler, NEW a \in User, OpenUsers(h, a)
      PROVE  AccountsTypeOK'
  BY <1>1 DEF OpenUsers
<1>2. ASSUME NEW h \in Handler, RoleRequest(h)
      PROVE  AccountsTypeOK'
  BY <1>2, AccountsAssumption DEF RoleRequest, ChangeRole, RoleTask
<1>3. ASSUME NEW h \in Handler, ToggleRequest(h)
      PROVE  AccountsTypeOK'
  <2>1. ASSUME NEW a \in User, NEW t \in User, ToggleConfirm(h, a, t)
        PROVE  AccountsTypeOK'
    BY <2>1 DEF ToggleConfirm
  <2>2. ASSUME NEW a \in User, NEW t \in User, ToggleExecute(h, a, t)
        PROVE  AccountsTypeOK'
    BY <2>2 DEF ToggleExecute, ToggleTask
  <2>3. QED
    BY <1>3, <2>1, <2>2 DEF ToggleRequest
<1>4. ASSUME NEW h \in Handler, RoleStep(h)
      PROVE  AccountsTypeOK'
  <2>1. task[h] \in RoleTask
    BY <1>4, TaskShape DEF RoleStep, RoleFind, RoleCount, RoleUpdate
  <2>2. CASE RoleFind(h) \/ RoleCount(h)
    BY <2>1, <2>2 DEF RoleFind, RoleCount, Goto, Finish, RoleTask
  <2>3. CASE RoleUpdate(h)
    BY <2>1, <2>3 DEF RoleUpdate, Finish, RoleTask
  <2>4. QED
    BY <1>4, <2>2, <2>3 DEF RoleStep
<1>5. ASSUME NEW h \in Handler, ToggleStep(h)
      PROVE  AccountsTypeOK'
  <2>1. task[h] \in ToggleTask
    BY <1>5, TaskShape DEF ToggleStep, ToggleDel, ToggleFind, ToggleUpdate, ToggleLogout
  <2>2. CASE ToggleDel(h)
    BY <2>1, <2>2 DEF ToggleDel, Goto, ToggleTask
  <2>3. CASE ToggleFind(h)
    BY <2>1, <2>3 DEF ToggleFind, ToggleTask
  <2>4. CASE ToggleUpdate(h)
    <3>1. task[h].found \in BOOLEAN /\ task[h].target \in User
      BY <2>1 DEF ToggleTask
    <3>2. CASE task[h].found = TRUE
      BY <2>1, <2>4, <3>1, <3>2 DEF ToggleUpdate, Goto, ToggleTask
    <3>3. CASE task[h].found = FALSE
      BY <2>4, <3>1, <3>3 DEF ToggleUpdate, Finish
    <3>4. QED
      BY <3>1, <3>2, <3>3
  <2>5. CASE ToggleLogout(h)
    BY <2>5 DEF ToggleLogout, Finish
  <2>6. QED
    BY <1>5, <2>2, <2>3, <2>4, <2>5 DEF ToggleStep
<1>6. ASSUME NEW a \in User, NEW t \in User, ToggleWithdraw(a, t)
      PROVE  AccountsTypeOK'
  BY <1>6 DEF ToggleWithdraw
<1>7. CASE Crash
  BY <1>7 DEF Crash
<1>8. CASE UNCHANGED accountVars
  BY <1>8 DEF accountVars
<1>9. QED
  BY <1>1, <1>2, <1>3, <1>4, <1>5, <1>6, <1>7, <1>8 DEF AccountsNext, AccountsHandler

(* The users table, the confirmations and the handlers stay well formed,    *)
(* however many updates are handled at once.                                *)
THEOREM AccountsTypeCorrect == AccountsSpec => []AccountsTypeOK
BY TypeInit, TypeStep, PTL DEF AccountsSpec

-----------------------------------------------------------------------------
(* Confirmations                                                            *)

LEMMA ConfirmStep ==
  ASSUME Polling
  PROVE  AccountsTypeOK /\ ConfirmInv /\ [AccountsNext]_accountVars => ConfirmInv'
<1> SUFFICES ASSUME AccountsTypeOK, ConfirmInv, [AccountsNext]_accountVars
             PROVE  ConfirmInv'
  OBVIOUS
<1>w. PICK w : Handler = {w}
  BY DEF Polling
<1> USE DEF ConfirmInv, ConfirmationUsedOnce, Confirmation, AccountsTypeOK
<1>1. ASSUME NEW a \in User, OpenUsers(w, a)
      PROVE  ConfirmInv'
  BY <1>1 DEF OpenUsers
<1>2. CASE RoleRequest(w)
  BY <1>2, <1>w DEF RoleRequest, ChangeRole
<1>3. ASSUME NEW a \in User, NEW t \in User, ToggleConfirm(w, a, t)
      PROVE  ConfirmInv'
  BY <1>3, <1>w DEF ToggleConfirm, Presses, Idle
<1>4. ASSUME NEW a \in User, NEW t \in User, ToggleExecute(w, a, t)
      PROVE  ConfirmInv'
  BY <1>4, <1>w DEF ToggleExecute
<1>5. CASE RoleStep(w)
  <2>1. task[w] \in RoleTask
    BY <1>5, <1>w, TaskShape DEF RoleStep, RoleFind, RoleCount, RoleUpdate
  <2>2. task'[w].at \notin {"toggle_del", "toggle_find", "toggle_update"}
    BY <1>5, <1>w, <2>1
       DEF RoleStep, RoleFind, RoleCount, RoleUpdate, Goto, Finish, RoleTask, Idle
  <2>3. confirm' = confirm /\ unspent' = unspent
    BY <1>5 DEF RoleStep, RoleFind, RoleCount, RoleUpdate
  <2>4. QED
    BY <1>w, <2>2, <2>3
<1>6. CASE ToggleStep(w)
  <2>1. task[w] \in ToggleTask
    BY <1>6, <1>w, TaskShape DEF ToggleStep, ToggleDel, ToggleFind, ToggleUpdate, ToggleLogout
  <2>2. CASE ToggleDel(w)
    BY <2>1, <2>2, <1>w DEF ToggleDel, Goto, ToggleTask
  <2>3. CASE ToggleFind(w)
    BY <2>1, <2>3, <1>w DEF ToggleFind, ToggleTask
  <2>4. CASE ToggleUpdate(w)
    BY <2>1, <2>4, <1>w DEF ToggleUpdate, Goto, Finish, ToggleTask, Idle
  <2>5. CASE ToggleLogout(w)
    BY <2>5, <1>w DEF ToggleLogout, Finish, Idle
  <2>6. QED
    BY <1>6, <2>2, <2>3, <2>4, <2>5 DEF ToggleStep
<1>7. ASSUME NEW a \in User, NEW t \in User, ToggleWithdraw(a, t)
      PROVE  ConfirmInv'
  BY <1>7 DEF ToggleWithdraw
<1>8. CASE Crash
  BY <1>8 DEF Crash, Idle
<1>9. CASE UNCHANGED accountVars
  BY <1>9 DEF accountVars
<1>10. QED
  BY <1>w, <1>1, <1>2, <1>3, <1>4, <1>5, <1>6, <1>7, <1>8, <1>9
     DEF AccountsNext, AccountsHandler, ToggleRequest

(* A confirmation switches a user once, wherever the process stops: the key *)
(* is deleted before the switch, and a second switch needs a second press.  *)
THEOREM OneSwitchPerConfirmation ==
  ASSUME Polling
  PROVE  AccountsSpec => []ConfirmationUsedOnce
<1>1. AccountsInit => ConfirmInv
  BY DEF AccountsInit, ConfirmInv, ConfirmationUsedOnce, Confirmation, Idle
<1>2. AccountsTypeOK /\ ConfirmInv /\ [AccountsNext]_accountVars => ConfirmInv'
  BY ConfirmStep
<1>3. ConfirmInv => ConfirmationUsedOnce
  BY DEF ConfirmInv
<1>4. QED
  BY TypeInit, TypeStep, <1>1, <1>2, <1>3, PTL DEF AccountsSpec

-----------------------------------------------------------------------------
(* The last SUPER_ADMIN                                                     *)

(* A count above one leaves someone besides the target.                     *)
LEMMA CountAboveOne ==
  ASSUME NEW t, ~ (Cardinality(ActiveSuperAdmins) <= 1)
  PROVE  ActiveSuperAdmins \ {t} # {}
<1> SUFFICES ASSUME ActiveSuperAdmins \subseteq {t}
             PROVE  FALSE
  OBVIOUS
<1>1. IsFiniteSet({t}) /\ Cardinality({t}) = 1
  BY FS_Singleton
<1>2. IsFiniteSet(ActiveSuperAdmins) /\ Cardinality(ActiveSuperAdmins) <= 1
  BY <1>1, FS_Subset
<1>3. QED
  BY <1>2

LEMMA CountStep ==
  ASSUME Polling
  PROVE  AccountsTypeOK /\ CountHolds /\ [AccountsNext]_accountVars => CountHolds'
<1> SUFFICES ASSUME AccountsTypeOK, CountHolds, [AccountsNext]_accountVars
             PROVE  CountHolds'
  OBVIOUS
<1>w. PICK w : Handler = {w}
  BY DEF Polling
<1> USE DEF CountHolds, AccountsTypeOK, table
<1>0. ASSUME task'[w].at # "role_update"
      PROVE  CountHolds'
  BY <1>0, <1>w
<1>1. ASSUME NEW a \in User, OpenUsers(w, a)
      PROVE  CountHolds'
  BY <1>1 DEF OpenUsers, ActiveSuperAdmins
<1>2. ASSUME NEW a \in User, NEW t \in User, NEW r \in GrantableRoles, ChangeRole(w, a, t, r)
      PROVE  CountHolds'
  BY <1>2, <1>w DEF ChangeRole
<1>3. ASSUME NEW a \in User, NEW t \in User, ToggleConfirm(w, a, t)
      PROVE  CountHolds'
  BY <1>3 DEF ToggleConfirm, ActiveSuperAdmins
<1>4. ASSUME NEW a \in User, NEW t \in User, ToggleExecute(w, a, t)
      PROVE  CountHolds'
  BY <1>4, <1>0, <1>w DEF ToggleExecute
<1>5. CASE RoleStep(w)
  <2>1. task[w] \in RoleTask
    BY <1>5, <1>w, TaskShape DEF RoleStep, RoleFind, RoleCount, RoleUpdate
  <2>2. CASE RoleFind(w)
    BY <2>1, <2>2, <1>w DEF RoleFind, Goto, RoleTask, ActiveSuperAdmins
  <2>3. CASE RoleCount(w)
    <3>1. CASE Cardinality(ActiveSuperAdmins) <= 1
      BY <2>3, <3>1, <1>0, <1>w DEF RoleCount, Finish, Idle
    <3>2. CASE ~ (Cardinality(ActiveSuperAdmins) <= 1)
      <4>1. task'[w].target = task[w].target /\ ActiveSuperAdmins' = ActiveSuperAdmins
        BY <2>1, <2>3, <3>2, <1>w DEF RoleCount, Goto, RoleTask, ActiveSuperAdmins
      <4>2. ActiveSuperAdmins \ {task[w].target} # {}
        BY <3>2, CountAboveOne
      <4>3. QED
        BY <4>1, <4>2, <1>w
    <3>3. QED
      BY <3>1, <3>2
  <2>4. CASE RoleUpdate(w)
    BY <2>4, <1>0, <1>w DEF RoleUpdate, Finish, Idle
  <2>5. QED
    BY <1>5, <2>2, <2>3, <2>4 DEF RoleStep
<1>6. CASE ToggleStep(w)
  <2>1. task[w] \in ToggleTask
    BY <1>6, <1>w, TaskShape DEF ToggleStep, ToggleDel, ToggleFind, ToggleUpdate, ToggleLogout
  <2>2. task'[w].at # "role_update"
    BY <1>6, <2>1, <1>w
       DEF ToggleStep, ToggleDel, ToggleFind, ToggleUpdate, ToggleLogout, Goto, Finish,
           ToggleTask, Idle
  <2>3. QED
    BY <2>2, <1>0
<1>7. ASSUME NEW a \in User, NEW t \in User, ToggleWithdraw(a, t)
      PROVE  CountHolds'
  BY <1>7 DEF ToggleWithdraw, ActiveSuperAdmins
<1>8. CASE Crash
  BY <1>8, <1>0, <1>w DEF Crash, Idle
<1>9. CASE UNCHANGED accountVars
  BY <1>9 DEF accountVars, ActiveSuperAdmins
<1>10. QED
  BY <1>w, <1>1, <1>2, <1>3, <1>4, <1>5, <1>6, <1>7, <1>8, <1>9
     DEF AccountsNext, AccountsHandler, RoleRequest, ToggleRequest

===============================================================================
