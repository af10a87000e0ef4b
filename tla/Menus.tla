--------------------------------- MODULE Menus ---------------------------------
(***************************************************************************)
(* The menus a person is shown (handlers/menu.ts, menus/sections.ts): the  *)
(* main sections, the sub-sections of a section and the modules of a       *)
(* section.  Each of the three screens works out by itself what the person *)
(* may see, from the tree and the scopes at the time of the press, and the *)
(* check behind a module (canPerformAction) does it once more, from a      *)
(* cached ancestry.                                                        *)
(*                                                                         *)
(* A person is a role and the sections of its scopes.  The modules the     *)
(* loader holds are given as the set of sections that have one which the   *)
(* role may view.  Labels, icons and the order of buttons are left out.    *)
(***************************************************************************)
EXTENDS ScopedAccess

Person(a) == [role |-> "ADMIN", rows |-> RowsOf(a)]
Employee == [role |-> "EMPLOYEE", rows |-> {}]
SuperAdmin == [role |-> "SUPER_ADMIN", rows |-> {}]

ActiveChildren(s) == {c \in Children(s) : enabled[c]}

(* getAuthorizedModules: an admin needs a scope on the section of a module  *)
(* or on its parent.                                                        *)
Authorized(p, withModules) ==
  IF p.role = "ADMIN"
    THEN {s \in withModules \cap live : s \in p.rows \/ parent[s] \in p.rows}
    ELSE withModules

(* Fault: only the modules of the main section itself are looked at.        *)
MainMenuDirectOnly(p, withModules) ==
  {s \in live :
     /\ parent[s] = Main /\ enabled[s]
     /\ \/ p.role = "SUPER_ADMIN"
        \/ s \in Authorized(p, withModules)
        \/ p.role = "ADMIN" /\ s \in p.rows}

(* The sections of showDynamicMenu                                          *)
MainMenu(p, withModules) ==
  {s \in live :
     /\ parent[s] = Main /\ enabled[s]
     /\ \/ p.role = "SUPER_ADMIN"
        \/ ({s} \cup ActiveChildren(s)) \cap Authorized(p, withModules) # {}
        \/ p.role = "ADMIN" /\ s \in p.rows}

(* The sub-sections of showSectionModules; a module is enough, in or out of *)
(* the scopes of an admin.                                                  *)
SubMenu(p, s, withModules) ==
  {c \in ActiveChildren(s) :
     \/ p.role = "SUPER_ADMIN"
     \/ c \in withModules
     \/ p.role = "ADMIN" /\ c \in p.rows}

(* Fault: the scopes on the main section are not inherited.                 *)
OpensOwnScopeOnly(p, s) == p.role = "ADMIN" => s \in p.rows

(* Whether showSectionModules shows the modules of the section.             *)
Opens(p, s) ==
  p.role = "ADMIN" => s \in p.rows \/ (parent[s] # Main /\ parent[s] \in p.rows)

(* What canPerformAction would answer now: it takes the cached ancestry, or *)
(* walks the tree.                                                          *)
AncestryNow(s) == IF cache[s] = NotCached THEN {parent[s]} \cap live ELSE cache[s]

Granted(a, s) == RowsOf(a) \cap ({s} \cup AncestryNow(s)) # {}

-----------------------------------------------------------------------------
(* The buttons and the check agree: an admin is shown the modules of a      *)
(* section exactly when canPerformAction lets him into them, whatever the   *)
(* cache has kept for 24 hours (menus/sections.ts:132 against rbac.ts:117). *)
MenuAgreesWithCheck ==
  \A a \in Admin, s \in live : Opens(Person(a), s) <=> Granted(a, s)

(* Whatever modules are loaded, each one the main menu counts as authorized *)
(* can be reached by buttons, if its section and the main section above are *)
(* active: the section above is in the main menu, its own section in the    *)
(* menu of that one, and there it is shown (menu.ts:80-104, 148-180;        *)
(* menus/sections.ts:125-165).                                              *)
AuthorizedIsReachable ==
  \A p \in {Person(a) : a \in Admin} \cup {Employee, SuperAdmin} :
    \A withModules \in SUBSET live :
      \A s \in Authorized(p, withModules) :
        LET top == IF parent[s] = Main THEN s ELSE parent[s] IN
        enabled[s] /\ enabled[top] =>
          /\ top \in MainMenu(p, withModules)
          /\ s # top => s \in SubMenu(p, top, withModules)
          /\ Opens(p, s)

===============================================================================
