------------------------------- MODULE Sections -------------------------------
(***************************************************************************)
(* The section tree (services/sections.ts) and the bot handlers that edit  *)
(* it (bot/handlers/sections.ts).  Sections form two levels: main sections *)
(* and their sub-sections.  The handlers check that with a read and rely   *)
(* on it in a later write; the tables only guarantee the foreign keys of   *)
(* the migrations:                                                         *)
(*   sections.parent_id  -> sections.id   ON DELETE SET NULL               *)
(*   modules.section_id  -> sections.id   ON DELETE RESTRICT               *)
(*                                                                         *)
(* One statement is one step.  A lookup of the handler that repeats the    *)
(* first lookup of the service is taken together with it.  A session is    *)
(* read and written with the step that uses it.                            *)
(***************************************************************************)
EXTENDS Integers, FiniteSets

CONSTANTS
  Section,  \* section ids; a cuid is never given out twice
  Module,   \* slugs of modules
  Operator, \* chats that administer sections
  Handler   \* updates that may be handled concurrently

VARIABLES
  live,     \* ids with a row in sections
  used,     \* ids that were given out, the deleted ones included
  parent,   \* sections.parent_id, Main when it is null
  enabled,  \* sections.is_active
  home,     \* modules.section_id, Nowhere for a module without a row
  dormant,  \* modules whose is_active is false
  choice,   \* session.createSubSection of each operator
  task      \* what each handler is doing

Main == "MAIN"
Nowhere == "NOWHERE"
Unset == "UNSET"

ASSUME SectionAssumption ==
  Main \notin Section /\ Nowhere \notin Section /\ Unset \notin Section

tree == <<live, used, parent>>
modules == <<home, dormant>>
sectionVars == <<tree, enabled, modules, choice, task>>

MaxDepth == 10   \* the safety limit of isDescendant and getAncestors

Idle == [at |-> "idle"]

CreateTask == [at: {"create_find", "create_insert"},
               operator: Operator, id: Section, under: Section \cup {Main}]
DeleteTask == [at: {"delete_find", "delete_row"}, id: Section]
ToggleTask == [at: {"toggle_find", "toggle_update"}, id: Section, found: BOOLEAN]
UpdateTask == [at: {"update_find", "update_walk", "update_row"}, id: Section,
               under: Section \cup {Main}, cursor: Section \cup {Main},
               depth: 0 .. MaxDepth]

SectionTask == {Idle} \cup CreateTask \cup DeleteTask \cup ToggleTask \cup UpdateTask

TypeOK ==
  /\ live \subseteq used /\ used \subseteq Section
  /\ parent \in [Section -> Section \cup {Main}]
  /\ enabled \in [Section -> BOOLEAN]
  /\ home \in [Module -> Section \cup {Nowhere}]
  /\ dormant \subseteq Module
  /\ choice \in [Operator -> Section \cup {Unset}]
  /\ task \in [Handler -> SectionTask]

Children(s) == {c \in live : parent[c] = s}
ActiveModulesOf(s) == {m \in Module \ dormant : home[m] = s}

Goto(h, stage) == task' = [task EXCEPT ![h].at = stage]
Finish(h) == task' = [task EXCEPT ![h] = Idle]
Begin(h, t) == task[h] = Idle /\ task' = [task EXCEPT ![h] = t]

Init ==
  /\ live = {} /\ used = {}
  /\ parent = [s \in Section |-> Main]
  /\ enabled = [s \in Section |-> TRUE]
  /\ home = [m \in Module |-> Nowhere]
  /\ dormant = {}
  /\ choice = [o \in Operator |-> Unset]
  /\ task = [h \in Handler |-> Idle]

-----------------------------------------------------------------------------
(* Creating a section.  section:add forgets the chosen parent, and so do    *)
(* every command and the loss of the session; section:add:<id> stores it,   *)
(* main section or not.                                                     *)

AddMainPrompt(o) ==
  /\ choice' = [choice EXCEPT ![o] = Unset]
  /\ UNCHANGED <<tree, enabled, modules, task>>

AddSubPrompt(o, p) ==
  /\ p \in live
  /\ choice' = [choice EXCEPT ![o] = p]
  /\ UNCHANGED <<tree, enabled, modules, task>>

(* What the name given by a chat starts: sectionCreateTextHandler runs      *)
(* under the choice of its session, which a failure leaves in place.        *)
Creation(o, s) ==
  IF choice[o] = Unset
    THEN [at |-> "create_insert", operator |-> o, id |-> s, under |-> Main]
    ELSE [at |-> "create_find", operator |-> o, id |-> s, under |-> choice[o]]

(* Fault: the id of the new row is not remembered as taken.                 *)
CreateTextForgetsId(h, o, s) ==
  /\ s \notin used
  /\ Begin(h, Creation(o, s))
  /\ UNCHANGED <<tree, enabled, modules, choice>>

CreateText(h, o, s) ==
  /\ s \notin used
  /\ used' = used \cup {s}
  /\ Begin(h, Creation(o, s))
  /\ UNCHANGED <<live, parent, enabled, modules, choice>>

(* Fault: the parent must exist, but may be a sub-section.                  *)
CreateFindAnyParent(h) ==
  /\ task[h].at = "create_find"
  /\ IF task[h].under \in live THEN Goto(h, "create_insert") ELSE Finish(h)
  /\ UNCHANGED <<tree, enabled, modules, choice>>

(* The parent must exist and be a main section.                             *)
CreateFind(h) ==
  /\ task[h].at = "create_find"
  /\ IF task[h].under \in live /\ parent[task[h].under] = Main
       THEN Goto(h, "create_insert")
       ELSE Finish(h)
  /\ UNCHANGED <<tree, enabled, modules, choice>>

(* The foreign key refuses a parent that is gone by now, the unique slug a  *)
(* name that another section has.                                           *)
CreateInsert(h) ==
  LET t == task[h] IN
  /\ t.at = "create_insert"
  /\ \/ /\ t.under \in live \cup {Main}
        /\ live' = live \cup {t.id}
        /\ parent' = [parent EXCEPT ![t.id] = t.under]
        /\ choice' = [choice EXCEPT ![t.operator] = Unset]
     \/ /\ t.under # Main \/ live # {}
        /\ UNCHANGED <<live, parent, choice>>
  /\ Finish(h)
  /\ UNCHANGED <<used, enabled, modules>>

-----------------------------------------------------------------------------
(* Deleting a section                                                       *)

ConfirmDelete(h, s) ==
  /\ s \in used
  /\ Begin(h, [at |-> "delete_find", id |-> s])
  /\ UNCHANGED <<tree, enabled, modules, choice>>

(* Blocked by an active module of the section or of a sub-section.          *)
DeleteFind(h) ==
  LET s == task[h].id IN
  /\ task[h].at = "delete_find"
  /\ IF /\ s \in live
        /\ \A c \in {s} \cup Children(s) : ActiveModulesOf(c) = {}
       THEN Goto(h, "delete_row")
       ELSE Finish(h)
  /\ UNCHANGED <<tree, enabled, modules, choice>>

Removed(s) ==
  /\ live' = live \ {s}
  /\ parent' = [c \in Section |-> IF c \in Children(s) THEN Main ELSE parent[c]]

(* Fault: modules.section_id does not restrict the deletion.                *)
DeleteRowUnrestricted(h) ==
  /\ task[h].at = "delete_row"
  /\ IF task[h].id \in live THEN Removed(task[h].id) ELSE UNCHANGED <<live, parent>>
  /\ Finish(h)
  /\ UNCHANGED <<used, enabled, modules, choice>>

(* RESTRICT refuses a section that has a module, a dormant one included;    *)
(* SET NULL turns the sub-sections into main sections.                      *)
DeleteRow(h) ==
  LET s == task[h].id IN
  /\ task[h].at = "delete_row"
  /\ IF s \in live /\ \A m \in Module : home[m] # s
       THEN Removed(s)
       ELSE UNCHANGED <<live, parent>>
  /\ Finish(h)
  /\ UNCHANGED <<used, enabled, modules, choice>>

-----------------------------------------------------------------------------
(* Enabling and disabling                                                   *)

Toggle(h, s) ==
  /\ s \in used
  /\ Begin(h, [at |-> "toggle_find", id |-> s, found |-> FALSE])
  /\ UNCHANGED <<tree, enabled, modules, choice>>

ToggleFind(h) ==
  /\ task[h].at = "toggle_find"
  /\ IF task[h].id \in live
       THEN task' = [task EXCEPT ![h].at = "toggle_update",
                                 ![h].found = enabled[task[h].id]]
       ELSE Finish(h)
  /\ UNCHANGED <<tree, enabled, modules, choice>>

ToggleUpdate(h) ==
  LET s == task[h].id IN
  /\ task[h].at = "toggle_update"
  /\ enabled' = IF s \in live THEN [enabled EXCEPT ![s] = ~task[h].found] ELSE enabled
  /\ Finish(h)
  /\ UNCHANGED <<tree, modules, choice>>

-----------------------------------------------------------------------------
(* Module rows: the upserts of module discovery and of persistModules,      *)
(* which takes is_active from the configuration, and clearModule.           *)

PlaceModule(m, s, active) ==
  /\ s \in live
  /\ home' = [home EXCEPT ![m] = s]
  /\ dormant' = IF active THEN dormant \ {m} ELSE dormant \cup {m}
  /\ UNCHANGED <<tree, enabled, choice, task>>

ClearModule(m) ==
  /\ home[m] # Nowhere
  /\ home' = [home EXCEPT ![m] = Nowhere]
  /\ dormant' = dormant \ {m}
  /\ UNCHANGED <<tree, enabled, choice, task>>

-----------------------------------------------------------------------------
(* sectionService.update with a new parent_id.  Its only caller, the        *)
(* handler of section:set_parent:, is registered behind the handler of      *)
(* section: and never runs: these actions belong to ServiceNext only.       *)

SetParent(h, s, p) ==
  /\ s \in used /\ p \in used \cup {Main}
  /\ Begin(h, [at |-> "update_find", id |-> s, under |-> p, cursor |-> p, depth |-> 0])
  /\ UNCHANGED <<tree, enabled, modules, choice>>

(* The new parent must be a main section other than the section.            *)
UpdateFind(h) ==
  LET t == task[h]
      allowed == t.under \in live /\ parent[t.under] = Main /\ t.under # t.id
  IN
  /\ t.at = "update_find"
  /\ \/ t.under = Main /\ Goto(h, "update_row")
     \/ t.under # Main /\ allowed /\ Goto(h, "update_walk")
     \/ t.under # Main /\ ~allowed /\ Finish(h)
  /\ UNCHANGED <<tree, enabled, modules, choice>>

(* isDescendant climbs from the new parent, one lookup at a time.           *)
UpdateWalk(h) ==
  LET t == task[h]
      top == t.cursor \notin live \/ parent[t.cursor] = Main \/ t.depth = MaxDepth
  IN
  /\ t.at = "update_walk"
  /\ \/ top /\ Goto(h, "update_row")
     \/ ~top /\ parent[t.cursor] = t.id /\ Finish(h)
     \/ /\ ~top /\ parent[t.cursor] # t.id
        /\ task' = [task EXCEPT ![h].cursor = parent[t.cursor], ![h].depth = @ + 1]
  /\ UNCHANGED <<tree, enabled, modules, choice>>

UpdateRow(h) ==
  LET t == task[h] IN
  /\ t.at = "update_row"
  /\ parent' = IF t.id \in live /\ t.under \in live \cup {Main}
                 THEN [parent EXCEPT ![t.id] = t.under] ELSE parent
  /\ Finish(h)
  /\ UNCHANGED <<live, used, enabled, modules, choice>>

-----------------------------------------------------------------------------
(* The process dies: running handlers are lost, tables and sessions stay.   *)
Crash ==
  /\ \E h \in Handler : task[h] # Idle
  /\ task' = [h \in Handler |-> Idle]
  /\ UNCHANGED <<tree, enabled, modules, choice>>

Prompt(o) == AddMainPrompt(o) \/ \E p \in Section : AddSubPrompt(o, p)

CreateStep(h) ==
  \/ \E o \in Operator, s \in Section : CreateText(h, o, s)
  \/ CreateFind(h)
  \/ CreateInsert(h)

DeleteStep(h) ==
  \/ \E s \in Section : ConfirmDelete(h, s)
  \/ DeleteFind(h)
  \/ DeleteRow(h)

ToggleStep(h) ==
  \/ \E s \in Section : Toggle(h, s)
  \/ ToggleFind(h)
  \/ ToggleUpdate(h)

ModuleStep(m) ==
  \/ ClearModule(m)
  \/ \E s \in Section, active \in BOOLEAN : PlaceModule(m, s, active)

UpdateStep(h) ==
  \/ \E s \in Section, p \in Section \cup {Main} : SetParent(h, s, p)
  \/ UpdateFind(h)
  \/ UpdateWalk(h)
  \/ UpdateRow(h)

(* What the bot can do.                                                     *)
Next ==
  \/ \E o \in Operator : Prompt(o)
  \/ \E h \in Handler : CreateStep(h) \/ DeleteStep(h) \/ ToggleStep(h)
  \/ \E m \in Module : ModuleStep(m)
  \/ Crash

Spec == Init /\ [][Next]_sectionVars

(* What the service offers: the bot and re-parenting.                       *)
ServiceNext == Next \/ \E h \in Handler : UpdateStep(h)

ServiceSpec == Init /\ [][ServiceNext]_sectionVars

-----------------------------------------------------------------------------
(* FR-018: at most two levels, and every parent exists.  The check of       *)
(* sections.ts:98 and the insert of line 113 are two steps; a deletion of   *)
(* the parent can come between them.                                        *)
TwoLevels ==
  \A s \in live : parent[s] # Main => parent[s] \in live /\ parent[parent[s]] = Main

(* No section is its own ancestor: every non-empty set of sections has a    *)
(* member whose parent lies outside it (sections.ts:156-167).               *)
Acyclic ==
  \A S \in SUBSET live : S # {} => \E s \in S : parent[s] \notin S

(* Deleting a main section deletes its sub-sections (FR-018 and the         *)
(* comments at sections.ts:194 and :232): none outlives the parent it had   *)
(* when the row went.  The foreign key does otherwise.                      *)
DeletionCascades ==
  [][\A s \in live \ live' : \A c \in Children(s) : c \notin live']_sectionVars

(* A module row always belongs to an existing section: a module placed      *)
(* between the check of sections.ts:198 and the deletion of line 233 blocks *)
(* the deletion, and so does a module the check does not count.             *)
ModulesHaveSections ==
  \A m \in Module : home[m] # Nowhere => home[m] \in live

(* The bot implements Catalogue: an id is fresh until its row is written or *)
(* its creation ends without one.                                           *)
Unused ==
  {s \in Section : \/ s \notin used
                   \/ \E h \in Handler : /\ task[h].at \in {"create_find", "create_insert"}
                                         /\ task[h].id = s}

Catalog ==
  INSTANCE Catalogue WITH
    above <- [s \in live |-> parent[s]],
    fresh <- Unused

(* What the handlers check in one statement and write in a later one, and   *)
(* what the foreign keys refuse or set to null, adds up to the operations   *)
(* of Catalogue: a sub-section is only ever added under what is a main      *)
(* section at that moment (sections.ts:98, 113), only an empty section goes *)
(* (sections.ts:198, 233), no id comes back.                                *)
KeepsCatalogue == Catalog!Spec

===============================================================================
