---------------------------- MODULE SectionsProofs ----------------------------
(***************************************************************************)
(* Proofs about the section tree of module Sections, for every set of      *)
(* sections, modules, operators and concurrent handlers.                   *)
(*                                                                         *)
(* Types, ModulesHaveSections and ParentsExist are proved for ServiceSpec, *)
(* which offers re-parenting as well; TwoLevels, Acyclic and the           *)
(* refinement of Catalogue for Spec, what the bot can do.  TwoLevels is    *)
(* not inductive: an insert relies on what its handler read earlier, and   *)
(* InFlight says what is left of it.  Acyclic holds for ServiceSpec with   *)
(* one handler, since a new parent that was checked to be a main section   *)
(* is still one when it is written (UpdatesChecked).                       *)
(***************************************************************************)
EXTENDS Sections, TLAPS

Creating(h) == task[h].at \in {"create_find", "create_insert"}

(* The id of a row that is being created was given out.                     *)
IdsGivenOut == \A h \in Handler : Creating(h) => task[h].id \in used

(* The rows being created do not exist yet, and each has one creator.       *)
NewIds ==
  /\ \A h \in Handler : Creating(h) => task[h].id \notin live
  /\ \A h, k \in Handler :
       (Creating(h) /\ Creating(k) /\ h # k) => task[h].id # task[k].id

(* What an insert can still rely on of what its handler checked: the parent *)
(* is a main section if it exists, and it will not be created again.        *)
CheckedParents ==
  \A h \in Handler : (task[h].at = "create_insert" /\ task[h].under # Main) =>
    /\ task[h].under \in used
    /\ task[h].under \in live => parent[task[h].under] = Main
    /\ \A k \in Handler : Creating(k) => task[k].id # task[h].under

Typed == TypeOK /\ IdsGivenOut

InFlight == Typed /\ NewIds /\ CheckedParents

(* The inductive invariant of what the bot can do.                          *)
TreeInv == InFlight /\ TwoLevels

(* A task whose stage is one of a flow has the fields of that flow.         *)
LEMMA TaskShape ==
  ASSUME NEW t \in SectionTask
  PROVE  /\ t.at \in {"create_find", "create_insert"} => t \in CreateTask
         /\ t.at \in {"delete_find", "delete_row"} => t \in DeleteTask
         /\ t.at \in {"toggle_find", "toggle_update"} => t \in ToggleTask
         /\ t.at \in {"update_find", "update_walk", "update_row"} => t \in UpdateTask
BY DEF SectionTask, CreateTask, DeleteTask, ToggleTask, UpdateTask, Idle

(* Ending a handler keeps the tasks well typed.                             *)
LEMMA FinishTyped ==
  ASSUME TypeOK, NEW h \in Handler, Finish(h)
  PROVE  task' \in [Handler -> SectionTask]
BY DEF TypeOK, Finish, SectionTask

(* Moving a handler to another stage of its flow keeps the tasks well typed.*)
LEMMA GotoTyped ==
  ASSUME TypeOK, NEW h \in Handler, NEW stage, Goto(h, stage),
         \/ /\ task[h].at \in {"create_find", "create_insert"}
            /\ stage \in {"create_find", "create_insert"}
         \/ /\ task[h].at \in {"delete_find", "delete_row"}
            /\ stage \in {"delete_find", "delete_row"}
         \/ /\ task[h].at \in {"update_find", "update_walk", "update_row"}
            /\ stage \in {"update_find", "update_walk", "update_row"}
  PROVE  task' \in [Handler -> SectionTask]
<1>1. task[h] \in SectionTask
  BY DEF TypeOK
<1>2. [task[h] EXCEPT !.at = stage] \in SectionTask
  <2>1. CASE task[h].at \in {"create_find", "create_insert"}
    BY <1>1, <2>1, TaskShape DEF CreateTask, SectionTask
  <2>2. CASE task[h].at \in {"delete_find", "delete_row"}
    BY <1>1, <2>2, TaskShape DEF DeleteTask, SectionTask
  <2>3. CASE task[h].at \in {"update_find", "update_walk", "update_row"}
    BY <1>1, <2>3, TaskShape DEF UpdateTask, SectionTask
  <2>4. QED
    BY <2>1, <2>2, <2>3
<1>3. QED
  BY <1>2 DEF TypeOK, Goto

(* Every step of the service keeps the types.                               *)
LEMMA TypeStep == Typed /\ [ServiceNext]_sectionVars => TypeOK'
<1> SUFFICES ASSUME TypeOK, IdsGivenOut, [ServiceNext]_sectionVars
             PROVE  TypeOK'
  BY DEF Typed
<1> USE DEF tree, modules
<1>1. ASSUME NEW o \in Operator, Prompt(o)
      PROVE  TypeOK'
  BY <1>1 DEF TypeOK, Prompt, AddMainPrompt, AddSubPrompt
<1>2. ASSUME NEW h \in Handler, CreateStep(h)
      PROVE  TypeOK'
  <2>1. ASSUME NEW o \in Operator, NEW s \in Section, CreateText(h, o, s)
        PROVE  TypeOK'
    <3>1. Creation(o, s) \in SectionTask
      BY DEF Creation, TypeOK, SectionTask, CreateTask
    <3>2. QED
      BY <2>1, <3>1 DEF TypeOK, CreateText, Begin
  <2>2. CASE CreateFind(h)
    <3>1. task' \in [Handler -> SectionTask]
      BY <2>2, GotoTyped, FinishTyped DEF CreateFind
    <3>2. QED
      BY <2>2, <3>1 DEF TypeOK, CreateFind
  <2>3. CASE CreateInsert(h)
    <3>1. task' \in [Handler -> SectionTask]
      BY <2>3, FinishTyped DEF CreateInsert
    <3>2. task[h] \in CreateTask
      BY <2>3, TaskShape DEF CreateInsert, TypeOK
    <3>3. QED
      BY <2>3, <3>1, <3>2 DEF TypeOK, CreateInsert, CreateTask, IdsGivenOut, Creating
  <2>4. QED
    BY <1>2, <2>1, <2>2, <2>3 DEF CreateStep
<1>3. ASSUME NEW h \in Handler, DeleteStep(h)
      PROVE  TypeOK'
  <2>1. ASSUME NEW s \in Section, ConfirmDelete(h, s)
        PROVE  TypeOK'
    BY <2>1 DEF TypeOK, ConfirmDelete, Begin, SectionTask, DeleteTask
  <2>2. CASE DeleteFind(h)
    <3>1. task' \in [Handler -> SectionTask]
      BY <2>2, GotoTyped, FinishTyped DEF DeleteFind
    <3>2. QED
      BY <2>2, <3>1 DEF TypeOK, DeleteFind
  <2>3. CASE DeleteRow(h)
    <3>1. task' \in [Handler -> SectionTask]
      BY <2>3, FinishTyped DEF DeleteRow
    <3>2. QED
      BY <2>3, <3>1 DEF TypeOK, DeleteRow, Removed
  <2>4. QED
    BY <1>3, <2>1, <2>2, <2>3 DEF DeleteStep
<1>4. ASSUME NEW h \in Handler, ToggleStep(h)
      PROVE  TypeOK'
  <2>1. ASSUME NEW s \in Section, Toggle(h, s)
        PROVE  TypeOK'
    BY <2>1 DEF TypeOK, Toggle, Begin, SectionTask, ToggleTask
  <2>2. CASE ToggleFind(h)
    <3>1. task[h] \in ToggleTask
      BY <2>2, TaskShape DEF ToggleFind, TypeOK
    <3>2. task' \in [Handler -> SectionTask]
      BY <2>2, <3>1, FinishTyped DEF ToggleFind, TypeOK, SectionTask, ToggleTask
    <3>3. QED
      BY <2>2, <3>2 DEF TypeOK, ToggleFind
  <2>3. CASE ToggleUpdate(h)
    <3>1. task' \in [Handler -> SectionTask]
      BY <2>3, FinishTyped DEF ToggleUpdate
    <3>2. task[h] \in ToggleTask
      BY <2>3, TaskShape DEF ToggleUpdate, TypeOK
    <3>3. QED
      BY <2>3, <3>1, <3>2 DEF TypeOK, ToggleUpdate, ToggleTask
  <2>4. QED
    BY <1>4, <2>1, <2>2, <2>3 DEF ToggleStep
<1>5. ASSUME NEW m \in Module, ModuleStep(m)
      PROVE  TypeOK'
  BY <1>5 DEF TypeOK, ModuleStep, PlaceModule, ClearModule
<1>6. ASSUME NEW h \in Handler, UpdateStep(h)
      PROVE  TypeOK'
  <2>1. ASSUME NEW s \in Section, NEW p \in Section \cup {Main}, SetParent(h, s, p)
        PROVE  TypeOK'
    BY <2>1 DEF TypeOK, SetParent, Begin, SectionTask, UpdateTask, MaxDepth
  <2>2. CASE UpdateFind(h)
    <3>1. task' \in [Handler -> SectionTask]
      BY <2>2, GotoTyped, FinishTyped DEF UpdateFind
    <3>2. QED
      BY <2>2, <3>1 DEF TypeOK, UpdateFind
  <2>3. CASE UpdateWalk(h)
    <3> DEFINE t == task[h]
               climbed == [t EXCEPT !.cursor = parent[t.cursor], !.depth = @ + 1]
    <3>1. t \in UpdateTask
      BY <2>3, TaskShape DEF UpdateWalk, TypeOK
    <3>2. CASE Goto(h, "update_row")
      BY <2>3, <3>2, GotoTyped DEF TypeOK, UpdateWalk
    <3>3. CASE Finish(h)
      BY <2>3, <3>3, FinishTyped DEF TypeOK, UpdateWalk
    <3>4. CASE /\ t.cursor \in live /\ t.depth # MaxDepth
               /\ task' = [task EXCEPT ![h] = climbed]
      <4>1. t.depth + 1 \in 0 .. MaxDepth
        BY <3>1, <3>4 DEF UpdateTask, MaxDepth
      <4>2. parent[t.cursor] \in Section \cup {Main}
        BY <3>4 DEF TypeOK
      <4>3. climbed \in UpdateTask
        BY <3>1, <4>1, <4>2 DEF UpdateTask
      <4>4. QED
        BY <2>3, <3>4, <4>3 DEF TypeOK, UpdateWalk, SectionTask
    <3>5. QED
      BY <2>3, <3>2, <3>3, <3>4 DEF UpdateWalk
  <2>4. CASE UpdateRow(h)
    <3>1. task' \in [Handler -> SectionTask]
      BY <2>4, FinishTyped DEF UpdateRow
    <3>2. task[h] \in UpdateTask
      BY <2>4, TaskShape DEF UpdateRow, TypeOK
    <3>3. QED
      BY <2>4, <3>1, <3>2 DEF TypeOK, UpdateRow, UpdateTask
  <2>5. QED
    BY <1>6, <2>1, <2>2, <2>3, <2>4 DEF UpdateStep
<1>7. CASE Crash
  BY <1>7 DEF TypeOK, Crash, SectionTask
<1>8. CASE UNCHANGED sectionVars
  BY <1>8 DEF TypeOK, sectionVars
<1>9. QED
  BY <1>1, <1>2, <1>3, <1>4, <1>5, <1>6, <1>7, <1>8 DEF ServiceNext, Next

(* An id that was given out stays so, and only CreateText starts a creation.*)
LEMMA IdsStep == Typed /\ [ServiceNext]_sectionVars => IdsGivenOut'
<1> SUFFICES ASSUME TypeOK, IdsGivenOut, [ServiceNext]_sectionVars,
                    NEW k \in Handler, Creating(k)'
             PROVE  task'[k].id \in used'
  BY DEF Typed, IdsGivenOut
<1> USE DEF tree, modules, TypeOK, IdsGivenOut, Creating, Goto, Finish, Begin, Idle
<1>1. CASE \E o \in Operator : Prompt(o)
  BY <1>1 DEF Prompt, AddMainPrompt, AddSubPrompt
<1>2. ASSUME NEW h \in Handler, CreateStep(h)
      PROVE  task'[k].id \in used'
  <2>1. ASSUME NEW o \in Operator, NEW s \in Section, CreateText(h, o, s)
        PROVE  task'[k].id \in used'
    BY <2>1 DEF CreateText, Creation
  <2>2. CASE CreateFind(h)
    BY <2>2, TaskShape DEF CreateFind, CreateTask
  <2>3. CASE CreateInsert(h)
    BY <2>3 DEF CreateInsert
  <2>4. QED
    BY <1>2, <2>1, <2>2, <2>3 DEF CreateStep
<1>3. ASSUME NEW h \in Handler, DeleteStep(h)
      PROVE  task'[k].id \in used'
  <2>1. ASSUME NEW s \in Section, ConfirmDelete(h, s)
        PROVE  task'[k].id \in used'
    BY <2>1 DEF ConfirmDelete
  <2>2. CASE DeleteFind(h)
    BY <2>2, TaskShape DEF DeleteFind, DeleteTask
  <2>3. CASE DeleteRow(h)
    BY <2>3 DEF DeleteRow
  <2>4. QED
    BY <1>3, <2>1, <2>2, <2>3 DEF DeleteStep
<1>4. ASSUME NEW h \in Handler, ToggleStep(h)
      PROVE  task'[k].id \in used'
  <2>1. ASSUME NEW s \in Section, Toggle(h, s)
        PROVE  task'[k].id \in used'
    BY <2>1 DEF Toggle
  <2>2. CASE ToggleFind(h)
    BY <2>2, TaskShape DEF ToggleFind, ToggleTask
  <2>3. CASE ToggleUpdate(h)
    BY <2>3 DEF ToggleUpdate
  <2>4. QED
    BY <1>4, <2>1, <2>2, <2>3 DEF ToggleStep
<1>5. CASE \E m \in Module : ModuleStep(m)
  BY <1>5 DEF ModuleStep, PlaceModule, ClearModule
<1>6. ASSUME NEW h \in Handler, UpdateStep(h)
      PROVE  task'[k].id \in used'
  <2>1. ASSUME NEW s \in Section, NEW p \in Section \cup {Main}, SetParent(h, s, p)
        PROVE  task'[k].id \in used'
    BY <2>1 DEF SetParent
  <2>2. CASE UpdateFind(h)
    BY <2>2, TaskShape DEF UpdateFind, UpdateTask
  <2>3. CASE UpdateWalk(h)
    BY <2>3, TaskShape DEF UpdateWalk, UpdateTask
  <2>4. CASE UpdateRow(h)
    BY <2>4 DEF UpdateRow
  <2>5. QED
    BY <1>6, <2>1, <2>2, <2>3, <2>4 DEF UpdateStep
<1>7. CASE Crash
  BY <1>7 DEF Crash
<1>8. CASE UNCHANGED sectionVars
  BY <1>8 DEF sectionVars
<1>9. QED
  BY <1>1, <1>2, <1>3, <1>4, <1>5, <1>6, <1>7, <1>8 DEF ServiceNext, Next

LEMMA TypedInit == Init => Typed
BY DEF Init, Typed, TypeOK, SectionTask, IdsGivenOut, Creating, Idle

(* The tables, the sessions and the handlers of the section service stay    *)
(* well formed, re-parenting included.                                      *)
THEOREM TypeCorrect == ServiceSpec => []TypeOK
<1>1. Typed /\ [ServiceNext]_sectionVars => Typed'
  BY TypeStep, IdsStep DEF Typed
<1>2. Typed => TypeOK
  BY DEF Typed
<1>3. QED
  BY TypedInit, <1>1, <1>2, PTL DEF ServiceSpec

-----------------------------------------------------------------------------
(* A step that starts no creation, gives out no id, adds no row and moves   *)
(* rows to the main level only leaves the creations in flight sound.        *)
LEMMA CreationsUndisturbed ==
  ASSUME InFlight, Typed',
         \A k \in Handler : Creating(k)' => task'[k] = task[k],
         used' = used, live' \subseteq live,
         \A s \in Section : parent'[s] = parent[s] \/ parent'[s] = Main
  PROVE  NewIds' /\ CheckedParents'
<1>1. \A k \in Handler : Creating(k)' => Creating(k)
  BY DEF Creating
<1>2. NewIds'
  BY <1>1 DEF InFlight, NewIds
<1>3. CheckedParents'
  <2> SUFFICES ASSUME NEW h \in Handler,
                      task'[h].at = "create_insert", task'[h].under # Main
               PROVE  /\ task'[h].under \in used'
                      /\ task'[h].under \in live' => parent'[task'[h].under] = Main
                      /\ \A k \in Handler : Creating(k)' => task'[k].id # task'[h].under
    BY DEF CheckedParents
  <2>1. task'[h] = task[h]
    BY DEF Creating
  <2>2. /\ task[h].under \in used
        /\ task[h].under \in live => parent[task[h].under] = Main
        /\ \A k \in Handler : Creating(k) => task[k].id # task[h].under
    BY <2>1 DEF InFlight, CheckedParents
  <2>3. task[h].under \in Section
    BY <2>2 DEF InFlight, Typed, TypeOK
  <2>4. QED
    BY <1>1, <2>1, <2>2, <2>3
<1>4. QED
  BY <1>2, <1>3

(* The three steps of a creation.                                           *)
LEMMA CreationStarts ==
  ASSUME TreeInv, NEW h \in Handler, NEW o \in Operator, NEW s \in Section,
         CreateText(h, o, s)
  PROVE  NewIds' /\ CheckedParents' /\ TwoLevels'
<1> USE DEF TreeInv, InFlight, Typed, TypeOK, tree, modules
<1>1. \A k \in Handler : k # h => task'[k] = task[k]
  BY DEF CreateText, Begin
<1>2. /\ task'[h].id = s
      /\ task'[h].at = "create_insert" => task'[h].under = Main
  BY DEF CreateText, Begin, Creation
<1>3. /\ s \notin used /\ used' = used \cup {s} /\ live' = live /\ parent' = parent
  BY DEF CreateText
<1>4. NewIds'
  BY <1>1, <1>2, <1>3 DEF NewIds, IdsGivenOut, Creating
<1>5. CheckedParents'
  <2> SUFFICES ASSUME NEW k \in Handler,
                      task'[k].at = "create_insert", task'[k].under # Main
               PROVE  /\ task'[k].under \in used'
                      /\ task'[k].under \in live' => parent'[task'[k].under] = Main
                      /\ \A j \in Handler : Creating(j)' => task'[j].id # task'[k].under
    BY DEF CheckedParents
  <2>1. k # h /\ task'[k] = task[k]
    BY <1>1, <1>2
  <2>2. QED
    BY <1>1, <1>2, <1>3, <2>1 DEF CheckedParents, Creating
<1>6. TwoLevels'
  BY <1>3 DEF TwoLevels
<1>7. QED
  BY <1>4, <1>5, <1>6

LEMMA CreationChecks ==
  ASSUME TreeInv, NEW h \in Handler, CreateFind(h)
  PROVE  NewIds' /\ CheckedParents' /\ TwoLevels'
<1> USE DEF TreeInv, InFlight, Typed, TypeOK, tree, modules
<1>1. /\ used' = used /\ live' = live /\ parent' = parent
      /\ \A k \in Handler : k # h => task'[k] = task[k]
  BY DEF CreateFind, Goto, Finish
<1>2. Creating(h) /\ task[h] \in CreateTask
  BY TaskShape DEF CreateFind, Creating
<1>3. Creating(h)' => /\ task'[h].id = task[h].id
                      /\ task'[h].under = task[h].under
                      /\ task[h].under \in live /\ parent[task[h].under] = Main
  BY <1>2 DEF CreateFind, Goto, Finish, Creating, CreateTask, Idle
<1>4. \A k \in Handler : Creating(k)' => Creating(k) /\ task'[k].id = task[k].id
  BY <1>1, <1>2, <1>3 DEF Creating
<1>5. NewIds'
  BY <1>1, <1>4 DEF NewIds
<1>6. CheckedParents'
  <2> SUFFICES ASSUME NEW k \in Handler,
                      task'[k].at = "create_insert", task'[k].under # Main
               PROVE  /\ task'[k].under \in used
                      /\ task'[k].under \in live => parent[task'[k].under] = Main
                      /\ \A j \in Handler : Creating(j) => task[j].id # task'[k].under
    BY <1>1, <1>4 DEF CheckedParents
  <2>1. CASE k = h
    BY <1>3, <2>1 DEF Creating, NewIds
  <2>2. CASE k # h
    BY <1>1, <2>2 DEF CheckedParents
  <2>3. QED
    BY <2>1, <2>2
<1>7. TwoLevels'
  BY <1>1 DEF TwoLevels
<1>8. QED
  BY <1>5, <1>6, <1>7

LEMMA CreationInserts ==
  ASSUME TreeInv, NEW h \in Handler, CreateInsert(h)
  PROVE  NewIds' /\ CheckedParents' /\ TwoLevels'
<1> DEFINE t == task[h]
<1> USE DEF TreeInv, InFlight, Typed, TypeOK, tree, modules
<1>1. /\ used' = used
      /\ \A k \in Handler : k # h => task'[k] = task[k]
      /\ ~ Creating(h)'
  BY DEF CreateInsert, Finish, Creating, Idle
<1>2. t.at = "create_insert" /\ Creating(h) /\ t \in CreateTask
  BY TaskShape DEF CreateInsert, Creating
<1>3. /\ t.id \in used /\ t.id \notin live
      /\ \A k \in Handler : (k # h /\ Creating(k)) => task[k].id # t.id
      /\ \A k \in Handler :
           (task[k].at = "create_insert" /\ task[k].under # Main) => task[k].under # t.id
  BY <1>2 DEF IdsGivenOut, NewIds, CheckedParents
<1>4. \A k \in Handler : Creating(k)' => k # h /\ Creating(k) /\ task'[k] = task[k]
  BY <1>1 DEF Creating
<1>5. CASE /\ t.under \in live \cup {Main}
           /\ live' = live \cup {t.id}
           /\ parent' = [parent EXCEPT ![t.id] = t.under]
  <2>1. NewIds'
    BY <1>3, <1>4, <1>5 DEF NewIds
  <2>2. CheckedParents'
    BY <1>1, <1>2, <1>3, <1>4, <1>5 DEF CheckedParents, Creating
  <2>3. TwoLevels'
    <3> SUFFICES ASSUME NEW s \in live', parent'[s] # Main
                 PROVE  parent'[s] \in live' /\ parent'[parent'[s]] = Main
      BY DEF TwoLevels
    <3>1. CASE s = t.id
      <4>1. parent'[s] = t.under /\ t.under \in live
        BY <1>2, <1>5, <3>1 DEF CreateTask
      <4>2. parent[t.under] = Main /\ t.under # t.id
        BY <1>2, <1>3, <4>1 DEF CheckedParents
      <4>3. QED
        BY <1>5, <4>1, <4>2
    <3>2. CASE s # t.id
      <4>1. s \in live /\ parent'[s] = parent[s]
        BY <1>5, <3>2
      <4>2. parent[s] \in live /\ parent[parent[s]] = Main
        BY <4>1 DEF TwoLevels
      <4>3. QED
        BY <1>3, <1>5, <4>1, <4>2
    <3>3. QED
      BY <3>1, <3>2
  <2>4. QED
    BY <2>1, <2>2, <2>3
<1>6. CASE live' = live /\ parent' = parent
  <2>1. NewIds' /\ CheckedParents'
    BY <1>1, <1>4, <1>6 DEF NewIds, CheckedParents, Creating
  <2>2. TwoLevels'
    BY <1>6 DEF TwoLevels
  <2>3. QED
    BY <2>1, <2>2
<1>7. QED
  BY <1>5, <1>6 DEF CreateInsert

(* A deletion turns the sub-sections of the row into main sections.         *)
LEMMA DeletionKeepsLevels ==
  ASSUME Typed, TwoLevels, NEW s \in Section, Removed(s)
  PROVE  TwoLevels'
<1> USE DEF Typed, TypeOK, Removed
<1> SUFFICES ASSUME NEW c \in live', parent'[c] # Main
             PROVE  parent'[c] \in live' /\ parent'[parent'[c]] = Main
  BY DEF TwoLevels
<1>1. c \in live /\ parent'[c] = parent[c] /\ parent[c] # s
  BY DEF Children
<1>2. parent[c] \in live /\ parent[parent[c]] = Main
  BY <1>1 DEF TwoLevels
<1>3. QED
  BY <1>1, <1>2

LEMMA TreeStep == TreeInv /\ [Next]_sectionVars => TreeInv'
<1> SUFFICES ASSUME TreeInv, [Next]_sectionVars
             PROVE  NewIds' /\ CheckedParents' /\ TwoLevels' /\ Typed'
  BY DEF TreeInv, InFlight
<1> USE DEF tree, modules
<1>t. Typed /\ Typed' /\ TypeOK
  BY TypeStep, IdsStep DEF ServiceNext, TreeInv, InFlight, Typed
<1>q. ASSUME \A k \in Handler : Creating(k)' => task'[k] = task[k],
             UNCHANGED tree
      PROVE  NewIds' /\ CheckedParents' /\ TwoLevels'
  BY <1>t, <1>q, CreationsUndisturbed DEF TreeInv, TwoLevels
<1>1. CASE \E o \in Operator : Prompt(o)
  BY <1>1, <1>t, <1>q DEF Prompt, AddMainPrompt, AddSubPrompt
<1>2. ASSUME NEW h \in Handler, CreateStep(h)
      PROVE  NewIds' /\ CheckedParents' /\ TwoLevels'
  BY <1>2, CreationStarts, CreationChecks, CreationInserts DEF CreateStep
<1>3. ASSUME NEW h \in Handler, DeleteStep(h)
      PROVE  NewIds' /\ CheckedParents' /\ TwoLevels'
  <2>1. ASSUME NEW s \in Section, ConfirmDelete(h, s)
        PROVE  NewIds' /\ CheckedParents' /\ TwoLevels'
    BY <2>1, <1>t, <1>q DEF ConfirmDelete, Begin, Creating, TypeOK
  <2>2. CASE DeleteFind(h)
    <3>1. \A k \in Handler : Creating(k)' => task'[k] = task[k]
      BY <2>2, <1>t, TaskShape
         DEF DeleteFind, Goto, Finish, Creating, TypeOK, DeleteTask, Idle
    <3>2. QED
      BY <2>2, <3>1, <1>q DEF DeleteFind
  <2>3. CASE DeleteRow(h)
    <3>1. \A k \in Handler : Creating(k)' => task'[k] = task[k]
      BY <2>3, <1>t DEF DeleteRow, Finish, Creating, TypeOK, Idle
    <3>2. CASE UNCHANGED <<live, parent>>
      BY <2>3, <3>1, <3>2, <1>q DEF DeleteRow
    <3>3. CASE Removed(task[h].id)
      <4>1. task[h].id \in Section
        BY <2>3, <1>t, TaskShape DEF DeleteRow, TypeOK, DeleteTask
      <4>2. TwoLevels'
        BY <3>3, <4>1, <1>t, DeletionKeepsLevels DEF TreeInv
      <4>3. NewIds' /\ CheckedParents'
        BY <2>3, <3>1, <3>3, <1>t, CreationsUndisturbed DEF DeleteRow, Removed, TreeInv, TypeOK
      <4>4. QED
        BY <4>2, <4>3
    <3>4. QED
      BY <2>3, <3>2, <3>3 DEF DeleteRow
  <2>4. QED
    BY <1>3, <2>1, <2>2, <2>3 DEF DeleteStep
<1>4. ASSUME NEW h \in Handler, ToggleStep(h)
      PROVE  NewIds' /\ CheckedParents' /\ TwoLevels'
  <2>1. ASSUME NEW s \in Section, Toggle(h, s)
        PROVE  \A k \in Handler : Creating(k)' => task'[k] = task[k]
    BY <2>1, <1>t DEF Toggle, Begin, Creating, TypeOK
  <2>2. ASSUME ToggleFind(h) \/ ToggleUpdate(h)
        PROVE  \A k \in Handler : Creating(k)' => task'[k] = task[k]
    BY <2>2, <1>t, TaskShape
       DEF ToggleFind, ToggleUpdate, Finish, Creating, TypeOK, ToggleTask, Idle
  <2>3. UNCHANGED tree
    BY <1>4 DEF ToggleStep, Toggle, ToggleFind, ToggleUpdate
  <2>4. QED
    BY <1>4, <2>1, <2>2, <2>3, <1>q DEF ToggleStep
<1>5. CASE \E m \in Module : ModuleStep(m)
  <2>1. UNCHANGED <<tree, task>>
    BY <1>5 DEF ModuleStep, PlaceModule, ClearModule
  <2>2. QED
    BY <2>1, <1>t, <1>q
<1>6. CASE Crash
  <2>1. UNCHANGED tree /\ \A k \in Handler : ~ Creating(k)'
    BY <1>6 DEF Crash, Creating, Idle
  <2>2. QED
    BY <2>1, <1>t, <1>q
<1>7. CASE UNCHANGED sectionVars
  <2>1. UNCHANGED <<tree, task>>
    BY <1>7 DEF sectionVars
  <2>2. QED
    BY <2>1, <1>t, <1>q
<1>8. QED
  BY <1>1, <1>2, <1>3, <1>4, <1>5, <1>6, <1>7, <1>t DEF Next

LEMMA TreeInit == Init => TreeInv
BY TypedInit DEF Init, TreeInv, InFlight, NewIds, CheckedParents, TwoLevels, Creating, Idle

(* Whatever handlers run beside each other and wherever the process stops,  *)
(* the sections that the bot creates and deletes form two levels (FR-018).  *)
THEOREM TreeHasTwoLevels == Spec => []TwoLevels
<1>1. TreeInv => TwoLevels
  BY DEF TreeInv
<1>2. QED
  BY TreeInit, TreeStep, <1>1, PTL DEF Spec

(* Two levels leave no room for a cycle.                                    *)
THEOREM TreeIsAcyclic == Spec => []Acyclic
<1>1. TreeInv => Acyclic
  <2> SUFFICES ASSUME TreeInv, NEW S \in SUBSET live, NEW s \in S
               PROVE  \E r \in S : parent[r] \notin S
    BY DEF Acyclic
  <2>1. CASE parent[s] \notin S
    BY <2>1
  <2>2. CASE parent[s] \in S
    <3>1. parent[s] # Main /\ Main \notin S
      BY <2>2, SectionAssumption DEF TreeInv, InFlight, Typed, TypeOK
    <3>2. parent[parent[s]] = Main
      BY <3>1 DEF TreeInv, TwoLevels
    <3>3. QED
      BY <2>2, <3>1, <3>2
  <2>3. QED
    BY <2>1, <2>2
<1>2. QED
  BY TreeInit, TreeStep, <1>1, PTL DEF Spec

-----------------------------------------------------------------------------
(* The foreign key of modules.section_id: rows are added, or removed when   *)
(* no module is in them, and a module moves to an existing row only.        *)
LEMMA ModulesStep ==
  Typed /\ ModulesHaveSections /\ [ServiceNext]_sectionVars => ModulesHaveSections'
<1> SUFFICES ASSUME Typed, ModulesHaveSections, [ServiceNext]_sectionVars,
                    NEW m \in Module, home'[m] # Nowhere
             PROVE  home'[m] \in live'
  BY DEF ModulesHaveSections
<1> USE DEF tree, modules
<1>1. ASSUME UNCHANGED home, live \subseteq live'
      PROVE  home'[m] \in live'
  BY <1>1 DEF ModulesHaveSections
<1>2. CASE \E o \in Operator : Prompt(o)
  BY <1>2, <1>1 DEF Prompt, AddMainPrompt, AddSubPrompt
<1>3. ASSUME NEW h \in Handler, CreateStep(h)
      PROVE  home'[m] \in live'
  BY <1>3, <1>1 DEF CreateStep, CreateText, CreateFind, CreateInsert
<1>4. ASSUME NEW h \in Handler, DeleteStep(h)
      PROVE  home'[m] \in live'
  <2>1. CASE DeleteRow(h)
    BY <2>1 DEF DeleteRow, Removed, ModulesHaveSections
  <2>2. QED
    BY <1>4, <2>1, <1>1 DEF DeleteStep, ConfirmDelete, DeleteFind
<1>5. ASSUME NEW h \in Handler, ToggleStep(h)
      PROVE  home'[m] \in live'
  BY <1>5, <1>1 DEF ToggleStep, Toggle, ToggleFind, ToggleUpdate
<1>6. ASSUME NEW n \in Module, ModuleStep(n)
      PROVE  home'[m] \in live'
  BY <1>6 DEF ModuleStep, PlaceModule, ClearModule, ModulesHaveSections, Typed, TypeOK
<1>7. ASSUME NEW h \in Handler, UpdateStep(h)
      PROVE  home'[m] \in live'
  BY <1>7, <1>1 DEF UpdateStep, SetParent, UpdateFind, UpdateWalk, UpdateRow
<1>8. CASE Crash
  BY <1>8, <1>1 DEF Crash
<1>9. CASE UNCHANGED sectionVars
  BY <1>9, <1>1 DEF sectionVars
<1>10. QED
  BY <1>2, <1>3, <1>4, <1>5, <1>6, <1>7, <1>8, <1>9 DEF ServiceNext, Next

(* No deletion that runs beside a placement leaves a module without its     *)
(* section, in the bot and with re-parenting.                               *)
THEOREM EveryModuleHasASection == ServiceSpec => []ModulesHaveSections
<1>1. Init => ModulesHaveSections
  BY DEF Init, ModulesHaveSections
<1>2. Typed /\ [ServiceNext]_sectionVars => Typed'
  BY TypeStep, IdsStep DEF Typed
<1>3. QED
  BY TypedInit, <1>1, <1>2, ModulesStep, PTL DEF ServiceSpec

-----------------------------------------------------------------------------
(* The service, re-parenting included                                       *)

(* The statements that write sections.                                      *)
LEMMA TreeWriters ==
  ASSUME [ServiceNext]_sectionVars, UNCHANGED <<live, parent>> => FALSE
  PROVE  \E h \in Handler : CreateInsert(h) \/ DeleteRow(h) \/ UpdateRow(h)
BY DEF ServiceNext, Next, sectionVars, tree, modules, Prompt, AddMainPrompt, AddSubPrompt,
       CreateStep, CreateText, CreateFind, DeleteStep, ConfirmDelete, DeleteFind,
       ToggleStep, Toggle, ToggleFind, ToggleUpdate, ModuleStep, PlaceModule, ClearModule,
       Crash, UpdateStep, SetParent, UpdateFind, UpdateWalk

(* A creation is begun, checked or ended by the steps of its handler; every *)
(* other step only ends creations and adds no row.                          *)
LEMMA CreationSteps ==
  ASSUME Typed, [ServiceNext]_sectionVars
  PROVE  \/ \E h \in Handler, o \in Operator, s \in Section : CreateText(h, o, s)
         \/ \E h \in Handler : CreateFind(h) \/ CreateInsert(h)
         \/ /\ \A k \in Handler : Creating(k)' => task'[k] = task[k]
            /\ live' \subseteq live
<1> DEFINE Quiet == /\ \A k \in Handler : Creating(k)' => task'[k] = task[k]
                    /\ live' \subseteq live
<1> USE DEF tree, modules, Creating, Goto, Finish, Begin, Idle
<1>t. TypeOK
  BY DEF Typed
<1>1. ASSUME NEW h \in Handler, DeleteStep(h)
      PROVE  Quiet
  <2>1. ASSUME NEW s \in Section, ConfirmDelete(h, s)
        PROVE  Quiet
    BY <2>1, <1>t DEF ConfirmDelete, TypeOK
  <2>2. CASE DeleteFind(h) \/ DeleteRow(h)
    BY <2>2, <1>t, TaskShape DEF DeleteFind, DeleteRow, Removed, TypeOK, DeleteTask
  <2>3. QED
    BY <1>1, <2>1, <2>2 DEF DeleteStep
<1>2. ASSUME NEW h \in Handler, ToggleStep(h)
      PROVE  Quiet
  <2>1. ASSUME NEW s \in Section, Toggle(h, s)
        PROVE  Quiet
    BY <2>1, <1>t DEF Toggle, TypeOK
  <2>2. CASE ToggleFind(h) \/ ToggleUpdate(h)
    BY <2>2, <1>t, TaskShape DEF ToggleFind, ToggleUpdate, TypeOK, ToggleTask
  <2>3. QED
    BY <1>2, <2>1, <2>2 DEF ToggleStep
<1>3. ASSUME NEW h \in Handler, UpdateStep(h)
      PROVE  Quiet
  <2>1. ASSUME NEW s \in Section, NEW p \in Section \cup {Main}, SetParent(h, s, p)
        PROVE  Quiet
    BY <2>1, <1>t DEF SetParent, TypeOK
  <2>2. CASE UpdateFind(h) \/ UpdateWalk(h) \/ UpdateRow(h)
    BY <2>2, <1>t, TaskShape DEF UpdateFind, UpdateWalk, UpdateRow, TypeOK, UpdateTask
  <2>3. QED
    BY <1>3, <2>1, <2>2 DEF UpdateStep
<1>4. CASE Crash
  BY <1>4 DEF Crash
<1>5. CASE \/ \E o \in Operator : Prompt(o)
           \/ \E m \in Module : ModuleStep(m)
           \/ UNCHANGED sectionVars
  BY <1>5 DEF Prompt, AddMainPrompt, AddSubPrompt, ModuleStep, PlaceModule, ClearModule,
              sectionVars
<1>6. QED
  BY <1>1, <1>2, <1>3, <1>4, <1>5 DEF ServiceNext, Next, CreateStep

(* Re-parenting creates nothing: an id stays new until its own insert.      *)
LEMMA NewIdsStep == Typed /\ NewIds /\ [ServiceNext]_sectionVars => NewIds'
<1> SUFFICES ASSUME Typed, NewIds, [ServiceNext]_sectionVars
             PROVE  NewIds'
  OBVIOUS
<1> USE DEF Typed, TypeOK, NewIds, IdsGivenOut, Creating
<1>1. ASSUME NEW h \in Handler, NEW o \in Operator, NEW s \in Section, CreateText(h, o, s)
      PROVE  NewIds'
  <2>1. /\ \A k \in Handler : k # h => task'[k] = task[k]
        /\ task'[h].id = s /\ s \notin used /\ live' = live
    BY <1>1 DEF CreateText, Begin, Creation
  <2>2. QED
    BY <2>1
<1>2. ASSUME NEW h \in Handler, CreateFind(h)
      PROVE  NewIds'
  <2>1. task[h] \in CreateTask
    BY <1>2, TaskShape DEF CreateFind
  <2>2. /\ live' = live
        /\ \A k \in Handler : Creating(k)' => Creating(k) /\ task'[k].id = task[k].id
    BY <1>2, <2>1 DEF CreateFind, Goto, Finish, CreateTask, Idle, tree
  <2>3. QED
    BY <2>2
<1>3. ASSUME NEW h \in Handler, CreateInsert(h)
      PROVE  NewIds'
  <2>1. /\ live' \subseteq live \cup {task[h].id} /\ Creating(h)
        /\ \A k \in Handler : Creating(k)' => k # h /\ task'[k] = task[k]
    BY <1>3 DEF CreateInsert, Finish, Idle
  <2>2. QED
    BY <2>1
<1>4. CASE /\ \A k \in Handler : Creating(k)' => task'[k] = task[k]
           /\ live' \subseteq live
  BY <1>4
<1>5. QED
  BY <1>1, <1>2, <1>3, <1>4, CreationSteps

(* The foreign key of sections.parent_id: a parent is a row or null.        *)
ParentsExist == \A s \in live : parent[s] \in live \cup {Main}

LEMMA ParentsStep == Typed /\ ParentsExist /\ [ServiceNext]_sectionVars => ParentsExist'
<1> SUFFICES ASSUME Typed, ParentsExist, [ServiceNext]_sectionVars
             PROVE  ParentsExist'
  OBVIOUS
<1> USE DEF Typed, TypeOK, ParentsExist
<1>1. CASE UNCHANGED <<live, parent>>
  BY <1>1
<1>2. ASSUME NEW h \in Handler, CreateInsert(h)
      PROVE  ParentsExist'
  <2>1. task[h].id \in Section
    BY <1>2 DEF CreateInsert, IdsGivenOut, Creating
  <2>2. QED
    BY <1>2, <2>1 DEF CreateInsert
<1>3. ASSUME NEW h \in Handler, DeleteRow(h)
      PROVE  ParentsExist'
  BY <1>3 DEF DeleteRow, Removed, Children
<1>4. ASSUME NEW h \in Handler, UpdateRow(h)
      PROVE  ParentsExist'
  BY <1>4 DEF UpdateRow
<1>5. QED
  BY <1>1, <1>2, <1>3, <1>4, TreeWriters

(* Whatever creations, deletions and re-parentings run beside each other,   *)
(* no section is left under a section that is gone.                         *)
THEOREM ParentsAreNeverGone == ServiceSpec => []ParentsExist
<1>1. Init => ParentsExist
  BY DEF Init, ParentsExist
<1>2. Typed /\ [ServiceNext]_sectionVars => Typed'
  BY TypeStep, IdsStep DEF Typed
<1>3. QED
  BY TypedInit, <1>1, <1>2, ParentsStep, PTL DEF ServiceSpec

-----------------------------------------------------------------------------
(* One update at a time: no cycles                                          *)

(* Without a webhook, updates are handled one after the other.              *)
OneHandler == \E h \in Handler : Handler = {h}

(* What the only handler found out about a new parent still holds when it   *)
(* writes it.                                                               *)
UpdatesChecked ==
  \A h \in Handler : task[h].at \in {"update_walk", "update_row"} =>
    \/ task[h].under = Main
    \/ /\ task[h].under \in live /\ parent[task[h].under] = Main
       /\ task[h].under # task[h].id

ServiceInv == Typed /\ NewIds /\ ParentsExist /\ UpdatesChecked /\ Acyclic

LEMMA UpdatesStep ==
  ASSUME OneHandler, Typed, UpdatesChecked, [ServiceNext]_sectionVars
  PROVE  UpdatesChecked'
<1>w. PICK w : Handler = {w}
  BY DEF OneHandler
<1> USE DEF Typed, TypeOK, tree, modules, UpdatesChecked
(* A step that leaves the handler outside the two stages.                   *)
<1>0. ASSUME task'[w].at \notin {"update_walk", "update_row"}
      PROVE  UpdatesChecked'
  BY <1>0, <1>w
<1>1. CASE CreateStep(w) \/ DeleteStep(w) \/ ToggleStep(w)
  <2>1. ASSUME NEW o \in Operator, NEW s \in Section, CreateText(w, o, s)
        PROVE  UpdatesChecked'
    BY <2>1, <1>0, <1>w DEF CreateText, Begin, Creation
  <2>2. ASSUME NEW s \in Section, ConfirmDelete(w, s) \/ Toggle(w, s)
        PROVE  UpdatesChecked'
    BY <2>2, <1>0, <1>w DEF ConfirmDelete, Toggle, Begin
  <2>3. CASE CreateFind(w) \/ CreateInsert(w)
    BY <2>3, <1>0, <1>w, TaskShape DEF CreateFind, CreateInsert, Goto, Finish, Idle, CreateTask
  <2>4. CASE DeleteFind(w) \/ DeleteRow(w)
    BY <2>4, <1>0, <1>w, TaskShape DEF DeleteFind, DeleteRow, Goto, Finish, Idle, DeleteTask
  <2>5. CASE ToggleFind(w) \/ ToggleUpdate(w)
    BY <2>5, <1>0, <1>w, TaskShape DEF ToggleFind, ToggleUpdate, Finish, Idle, ToggleTask
  <2>6. QED
    BY <1>1, <2>1, <2>2, <2>3, <2>4, <2>5 DEF CreateStep, DeleteStep, ToggleStep
<1>2. CASE UpdateStep(w)
  <2>1. ASSUME NEW s \in Section, NEW p \in Section \cup {Main}, SetParent(w, s, p)
        PROVE  UpdatesChecked'
    BY <2>1, <1>0, <1>w DEF SetParent, Begin
  <2>2. CASE UpdateFind(w)
    <3> DEFINE t == task[w]
    <3>1. t \in UpdateTask
      BY <2>2, <1>w, TaskShape DEF UpdateFind
    <3>2. CASE Finish(w)
      BY <3>2, <1>0, <1>w DEF Finish, Idle
    <3>3. ASSUME NEW stage, Goto(w, stage), live' = live, parent' = parent,
                 \/ t.under = Main
                 \/ t.under \in live /\ parent[t.under] = Main /\ t.under # t.id
          PROVE  UpdatesChecked'
      <4>1. task'[w].under = t.under /\ task'[w].id = t.id
        BY <3>1, <3>3, <1>w DEF Goto, UpdateTask
      <4>2. QED
        BY <3>3, <4>1, <1>w
    <3>4. QED
      BY <2>2, <3>2, <3>3 DEF UpdateFind
  <2>3. CASE UpdateWalk(w)
    <3>1. task[w] \in UpdateTask
      BY <2>3, <1>w, TaskShape DEF UpdateWalk
    <3>2. \/ Finish(w)
          \/ task'[w].under = task[w].under /\ task'[w].id = task[w].id
      BY <2>3, <3>1, <1>w DEF UpdateWalk, Goto, UpdateTask
    <3>3. CASE Finish(w)
      BY <3>3, <1>0, <1>w DEF Finish, Idle
    <3>4. CASE task'[w].under = task[w].under /\ task'[w].id = task[w].id
      BY <2>3, <3>4, <1>w DEF UpdateWalk
    <3>5. QED
      BY <3>2, <3>3, <3>4
  <2>4. CASE UpdateRow(w)
    BY <2>4, <1>0, <1>w DEF UpdateRow, Finish, Idle
  <2>5. QED
    BY <1>2, <2>1, <2>2, <2>3, <2>4 DEF UpdateStep
<1>3. CASE UNCHANGED <<live, parent, task>>
  BY <1>3
<1>4. CASE \/ \E o \in Operator : Prompt(o)
           \/ \E m \in Module : ModuleStep(m)
           \/ UNCHANGED sectionVars
  BY <1>4, <1>3 DEF Prompt, AddMainPrompt, AddSubPrompt, ModuleStep, PlaceModule,
                    ClearModule, sectionVars
<1>5. CASE Crash
  BY <1>5, <1>0, <1>w DEF Crash, Idle
<1>6. QED
  BY <1>w, <1>1, <1>2, <1>4, <1>5 DEF ServiceNext, Next

(* A new section is nobody's parent, so it closes no cycle.                 *)
LEMMA InsertKeepsAcyclic ==
  ASSUME Typed, NewIds, ParentsExist, Acyclic, NEW h \in Handler, CreateInsert(h)
  PROVE  Acyclic'
<1> DEFINE t == task[h]
<1> USE DEF Typed, TypeOK
<1>1. t \in CreateTask /\ t.id \in Section /\ t.id \notin live
  BY TaskShape DEF CreateInsert, CreateTask, NewIds, Creating
<1>2. CASE live' = live /\ parent' = parent
  BY <1>2 DEF Acyclic
<1>3. CASE /\ t.under \in live \cup {Main}
           /\ live' = live \cup {t.id}
           /\ parent' = [parent EXCEPT ![t.id] = t.under]
  <2> SUFFICES ASSUME NEW S \in SUBSET live', S # {}
               PROVE  \E s \in S : parent'[s] \notin S
    BY DEF Acyclic
  <2> DEFINE R == S \ {t.id}
  <2>1. t.under # t.id /\ parent'[t.id] = t.under
    BY <1>1, <1>3, SectionAssumption
  <2>2. CASE R = {}
    BY <2>1, <2>2
  <2>3. CASE R # {}
    <3>1. R \subseteq live
      BY <1>3
    <3>2. PICK s \in R : parent[s] \notin R
      BY <2>3, <3>1 DEF Acyclic
    <3>3. parent'[s] = parent[s] /\ parent[s] # t.id
      BY <1>1, <1>3, <3>1, SectionAssumption DEF ParentsExist
    <3>4. QED
      BY <3>2, <3>3
  <2>4. QED
    BY <2>2, <2>3
<1>4. QED
  BY <1>2, <1>3 DEF CreateInsert

(* A deletion only moves sections to the main level.                        *)
LEMMA DeletionKeepsAcyclic ==
  ASSUME Typed, Acyclic, NEW s, Removed(s)
  PROVE  Acyclic'
<1> USE DEF Typed, TypeOK
<1> SUFFICES ASSUME NEW S \in SUBSET live', S # {}
             PROVE  \E c \in S : parent'[c] \notin S
  BY DEF Acyclic
<1>1. S \subseteq live /\ Main \notin S
  BY SectionAssumption DEF Removed
<1>2. PICK c \in S : parent[c] \notin S
  BY <1>1 DEF Acyclic
<1>3. parent'[c] \in {parent[c], Main}
  BY <1>1 DEF Removed
<1>4. QED
  BY <1>1, <1>2, <1>3

(* A section moves under a main section other than itself.                  *)
LEMMA UpdateKeepsAcyclic ==
  ASSUME Typed, UpdatesChecked, Acyclic, NEW h \in Handler, UpdateRow(h)
  PROVE  Acyclic'
<1> DEFINE t == task[h]
<1> USE DEF Typed, TypeOK
<1>1. CASE parent' = parent
  BY <1>1 DEF UpdateRow, Acyclic
<1>2. CASE t.id \in live /\ parent' = [parent EXCEPT ![t.id] = t.under]
  <2> SUFFICES ASSUME NEW S \in SUBSET live, S # {}
               PROVE  \E s \in S : parent'[s] \notin S
    BY DEF UpdateRow, Acyclic
  <2>1. Main \notin S
    BY SectionAssumption
  <2>2. parent'[t.id] = t.under
    BY <1>2
  <2>3. CASE t.id \notin S
    BY <1>2, <2>3 DEF Acyclic
  <2>4. CASE t.id \in S /\ t.under \notin S
    BY <2>2, <2>4
  <2>5. CASE t.id \in S /\ t.under \in S
    <3>1. parent[t.under] = Main /\ t.under # t.id
      BY <2>1, <2>5 DEF UpdatesChecked, UpdateRow
    <3>2. parent'[t.under] = Main
      BY <1>2, <3>1
    <3>3. QED
      BY <2>1, <2>5, <3>2
  <2>6. QED
    BY <2>3, <2>4, <2>5
<1>3. QED
  BY <1>1, <1>2 DEF UpdateRow

LEMMA ServiceStep ==
  ASSUME OneHandler
  PROVE  ServiceInv /\ [ServiceNext]_sectionVars => ServiceInv'
<1> SUFFICES ASSUME ServiceInv, [ServiceNext]_sectionVars
             PROVE  ServiceInv'
  OBVIOUS
<1> USE DEF ServiceInv
<1>1. Typed'
  BY TypeStep, IdsStep DEF Typed
<1>2. NewIds' /\ ParentsExist' /\ UpdatesChecked'
  BY NewIdsStep, ParentsStep, UpdatesStep
<1>3. Acyclic'
  <2>1. CASE UNCHANGED <<live, parent>>
    BY <2>1 DEF Acyclic
  <2>2. ASSUME NEW h \in Handler, DeleteRow(h)
        PROVE  Acyclic'
    <3>1. CASE Removed(task[h].id)
      BY <3>1, DeletionKeepsAcyclic
    <3>2. QED
      BY <2>1, <2>2, <3>1 DEF DeleteRow
  <2>3. QED
    BY <2>1, <2>2, TreeWriters, InsertKeepsAcyclic, UpdateKeepsAcyclic
<1>4. QED
  BY <1>1, <1>2, <1>3

(* With one update at a time, re-parenting never closes a cycle either,     *)
(* although its check and its write are separate statements.                *)
THEOREM ReparentingIsAcyclic ==
  ASSUME OneHandler
  PROVE  ServiceSpec => []Acyclic
<1>1. Init => ServiceInv
  BY TypedInit
     DEF Init, ServiceInv, NewIds, ParentsExist, UpdatesChecked, Acyclic, Creating, Idle
<1>2. ServiceInv /\ [ServiceNext]_sectionVars => ServiceInv'
  BY ServiceStep
<1>3. ServiceInv => Acyclic
  BY DEF ServiceInv
<1>4. QED
  BY <1>1, <1>2, <1>3, PTL DEF ServiceSpec

-----------------------------------------------------------------------------
(* The bot implements Catalogue                                             *)

CatalogueStep == [Catalog!Next]_(Catalog!catalogueVars)

(* What a row looks like from above.                                        *)
LEMMA ExistingIsLive ==
  /\ Catalog!Existing = live
  /\ Catalog!MainSections = {s \in live : parent[s] = Main}
BY DEF Catalog!Existing, Catalog!MainSections

LEMMA CatalogueInit == Init => Catalog!Init
<1> SUFFICES ASSUME Init
             PROVE  Catalog!Init
  OBVIOUS
<1>1. Unused = Section
  BY DEF Init, Unused
<1>2. QED
  BY <1>1, ExistingIsLive DEF Init, Catalog!Init

(* A step that touches no row and starts no creation spends ids at most.    *)
LEMMA SpendingIds ==
  ASSUME UNCHANGED <<tree, home>>,
         \A k \in Handler : Creating(k)' => Creating(k) /\ task'[k].id = task[k].id
  PROVE  CatalogueStep
<1>1. Unused' \subseteq Unused
  BY DEF tree, Unused, Creating
<1>2. Unused' = Unused \ (Unused \ Unused')
  BY <1>1
<1>3. Catalog!Spoil(Unused \ Unused')
  BY <1>2 DEF Catalog!Spoil, tree
<1>4. Unused \ Unused' \in SUBSET Unused
  OBVIOUS
<1>5. Catalog!Next
  BY <1>3, <1>4 DEF Catalog!Next
<1>6. QED
  BY <1>5 DEF CatalogueStep

(* An insert takes its own id off the fresh ones, stored or not.            *)
LEMMA InsertSpends ==
  ASSUME InFlight, NEW h \in Handler, CreateInsert(h)
  PROVE  task[h].id \in Unused /\ Unused' = Unused \ {task[h].id}
<1> USE DEF InFlight, Typed, TypeOK, NewIds, IdsGivenOut, Creating
<1>1. /\ task[h].id \in used /\ used \subseteq Section /\ used' = used
      /\ \A k \in Handler : k # h => task'[k] = task[k]
      /\ task[h].at = "create_insert" /\ task'[h].at = "idle"
  BY DEF CreateInsert, Finish, Idle
<1>2. task[h].id \in Unused
  BY <1>1 DEF Unused
<1>3. \A s \in Section : s \in Unused' <=> s \in Unused /\ s # task[h].id
  BY <1>1 DEF Unused
<1>4. QED
  BY <1>2, <1>3 DEF Unused

(* The parent that was checked in an earlier statement is a main section    *)
(* when the row is stored, or the foreign key refuses it.                   *)
LEMMA InsertAdds ==
  ASSUME TreeInv, NEW h \in Handler, CreateInsert(h)
  PROVE  CatalogueStep
<1> DEFINE t == task[h]
<1>1. t \in CreateTask /\ home' = home
  BY TaskShape DEF CreateInsert, TreeInv, InFlight, Typed, TypeOK, modules
<1>2. t.id \in Unused /\ Unused' = Unused \ {t.id}
  BY InsertSpends DEF TreeInv
<1>3. CASE UNCHANGED <<live, parent>>
  <2>1. Catalog!Spoil({t.id})
    BY <1>1, <1>2, <1>3 DEF Catalog!Spoil
  <2>2. {t.id} \in SUBSET Unused
    BY <1>2
  <2>3. Catalog!Next
    BY <2>1, <2>2 DEF Catalog!Next
  <2>4. QED
    BY <2>3 DEF CatalogueStep
<1>4. CASE /\ t.under \in live \cup {Main}
           /\ live' = live \cup {t.id}
           /\ parent' = [parent EXCEPT ![t.id] = t.under]
  <2>1. PICK s \in Section, p \in Section \cup {Main} : s = t.id /\ p = t.under
    BY <1>1 DEF CreateTask
  <2>2. p \in Catalog!MainSections \cup {Main}
    BY <1>4, <2>1, ExistingIsLive DEF TreeInv, InFlight, CheckedParents, CreateInsert
  <2>3. [c \in live' |-> parent'[c]]
          = [c \in live \cup {s} |-> IF c = s THEN p ELSE [d \in live |-> parent[d]][c]]
    BY <1>4, <2>1 DEF TreeInv, InFlight, Typed, TypeOK
  <2>4. Catalog!Add(s, p)
    BY <1>1, <1>2, <2>1, <2>2, <2>3, ExistingIsLive DEF Catalog!Add
  <2>5. Catalog!Next
    BY <2>4 DEF Catalog!Next
  <2>6. QED
    BY <2>5 DEF CatalogueStep
<1>5. QED
  BY <1>3, <1>4 DEF CreateInsert

(* The two foreign keys make a deletion what Remove says.                   *)
LEMMA DeletionRemoves ==
  ASSUME InFlight, NEW h \in Handler, DeleteRow(h)
  PROVE  CatalogueStep
<1> DEFINE t == task[h]
<1> USE DEF InFlight, Typed, TypeOK
<1>1. /\ used' = used /\ home' = home
      /\ \A k \in Handler : Creating(k) <=> Creating(k)'
      /\ \A k \in Handler : Creating(k) => task'[k] = task[k]
  BY DEF DeleteRow, Finish, Idle, Creating, modules
<1>2. Unused' = Unused
  BY <1>1 DEF Unused, Creating
<1>3. CASE UNCHANGED <<live, parent>>
  BY <1>1, <1>2, <1>3 DEF CatalogueStep, Catalog!catalogueVars
<1>4. CASE t.id \in live /\ (\A m \in Module : home[m] # t.id) /\ Removed(t.id)
  <2>1. PICK s \in Section : s = t.id
    BY <1>4
  <2>2. [c \in live' |-> parent'[c]]
          = [c \in live \ {s} |->
               IF [d \in live |-> parent[d]][c] = s THEN Main
                                                  ELSE [d \in live |-> parent[d]][c]]
    BY <1>4, <2>1 DEF Removed, Children
  <2>3. Catalog!Remove(s)
    BY <1>1, <1>2, <1>4, <2>1, <2>2, ExistingIsLive DEF Catalog!Remove
  <2>4. Catalog!Next
    BY <2>3 DEF Catalog!Next
  <2>5. QED
    BY <2>4 DEF CatalogueStep
<1>5. QED
  BY <1>3, <1>4 DEF DeleteRow

LEMMA CatalogueSimulation == TreeInv /\ [Next]_sectionVars => CatalogueStep
<1> SUFFICES ASSUME TreeInv, [Next]_sectionVars
             PROVE  CatalogueStep
  OBVIOUS
<1>t. InFlight /\ Typed /\ TypeOK
  BY DEF TreeInv, InFlight, Typed
<1>1. CASE \E o \in Operator : Prompt(o)
  BY <1>1, SpendingIds DEF Prompt, AddMainPrompt, AddSubPrompt, modules, Creating
<1>2. ASSUME NEW h \in Handler, NEW o \in Operator, NEW s \in Section, CreateText(h, o, s)
      PROVE  CatalogueStep
  <2>1. /\ UNCHANGED <<live, parent, home>> /\ s \notin used /\ used' = used \cup {s}
        /\ \A k \in Handler : k # h => task'[k] = task[k]
        /\ Creating(h)' /\ task'[h].id = s /\ task[h].at = "idle"
    BY <1>2, <1>t DEF CreateText, Begin, Creation, Creating, Idle, TypeOK, modules
  <2>2. Unused' = Unused
    BY <2>1 DEF Unused, Creating
  <2>3. QED
    BY <2>1, <2>2 DEF CatalogueStep, Catalog!catalogueVars
<1>3. ASSUME NEW h \in Handler, CreateFind(h)
      PROVE  CatalogueStep
  <2>1. task[h] \in CreateTask
    BY <1>3, <1>t, TaskShape DEF CreateFind, TypeOK
  <2>2. \A k \in Handler : Creating(k)' => Creating(k) /\ task'[k].id = task[k].id
    BY <1>3, <1>t, <2>1 DEF CreateFind, Goto, Finish, Creating, CreateTask, Idle, TypeOK
  <2>3. QED
    BY <1>3, <2>2, SpendingIds DEF CreateFind, modules
<1>4. ASSUME NEW h \in Handler, DeleteStep(h) \/ ToggleStep(h)
      PROVE  CatalogueStep
  <2>1. CASE DeleteRow(h)
    BY <1>t, <2>1, DeletionRemoves
  <2>2. CASE UNCHANGED <<tree, home>>
    <3>1. \A k \in Handler : Creating(k)' => Creating(k) /\ task'[k].id = task[k].id
      <4>1. /\ ~ CreateFind(h) /\ ~ CreateInsert(h)
            /\ \A k \in Handler : k # h => task'[k] = task[k]
            /\ ~ Creating(h)'
        BY <1>4, <1>t, TaskShape
           DEF DeleteStep, ConfirmDelete, DeleteFind, DeleteRow, ToggleStep, Toggle,
               ToggleFind, ToggleUpdate, CreateFind, CreateInsert, Begin, Goto, Finish,
               Creating, Idle, TypeOK, DeleteTask, ToggleTask
      <4>2. QED
        BY <4>1 DEF Creating
    <3>2. QED
      BY <2>2, <3>1, SpendingIds
  <2>3. QED
    BY <1>4, <2>1, <2>2
       DEF DeleteStep, ConfirmDelete, DeleteFind, ToggleStep, Toggle, ToggleFind,
           ToggleUpdate, modules, tree
<1>5. ASSUME NEW m \in Module, ModuleStep(m)
      PROVE  CatalogueStep
  <2>1. UNCHANGED <<live, parent>> /\ Unused' = Unused
    BY <1>5 DEF ModuleStep, PlaceModule, ClearModule, tree, Unused
  <2>2. \/ Catalog!Clear(m)
        \/ \E s \in Section : Catalog!Place(m, s)
    BY <1>5, <1>t, <2>1, ExistingIsLive
       DEF ModuleStep, PlaceModule, ClearModule, Catalog!Clear, Catalog!Place
  <2>3. Catalog!Next
    BY <2>2 DEF Catalog!Next
  <2>4. QED
    BY <2>3 DEF CatalogueStep
<1>6. CASE Crash
  <2>1. \A k \in Handler : ~ Creating(k)'
    BY <1>6 DEF Crash, Creating, Idle
  <2>2. QED
    BY <1>6, <2>1, SpendingIds DEF Crash, modules
<1>7. CASE UNCHANGED sectionVars
  BY <1>7, SpendingIds DEF sectionVars, modules, Creating
<1>8. QED
  BY <1>1, <1>2, <1>3, <1>4, <1>5, <1>6, <1>7, InsertAdds DEF Next, CreateStep

(* However many handlers run beside each other, the bot only ever does what *)
(* Catalogue does in single steps.                                          *)
THEOREM BotImplementsCatalogue == Spec => KeepsCatalogue
<1>1. TreeInv /\ [Next]_sectionVars => [Catalog!Next]_(Catalog!catalogueVars)
  BY CatalogueSimulation DEF CatalogueStep
<1>2. QED
  BY CatalogueInit, TreeInit, TreeStep, <1>1, PTL DEF Spec, KeepsCatalogue, Catalog!Spec

===============================================================================
