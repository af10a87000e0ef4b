------------------------------ MODULE MenusProofs ------------------------------
(***************************************************************************)
(* Proofs about the access checks of ScopedAccess and the screens of       *)
(* Menus, for every set of sections, admins, modules and concurrent        *)
(* handlers, with enabling and disabling, crashes and expiring keys.       *)
(*                                                                         *)
(* An ancestry is right for a section that exists because (1) ids are not  *)
(* given out twice, so that what a cache or a check has seen is not        *)
(* created again (Known, Unborn), and (2) a walk that was overtaken by a   *)
(* deletion ends at the deleted section, where the tree now ends as well   *)
(* (Walking).                                                              *)
(*                                                                         *)
(* Checks and scopes leave the tree alone: ScopedAccess implements         *)
(* Sections, and what is proved of Sections holds beside them.             *)
(***************************************************************************)
EXTENDS Menus, SectionsProofs

(* Every scope is on a section that exists: ON DELETE CASCADE.              *)
RowsLive == \A a \in Admin, s \in Section : scopes[<<a, s>>] > 0 => s \in live

(* What the caches and the checks have seen of the tree.                    *)
SeenIn(c) == IF c.at \in {"idle", "decided"} THEN {} ELSE {c.section, c.cursor} \cup c.found

Known ==
  /\ \A s \in Section : cache[s] # NotCached => {s} \cup cache[s] \subseteq used
  /\ \A h \in Handler : SeenIn(check[h]) \subseteq used

(* It is not being created.                                                 *)
Unborn ==
  \A k \in Handler : Creating(k) =>
    /\ \A s \in Section : cache[s] # NotCached => task[k].id \notin {s} \cup cache[s]
    /\ \A h \in Handler : task[k].id \notin SeenIn(check[h])

(* An ancestry that gives the right answer for a section that exists.       *)
Usable(ancestors, s) == ancestors \cap live = {parent[s]} \cap live

Walking(c) ==
  \/ c.cursor = c.section /\ c.found = {} /\ c.depth = 0
  \/ c.found = {c.cursor} /\ Usable({c.cursor}, c.section)

(* A check in flight: nothing found yet, or found what the tree still says. *)
Sound(c) ==
  /\ c.at = "cache" \/ (c.at = "scopes" /\ c.flow = "canAccess")
       => c.cursor = c.section /\ c.found = {} /\ c.depth = 0
  /\ c.at = "walk" /\ c.section \in live => Walking(c)
  /\ c.at = "store" /\ c.section \in live => Usable(c.found, c.section)
  /\ c.at = "scopes" /\ c.flow = "canPerformAction" /\ c.section \in live
       => Usable(c.found, c.section)

Gathering == \A h \in Handler : Sound(check[h])

AccessInv ==
  /\ TreeInv /\ ScopedTypeOK
  /\ RowsLive /\ Known /\ Unborn
  /\ CachedAncestryUsable /\ Gathering

-----------------------------------------------------------------------------
(* How a step of the bot moves the tree                                     *)

(* A step of ScopedNext is a step of the tree, or leaves it alone.          *)
LEMMA AccessStepsTree ==
  ASSUME TypeOK, [ScopedNext]_vars
  PROVE  [Next]_sectionVars
<1>1. CASE \E h \in Handler : EditStep(h)
  BY <1>1 DEF EditStep, Next
<1>2. CASE \E h \in Handler : CheckStep(h)
  BY <1>2 DEF CheckStep, BeginCheck, ReadScopes, ReadCache, Walk, StoreCache
<1>3. CASE \E o \in Operator : Prompt(o) /\ UNCHANGED scopeVars
  BY <1>3 DEF Next
<1>4. CASE \E m \in Module : ModuleStep(m) /\ UNCHANGED scopeVars
  BY <1>4 DEF Next
<1>5. CASE \E a \in Admin, s \in Section : Assign(a, s) \/ Revoke(a, s)
  BY <1>5 DEF Assign, Revoke, vars
<1>6. CASE \E s \in Section : Expire(s)
  BY <1>6 DEF Expire
<1>7. CASE Restart
  <2>1. UNCHANGED <<tree, enabled, modules, choice>> /\ task' = [h \in Handler |-> Idle]
    BY <1>7 DEF Restart
  <2>2. CASE \E h \in Handler : task[h] # Idle
    BY <2>1, <2>2 DEF Crash, Next
  <2>3. CASE \A h \in Handler : task[h] = Idle
    <3>1. task' = task
      BY <2>1, <2>3 DEF TypeOK
    <3>2. QED
      BY <2>1, <3>1 DEF sectionVars
  <2>4. QED
    BY <2>2, <2>3
<1>8. CASE UNCHANGED vars
  BY <1>8 DEF vars
<1>9. QED
  BY <1>1, <1>2, <1>3, <1>4, <1>5, <1>6, <1>7, <1>8 DEF ScopedNext

(* The three ways an edit moves the tree: not at all, by one new section    *)
(* that no one has seen, or by one deletion.                                *)
Grows(id, under) ==
  /\ id \in Section /\ id \notin live
  /\ \E k \in Handler : Creating(k) /\ task[k].id = id
  /\ live' = live \cup {id}
  /\ parent' = [parent EXCEPT ![id] = under]

LEMMA TreeMoves ==
  ASSUME TreeInv, NEW h \in Handler, CreateStep(h) \/ DeleteStep(h) \/ ToggleStep(h)
  PROVE  \/ UNCHANGED <<live, parent>>
         \/ \E id \in Section, under \in Section \cup {Main} : Grows(id, under)
         \/ \E s \in Section : Removed(s)
<1> USE DEF tree
<1>1. TypeOK
  BY DEF TreeInv, InFlight, Typed
<1>2. CASE CreateInsert(h)
  <2>1. task[h] \in CreateTask
    BY <1>1, <1>2, TaskShape DEF CreateInsert, TypeOK
  <2>2. Creating(h) /\ task[h].id \notin live
    BY <1>2 DEF CreateInsert, Creating, TreeInv, InFlight, NewIds
  <2>3. QED
    BY <1>2, <2>1, <2>2 DEF CreateInsert, CreateTask, Grows
<1>3. CASE DeleteRow(h)
  <2>1. task[h] \in DeleteTask
    BY <1>1, <1>3, TaskShape DEF DeleteRow, TypeOK
  <2>2. QED
    BY <1>3, <2>1 DEF DeleteRow, DeleteTask
<1>4. QED
  BY <1>2, <1>3 DEF CreateStep, CreateText, CreateFind, DeleteStep, ConfirmDelete,
                    DeleteFind, ToggleStep, Toggle, ToggleFind, ToggleUpdate

(* The ids being created after an edit were being created before, or are    *)
(* new altogether.                                                          *)
LEMMA NewlyCreating ==
  ASSUME TreeInv, NEW h \in Handler, CreateStep(h) \/ DeleteStep(h) \/ ToggleStep(h),
         NEW k \in Handler, Creating(k)'
  PROVE  \/ Creating(k) /\ task'[k].id = task[k].id
         \/ task'[k].id \notin used
<1> USE DEF Creating
<1>1. TypeOK
  BY DEF TreeInv, InFlight, Typed
<1>2. CASE k # h
  <2>1. task'[k] = task[k]
    BY <1>1, <1>2 DEF TypeOK, CreateStep, CreateText, CreateFind, CreateInsert,
         DeleteStep, ConfirmDelete, DeleteFind, DeleteRow,
         ToggleStep, Toggle, ToggleFind, ToggleUpdate, Begin, Goto, Finish
  <2>2. QED
    BY <2>1
<1>3. CASE k = h
  <2>1. ASSUME NEW o \in Operator, NEW s \in Section, CreateText(h, o, s)
        PROVE  task'[k].id \notin used
    BY <1>1, <1>3, <2>1 DEF CreateText, Begin, Creation, TypeOK
  <2>2. CASE CreateFind(h)
    <3>1. task[h] \in CreateTask
      BY <1>1, <2>2, TaskShape DEF CreateFind, TypeOK
    <3>2. QED
      BY <1>1, <1>3, <2>2, <3>1 DEF CreateFind, Goto, Finish, Idle, CreateTask, TypeOK
  <2>3. CASE CreateInsert(h)
    BY <1>1, <1>3, <2>3 DEF CreateInsert, Finish, Idle, TypeOK
  <2>4. CASE DeleteStep(h)
    <3>1. DeleteFind(h) => task[h] \in DeleteTask
      BY <1>1, TaskShape DEF DeleteFind, TypeOK
    <3>2. QED
      BY <1>1, <1>3, <2>4, <3>1 DEF DeleteStep, ConfirmDelete, DeleteFind, DeleteRow,
           Begin, Goto, Finish, Idle, DeleteTask, TypeOK
  <2>5. CASE ToggleStep(h)
    <3>1. ToggleFind(h) => task[h] \in ToggleTask
      BY <1>1, TaskShape DEF ToggleFind, TypeOK
    <3>2. QED
      BY <1>1, <1>3, <2>5, <3>1 DEF ToggleStep, Toggle, ToggleFind, ToggleUpdate,
           Begin, Finish, Idle, ToggleTask, TypeOK
  <2>6. QED
    BY <2>1, <2>2, <2>3, <2>4, <2>5 DEF CreateStep
<1>4. QED
  BY <1>2, <1>3

(* An ancestry stays usable for a section that stays, if nothing in it is   *)
(* created by the step.                                                     *)
LEMMA UsableStays ==
  ASSUME TreeInv, NEW s \in live, NEW A \in SUBSET Section, Usable(A, s),
         s \in live',
         \/ UNCHANGED <<live, parent>>
         \/ \E id \in Section \ (A \cup {s}), under \in Section \cup {Main} : Grows(id, under)
         \/ \E r \in Section : Removed(r)
  PROVE  A \cap live' = {parent'[s]} \cap live'
<1>1. TypeOK /\ TwoLevels /\ Main \notin Section
  BY SectionAssumption DEF TreeInv, InFlight, Typed
<1>2. CASE UNCHANGED <<live, parent>>
  BY <1>2 DEF Usable
<1>3. ASSUME NEW id \in Section \ (A \cup {s}), NEW under \in Section \cup {Main},
             Grows(id, under)
      PROVE  A \cap live' = {parent'[s]} \cap live'
  <2>1. parent'[s] = parent[s] /\ A \cap live' = A \cap live
    BY <1>1, <1>3 DEF Grows, TypeOK
  <2>2. parent[s] # id
    BY <1>1, <1>3 DEF Grows, TwoLevels
  <2>3. {parent[s]} \cap live' = {parent[s]} \cap live
    BY <1>3, <2>2 DEF Grows
  <2>4. QED
    BY <2>1, <2>3 DEF Usable
<1>4. ASSUME NEW r \in Section, Removed(r)
      PROVE  A \cap live' = {parent'[s]} \cap live'
  <2>1. CASE parent[s] = r
    <3>1. parent'[s] = Main /\ live' = live \ {r}
      BY <1>1, <1>4, <2>1 DEF Removed, Children, TypeOK
    <3>2. Main \notin live'
      BY <1>1, <3>1 DEF TypeOK
    <3>3. QED
      BY <2>1, <3>1, <3>2 DEF Usable
  <2>2. CASE parent[s] # r
    <3>1. parent'[s] = parent[s] /\ live' = live \ {r}
      BY <1>1, <1>4, <2>2 DEF Removed, Children, TypeOK
    <3>2. QED
      BY <2>2, <3>1 DEF Usable
  <2>3. QED
    BY <2>1, <2>2
<1>5. QED
  BY <1>2, <1>3, <1>4

(* A check that is not resting has the fields of a check.                   *)
LEMMA CheckShape ==
  ASSUME ScopedTypeOK, NEW h \in Handler, ~Resting(h)
  PROVE  check[h] \in Check
BY DEF ScopedTypeOK, Resting, Decided, Idle

(* An edit leaves the caches and checks as good as they were.               *)
LEMMA EditKeeps ==
  ASSUME AccessInv, TreeInv', NEW h \in Handler, EditStep(h)
  PROVE  AccessInv'
<1>0. UNCHANGED <<cache, check>> /\ Cascade
  BY DEF EditStep
<1>1. TypeOK /\ TypeOK' /\ ScopedTypeOK
  BY DEF AccessInv, TreeInv, InFlight, Typed
<1>2. CreateStep(h) \/ DeleteStep(h) \/ ToggleStep(h)
  BY DEF EditStep
<1>3. used \subseteq used'
  BY <1>2 DEF CreateStep, CreateText, CreateFind, CreateInsert, DeleteStep, ConfirmDelete,
       DeleteFind, DeleteRow, ToggleStep, Toggle, ToggleFind, ToggleUpdate, tree
<1>4. \/ UNCHANGED <<live, parent>>
      \/ \E id \in Section, under \in Section \cup {Main} : Grows(id, under)
      \/ \E s \in Section : Removed(s)
  BY <1>2, TreeMoves DEF AccessInv
<1>5. ScopedTypeOK'
  <2>1. scopes' \in [Admin \X Section -> 0 .. MaxRows]
    BY <1>0, <1>1, ScopedAssumption DEF Cascade, ScopedTypeOK
  <2>2. QED
    BY <1>0, <1>1, <2>1 DEF ScopedTypeOK, Check, Decided, Idle
<1>6. RowsLive'
  <2> SUFFICES ASSUME NEW a \in Admin, NEW s \in Section, scopes'[<<a, s>>] > 0
               PROVE  s \in live'
    BY DEF RowsLive
  <2>1. scopes'[<<a, s>>] = IF s \in live \ live' THEN 0 ELSE scopes[<<a, s>>]
    BY <1>0 DEF Cascade
  <2>2. s \notin live \ live' /\ scopes[<<a, s>>] > 0
    BY <2>1
  <2>3. QED
    BY <2>2 DEF AccessInv, RowsLive
<1>7. Known'
  BY <1>0, <1>3 DEF AccessInv, Known, SeenIn
<1>8. Unborn'
  <2> SUFFICES ASSUME NEW k \in Handler, Creating(k)'
               PROVE  /\ \A s \in Section :
                           cache[s] # NotCached => task'[k].id \notin {s} \cup cache[s]
                      /\ \A g \in Handler : task'[k].id \notin SeenIn(check[g])
    BY <1>0 DEF Unborn, SeenIn
  <2>1. CASE Creating(k) /\ task'[k].id = task[k].id
    BY <2>1 DEF AccessInv, Unborn
  <2>2. CASE task'[k].id \notin used
    BY <2>2 DEF AccessInv, Known
  <2>3. QED
    BY <1>2, <2>1, <2>2, NewlyCreating DEF AccessInv
<1>9. ASSUME NEW s \in live', NEW A \in SUBSET Section, s \in live => Usable(A, s),
             \A k \in Handler : Creating(k) => task[k].id \notin A \cup {s}
      PROVE  s \in live /\ A \cap live' = {parent'[s]} \cap live'
  <2>1. s \in live
    BY <1>1, <1>4, <1>9 DEF Grows, Removed
  <2>2. \/ UNCHANGED <<live, parent>>
        \/ \E id \in Section \ (A \cup {s}), under \in Section \cup {Main} : Grows(id, under)
        \/ \E r \in Section : Removed(r)
    BY <1>4, <1>9 DEF Grows
  <2>3. QED
    BY <1>9, <2>1, <2>2, UsableStays DEF AccessInv
<1>10. CachedAncestryUsable'
  <2> SUFFICES ASSUME NEW s \in live', cache[s] # NotCached
               PROVE  cache[s] \cap live' = {parent'[s]} \cap live'
    BY <1>0 DEF CachedAncestryUsable
  <2>1. s \in Section /\ cache[s] \in SUBSET Section
    BY <1>1 DEF TypeOK, ScopedTypeOK
  <2>2. s \in live => Usable(cache[s], s)
    BY DEF AccessInv, CachedAncestryUsable, Usable
  <2>3. \A k \in Handler : Creating(k) => task[k].id \notin cache[s] \cup {s}
    BY <2>1 DEF AccessInv, Unborn
  <2>4. QED
    BY <1>9, <2>1, <2>2, <2>3
<1>11. Gathering'
  <2> SUFFICES ASSUME NEW g \in Handler
               PROVE  Sound(check[g])'
    BY DEF Gathering
  <2>0. check'[g] = check[g] /\ Sound(check[g])
    BY <1>0 DEF AccessInv, Gathering
  <2>1. CASE Resting(g)
    BY <2>0, <2>1 DEF Resting, Sound
  <2>2. CASE ~Resting(g)
    <3>1. check[g] \in Check
      BY <1>1, <2>2, CheckShape
    <3>2. \A k \in Handler : Creating(k) =>
            task[k].id \notin check[g].found \cup {check[g].section}
      BY <2>2 DEF AccessInv, Unborn, SeenIn, Resting
    <3>3. ASSUME check[g].section \in live'
          PROVE  check[g].section \in live
      BY <1>1, <1>4, <3>2, <3>3 DEF Grows, Removed
    <3>4. ASSUME check[g].section \in live', Usable(check[g].found, check[g].section)
          PROVE  Usable(check[g].found, check[g].section)'
      <4>1. check[g].found \in SUBSET Section
        BY <3>1 DEF Check
      <4>2. check[g].found \cap live' = {parent'[check[g].section]} \cap live'
        BY <1>9, <3>2, <3>4, <4>1
      <4>3. QED
        BY <2>0, <4>2 DEF Usable
    <3>5. ASSUME check[g].section \in live', Walking(check[g])
          PROVE  Walking(check[g])'
      <4>1. CASE check[g].cursor = check[g].section /\ check[g].found = {}
                 /\ check[g].depth = 0
        BY <2>0, <4>1 DEF Walking
      <4>2. CASE /\ check[g].found = {check[g].cursor}
                 /\ Usable({check[g].cursor}, check[g].section)
        BY <2>0, <3>4, <3>5, <4>2 DEF Walking, Usable
      <4>3. QED
        BY <3>5, <4>1, <4>2 DEF Walking
    <3>6. QED
      BY <2>0, <3>3, <3>4, <3>5 DEF Sound
  <2>3. QED
    BY <2>1, <2>2
<1>12. QED
  BY <1>5, <1>6, <1>7, <1>8, <1>10, <1>11 DEF AccessInv

-----------------------------------------------------------------------------
(* The steps of the checks                                                  *)

(* A section that was given out and is not being created.                   *)
Settled(s) == s \in used /\ \A k \in Handler : Creating(k) => task[k].id # s

LEMMA SeenIsSettled ==
  ASSUME AccessInv
  PROVE  /\ \A s \in live : Settled(s)
         /\ \A h \in Handler : \A s \in SeenIn(check[h]) : Settled(s)
         /\ \A s \in Section : cache[s] # NotCached => \A r \in {s} \cup cache[s] : Settled(r)
<1>1. \A s \in live : Settled(s)
  BY DEF AccessInv, TreeInv, InFlight, Typed, TypeOK, NewIds, Settled
<1>2. \A h \in Handler : \A s \in SeenIn(check[h]) : Settled(s)
  BY DEF AccessInv, Known, Unborn, Settled
<1>3. \A s \in Section : cache[s] # NotCached => \A r \in {s} \cup cache[s] : Settled(r)
  BY DEF AccessInv, Known, Unborn, Settled
<1>4. QED
  BY <1>1, <1>2, <1>3

(* What a step of one check has to show: what it holds afterwards, and what *)
(* it stores, is sound and has been seen in the tree.                       *)
LEMMA CheckMoves ==
  ASSUME AccessInv, NEW h \in Handler,
         NEW d \in {Idle} \cup {Decided(b) : b \in BOOLEAN} \cup Check,
         NEW s \in Section, NEW A \in (SUBSET Section) \cup {NotCached},
         UNCHANGED <<sectionVars, scopes>>,
         check' = [check EXCEPT ![h] = d], cache' = [cache EXCEPT ![s] = A],
         Sound(d), \A r \in SeenIn(d) : Settled(r),
         A # NotCached => \A r \in {s} \cup A : Settled(r),
         A # NotCached /\ s \in live => Usable(A, s)
  PROVE  AccessInv'
<1>1. TreeInv'
  <2>1. TreeInv /\ [Next]_sectionVars
    BY DEF AccessInv
  <2>2. QED
    BY <2>1, TreeStep
<1>2. UNCHANGED <<live, used, parent, enabled, home, dormant, choice, task>>
  BY DEF sectionVars, tree, modules
<1>3. ScopedTypeOK
  BY DEF AccessInv
<1>4. \A g \in Handler : check'[g] = IF g = h THEN d ELSE check[g]
  BY <1>3 DEF ScopedTypeOK
<1>5. \A r \in Section : cache'[r] = IF r = s THEN A ELSE cache[r]
  BY <1>3 DEF ScopedTypeOK
<1>6. ScopedTypeOK'
  <2>1. check' \in [Handler -> {Idle} \cup {Decided(b) : b \in BOOLEAN} \cup Check]
    BY <1>3 DEF ScopedTypeOK
  <2>2. cache' \in [Section -> (SUBSET Section) \cup {NotCached}]
    BY <1>3 DEF ScopedTypeOK
  <2>3. QED
    BY <1>1, <1>3, <2>1, <2>2 DEF ScopedTypeOK, TreeInv, InFlight, Typed, Check, Decided, Idle
<1>7. RowsLive'
  BY <1>2 DEF AccessInv, RowsLive
<1>8. Known' /\ Unborn'
  <2>1. \A r \in Section : cache'[r] # NotCached =>
          \A q \in {r} \cup cache'[r] : Settled(q)
    BY <1>5, SeenIsSettled
  <2>2. \A g \in Handler : \A r \in SeenIn(check'[g]) : Settled(r)
    BY <1>4, SeenIsSettled
  <2>3. \A g \in Handler : Creating(g)' = Creating(g)
    BY <1>2 DEF Creating
  <2>4. \A g \in Handler : SeenIn(check[g])' = SeenIn(check'[g])
    BY DEF SeenIn
  <2>5. QED
    BY <1>2, <2>1, <2>2, <2>3, <2>4 DEF Known, Unborn, Settled
<1>9. CachedAncestryUsable'
  <2>1. \A r \in live : cache'[r] # NotCached => Usable(cache'[r], r)
    BY <1>3, <1>5 DEF AccessInv, CachedAncestryUsable, Usable, ScopedTypeOK, TypeOK
  <2>2. QED
    BY <1>2, <2>1 DEF CachedAncestryUsable, Usable
<1>10. Gathering'
  <2>1. \A g \in Handler : Sound(check'[g])
    BY <1>4 DEF AccessInv, Gathering
  <2>2. QED
    BY <1>2, <2>1 DEF Gathering, Sound, Walking, Usable
<1>11. QED
  BY <1>1, <1>6, <1>7, <1>8, <1>9, <1>10 DEF AccessInv

(* The same for a step that stores nothing.                                 *)
LEMMA CheckMovesQuietly ==
  ASSUME AccessInv, NEW h \in Handler,
         NEW d \in {Idle} \cup {Decided(b) : b \in BOOLEAN} \cup Check,
         NEW s \in Section,
         UNCHANGED <<sectionVars, scopes, cache>>,
         check' = [check EXCEPT ![h] = d],
         Sound(d), \A r \in SeenIn(d) : Settled(r)
  PROVE  AccessInv'
<1>1. ScopedTypeOK
  BY DEF AccessInv
<1>2. cache[s] \in (SUBSET Section) \cup {NotCached} /\ cache' = [cache EXCEPT ![s] = cache[s]]
  BY <1>1 DEF ScopedTypeOK
<1>3. cache[s] # NotCached => \A r \in {s} \cup cache[s] : Settled(r)
  BY SeenIsSettled
<1>4. cache[s] # NotCached /\ s \in live => Usable(cache[s], s)
  BY DEF AccessInv, CachedAncestryUsable, Usable
<1>5. QED
  BY <1>2, <1>3, <1>4, CheckMoves

(* What the check of a handler gives when its ancestry is known.            *)
LEMMA WithAncestrySound ==
  ASSUME NEW c \in Check, NEW A \in SUBSET Section, c.section \in live => Usable(A, c.section)
  PROVE  /\ WithAncestry(c, A) \in {Decided(b) : b \in BOOLEAN} \cup Check
         /\ Sound(WithAncestry(c, A))
         /\ SeenIn(WithAncestry(c, A)) \subseteq {c.section, c.cursor} \cup A
<1>1. CASE c.flow = "canAccess"
  <2>1. PICK b \in BOOLEAN : WithAncestry(c, A) = Decided(b)
    BY <1>1 DEF WithAncestry, Verdict
  <2>2. QED
    BY <2>1 DEF Decided, Sound, SeenIn
<1>2. CASE c.flow # "canAccess"
  <2>1. WithAncestry(c, A) = [c EXCEPT !.at = "scopes", !.found = A]
    BY <1>2 DEF WithAncestry
  <2>2. c.flow = "canPerformAction"
    BY <1>2 DEF Check, Flows
  <2>3. WithAncestry(c, A) \in Check
    BY <2>1 DEF Check
  <2>4. /\ WithAncestry(c, A).at = "scopes" /\ WithAncestry(c, A).found = A
        /\ WithAncestry(c, A).section = c.section /\ WithAncestry(c, A).cursor = c.cursor
        /\ WithAncestry(c, A).flow = "canPerformAction"
    BY <2>1, <2>2 DEF Check
  <2>5. QED
    BY <2>3, <2>4 DEF Sound, SeenIn
<1>3. QED
  BY <1>1, <1>2

LEMMA CheckKeeps ==
  ASSUME AccessInv, NEW h \in Handler, CheckStep(h)
  PROVE  AccessInv'
<1> DEFINE c == check[h]
<1>1. ScopedTypeOK /\ TypeOK /\ TwoLevels /\ Sound(c) /\ Main \notin Section
  BY SectionAssumption DEF AccessInv, TreeInv, InFlight, Typed, Gathering
<1>2. \A r \in SeenIn(c) : Settled(r)
  BY SeenIsSettled
<1>3. ASSUME NEW flow \in Flows, NEW a \in Admin, NEW s \in Section, BeginCheck(h, flow, a, s)
      PROVE  AccessInv'
  <2> DEFINE d == [at |-> IF flow = "canAccess" THEN "scopes" ELSE "cache", flow |-> flow,
                   admin |-> a, section |-> s, rows |-> {}, found |-> {}, cursor |-> s,
                   depth |-> 0]
  <2>1. d \in Check
    BY DEF Check, Flows, MaxDepth
  <2>2. Sound(d) /\ SeenIn(d) = {s} /\ Settled(s)
    <3>1. Settled(s)
      BY <1>3, SeenIsSettled DEF BeginCheck
    <3>2. QED
      BY <3>1 DEF Sound, SeenIn, Flows
  <2>3. check' = [check EXCEPT ![h] = d] /\ UNCHANGED <<sectionVars, scopes, cache>>
    BY <1>3 DEF BeginCheck
  <2> HIDE DEF d
  <2>4. QED
    BY <2>1, <2>2, <2>3, CheckMovesQuietly
<1>4. ASSUME c.at \in {"scopes", "cache", "walk", "store"}
      PROVE  c \in Check /\ ~Resting(h) /\ {c.section, c.cursor} \cup c.found = SeenIn(c)
  BY <1>1, <1>4, CheckShape DEF Resting, SeenIn
<1>5. CASE ReadScopes(h)
  <2>1. c \in Check /\ c.section \in Section /\ c.at = "scopes"
    BY <1>4, <1>5 DEF ReadScopes, Check
  <2>2. UNCHANGED <<sectionVars, scopes, cache>>
    BY <1>5 DEF ReadScopes
  <2>3. CASE c.flow = "canAccess"
    <3> DEFINE d == [c EXCEPT !.at = "cache", !.rows = RowsOf(c.admin)]
    <3>1. check' = [check EXCEPT ![h] = d]
      BY <1>5, <2>3 DEF ReadScopes
    <3>2. d \in Check
      BY <2>1 DEF Check, RowsOf
    <3>3. /\ d.at = "cache" /\ d.section = c.section /\ d.cursor = c.cursor
          /\ d.found = c.found /\ d.depth = c.depth
      BY <2>1 DEF Check
    <3>4. Sound(d) /\ SeenIn(d) = SeenIn(c)
      BY <1>1, <2>1, <2>3, <3>3 DEF Sound, SeenIn
    <3> HIDE DEF d
    <3>5. QED
      BY <1>2, <2>1, <2>2, <3>1, <3>2, <3>4, CheckMovesQuietly
  <2>4. CASE c.flow # "canAccess"
    <3>1. PICK b \in BOOLEAN : check' = [check EXCEPT ![h] = Decided(b)]
      BY <1>5, <2>4 DEF ReadScopes, Verdict
    <3>2. Sound(Decided(b)) /\ SeenIn(Decided(b)) = {}
      BY DEF Decided, Sound, SeenIn
    <3>3. QED
      BY <2>1, <2>2, <3>1, <3>2, CheckMovesQuietly
  <2>5. QED
    BY <2>3, <2>4
<1>6. CASE ReadCache(h)
  <2>1. c \in Check /\ c.section \in Section /\ c.at = "cache"
    BY <1>4, <1>6 DEF ReadCache, Check
  <2>2. UNCHANGED <<sectionVars, scopes, cache>>
    BY <1>6 DEF ReadCache
  <2>3. CASE cache[c.section] = NotCached
    <3> DEFINE d == [c EXCEPT !.at = "walk"]
    <3>1. check' = [check EXCEPT ![h] = d]
      BY <1>6, <2>3 DEF ReadCache
    <3>2. d \in Check
      BY <2>1 DEF Check
    <3>3. /\ d.at = "walk" /\ d.section = c.section /\ d.cursor = c.cursor
          /\ d.found = c.found /\ d.depth = c.depth
      BY <2>1 DEF Check
    <3>4. Sound(d) /\ SeenIn(d) = SeenIn(c)
      BY <1>1, <2>1, <3>3 DEF Sound, SeenIn, Walking
    <3> HIDE DEF d
    <3>5. QED
      BY <1>2, <2>1, <2>2, <3>1, <3>2, <3>4, CheckMovesQuietly
  <2>4. CASE cache[c.section] # NotCached
    <3> DEFINE d == WithAncestry(c, cache[c.section])
    <3>1. check' = [check EXCEPT ![h] = d]
      BY <1>6, <2>4 DEF ReadCache
    <3>2. cache[c.section] \in SUBSET Section
      BY <1>1, <2>1, <2>4 DEF ScopedTypeOK
    <3>3. c.section \in live => Usable(cache[c.section], c.section)
      BY <2>4 DEF AccessInv, CachedAncestryUsable, Usable
    <3>4. /\ d \in {Decided(b) : b \in BOOLEAN} \cup Check /\ Sound(d)
          /\ SeenIn(d) \subseteq {c.section, c.cursor} \cup cache[c.section]
      BY <2>1, <3>2, <3>3, WithAncestrySound
    <3>5. \A r \in SeenIn(d) : Settled(r)
      <4>1. \A r \in {c.section} \cup cache[c.section] : Settled(r)
        BY <2>1, <2>4, SeenIsSettled
      <4>2. Settled(c.cursor)
        BY <1>2, <1>4, <2>1
      <4>3. QED
        BY <3>4, <4>1, <4>2
    <3> HIDE DEF d
    <3>6. QED
      BY <2>1, <2>2, <3>1, <3>4, <3>5, CheckMovesQuietly
  <2>5. QED
    BY <2>3, <2>4
<1>7. CASE Walk(h)
  <2>1. c \in Check /\ c.section \in Section /\ c.at = "walk" /\ c.cursor \in Section
    BY <1>4, <1>7 DEF Walk, Check
  <2>2. UNCHANGED <<sectionVars, scopes, cache>>
    BY <1>7 DEF Walk
  <2>3. c.section \in live => Walking(c)
    BY <1>1, <2>1 DEF Sound
  <2>4. CASE c.cursor \notin live \/ parent[c.cursor] = Main \/ c.depth = MaxDepth
    <3> DEFINE d == [c EXCEPT !.at = "store"]
    <3>1. check' = [check EXCEPT ![h] = d]
      BY <1>7, <2>4 DEF Walk
    <3>2. d \in Check
      BY <2>1 DEF Check
    <3>3. /\ d.at = "store" /\ d.section = c.section /\ d.cursor = c.cursor
          /\ d.found = c.found
      BY <2>1 DEF Check
    <3>4. c.section \in live => Usable(c.found, c.section)
      BY <1>1, <2>3, <2>4 DEF Walking, Usable, TypeOK, MaxDepth
    <3>5. Sound(d) /\ SeenIn(d) = SeenIn(c)
      BY <2>1, <3>3, <3>4 DEF Sound, SeenIn
    <3> HIDE DEF d
    <3>6. QED
      BY <1>2, <2>1, <2>2, <3>1, <3>2, <3>5, CheckMovesQuietly
  <2>5. CASE ~(c.cursor \notin live \/ parent[c.cursor] = Main \/ c.depth = MaxDepth)
    <3> DEFINE d == [c EXCEPT !.found = @ \cup {parent[c.cursor]},
                              !.cursor = parent[c.cursor], !.depth = @ + 1]
    <3>1. check' = [check EXCEPT ![h] = d]
      BY <1>7, <2>5 DEF Walk
    <3>2. parent[c.cursor] \in live /\ parent[parent[c.cursor]] = Main /\ live \subseteq Section
      BY <1>1, <2>5 DEF TwoLevels, TypeOK
    <3>3. d \in Check
      <4>1. c.depth \in 0 .. MaxDepth /\ c.depth # MaxDepth
        BY <2>1, <2>5 DEF Check
      <4>2. c.depth + 1 \in 0 .. MaxDepth
        BY <4>1 DEF MaxDepth
      <4>3. c.found \cup {parent[c.cursor]} \in SUBSET Section
        BY <2>1, <3>2 DEF Check
      <4>4. QED
        BY <2>1, <3>2, <4>2, <4>3 DEF Check
    <3>4. /\ d.at = "walk" /\ d.section = c.section /\ d.cursor = parent[c.cursor]
          /\ d.found = c.found \cup {parent[c.cursor]}
      BY <2>1 DEF Check
    <3>5. c.section \in live => c.cursor = c.section /\ c.found = {}
      BY <1>1, <2>3, <2>5, <3>2 DEF Walking, Usable, TwoLevels, TypeOK
    <3>6. c.section \in live => Walking(d)
      BY <3>4, <3>5 DEF Walking, Usable
    <3>7. Sound(d)
      BY <3>4, <3>6 DEF Sound
    <3>8. \A r \in SeenIn(d) : Settled(r)
      <4>1. Settled(parent[c.cursor])
        BY <3>2, SeenIsSettled
      <4>2. SeenIn(d) \subseteq SeenIn(c) \cup {parent[c.cursor]}
        BY <2>1, <3>4 DEF SeenIn
      <4>3. QED
        BY <1>2, <4>1, <4>2
    <3> HIDE DEF d
    <3>9. QED
      BY <2>1, <2>2, <3>1, <3>3, <3>7, <3>8, CheckMovesQuietly
  <2>6. QED
    BY <2>4, <2>5
<1>8. CASE StoreCache(h)
  <2>1. c \in Check /\ c.section \in Section /\ c.at = "store" /\ c.found \in SUBSET Section
    BY <1>4, <1>8 DEF StoreCache, Check
  <2>2. UNCHANGED <<sectionVars, scopes>>
    BY <1>8 DEF StoreCache
  <2>3. c.section \in live => Usable(c.found, c.section)
    BY <1>1, <2>1 DEF Sound
  <2> DEFINE d == WithAncestry(c, c.found)
  <2>4. check' = [check EXCEPT ![h] = d] /\ cache' = [cache EXCEPT ![c.section] = c.found]
    BY <1>8 DEF StoreCache
  <2>5. /\ d \in {Decided(b) : b \in BOOLEAN} \cup Check /\ Sound(d)
        /\ SeenIn(d) \subseteq {c.section, c.cursor} \cup c.found
    BY <2>1, <2>3, WithAncestrySound
  <2>6. \A r \in {c.section, c.cursor} \cup c.found : Settled(r)
    BY <1>2, <1>4, <2>1
  <2>7. \A r \in SeenIn(d) : Settled(r)
    BY <2>5, <2>6
  <2> HIDE DEF d
  <2>8. QED
    BY <2>1, <2>2, <2>3, <2>4, <2>5, <2>6, <2>7, CheckMoves
<1>9. QED
  BY <1>3, <1>5, <1>6, <1>7, <1>8 DEF CheckStep

-----------------------------------------------------------------------------
(* The invariant                                                            *)

LEMMA AccessInit == ScopedInit => AccessInv
<1> SUFFICES ASSUME ScopedInit
             PROVE  AccessInv
  OBVIOUS
<1>1. TreeInv
  BY TreeInit DEF ScopedInit
<1>2. ScopedTypeOK
  BY <1>1, ScopedAssumption DEF ScopedInit, ScopedTypeOK, TreeInv, InFlight, Typed, Idle
<1>3. RowsLive
  <2>1. \A a \in Admin, s \in Section : scopes[<<a, s>>] = 0
    BY DEF ScopedInit
  <2>2. QED
    BY <2>1 DEF RowsLive
<1>4. Known /\ Unborn
  BY DEF ScopedInit, Known, Unborn, SeenIn, Idle
<1>5. CachedAncestryUsable
  BY <1>1 DEF ScopedInit, CachedAncestryUsable, TreeInv, InFlight, Typed, TypeOK
<1>6. Gathering
  BY DEF ScopedInit, Gathering, Sound, Idle
<1>7. QED
  BY <1>1, <1>2, <1>3, <1>4, <1>5, <1>6 DEF AccessInv

LEMMA AccessStep == AccessInv /\ [ScopedNext]_vars => AccessInv'
<1> SUFFICES ASSUME AccessInv, [ScopedNext]_vars
             PROVE  AccessInv'
  OBVIOUS
<1>0. TypeOK /\ TreeInv
  BY DEF AccessInv, TreeInv, InFlight, Typed
<1>1. TypeOK /\ TypeOK' /\ TreeInv'
  <2>1. TreeInv'
    BY <1>0, AccessStepsTree, TreeStep
  <2>2. QED
    BY <1>0, <2>1 DEF TreeInv, InFlight, Typed
<1>2. ASSUME NEW h \in Handler, EditStep(h)
      PROVE  AccessInv'
  BY <1>1, <1>2, EditKeeps
<1>3. ASSUME NEW h \in Handler, CheckStep(h)
      PROVE  AccessInv'
  BY <1>3, CheckKeeps
<1>4. ASSUME UNCHANGED <<live, used, parent, task, scopeVars>>
      PROVE  AccessInv'
  <2>1. UNCHANGED <<live, used, parent, task, scopes, cache, check>>
    BY <1>4 DEF scopeVars
  <2>2. ScopedTypeOK' /\ RowsLive' /\ CachedAncestryUsable'
    BY <1>1, <2>1 DEF AccessInv, ScopedTypeOK, RowsLive, CachedAncestryUsable,
                      Check, Decided, Idle
  <2>3. Known' /\ Unborn' /\ Gathering'
    BY <2>1 DEF AccessInv, Known, Unborn, Gathering, Sound, Walking, Usable, SeenIn, Creating
  <2>4. QED
    BY <1>1, <2>2, <2>3 DEF AccessInv
<1>5. CASE \E o \in Operator : Prompt(o) /\ UNCHANGED scopeVars
  BY <1>4, <1>5 DEF Prompt, AddMainPrompt, AddSubPrompt, tree
<1>6. CASE \E m \in Module : ModuleStep(m) /\ UNCHANGED scopeVars
  BY <1>4, <1>6 DEF ModuleStep, PlaceModule, ClearModule, tree
<1>7. ASSUME NEW a \in Admin, NEW s \in Section, Assign(a, s) \/ Revoke(a, s)
      PROVE  AccessInv'
  <2>1. CASE Revoke(a, s)
    BY <1>4, <2>1 DEF Revoke, vars, sectionVars, tree
  <2>2. CASE Assign(a, s)
    <3>1. UNCHANGED <<live, used, parent, task, cache, check>>
      BY <2>2 DEF Assign, sectionVars, tree
    <3>2. scopes' \in [Admin \X Section -> 0 .. MaxRows]
      BY <2>2, ScopedAssumption DEF Assign, AccessInv, ScopedTypeOK
    <3>3. RowsLive'
      <4> SUFFICES ASSUME NEW b \in Admin, NEW r \in Section, scopes'[<<b, r>>] > 0
                   PROVE  r \in live
        BY <3>1 DEF RowsLive
      <4>1. scopes'[<<b, r>>] = scopes[<<b, r>>] \/ r = s
        BY <2>2 DEF Assign, AccessInv, ScopedTypeOK
      <4>2. QED
        BY <2>2, <4>1 DEF Assign, AccessInv, RowsLive
    <3>4. ScopedTypeOK' /\ CachedAncestryUsable'
      BY <1>1, <3>1, <3>2 DEF AccessInv, ScopedTypeOK, CachedAncestryUsable, Check, Decided, Idle
    <3>5. Known' /\ Unborn' /\ Gathering'
      BY <3>1 DEF AccessInv, Known, Unborn, Gathering, Sound, Walking, Usable, SeenIn, Creating
    <3>6. QED
      BY <1>1, <3>3, <3>4, <3>5 DEF AccessInv
  <2>3. QED
    BY <1>7, <2>1, <2>2
<1>8. ASSUME NEW s \in Section, Expire(s)
      PROVE  AccessInv'
  <2>1. UNCHANGED <<live, used, parent, task, scopes, check>>
    BY <1>8 DEF Expire, sectionVars, tree
  <2>2. \A r \in Section : cache'[r] = cache[r] \/ cache'[r] = NotCached
    BY <1>8 DEF Expire, AccessInv, ScopedTypeOK
  <2>3. ScopedTypeOK' /\ RowsLive'
    BY <1>1, <1>8, <2>1 DEF Expire, AccessInv, ScopedTypeOK, RowsLive, Check, Decided, Idle
  <2>4. CachedAncestryUsable'
    BY <1>1, <2>1, <2>2 DEF AccessInv, CachedAncestryUsable, TypeOK
  <2>5. Known' /\ Unborn'
    BY <2>1, <2>2 DEF AccessInv, Known, Unborn, SeenIn, Creating
  <2>6. Gathering'
    BY <2>1 DEF AccessInv, Gathering, Sound, Walking, Usable
  <2>7. QED
    BY <1>1, <2>3, <2>4, <2>5, <2>6 DEF AccessInv
<1>9. CASE Restart
  <2>1. /\ UNCHANGED <<live, used, parent, scopes, cache>>
        /\ task' = [h \in Handler |-> Idle] /\ check' = [h \in Handler |-> Idle]
    BY <1>9 DEF Restart, tree
  <2>2. ScopedTypeOK' /\ RowsLive' /\ CachedAncestryUsable'
    BY <1>1, <2>1 DEF AccessInv, ScopedTypeOK, RowsLive, CachedAncestryUsable,
                      Check, Decided, Idle
  <2>3. Known' /\ Unborn' /\ Gathering'
    BY <2>1 DEF AccessInv, Known, Unborn, Gathering, Sound, SeenIn, Creating, Idle
  <2>4. QED
    BY <1>1, <2>2, <2>3 DEF AccessInv
<1>10. CASE UNCHANGED vars
  BY <1>4, <1>10 DEF vars, sectionVars, tree
<1>11. QED
  BY <1>2, <1>3, <1>5, <1>6, <1>7, <1>8, <1>9, <1>10 DEF ScopedNext

-----------------------------------------------------------------------------
(* The theorems                                                             *)

(* The tables, caches and checks stay well typed.                           *)
THEOREM AccessTypeCorrect == ScopedSpec => []ScopedTypeOK
<1>1. AccessInv => ScopedTypeOK
  BY DEF AccessInv
<1>2. QED
  BY AccessInit, AccessStep, <1>1, PTL DEF ScopedSpec

(* An ancestry that 24 hours of edits have overtaken still answers right    *)
(* for every section that exists.                                           *)
THEOREM CacheStaysUsable == ScopedSpec => []CachedAncestryUsable
<1>1. AccessInv => CachedAncestryUsable
  BY DEF AccessInv
<1>2. QED
  BY AccessInit, AccessStep, <1>1, PTL DEF ScopedSpec

(* The menus show an admin the modules of a section exactly when the check  *)
(* behind them would let him in.                                            *)
THEOREM MenusAndChecksAgree == ScopedSpec => []MenuAgreesWithCheck
<1>1. AccessInv => MenuAgreesWithCheck
  <2> SUFFICES ASSUME AccessInv, NEW a \in Admin, NEW s \in live
               PROVE  Opens(Person(a), s) <=> Granted(a, s)
    BY DEF MenuAgreesWithCheck
  <2>1. /\ TwoLevels /\ live \subseteq Section /\ Main \notin Section
    BY SectionAssumption DEF AccessInv, TreeInv, InFlight, Typed, TypeOK
  <2>2. RowsOf(a) \subseteq live
    BY DEF AccessInv, RowsLive, RowsOf
  <2>3. AncestryNow(s) \cap live = {parent[s]} \cap live
    BY DEF AncestryNow, AccessInv, CachedAncestryUsable
  <2>4. Granted(a, s) <=> s \in RowsOf(a) \/ parent[s] \in RowsOf(a)
    BY <2>2, <2>3 DEF Granted
  <2>5. parent[s] \in RowsOf(a) => parent[s] # Main
    BY <2>1, <2>2
  <2>6. QED
    BY <2>4, <2>5 DEF Opens, Person
<1>2. QED
  BY AccessInit, AccessStep, <1>1, PTL DEF ScopedSpec

(* No module the main menu counts as authorized is out of reach.            *)
THEOREM MenusReachAuthorized == ScopedSpec => []AuthorizedIsReachable
<1>1. AccessInv => AuthorizedIsReachable
  <2> SUFFICES ASSUME AccessInv,
                      NEW p \in {Person(a) : a \in Admin} \cup {Employee, SuperAdmin},
                      NEW W \in SUBSET live, NEW s \in Authorized(p, W),
                      NEW top, top = IF parent[s] = Main THEN s ELSE parent[s],
                      enabled[s], enabled[top]
               PROVE  /\ top \in MainMenu(p, W)
                      /\ s # top => s \in SubMenu(p, top, W)
                      /\ Opens(p, s)
    BY DEF AuthorizedIsReachable
  <2>1. TwoLevels /\ live \subseteq Section /\ Main \notin Section
    BY SectionAssumption DEF AccessInv, TreeInv, InFlight, Typed, TypeOK
  <2>2. s \in live /\ s \in W
    BY DEF Authorized
  <2>3. top \in live /\ parent[top] = Main
    BY <2>1, <2>2 DEF TwoLevels
  <2>4. s \in {top} \cup ActiveChildren(top)
    BY <2>2 DEF ActiveChildren, Children
  <2>5. top \in MainMenu(p, W)
    BY <2>3, <2>4 DEF MainMenu
  <2>6. s # top => s \in SubMenu(p, top, W)
    BY <2>2, <2>4 DEF SubMenu
  <2>7. Opens(p, s)
    <3>1. \A a \in Admin : Main \notin RowsOf(a)
      BY <2>1 DEF RowsOf
    <3>2. p.role = "ADMIN" => \E a \in Admin : p = Person(a)
      BY DEF Employee, SuperAdmin
    <3>3. p.role = "ADMIN" => Main \notin p.rows
      BY <3>1, <3>2 DEF Person
    <3>4. p.role = "ADMIN" => s \in p.rows \/ parent[s] \in p.rows
      BY DEF Authorized
    <3>5. QED
      BY <3>3, <3>4 DEF Opens
  <2>8. QED
    BY <2>5, <2>6, <2>7
<1>2. QED
  BY AccessInit, AccessStep, <1>1, PTL DEF ScopedSpec

-----------------------------------------------------------------------------
(* The answers                                                              *)

(* Only three steps end a check with an answer.                             *)
LEMMA DecidingSteps ==
  ASSUME AccessInv, [ScopedNext]_vars, NEW h \in Handler, NEW b \in BOOLEAN,
         ~Resting(h), check'[h] = Decided(b)
  PROVE  ReadScopes(h) \/ ReadCache(h) \/ StoreCache(h)
<1>1. ScopedTypeOK /\ check[h] # Decided(b)
  BY DEF AccessInv, Resting, Decided
<1>2. ASSUME NEW g \in Handler, CheckStep(g)
      PROVE  ReadScopes(h) \/ ReadCache(h) \/ StoreCache(h)
  <2>1. g = h
    BY <1>1, <1>2 DEF CheckStep, BeginCheck, ReadScopes, ReadCache, Walk, StoreCache, ScopedTypeOK
  <2>2. \A flow \in Flows, a \in Admin, s \in Section : ~BeginCheck(h, flow, a, s)
    BY DEF BeginCheck
  <2>3. ~Walk(h)
    <3> SUFFICES ASSUME Walk(h)
                 PROVE  FALSE
      OBVIOUS
    <3>1. check[h] \in Check
      BY <1>1, CheckShape
    <3>2. check'[h].at \in {"store", "walk"}
      BY <1>1, <3>1 DEF Walk, ScopedTypeOK, Check
    <3>3. QED
      BY <3>2 DEF Decided
  <2>4. QED
    BY <1>2, <2>1, <2>2, <2>3 DEF CheckStep
<1>3. CASE UNCHANGED check
  BY <1>1, <1>3
<1>4. CASE Restart
  BY <1>4 DEF Restart, Idle, Decided
<1>5. QED
  BY <1>2, <1>3, <1>4 DEF ScopedNext, EditStep, Assign, Revoke, Expire, scopeVars, vars

(* What the answer of a check rests on.                                     *)
LEMMA AnswersRestOnRows ==
  ASSUME AccessInv, [ScopedNext]_vars, NEW h \in Handler, NEW b \in BOOLEAN,
         ~Resting(h), check'[h] = Decided(b), check[h].section \in live
  PROVE  LET c == check[h]
             rows == IF c.flow = "canAccess" THEN c.rows ELSE RowsOf(c.admin)
         IN  \E A \in SUBSET Section :
               Usable(A, c.section) /\ (b <=> rows \cap ({c.section} \cup A) # {})
<1> DEFINE c == check[h]
           rows == IF c.flow = "canAccess" THEN c.rows ELSE RowsOf(c.admin)
<1>1. ScopedTypeOK /\ c \in Check /\ Sound(c) /\ c.section \in Section
  BY CheckShape DEF AccessInv, Gathering, Check
<1>2. \A A : Verdict(c.section, A, rows) = Decided(b)
        => (b <=> rows \cap ({c.section} \cup A) # {})
  BY DEF Verdict, Decided
<1>3. ASSUME NEW A, WithAncestry(c, A) = Decided(b)
      PROVE  c.flow = "canAccess" /\ Verdict(c.section, A, rows) = Decided(b)
  <2>1. CASE c.flow = "canAccess"
    BY <1>3, <2>1 DEF WithAncestry
  <2>2. CASE c.flow # "canAccess"
    <3>1. WithAncestry(c, A).at = "scopes"
      BY <1>1, <2>2 DEF WithAncestry, Check
    <3>2. QED
      BY <1>3, <3>1 DEF Decided
  <2>3. QED
    BY <2>1, <2>2
<1>4. CASE ReadScopes(h)
  <2>1. c.flow = "canPerformAction"
    <3>1. CASE c.flow = "canAccess"
      <4>1. check'[h].at = "cache"
        BY <1>1, <1>4, <3>1 DEF ReadScopes, ScopedTypeOK, Check
      <4>2. QED
        BY <4>1 DEF Decided
    <3>2. QED
      BY <1>1, <3>1 DEF Check, Flows
  <2>2. Verdict(c.section, c.found, rows) = Decided(b)
    BY <1>1, <1>4, <2>1 DEF ReadScopes, ScopedTypeOK
  <2>3. Usable(c.found, c.section) /\ c.found \in SUBSET Section
    BY <1>1, <1>4, <2>1 DEF ReadScopes, Sound, Check
  <2>4. QED
    BY <1>2, <2>2, <2>3
<1>5. CASE ReadCache(h)
  <2>1. cache[c.section] # NotCached
    <3>1. CASE cache[c.section] = NotCached
      <4>1. check'[h].at = "walk"
        BY <1>1, <1>5, <3>1 DEF ReadCache, ScopedTypeOK, Check
      <4>2. QED
        BY <4>1 DEF Decided
    <3>2. QED
      BY <3>1
  <2>2. WithAncestry(c, cache[c.section]) = Decided(b)
    BY <1>1, <1>5, <2>1 DEF ReadCache, ScopedTypeOK
  <2>3. Usable(cache[c.section], c.section) /\ cache[c.section] \in SUBSET Section
    BY <1>1, <2>1 DEF AccessInv, CachedAncestryUsable, Usable, ScopedTypeOK
  <2>4. QED
    BY <1>2, <1>3, <2>2, <2>3
<1>6. CASE StoreCache(h)
  <2>1. WithAncestry(c, c.found) = Decided(b)
    BY <1>1, <1>6 DEF StoreCache, ScopedTypeOK
  <2>2. Usable(c.found, c.section) /\ c.found \in SUBSET Section
    BY <1>1, <1>6 DEF StoreCache, Sound, Check
  <2>3. QED
    BY <1>2, <1>3, <2>1, <2>2
<1>7. QED
  BY <1>4, <1>5, <1>6, DecidingSteps

(* No admin is let in on a scope he does not have when the answer is given, *)
(* or on a section that is not above the one he asks for.                   *)
THEOREM GrantsRestOnScopes == ScopedSpec => NoStaleGrant
<1>1. AccessInv /\ [ScopedNext]_vars =>
        [\A h \in Handler :
           LET c == check[h] IN
           (/\ c.at = "scopes" /\ c.flow = "canPerformAction"
            /\ check'[h] = Decided(TRUE) /\ c.section \in live)
             => RowsOf(c.admin) \cap {c.section, parent[c.section]} # {}]_vars
  <2> SUFFICES ASSUME AccessInv, [ScopedNext]_vars, NEW h \in Handler,
                      check[h].at = "scopes", check[h].flow = "canPerformAction",
                      check'[h] = Decided(TRUE), check[h].section \in live
               PROVE  RowsOf(check[h].admin) \cap {check[h].section, parent[check[h].section]} # {}
    OBVIOUS
  <2>1. ~Resting(h)
    BY DEF Resting
  <2>2. PICK A \in SUBSET Section :
          /\ Usable(A, check[h].section)
          /\ RowsOf(check[h].admin) \cap ({check[h].section} \cup A) # {}
    BY <2>1, AnswersRestOnRows
  <2>3. RowsOf(check[h].admin) \subseteq live
    <3>1. check[h].admin \in Admin
      BY <2>1, CheckShape DEF AccessInv, Check
    <3>2. QED
      BY <3>1 DEF AccessInv, RowsLive, RowsOf
  <2>4. QED
    BY <2>2, <2>3 DEF Usable
<1>2. QED
  BY AccessInit, AccessStep, <1>1, PTL DEF ScopedSpec, NoStaleGrant

(* No admin is refused a section although the check has read a scope of his *)
(* on it or on its main section (FR-037).                                   *)
THEOREM ScopesAreInherited == ScopedSpec => ScopeIsInherited
<1>1. AccessInv /\ [ScopedNext]_vars =>
        [\A h \in Handler :
           LET c == check[h]
               rows == IF c.flow = "canAccess" THEN c.rows ELSE RowsOf(c.admin)
           IN
           (~Resting(h) /\ check'[h] = Decided(FALSE) /\ c.section \in live)
             => rows \cap {c.section, parent[c.section]} = {}]_vars
  <2> SUFFICES ASSUME AccessInv, [ScopedNext]_vars, NEW h \in Handler,
                      NEW rows,
                      rows = IF check[h].flow = "canAccess" THEN check[h].rows
                             ELSE RowsOf(check[h].admin),
                      ~Resting(h), check'[h] = Decided(FALSE), check[h].section \in live
               PROVE  rows \cap {check[h].section, parent[check[h].section]} = {}
    OBVIOUS
  <2>1. PICK A \in SUBSET Section :
          Usable(A, check[h].section) /\ rows \cap ({check[h].section} \cup A) = {}
    BY AnswersRestOnRows
  <2>2. Main \notin rows /\ TwoLevels
    <3>1. check[h] \in Check
      BY CheckShape DEF AccessInv
    <3>2. rows \subseteq Section
      BY <3>1 DEF Check, RowsOf
    <3>3. QED
      BY <3>2, SectionAssumption DEF AccessInv, TreeInv
  <2>3. parent[check[h].section] \in rows => parent[check[h].section] \in live
    BY <2>2 DEF TwoLevels
  <2>4. QED
    BY <2>1, <2>3 DEF Usable
<1>2. QED
  BY AccessInit, AccessStep, <1>1, PTL DEF ScopedSpec, ScopeIsInherited

-----------------------------------------------------------------------------
(* The checks and the scopes beside the tree                                *)

(* ScopedAccess implements Sections: nothing that assigns, revokes, checks, *)
(* caches or expires does to the tree what its own handlers could not do.   *)
THEOREM AccessImplementsSections == ScopedSpec => Spec
<1>1. AccessInv /\ [ScopedNext]_vars => [Next]_sectionVars
  BY AccessStepsTree DEF AccessInv, TreeInv, InFlight, Typed
<1>2. ScopedInit => Init
  BY DEF ScopedInit
<1>3. QED
  BY <1>1, <1>2, AccessInit, AccessStep, PTL DEF ScopedSpec, Spec

(* What is proved of the tree holds beside the checks: two levels, and a    *)
(* section for every module and every parent.                               *)
THEOREM TreeHoldsBesideChecks ==
  ScopedSpec => [](TwoLevels /\ Acyclic /\ ModulesHaveSections /\ ParentsExist)
<1>1. [Next]_sectionVars => [ServiceNext]_sectionVars
  BY DEF ServiceNext
<1>2. Spec => ServiceSpec
  BY <1>1, PTL DEF Spec, ServiceSpec
<1>3. QED
  BY <1>2, AccessImplementsSections, TreeHasTwoLevels, TreeIsAcyclic, EveryModuleHasASection,
     ParentsAreNeverGone, PTL

(* Beside the checks the tree is still edited in the single steps of        *)
(* Catalogue.                                                               *)
COROLLARY AccessKeepsCatalogue == ScopedSpec => KeepsCatalogue
BY AccessImplementsSections, BotImplementsCatalogue

(* A scope is never left on a section that was deleted, however the         *)
(* deletion runs beside an assignment (admin_scopes.section_id, ON DELETE   *)
(* CASCADE).                                                                *)
THEOREM ScopesAreOnSections == ScopedSpec => []RowsLive
<1>1. AccessInv => RowsLive
  BY DEF AccessInv
<1>2. QED
  BY <1>1, AccessInit, AccessStep, PTL DEF ScopedSpec

===============================================================================
