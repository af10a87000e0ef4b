----------------------------- MODULE ScopedAccess -----------------------------
(***************************************************************************)
(* Scoped permissions over the section tree: the admin_scopes table        *)
(* (services/admin-scope.ts), the cached ancestry of a section and the two *)
(* access checks (services/rbac.ts), while the bot edits the tree          *)
(* (module Sections).                                                      *)
(*                                                                         *)
(*   - The bot assigns and revokes section-wide scopes only: a row is an   *)
(*     admin and a section, its module_id is null.                         *)
(*   - admin_scopes.section_id is deleted ON DELETE CASCADE.               *)
(*   - section:ancestry:<id> lives 24 hours and no edit of the tree drops  *)
(*     it.                                                                 *)
(***************************************************************************)
EXTENDS Sections

CONSTANTS
  Admin,   \* users with the role ADMIN
  MaxRows  \* bound on the rows of one admin for one section

NotCached == {"NOT_CACHED"}   \* differs from every set of sections

ASSUME ScopedAssumption == MaxRows \in Nat /\ "NOT_CACHED" \notin Section

VARIABLES
  scopes,  \* number of admin_scopes rows of an admin for a section
  cache,   \* section:ancestry:<id>, NotCached when the key is absent
  check    \* the access check each handler runs

scopeVars == <<scopes, cache, check>>
vars == <<sectionVars, scopeVars>>

(* canAccess reads the scopes before the ancestry, canPerformAction after.  *)
Flows == {"canAccess", "canPerformAction"}

Check == [at: {"scopes", "cache", "walk", "store"}, flow: Flows,
          admin: Admin, section: Section, rows: SUBSET Section,
          found: SUBSET Section, cursor: Section, depth: 0 .. MaxDepth]

Decided(granted) == [at |-> "decided", granted |-> granted]

ScopedTypeOK ==
  /\ TypeOK
  /\ scopes \in [Admin \X Section -> 0 .. MaxRows]
  /\ cache \in [Section -> (SUBSET Section) \cup {NotCached}]
  /\ check \in [Handler -> {Idle} \cup {Decided(b) : b \in BOOLEAN} \cup Check]

RowsOf(a) == {s \in Section : scopes[<<a, s>>] > 0}

ScopedInit ==
  /\ Init
  /\ scopes = [p \in Admin \X Section |-> 0]
  /\ cache = [s \in Section |-> NotCached]
  /\ check = [h \in Handler |-> Idle]

Resting(h) == check[h].at \in {"idle", "decided"}

-----------------------------------------------------------------------------
(* assignScope looks for a row whose module_id is the text 'none' and       *)
(* inserts one whose module_id is null: it always inserts, and the unique   *)
(* index takes nulls as distinct.                                           *)
Assign(a, s) ==
  /\ s \in live /\ scopes[<<a, s>>] < MaxRows
  /\ scopes' = [scopes EXCEPT ![<<a, s>>] = @ + 1]
  /\ UNCHANGED <<sectionVars, cache, check>>

(* revokeScope deletes the row whose module_id is that text, which no row   *)
(* has: the deletion fails and the scope stays.                             *)
Revoke(a, s) ==
  /\ scopes[<<a, s>>] > 0
  /\ UNCHANGED vars

-----------------------------------------------------------------------------
(* The checks                                                               *)

BeginCheck(h, flow, a, s) ==
  /\ task[h] = Idle /\ Resting(h)
  /\ s \in live
  /\ check' = [check EXCEPT ![h] =
       [at |-> IF flow = "canAccess" THEN "scopes" ELSE "cache", flow |-> flow,
        admin |-> a, section |-> s, rows |-> {}, found |-> {}, cursor |-> s, depth |-> 0]]
  /\ UNCHANGED <<sectionVars, scopes, cache>>

Verdict(section, ancestors, rows) ==
  Decided(rows \cap ({section} \cup ancestors) # {})

(* The check when the ancestry is known.                                    *)
WithAncestry(c, ancestors) ==
  IF c.flow = "canAccess"
    THEN Verdict(c.section, ancestors, c.rows)
    ELSE [c EXCEPT !.at = "scopes", !.found = ancestors]

ReadScopes(h) ==
  LET c == check[h] IN
  /\ c.at = "scopes"
  /\ check' = [check EXCEPT ![h] =
       IF c.flow = "canAccess"
         THEN [c EXCEPT !.at = "cache", !.rows = RowsOf(c.admin)]
         ELSE Verdict(c.section, c.found, RowsOf(c.admin))]
  /\ UNCHANGED <<sectionVars, scopes, cache>>

(* getSectionAncestry                                                       *)
ReadCache(h) ==
  LET c == check[h] IN
  /\ c.at = "cache"
  /\ check' = [check EXCEPT ![h] =
       IF cache[c.section] = NotCached
         THEN [c EXCEPT !.at = "walk"]
         ELSE WithAncestry(c, cache[c.section])]
  /\ UNCHANGED <<sectionVars, scopes, cache>>

(* Fault: the walk of getAncestors stops below the main section.            *)
WalkStopsEarly(h) ==
  LET c == check[h] IN
  /\ c.at = "walk"
  /\ check' = [check EXCEPT ![h].at = "store"]
  /\ UNCHANGED <<sectionVars, scopes, cache>>

(* Fault: the null parent of a main section is taken for an ancestor.       *)
WalkKeepsNull(h) ==
  LET c == check[h] IN
  /\ c.at = "walk"
  /\ check' = [check EXCEPT ![h].at = "store",
                            ![h].found = @ \cup {parent[c.cursor]}]
  /\ UNCHANGED <<sectionVars, scopes, cache>>

(* One lookup of getAncestors                                               *)
Walk(h) ==
  LET c == check[h]
      top == c.cursor \notin live \/ parent[c.cursor] = Main \/ c.depth = MaxDepth
  IN
  /\ c.at = "walk"
  /\ check' = [check EXCEPT ![h] =
       IF top THEN [c EXCEPT !.at = "store"]
              ELSE [c EXCEPT !.found = @ \cup {parent[c.cursor]},
                             !.cursor = parent[c.cursor], !.depth = @ + 1]]
  /\ UNCHANGED <<sectionVars, scopes, cache>>

StoreCache(h) ==
  LET c == check[h] IN
  /\ c.at = "store"
  /\ cache' = [cache EXCEPT ![c.section] = c.found]
  /\ check' = [check EXCEPT ![h] = WithAncestry(c, c.found)]
  /\ UNCHANGED <<sectionVars, scopes>>

Expire(s) ==
  /\ cache[s] # NotCached
  /\ cache' = [cache EXCEPT ![s] = NotCached]
  /\ UNCHANGED <<sectionVars, scopes, check>>

-----------------------------------------------------------------------------
(* Fault: the scopes of a deleted section stay.                             *)
CascadeKeepsRows == UNCHANGED scopes

(* The rows of a deleted section go with it.                                *)
Cascade ==
  scopes' = [p \in Admin \X Section |-> IF p[2] \in live \ live' THEN 0 ELSE scopes[p]]

EditStep(h) ==
  /\ Resting(h)
  /\ CreateStep(h) \/ DeleteStep(h) \/ ToggleStep(h)
  /\ Cascade
  /\ UNCHANGED <<cache, check>>

CheckStep(h) ==
  \/ \E flow \in Flows, a \in Admin, s \in Section : BeginCheck(h, flow, a, s)
  \/ ReadScopes(h)
  \/ ReadCache(h)
  \/ Walk(h)
  \/ StoreCache(h)

(* The process dies: PostgreSQL and Redis keep what they have.              *)
Restart ==
  /\ \E h \in Handler : task[h] # Idle \/ ~Resting(h)
  /\ task' = [h \in Handler |-> Idle]
  /\ check' = [h \in Handler |-> Idle]
  /\ UNCHANGED <<tree, enabled, modules, choice, scopes, cache>>

ScopedNext ==
  \/ \E h \in Handler : EditStep(h) \/ CheckStep(h)
  \/ \E o \in Operator : Prompt(o) /\ UNCHANGED scopeVars
  \/ \E m \in Module : ModuleStep(m) /\ UNCHANGED scopeVars
  \/ \E a \in Admin, s \in Section : Assign(a, s) \/ Revoke(a, s)
  \/ \E s \in Section : Expire(s)
  \/ Restart

ScopedSpec == ScopedInit /\ [][ScopedNext]_vars

-----------------------------------------------------------------------------
(* An ancestry that was cached before the tree changed still gives the      *)
(* right answer for every section that exists: it holds the parent, and     *)
(* what else it holds is deleted (rbac.ts:26 caches for 24 hours).          *)
CachedAncestryUsable ==
  \A s \in live :
    cache[s] # NotCached => cache[s] \cap live = {parent[s]} \cap live

(* canPerformAction grants an admin a section only if the admin has, at the *)
(* time of the answer, a scope on the section or on its main section.       *)
NoStaleGrant ==
  [][\A h \in Handler :
       LET c == check[h] IN
       (/\ c.at = "scopes" /\ c.flow = "canPerformAction"
        /\ check'[h] = Decided(TRUE) /\ c.section \in live)
         => RowsOf(c.admin) \cap {c.section, parent[c.section]} # {}]_vars

(* FR-037: a check never denies a section to an admin whose scopes, as the  *)
(* check read them, hold the section or its main section.                   *)
ScopeIsInherited ==
  [][\A h \in Handler :
       LET c == check[h]
           rows == IF c.flow = "canAccess" THEN c.rows ELSE RowsOf(c.admin)
       IN
       (~Resting(h) /\ check'[h] = Decided(FALSE) /\ c.section \in live)
         => rows \cap {c.section, parent[c.section]} = {}]_vars

===============================================================================
