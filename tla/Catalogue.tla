------------------------------- MODULE Catalogue -------------------------------
(***************************************************************************)
(* What the section service promises (services/sections.ts and the foreign *)
(* keys of the migrations), without handlers, checks that precede a write, *)
(* or crashes: each operation is one step, and what it needs holds in that *)
(* step.                                                                   *)
(*   - A section is added at the main level or under a main section.       *)
(*   - Only a section without modules goes, and its id never comes back;   *)
(*     its sub-sections become main sections (ON DELETE SET NULL, where    *)
(*     FR-018 asks for their deletion: Sections, DeletionCascades).        *)
(*   - A module is placed in a section that exists.                        *)
(* Nothing else changes the level of a section.                            *)
(***************************************************************************)
CONSTANTS
  Section, \* ids of sections
  Module,  \* slugs of modules
  Main,    \* what is above a main section
  Nowhere  \* the home of a module without a row

VARIABLES
  above, \* for each section that exists, the section it belongs to or Main
  fresh, \* ids that may still become a section
  home   \* the section of each module

catalogueVars == <<above, fresh, home>>

Existing == DOMAIN above
MainSections == {s \in Existing : above[s] = Main}

Init ==
  /\ Existing = {}
  /\ fresh = Section
  /\ home = [m \in Module |-> Nowhere]

Add(s, p) ==
  /\ s \in fresh
  /\ p \in MainSections \cup {Main}
  /\ above' = [c \in Existing \cup {s} |-> IF c = s THEN p ELSE above[c]]
  /\ fresh' = fresh \ {s}
  /\ UNCHANGED home

(* A creation that came to nothing: its id is spent.                        *)
Spoil(S) ==
  /\ fresh' = fresh \ S
  /\ UNCHANGED <<above, home>>

Remove(s) ==
  /\ s \in Existing
  /\ \A m \in Module : home[m] # s
  /\ above' = [c \in Existing \ {s} |-> IF above[c] = s THEN Main ELSE above[c]]
  /\ UNCHANGED <<fresh, home>>

Place(m, s) ==
  /\ s \in Existing
  /\ home' = [home EXCEPT ![m] = s]
  /\ UNCHANGED <<above, fresh>>

Clear(m) ==
  /\ home' = [home EXCEPT ![m] = Nowhere]
  /\ UNCHANGED <<above, fresh>>

Next ==
  \/ \E s \in Section, p \in Section \cup {Main} : Add(s, p)
  \/ \E S \in SUBSET fresh : Spoil(S)
  \/ \E s \in Section : Remove(s)
  \/ \E m \in Module : Clear(m) \/ \E s \in Section : Place(m, s)

Spec == Init /\ [][Next]_catalogueVars

===============================================================================
