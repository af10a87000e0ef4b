---------------------------- MODULE MCScopedAccess ----------------------------
(* A small instance of Menus for TLC.                                     *)
EXTENDS Menus, TLC

CONSTANTS s1, s2, s3, h1, h2

MCSection == {s1, s2, s3}
MCHandler == {h1, h2}

Symmetry == Permutations(MCSection)

(* One update edits the tree while another one runs access checks and menus *)
(* are drawn.  Enabling and disabling is left out, which only the menus     *)
(* read: it multiplies the states by five (MenusProofs covers it).          *)
EditorNext ==
  \/ /\ CreateStep(h1) \/ DeleteStep(h1)
     /\ Cascade
     /\ UNCHANGED <<cache, check>>
  \/ CheckStep(h2)
  \/ \E o \in Operator : Prompt(o) /\ UNCHANGED scopeVars
  \/ \E a \in Admin, s \in Section : Assign(a, s) \/ Revoke(a, s)
  \/ \E s \in Section : Expire(s)
  \/ Restart

EditorSpec == ScopedInit /\ [][EditorNext]_vars
===============================================================================
