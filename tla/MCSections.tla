------------------------------ MODULE MCSections ------------------------------
(* Small instances of Sections for TLC.                                     *)
EXTENDS Sections, TLC

CONSTANTS s1, s2, s3, h1, h2

MCSection == {s1, s2, s3}
MCHandler == {h1, h2}

Symmetry == Permutations(MCSection) \cup Permutations(MCHandler)
===============================================================================
