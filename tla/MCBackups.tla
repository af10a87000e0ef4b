------------------------------- MODULE MCBackups -------------------------------
(* A small instance of Backups for TLC: two updates at a time beside the    *)
(* schedule.                                                                *)
EXTENDS Backups, TLC

CONSTANTS b1, b2, h1, h2

MCBackup == {b1, b2}
MCHandler == {h1, h2}

(* The backups are interchangeable, and so are the handlers.                *)
Symmetry == Permutations(MCBackup) \cup Permutations(MCHandler)
===============================================================================
