------------------------------ MODULE MCSettings ------------------------------
(* A small instance of Settings for TLC: two types that a reset leaves      *)
(* active and one that it does not.                                         *)
EXTENDS Settings

CONSTANTS t1, t2, t3, h1

MCType == {t1, t2, t3}
MCDefaults == {t1, t2}
MCLanguage == {"ar", "en"}
MCHandler == {h1}
===============================================================================
