----------------------------- MODULE MCSessionStore -----------------------------
(* A small instance of SessionStore for TLC.                                *)
EXTENDS SessionStore

CONSTANTS boss, anna

MCMember == {boss, anna}

===============================================================================
