---------------------------- MODULE MCNotifications ----------------------------
(* A small instance of Notifications for TLC: one call queues two           *)
(* notifications at once.                                                   *)
EXTENDS Notifications

CONSTANTS n1, n2, h1

MCNotification == {n1, n2}
MCBatches == {{n1, n2}}
MCHandler == {h1}
===============================================================================
