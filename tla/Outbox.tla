-------------------------------- MODULE Outbox --------------------------------
(***************************************************************************)
(* What the notification pipeline promises (services/notifications.ts,     *)
(* services/queue.ts, workers/notification.ts), without rows, jobs,        *)
(* retries or processes:                                                   *)
(*   - the notifications of one call are recorded together and handed over *)
(*     to delivery together;                                               *)
(*   - what was handed over ends as done or as failed, once;               *)
(*   - done means that the person got the message at least once.           *)
(* A notification that was recorded and never handed over stays recorded.  *)
(***************************************************************************)
CONSTANTS
  Notification, \* ids of notifications
  Batches       \* the sets of notifications that one call queues

VARIABLES
  stage,  \* how far each notification has come
  reached \* notifications whose message a person has got

outboxVars == <<stage, reached>>

Stages == {"absent", "recorded", "queued", "done", "failed"}

Init ==
  /\ stage = [n \in Notification |-> "absent"]
  /\ reached = {}

Move(S, from, to) ==
  /\ \A n \in S : stage[n] = from
  /\ stage' = [n \in Notification |-> IF n \in S THEN to ELSE stage[n]]

Record(b) == Move(b, "absent", "recorded") /\ UNCHANGED reached

HandOver(b) == Move(b, "recorded", "queued") /\ UNCHANGED reached

Deliver(n) ==
  /\ stage[n] = "queued"
  /\ reached' = reached \cup {n}
  /\ UNCHANGED stage

Finish(n) == n \in reached /\ Move({n}, "queued", "done") /\ UNCHANGED reached

GiveUp(n) == Move({n}, "queued", "failed") /\ UNCHANGED reached

Settle(n) == Finish(n) \/ GiveUp(n)

Next ==
  \/ \E b \in Batches : Record(b) \/ HandOver(b)
  \/ \E n \in Notification : Deliver(n) \/ Settle(n)

Safe == Init /\ [][Next]_outboxVars

Spec == Safe /\ \A n \in Notification : WF_outboxVars(Settle(n))

===============================================================================
