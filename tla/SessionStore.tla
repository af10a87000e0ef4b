------------------------------ MODULE SessionStore ------------------------------
(***************************************************************************)
(* Sessions (middlewares/session.ts): ResilientRedisStorage with its       *)
(* fallback to memory and its reconnection, grammY's session middleware,   *)
(* the status and role check that follows it (middlewares/rbac.ts) and     *)
(* what updates do to accounts (handlers/users.ts, approvals.ts), with the *)
(* logout of a deactivated user, while Redis comes and goes and the        *)
(* process dies.                                                           *)
(*                                                                         *)
(*   - A chat has one session, read before its update is handled and       *)
(*     written as a whole afterwards, unless the handling throws.  Only    *)
(*     its role is modelled.                                               *)
(*   - A chat is private: its key is the id of its user.                   *)
(*   - Redis is written to disk (appendonly in docker-compose.yml): an     *)
(*     outage loses no keys.  A command that errors may have been done.    *)
(*   - grammY polls (one handler) or serves a webhook (several).           *)
(*   - Who may press which button, and the confirmation of a change of     *)
(*     status, are in Accounts; here anybody may change anybody else.      *)
(***************************************************************************)
EXTENDS Integers

CONSTANTS
  Member,     \* people who write to the bot
  Boss,       \* the member who is SUPER_ADMIN at first
  Role,       \* the enum Role of schema.prisma; an account may be a VISITOR's
  Handler,    \* updates that may be handled concurrently
  MaxUpdates, \* bound on updates
  MaxFaults   \* bound on outages of Redis and crashes together

ASSUME SessionAssumption ==
  /\ Boss \in Member /\ MaxUpdates \in Nat /\ MaxFaults \in Nat
  /\ {"VISITOR", "EMPLOYEE", "SUPER_ADMIN"} \subseteq Role /\ "none" \notin Role

VARIABLES
  redis,     \* the session:<id> keys
  memory,    \* the InMemoryStorage
  up,        \* Redis answers
  available, \* isRedisAvailable
  timer,     \* reconnectTimeout and the ping of its callback
  account,   \* role of the account of each member, "none" without one
  active,    \* members whose account is active
  task,      \* the update each handler is in
  late,      \* history: handlers at work whose sender's account changed meanwhile
  dismissed, \* history: members logged out with no update of theirs past the check
  updates,   \* updates so far
  faults     \* outages and crashes so far

stores == <<redis, memory>>
link == <<up, available, timer>>
accounts == <<account, active>>
history == <<late, dismissed>>
bounds == <<updates, faults>>
sessionVars == <<stores, link, accounts, task, history, bounds>>

Idle == [at |-> "idle"]

DefaultSession == "VISITOR"
NoSession == "none"
Sessions == Role \cup {NoSession}

Update == [at: {"get", "check", "work", "save", "set"}, who: Member, role: Role]
Switch == [at: {"activate", "deactivate", "del"}, who: Member, role: Role, target: Member]
Tasks == {Idle} \cup Update \cup Switch

TypeOK ==
  /\ redis \in [Member -> Sessions] /\ memory \in [Member -> Sessions]
  /\ up \in BOOLEAN /\ available \in BOOLEAN
  /\ timer \in {"none", "armed", "pinging"}
  /\ account \in [Member -> Role \cup {"none"}]
  /\ active \subseteq Member
  /\ task \in [Handler -> Tasks]
  /\ late \subseteq Handler /\ dismissed \subseteq Member
  /\ updates \in 0 .. MaxUpdates /\ faults \in 0 .. MaxFaults

Init ==
  /\ redis = [m \in Member |-> NoSession]
  /\ memory = [m \in Member |-> NoSession]
  /\ up = TRUE /\ available = TRUE /\ timer = "none"
  /\ account = [m \in Member |-> IF m = Boss THEN "SUPER_ADMIN" ELSE "none"]
  /\ active = {Boss}
  /\ task = [h \in Handler |-> Idle]
  /\ late = {} /\ dismissed = {}
  /\ updates = 0 /\ faults = 0

-----------------------------------------------------------------------------
(* ResilientRedisStorage                                                    *)

OrDefault(s) == IF s = NoSession THEN DefaultSession ELSE s

(* handleRedisError: the first error clears the flag and arms the timer.    *)
LoseRedis ==
  /\ available' = FALSE
  /\ timer' = IF available THEN "armed" ELSE timer
  /\ UNCHANGED up

Goto(h, place) == task' = [task EXCEPT ![h].at = place]
Finish(h) == task' = [task EXCEPT ![h] = Idle]
Reply(h) == task' = [task EXCEPT ![h] = [at |-> "save", who |-> @.who, role |-> @.role]]

PastCheck(m) == {h \in Handler : task[h].at \notin {"idle", "get", "check"} /\ task[h].who = m}

(* A handler leaves its work, having changed the accounts of S.             *)
Proceed(h, S) ==
  late' = {k \in Handler \ {h} :
             task[k].at = "work" /\ (k \in late \/ task[k].who \in S)}

Loaded(h, s) ==
  task' = [task EXCEPT ![h].at = "check", ![h].role = OrDefault(s)]

(* read: the flag is looked at when the command is sent.                    *)
Begin(h, m) ==
  /\ task[h] = Idle /\ updates < MaxUpdates
  /\ updates' = updates + 1
  /\ task' = [task EXCEPT ![h] =
       [at |-> IF available THEN "get" ELSE "check", who |-> m,
        role |-> IF available THEN DefaultSession ELSE OrDefault(memory[m])]]
  /\ UNCHANGED <<stores, link, accounts, history, faults>>

Get(h) ==
  /\ task[h].at = "get"
  /\ \/ up /\ Loaded(h, redis[task[h].who]) /\ UNCHANGED link
     \/ ~up /\ Loaded(h, memory[task[h].who]) /\ LoseRedis
  /\ UNCHANGED <<stores, accounts, history, bounds>>

ToMemory(m, s) == memory' = [memory EXCEPT ![m] = s]
ToRedis(m, s) == redis' = [redis EXCEPT ![m] = s]

(* write: again the flag first; memory takes what Redis is not asked for.   *)
Save(h) ==
  /\ task[h].at = "save"
  /\ IF available
       THEN Goto(h, "set") /\ UNCHANGED stores
       ELSE Finish(h) /\ ToMemory(task[h].who, task[h].role) /\ UNCHANGED redis
  /\ UNCHANGED <<link, accounts, history, bounds>>

Set(h) ==
  LET stored == ToRedis(task[h].who, task[h].role) IN
  /\ task[h].at = "set"
  /\ \/ up /\ stored /\ UNCHANGED <<memory, link>>
     \/ /\ ~up /\ LoseRedis /\ ToMemory(task[h].who, task[h].role)
        /\ stored \/ UNCHANGED redis
  /\ Finish(h)
  /\ UNCHANGED <<accounts, history, bounds>>

(* scheduleReconnect.  The backoff is over: the ping is sent.               *)
Fire ==
  /\ timer = "armed"
  /\ timer' = "pinging"
  /\ UNCHANGED <<stores, up, available, accounts, task, history, bounds>>

(* Fault: reconnectTimeout is not cleared, so a failed ping arms no timer.  *)
PingKeepsTimeout ==
  /\ timer = "pinging"
  /\ timer' = "none"
  /\ available' = up
  /\ UNCHANGED <<stores, up, accounts, task, history, bounds>>

Ping ==
  /\ timer = "pinging"
  /\ timer' = IF up THEN "none" ELSE "armed"
  /\ available' = up
  /\ UNCHANGED <<stores, up, accounts, task, history, bounds>>

-----------------------------------------------------------------------------
(* The update between its read and its write                                *)

Refused(m) == account[m] # "none" /\ m \notin active

(* Fault: the role is taken from the account before it is known to exist.   *)
CheckWithoutAccount(h) ==
  LET t == task[h] IN
  /\ t.at = "check"
  /\ IF Refused(t.who)
       THEN Finish(h)
       ELSE task' = [task EXCEPT ![h].at = "work", ![h].role = account[t.who]]
  /\ UNCHANGED <<stores, link, accounts, history, bounds>>

(* Fault: the role is only taken from the account when there is none yet.   *)
CheckKeepsRole(h) ==
  LET t == task[h] IN
  /\ t.at = "check"
  /\ IF Refused(t.who)
       THEN Finish(h)
       ELSE task' = [task EXCEPT ![h].at = "work",
              ![h].role = IF t.role = "VISITOR" /\ account[t.who] # "none"
                          THEN account[t.who] ELSE t.role]
  /\ UNCHANGED <<stores, link, accounts, history, bounds>>

(* lazySessionMiddleware, which sets a user id and logs what no property    *)
(* reads, and rbacMiddleware; its refusal throws, since ctx.t is only set   *)
(* later (bot/index.ts:88, 92): nothing is written.                         *)
Check(h) ==
  LET t == task[h] IN
  /\ t.at = "check"
  /\ IF Refused(t.who)
       THEN Finish(h)
       ELSE task' = [task EXCEPT ![h].at = "work",
              ![h].role = IF account[t.who] = "none" THEN @ ELSE account[t.who]]
  /\ UNCHANGED <<stores, link, accounts, history, bounds>>

(* A handler that changes no account is done.                               *)
Work(h) ==
  /\ task[h].at = "work"
  /\ Reply(h) /\ Proceed(h, {})
  /\ UNCHANGED <<stores, link, accounts, dismissed, bounds>>

(* What is thrown before the session is written leaves it unwritten: a      *)
(* query, the audit log or an answer that fails.                            *)
Throw(h) ==
  /\ task[h].at \in {"check", "work", "activate", "deactivate", "save"}
  /\ Finish(h) /\ Proceed(h, {})
  /\ UNCHANGED <<stores, link, accounts, dismissed, bounds>>

(* The role action of users.ts.                                             *)
ChangeRole(h, m, r) ==
  /\ task[h].at = "work"
  /\ m # task[h].who /\ account[m] # "none"
  /\ account' = [account EXCEPT ![m] = r]
  /\ Reply(h) /\ Proceed(h, {m})
  /\ UNCHANGED <<stores, link, active, dismissed, bounds>>

(* The upsert of approvals.ts, which also takes in one who has an account.  *)
Admit(h, m) ==
  /\ task[h].at = "work"
  /\ account' = [account EXCEPT ![m] = "EMPLOYEE"]
  /\ active' = active \cup {m}
  /\ dismissed' = dismissed \ {m}
  /\ Reply(h) /\ Proceed(h, {m})
  /\ UNCHANGED <<stores, link, bounds>>

(* The toggle_execute action of users.ts: look-up, update and logout.       *)
FindStatus(h, m) ==
  /\ task[h].at = "work"
  /\ m # task[h].who /\ account[m] # "none"
  /\ task' = [task EXCEPT ![h] =
       [at |-> IF m \in active THEN "deactivate" ELSE "activate",
        who |-> @.who, role |-> @.role, target |-> m]]
  /\ Proceed(h, {})
  /\ UNCHANGED <<stores, link, accounts, dismissed, bounds>>

Activate(h) ==
  /\ task[h].at = "activate"
  /\ active' = active \cup {task[h].target}
  /\ dismissed' = dismissed \ {task[h].target}
  /\ Reply(h) /\ Proceed(h, {task[h].target})
  /\ UNCHANGED <<stores, link, account, bounds>>

Deactivate(h) ==
  /\ task[h].at = "deactivate"
  /\ active' = active \ {task[h].target}
  /\ Goto(h, "del") /\ Proceed(h, {task[h].target})
  /\ UNCHANGED <<stores, link, account, dismissed, bounds>>

Dismiss(m) ==
  dismissed' = IF m \in active \/ PastCheck(m) # {} THEN dismissed ELSE dismissed \cup {m}

(* Fault: the deletion goes to the storage, which asks memory in an outage. *)
LogoutInStorage(h) ==
  LET m == task[h].target IN
  /\ task[h].at = "del"
  /\ IF available
       THEN ToRedis(m, NoSession) /\ UNCHANGED memory
       ELSE ToMemory(m, NoSession) /\ UNCHANGED redis
  /\ Reply(h) /\ Dismiss(m)
  /\ UNCHANGED <<link, accounts, late, bounds>>

(* redis.del, around the storage: its error ends the update.                *)
Logout(h) ==
  LET m == task[h].target
      deleted == ToRedis(m, NoSession)
  IN
  /\ task[h].at = "del"
  /\ \/ up /\ deleted /\ Reply(h) /\ Dismiss(m)
     \/ /\ ~up /\ Finish(h) /\ UNCHANGED dismissed
        /\ deleted \/ UNCHANGED redis
  /\ UNCHANGED <<memory, link, accounts, late, bounds>>

-----------------------------------------------------------------------------
(* The surroundings                                                         *)

(* 24 hours without an update of the chat                                   *)
Expire(m) ==
  /\ redis[m] # NoSession
  /\ ToRedis(m, NoSession)
  /\ UNCHANGED <<memory, link, accounts, task, history, bounds>>

Outage ==
  /\ up /\ faults < MaxFaults
  /\ up' = FALSE
  /\ faults' = faults + 1
  /\ UNCHANGED <<stores, available, timer, accounts, task, history, updates>>

Return ==
  /\ ~up
  /\ up' = TRUE
  /\ UNCHANGED <<stores, available, timer, accounts, task, history, bounds>>

Crash ==
  /\ faults < MaxFaults
  /\ faults' = faults + 1
  /\ memory' = [m \in Member |-> NoSession]
  /\ available' = TRUE /\ timer' = "none"
  /\ task' = [h \in Handler |-> Idle] /\ late' = {}
  /\ UNCHANGED <<redis, up, accounts, dismissed, updates>>

-----------------------------------------------------------------------------
StorageStep(h) == Get(h) \/ Save(h) \/ Set(h)

HandlingStep(h) ==
  \/ Check(h) \/ Work(h) \/ Throw(h)
  \/ \E m \in Member : \/ Admit(h, m) \/ FindStatus(h, m)
                       \/ \E r \in Role : ChangeRole(h, m, r)
  \/ Activate(h) \/ Deactivate(h) \/ Logout(h)

ReconnectStep == Fire \/ Ping

Next ==
  \/ \E h \in Handler :
       (\E m \in Member : Begin(h, m)) \/ StorageStep(h) \/ HandlingStep(h)
  \/ ReconnectStep
  \/ \E m \in Member : Expire(m)
  \/ Outage \/ Return \/ Crash

(* The event loop runs every timer, and a ping gets its answer or its error *)
(* (ioredis gives up after maxRetriesPerRequest).  Updates need not come,   *)
(* nor go on.                                                               *)
Spec == Init /\ [][Next]_sessionVars /\ WF_sessionVars(ReconnectStep)

-----------------------------------------------------------------------------
(* A handler decides on the role its sender has now, whatever store the     *)
(* session comes from and however old it is, unless another update changes  *)
(* the account while this one is at work (rbac.ts:40; settings.ts:36 and    *)
(* others ask ctx.session.role).                                            *)
RoleIsCurrent ==
  \A h \in Handler \ late :
    LET t == task[h] IN
    t.at = "work" /\ account[t.who] # "none" =>
      t.role = account[t.who] /\ t.who \in active

(* The session of a deactivated user is gone from Redis for as long as he   *)
(* stays deactivated, whatever he writes, whoever else is handled at the    *)
(* same time and whether or not Redis fails (users.ts:128, rbac.ts:28).     *)
(* The one exception is an update of his that is past the check when the    *)
(* key is deleted, which a webhook allows: it writes its session back,      *)
(* although spec.md:170 promises that it is invalidated immediately.        *)
LoggedOut == \A m \in dismissed : redis[m] = NoSession

(* Once Redis stays up the sessions go back to it for good: no order of     *)
(* errors, timers and pings leaves the storage in memory (138-156).         *)
Recovers == <>[]up => <>[]available

===============================================================================
