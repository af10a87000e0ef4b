# Al-Saada Smart Bot: a TLA+ development of the platform core

This directory keeps the formal model of the Telegram bot in `packages/core`:
TLA+ modules translated from the source, the TLC instances that check them, and
theorems with proofs that TLAPS checks. `PROJECT.json` maps each definition to
the lines of code it stands for; this file says what the models mean, what the
runs and the proofs show, and what is left out.

Paths such as `users.ts:158` are below `packages/core/src/` (`bot/handlers/`,
`services/` and so on) unless they say otherwise.

## 1. The system

A single Node.js process runs grammY over Telegram updates, Prisma over
PostgreSQL, and ioredis over Redis. `main.ts` starts it in one of two modes:

* **long polling**: grammY handles one update after the other;
* **webhook**: each HTTP request is an update, and handlers interleave at every
  `await`.

Everything that matters for correctness happens at those `await` points. The
code has no locks; it relies on database constraints, on a few interactive
transactions, which Prisma runs at READ COMMITTED, and on Redis keys.

### Components

| Component | State | Operations | Works with | Modelled |
|---|---|---|---|---|
| User administration (`handlers/users.ts`, `middlewares/rbac.ts`) | `users`; Redis `confirm:user_toggle:*` | open the list, change a role, confirm / withdraw / execute a switch of `is_active` | the session store (a deactivation deletes the session), the scopes | yes |
| Onboarding (`conversations/join.ts`, `services/join-requests.ts`, `handlers/start.ts`) | the conversation in the session; `join_requests`; `users` | `/start`, `start_join`, answer, cancel, confirm; bootstrap of the first SUPER_ADMIN or a request | notifications, audit log, the users table | yes |
| Approval (`handlers/approvals.ts`) | `join_requests`, `users`, audit log | approve, reject | notifications, users table | yes |
| Section tree (`services/sections.ts`, `handlers/sections.ts`) | `sections`, `modules`, `session.createSubSection` | create, delete, enable/disable, edit, re-parent | module discovery, scoped access | yes |
| Scoped access (`services/rbac.ts`, `services/admin-scope.ts`) | `admin_scopes`; Redis `section:ancestry:*` | assign, revoke, `canAccess`, `canPerformAction` | section tree | section scopes only |
| Menus (`handlers/menu.ts`, `menus/sections.ts`) | none | main menu, menu of a section, modules of a section | scoped access, section tree | what is offered, not how |
| Session store (`middlewares/session.ts`, `bot/index.ts`, `cache/redis.ts`) | Redis `session:*`, a map in memory, the state of the link, a timer | read before an update, write after it, fall back, reconnect; refresh of role and status | every handler | yes |
| Notification pipeline (`services/notifications.ts`, `services/queue.ts`, `workers/notification.ts`, `bot/middleware/auto-retry.middleware.ts`, `cron/notification-cleanup.ts`) | `notifications`, BullMQ jobs | store and queue, deliver, retry, recover stalled jobs, clean up | onboarding, approval, shutdown | yes |
| Maintenance mode (`services/maintenance.ts`, `handlers/maintenance.ts`, `middlewares/maintenance.ts`) | Redis `system:maintenance:*` | switch, gate | the middleware chain | yes |
| Settings (`services/settings.ts`, `handlers/settings.ts`) | Redis `system:*` | switch one notification type, all of them, language | backup | yes |
| Backup (`bot/services/backup.service.ts`, `bot/handlers/backup.ts`, `cron/backup-schedule.ts`) | `backup_metadata`, files, `session.pendingRestore` | create, restore behind a confirmation, clean up, schedule | settings, session | yes |
| Lifecycle (`main.ts`, `utils/shutdown.ts`, `server/health.ts`) | connections | start, stop | all | shutdown and restart |
| Module discovery (`module-loader.ts`, `services/modules.ts`) | `modules` | load, upsert, clear | section tree | the upsert |
| Audit log (`services/audit-logs.ts`) | `audit_logs` | append, browse | all handlers | where something depends on it |
| Module conversations (`bot/middleware/draft.ts`, `packages/module-kit`) | drafts in Redis, the conversation | save a draft, resume, save | session store | no |
| Error alerts (`bot/monitoring/`) | a throttle in memory | alert | users | no |
| Rate limit, sanitising | counters of libraries | | middleware chain | no |
| Validators (`packages/validators`) | none | national id, phone | onboarding | no |

### What is hard about it

* **Check, then act.** Nearly every rule is a read in one statement and a write
  in a later one: the last SUPER_ADMIN (`users.ts:158`), the parent of a new
  sub-section (`sections.ts:98`), the modules of a section that is being deleted
  (`sections.ts:198`), the number of SUPER_ADMINs before a bootstrap
  (`join-requests.ts:62`), a phone number asked for minutes before it is stored
  (`join.ts:144`).
* **Two stores.** A confirmation is a Redis key that guards a PostgreSQL update;
  a cached ancestry outlives the rows it was computed from by up to 24 hours.
* **Several statements for one event.** An approval is a transaction, a
  notification and an audit entry; a notification is a row and a job; a backup
  is a row and a file. The process or a service can fail in between.
* **A store that comes and goes.** While Redis is away, sessions live in memory;
  both stores keep what they were last given.
* **Work that is done twice.** A worker that dies after `sendMessage` and before
  the job is completed leaves a job that another worker takes for stalled, and
  within one attempt the API transformer repeats a call whose answer was lost.
* **Error paths that fail.** The catch block of a backup is a database statement
  of its own; the deletion of a file swallows its error and goes on.
* **A database that restores itself.** The rows that describe the backups are
  part of every dump.
* **Foreign keys decide.** What a deletion does to sub-sections, modules and
  scopes is in three `ON DELETE` rules of the migrations, and differs for each.
* **Old buttons.** Telegram keeps a message on screen after its reader lost the
  role it was rendered for; a callback must be expected at any later time.

`PROJECT.json` lists the hazards one by one, each at its line, with the
properties that cover it or a note that says why none does.

### What makes each component correct

* Users: `user:role` never demotes the last active SUPER_ADMIN (a switch of
  `is_active` may deactivate it: `users.ts:120` checks nothing of the kind); one
  confirmation is one switch.
* Onboarding and approval: an approval is all or nothing; a decision is taken
  once; no two accounts share a phone or a national id; the bootstrap creates
  the first SUPER_ADMIN and never promotes an account; every decision is
  audited; a newcomer's form becomes a bootstrap or a request.
* Sections: two levels, no dangling parent, no cycle, no module without section;
  a deletion does with the sub-sections what its documentation says.
* Scopes: a check gives the answer that the tables give, whatever is cached; a
  revoked scope is gone.
* Menus: the three screens and the check behind them agree; every authorized
  module can be reached.
* Session store: a handler decides on the role and the status of the moment; a
  logout lasts; an outage ends.
* Notifications: a stored and queued notification ends as done or failed; done
  means at least one copy, and there is a bound on the copies; notifications of
  one call share their fate.
* Settings and maintenance: the menu after a press and the answer to it agree;
  every press counts.
* Backup: a completed backup can be restored until it is past its retention; no
  file is forgotten; a final status is final.

## 2. Modules

```
Accounts                                Catalogue (INSTANCE ... WITH)
   |    \                                  |
   |     AccountsProofs                 Sections ------ MCSections
   |                                       |    \
   |   Admission (INSTANCE)                |     SectionsProofs
   |  /                                    |
JoinRequests -- MCJoinRequests          ScopedAccess
        \                                  |
         JoinRequestsProofs             Menus --------- MCScopedAccess
         (with AccountsProofs)              \
                                             MenusProofs (with SectionsProofs)

Notifications -- MCNotifications        SessionStore -- MCSessionStore
   |      \                                       \
   |       NotificationsProofs                     SessionStoreProofs
   |
  Outbox (INSTANCE ... WITH)            Backups -- MCBackups
                                            \
                                             BackupsProofs
Settings ------- MCSettings
        \
         SettingsProofs
```

`JoinRequests` composes onboarding and approval with the administration of the
same users table (its `AdminStep` is a handler step of `Accounts`), and
`ScopedAccess` composes the access checks with the section tree (its `EditStep`
is a step of `Sections` with the foreign key of `admin_scopes` added). `Menus`
adds the screens to the access checks. Three modules are abstract
specifications, which say what a caller may rely on, each operation in one step:
`Outbox` of the notification pipeline, `Catalogue` of the section service, and
`Admission` of onboarding, review and user administration together.
`Notifications`, `Sections` and `JoinRequests` are shown to implement them, by
TLC on the instances and by proof for all others.

Conventions common to all of them:

* `Handler` is the set of updates that can be in flight: one handler is long
  polling, two or more are webhook mode. A handler runs one update: what it
  does next is `task[h].at` (or `job[h].at`, `check[h].at`), named for the
  statement to come.
* One statement of PostgreSQL or Redis is one step. The first statement of an
  update is taken together with its arrival and with `rbacMiddleware`. The last
  statement of an interactive transaction is taken together with its commit, so
  nothing is ever seen uncommitted and a crash leaves nothing to undo; earlier
  statements are separate steps, as READ COMMITTED allows.
* `Crash` / `Restart` ends all running handlers; tables, Redis keys and files
  keep their values, the memory of the process is lost.
* The `Fault` operators (`ToggleDelKeepsKey`, `ClashIgnored` ...) are the
  seeded bugs listed under `mutants`. No specification uses them.

### Accounts

`role` and `isActive` are the `users` rows (`NoRow` for an id without one).
`confirm` is the set of `confirm:user_toggle:<admin>:<target>` keys. `keyboards`
remembers which buttons a chat may still show. `/users` is for SUPER_ADMINs, but the
callback `menu-users` (`bot/index.ts:171`) and a command such as `/users@bot` reach
`usersHandler` without a look at the role, so anybody who is not halted may open the
list; only a SUPER_ADMIN is shown the promotion to SUPER_ADMIN, and no handler of a
callback checks the role again. `RoleFind`, `RoleCount`, `RoleUpdate` are the three
statements of the transaction at `users.ts:155`; the lookup is skipped when the new
role is SUPER_ADMIN. `ToggleDel`, `ToggleFind`, `ToggleUpdate` follow the
confirmation check of `users.ts:108`; after a deactivation `ToggleLogout` is the
deletion of the session, which a crash can prevent. `unspent` is a history variable:
confirmations pressed and not used by an execute. The rows may have been filled
outside the bot (seed scripts, an older database), so `Seed` is a parameter.
`Accounts` has no run of its own: the runs of `JoinRequests`, which extends it, take
all its steps on the same table.

### JoinRequests

The questions of `joinConversation` are one answer (`Answer`), an `Identity` that
stands for the phone and the national id, both unique in `users` and both looked up
when asked for. The conversation's stored state is `form`, which a deactivation
deletes. A command does not wipe it: `bot/index.ts:112` empties
`session.conversations`, and the plugin keeps `session.conversation`, so a command
that is sent while a form is open is one more answer. `Start` therefore needs
`NoForm`. One thing is left out: at the confirmation, which waits for a button, a
second `start_join` or `/start` lets the plugin enter the same conversation once
more beside the one that waits. An update of a deactivated user changes nothing:
`rbacMiddleware` assigns a new session (`middlewares/rbac.ts:32`), but its refusal
calls `ctx.t` before the i18n middleware, registered later in `bot/index.ts`, has
set it; the error leaves the session unwritten. The refusal of the maintenance gate
(`middlewares/maintenance.ts`) stands before i18n too and throws the same way.
`Submit*` are the statements of `createOrBootstrap`, `Review*` those of
`approvalsHandler`. An error that leaves a conversation leaves the session
unwritten, so `Fail` keeps the form and the person can confirm again. `approve:` and
`reject:` are modelled for every user with a row that is not halted: no handler
checks a role, and since nothing in the code renders these buttons, nothing narrows
down who has them either. `QueueTakesBigInt` selects between the two behaviours of a
queue that is given a payload with a BigInt; BullMQ serialises with
`JSON.stringify`, which is FALSE.

`Admission` has no conversations, confirmations or transactions: a request is
filed for an account with an identity nobody has, decided once, and an approval
enrolls the applicant in the same step; the founder gets an account while there
is no SUPER_ADMIN; a SUPER_ADMIN is demoted while another one is active. The
mapping keeps `role`, `isActive`, `identity` and `requests` and forgets the rest
(`KeepsAdmission`). What it says, in short, is that every lookup still holds when
the code acts on it, which takes one update at a time. `Approve` overwrites the
role of whoever applied, a SUPER_ADMIN's too, as the upsert of
`approvals.ts:46` does.

### Sections

`live`, `parent` and `enabled` are the `sections` rows; `used` the ids given out
(a cuid is never given out twice); `home` and `dormant` the `modules` rows;
`choice` the parent remembered in the session by `section:add:<id>`. The two
foreign keys are part of the steps that meet them: `CreateInsert` fails when the
parent is gone, `DeleteRow` is refused while a module refers to the section and
sets `parent` of the children to null. `Next` is what the bot can do.
`ServiceNext` adds `sectionService.update` with a new parent: its only caller,
the handler of `section:set_parent:` (`bot/index.ts:216`), is registered behind
the handler of `^section:` (`bot/index.ts:201`), which takes every such update
first. It is modelled because the service offers it. Likewise no keyboard
renders `section:toggle:`, `section:delete:` and `section:add:<id>` for every
section; the handlers are modelled as registered.

`Catalogue` is the tree without handlers: a section is added at the main level or
under a main section, goes only when it has no modules, leaves main sections
behind, and its id does not come back; a module is placed in what exists. The
mapping (`KeepsCatalogue`) reads `above` off the rows; an id is `fresh` until its
row is written or its creation ends without one (`Unused`), so a creation that
fails or dies spends ids and does nothing else (`Spoil`).

### ScopedAccess

`scopes[a, s]` counts the `admin_scopes` rows of an admin for a section:
`assignScope` looks for a row whose `module_id` is the text `'none'`, finds none
and inserts another one with null. `cache` is `section:ancestry:<id>`. `check`
is an access check in progress: `canAccess` reads the scopes before the
ancestry, `canPerformAction` after it; both fill the cache on a miss, with one
lookup per level. Role tables of module permissions and module-scoped rows,
which no handler assigns, are left out. `loadModules` is not called by
`main.ts`, so today only services reach the two checks with a section.

### Menus

Three screens work out by themselves what a person may see: the main sections
(`MainMenu`), the sub-sections of one (`SubMenu`), and whether the modules of a
section are shown (`Opens`). They read tables only; `canPerformAction` reads the
cached ancestry. A person is a role and the sections of its scopes; the modules
that the loader holds are given as the set of sections that have one.

### Notifications and Outbox

`row` and `job` are the two stores of one notification; `queueBulkNotifications`
writes its rows in one `$transaction` of creates and then its jobs in one `addBulk`,
with a step in between (`StoreRows`, `AddJobs`, and their errors). A job follows
BullMQ 4.18.3: an attempt is counted when it starts (`Take`); a failed attempt
comes back after a delay until `MaxAttempts`; the job of a worker that went away
is found stalled and runs again, once (`MaxStalls`). `Send` is one `sendMessage` of
the worker, which passes the transformer of `auto-retry.middleware.ts`: it makes up
to `Calls`, one and `MaxRetries` more, any number of which may arrive, whether an
answer comes in the end or none. This takes `maxRetryAttempts` as a bound on all
repetitions of a call, as the option is described; what the library does inside is
not modelled. `phase` is the shutdown of `utils/shutdown.ts`, which
closes the bot, the worker and the queue in that order; a crash may come at any
time. `Cleanup` is the nightly deletion of old rows, whatever their job does.

`Outbox` says what a caller may rely on: recorded together, handed over
together, and then done (the person got it) or failed, once. `Promise` is the
refinement mapping: the stage of a notification is read off its row and its job.
A notification that was recorded and never handed over stays so: no code looks
for rows without a job.

### Settings

`active` is the Redis set of active notification types, whose empty value means
all of them (`Effective`). Every Redis command is a step: a toggle looks in the
handler, looks again in the service, writes, and answers; the buttons for all
types write one type after the other, so a crash leaves half of them. The
maintenance switch is read, written and entered into the audit log in three
steps; `Gate` is the middleware, and an update that passed it is at `work`. No
property reads `language`, which is kept because it shares the handlers.

### SessionStore

`redis` and `memory` are the two stores of `ResilientRedisStorage`; `available`
is its own belief, `up` the truth, `timer` the reconnection. Of a session only the
role is kept. An update reads its session (`Get`), has its role and status
refreshed from the account (`Check`), works, and writes the whole session back
(`Set`); an error of Redis moves the storage to memory and arms the timer. A
session found in neither store is a new one. What an update may do to an account
is what the code can: `ChangeRole` (`users.ts:143`), `Admit`, the upsert of an
approval (`approvals.ts:46`), which also brings a deactivated account back, and
the switch of `is_active` in its three statements, `FindStatus` (`users.ts:115`),
`Activate` or `Deactivate` (`:121`), and `Logout`, the `redis.del` of `:128`, which
goes around the storage. No handler of these callbacks checks the role of its
sender, so anybody may take these steps about anybody else; the check that nobody
switches or changes himself (`:72`, `:147`) is a guard. The confirmation is in
`Accounts`. `Throw` is an update that ends in an error or a refusal before its
session is written: grammY then does not write it. The keys survive an outage
(`appendonly` in `docker-compose.yml`), the memory does not survive a crash.

Two variables are history: `late` holds the handlers at work whose sender's account
was changed meanwhile by another update, and `dismissed` the members that were logged
out while none of their updates was past the check.

### Backups

`row` and `file` follow `createBackup` statement by statement (`Mark`, `Open`,
`Stream`, `Seal`, `Complete`), each of which may throw into the catch block, whose
own update may throw as well (`Fail`); a statement that errors has not been done.
`snapshot` is what the dump says about `backup_metadata` itself, taken when
`pg_dump` starts. A restore asks (`AskRestore`), is confirmed by the keyword in a
later update (`Confirm`), decrypts and applies the dump: `Copied` is the effect of
its COPY on `backup_metadata`, one primary key clash stops it, and `psql` goes
on with the next table. The cleanup deletes the file and then the row of each
backup that is past its retention (`Age`); a file that cannot be deleted stays
while its row goes (`backup.service.ts:231-237`), and `stuck` remembers it. `lost`
remembers the rows in progress that nobody works on: after a crash, after a failure
that could not be recorded, and after a restore that brought such a row back.
`Cron` is an actor beside the handlers: its schedule runs in polling mode too.

The decrypted file of a restore is not modelled. It is written at
`backup.service.ts:180`, outside the `try` whose `finally` removes it, so that a
write that fails half-way, a failed unlink and a crash leave plaintext in the backup
directory, and nothing removes it later.

## 3. Runs

| Run | Instance | Properties | Shows |
|---|---|---|---|
| `join_polling` | 2 users, at most one account at startup, 1 identity, 2 requests, 1 handler, onboarding, review and user administration | `TypeOK`, `ConfirmationUsedOnce`, `IdentityUnique`, `KeepsAdmission` | With one update at a time the code implements `Admission`: what a form, a count, a review or a demotion looked up still holds when it writes, crashes included; no confirmation is used twice |
| `join_webhook` | 2 SUPER_ADMINs at startup, 2 identities, 2 handlers | `ChecksHoldAtWrite` (violated) | Two SUPER_ADMINs demote each other and none is left |
| `join_newcomer` | 1 handler | `NewcomerIsHeard` (violated) | The request of a person without account violates the foreign key |
| `sections_bot` | 3 sections, 1 module, 2 handlers | `TypeOK`, `TwoLevels`, `KeepsCatalogue` | Concurrent creation and deletion, with modules coming and going, implement `Catalogue`: no module is left without its section, and the tree keeps two levels |
| `sections_cascade` | 3 sections, 1 handler | `DeletionCascades` (violated) | The sub-section of a deleted main section stays and becomes a main section |
| `scopes` | 3 sections, 1 admin, one handler edits, one checks | `ScopedTypeOK`, `MenuAgreesWithCheck`, `AuthorizedIsReachable`, `NoStaleGrant`, `ScopeIsInherited` | A 24-hour cache that no edit drops gives right answers, because the bot never moves a section under another one and ids are not reused; menus and checks agree |
| `notifications` | 1 call with 2 notifications, 2 attempts of 2 calls each, 1 stall, 2 stops | `TypeOK`, `CopiesBounded`, `RecordedBeforeQueued`, `EveryJobEnds`, `KeepsPromise` | The pipeline implements `Outbox`, liveness included; no sequence of errors and crashes sends more copies than the nested retries allow or leaves a job behind |
| `settings` | 3 types, 1 handler, 3 switches | `TypeOK`, `MenuAfterPress`, `EverySwitchCounts` | With one update at a time the menu follows the presses and every press on the maintenance switch counts, crashes between any two Redis commands included |
| `settings_off` | the same | `ButtonsDoWhatTheySay` (violated) | After the reset a type is off |
| `backups` | 2 backups, 2 handlers and the schedule, 1 crash, errors of any statement | `TypeOK`, `YoungIsKept`, `FilesHaveRows`, `InProgressIsWorkedOn`, `StatusIsFinal` | Backups, restores and a cleanup at once lose no young backup and forget no file that could be deleted |
| `backups_exitcode` | the same | `CompletedIsWhole` (violated) | A `pg_dump` that breaks off ends as a completed backup |
| `sessions` | 2 members, 3 roles, 2 handlers, 3 updates, 2 faults | `TypeOK`, `RoleIsCurrent`, `LoggedOut`, `Recovers` | Through outages and crashes, with two updates at once, a handler decides on the role of the moment, a logout lasts, and the storage goes back to Redis |

The five runs marked *violated* check a sentence that the repository says about
itself (quoted under `findings`) and TLC finds the behaviour that contradicts it.
Two of their properties have several parts, and TLC stops at the first trace; each
part was checked by itself as well and is violated by itself:

* `ChecksHoldAtWrite`: `DemotionsAreAtomic` (the trace of the run),
  `DecisionsAreAtomic` (an approval and a rejection of one request both commit) and
  `BootstrapsAreAtomic` (somebody becomes SUPER_ADMIN between the count of a
  bootstrap and its insert).
* `ButtonsDoWhatTheySay`: the reset leaves a type off (the trace of the run);
  'Disable All' leaves the empty set, which means all; a type that is answered as
  disabled is on when it was the last one.

`CHECK_DEADLOCK FALSE` is set where the system may stop: when a bound is used
up, when no section or backup id is left, when the users table is empty, or when
every notification has ended. `settings` never stops, and its deadlock check is on.

### Bounds and why they are enough

* Two handlers: every race in the modelled code is between one reader-writer and
  one interferer. More handlers are covered by the proofs where there is one.
* Two users in `JoinRequests`: the newcomer, who is also
  `INITIAL_SUPER_ADMIN_ID`, and a second one, with or without an account at
  startup. `GrantableRoles` keeps one role that counts and one that does not, and
  promotions lead to two SUPER_ADMINs. `MaxRequests = 2` gives two
  requests of one person or one of each. One identity in `join_polling` is the
  worst case for a clash: whoever fills in a form asks for the same phone; a second
  identity adds forms that do not meet. `IdentityUnique` needs no limit on the
  updates at once: it is proved for any number of handlers and identities.
* Three sections: a chain of three is the smallest violation of two levels, and
  a set of three is the smallest that allows a parent, its child and a
  bystander. Ids are used up by creation, so a section may be deleted and
  another one created in its place, which is the case that matters for stale
  ids. `MaxDepth = 10` is the code's own constant.
* `MaxRows = 1`: the duplicate rows of `assignScope` cannot change a verdict.
* Two notifications in one call: the smallest batch that can be torn apart.
  `MaxStalls = 1` is BullMQ's number. `MaxAttempts = 2` and `MaxRetries = 1` are
  smaller than the code's 3 and 3: they give a first and a last attempt and a call that
  is repeated, and the theorems hold for all numbers. `MaxStops = 2` lets the process
  die, come back and die during the recovery. The calls of different batches share
  only the worker.
* Three notification types: two that a reset leaves active and one that it does
  not, so that a set can be empty, full, the defaults, or none of these.
* Two backups: one in the making or being restored while the other is cleaned up
  or named in its dump. `MaxStops = 1`: a crash loses all tasks, and what it leaves
  is the state the second run of everything starts from.
* Two members, either of whom may deactivate or change the other; `MaxFaults = 2`
  allows an outage, a recovery and an outage, or an outage and a crash while sessions
  are in memory. `MaxUpdates = 3` allows two updates at once and one before or after
  them: a session that is stored, an update that changes the account, and one of the
  same member beside it or later. The theorems on `RoleIsCurrent` and `LoggedOut` have no
  bound.
* In `scopes` no section is disabled (`enabled` is read by the menus only and would
  multiply the states by five); the theorems about `Menus` cover disabling.
* Symmetry is declared only over constants that no definition tells apart, and
  only for safety properties.

### Fairness

Handlers are not assumed fair where nothing retries them: Telegram buttons are
pressed at will, and a process that dies takes its handlers along. Liveness is
stated for two components, under weak fairness only:

* `Notifications`: of the attempts of a job and its return after a delay or a stall
  (BullMQ polls for jobs and checks for stalled ones on a timer), of the steps of
  the worker and of a shutdown that has begun (each call of `utils/shutdown.ts`
  returns or throws, and both ways end in `process.exit`), and of the restart
  (`restart: unless-stopped` in `docker-compose.yml`). Nothing is assumed of the
  Telegram API: an attempt may fail every time. Callers are not fair either, so
  `KeepsPromise` does not promise that what was recorded is handed over, and the
  code does not keep such a promise.
* `SessionStore`: of the steps of the reconnection, a timer that the event loop runs
  and a ping that gets its answer or an error from ioredis (`maxRetriesPerRequest`).
  Nothing is assumed of Redis: `Recovers` starts from a Redis that stays up. Nothing
  is assumed of the updates either.

### Properties that hold in one mode only

`KeepsAdmission` takes one update at a time; what two at once do to it is the run
`join_webhook`. `ConfirmationUsedOnce` fails with two handlers: two executes can both
read the key before one deletes it (`users.ts:106-113`). FR-012's "one pending request"
is not enforced for `start_join`, which enters the conversation without the
check of `start.ts:38`. `TwoLevels` fails under serial re-parenting, because
`update` does not ask whether the moved section has children, and `Acyclic`
under concurrent re-parenting; re-parenting is out of the bot's reach today, is part
of `ServiceSpec` only, and is proved about and not run. These are
recorded here and not as runs, since no text of the repository promises them
for that mode.

`MenuAfterPress` and `EverySwitchCounts` need one update at a time: two presses read
the set or the switch before either writes. That a closed bot serves nobody but a
SUPER_ADMIN is no property here: with one update at a time it is what `Gate` says, and
with two an update that passed the gate is still at work when the bot is closed.

`RoleIsCurrent` and `LoggedOut` hold for any number of updates at once, with the
exception that each of them names. A role that another update changes while a handler
is at work is not seen by it. And an update that is past the check when its sender
is deactivated writes its session back after `redis.del`, against spec.md:170 ("The
user's Redis session MUST be invalidated immediately upon deactivation"): without the
exception TLC finds this with two handlers. What comes back is refused by
`rbacMiddleware` at the next update. With one update at a time nobody is past the check
but the admin, so that the exception is empty.

The properties of `Notifications` and `Backups` hold with any number of handlers.

### Divergences met while modelling

Besides the `findings`, the models show the following. They have no run of
their own: the models behave this way, and the properties above are stated so
that they are true beside it.

* A review writes no audit entry: the payload of its notification holds a BigInt,
  which `JSON.stringify` refuses, and `logAction` comes after it
  (`approvals.ts:100-140`, FR-026). `QueueTakesBigInt` is the model's switch.
* Approving a leftover request of somebody who is SUPER_ADMIN by now makes that
  person an EMPLOYEE.
* `revokeScope` deletes rows whose `module_id` is the text `'none'`
  (`admin-scope.ts:65`); `assignScope` stores null, so a scope cannot be revoked by
  the bot (FR-017).
* Pressing one type while the set is empty, and every type shows as on, adds it to
  the set: it stays on and all others go off (`services/settings.ts:54-60`). The
  answer is that it was enabled.
* Deactivating the last active SUPER_ADMIN is possible for another admin
  (`users.ts:120`); only `user:role` counts.
* What was written to memory during an outage is neither copied to Redis nor
  dropped: Redis' older session is read after the recovery, and at the next outage
  the older one of the memory comes back, a `pendingRestore` included. Memory has
  no 24-hour limit.
* The refusal of a deactivated user throws (`ctx.t` is set later in the chain), so
  the new session assigned at `rbac.ts:32` is never written, and the answer that
  spec.md:170 asks for is not given. The refusals of `rbac.ts:53` and `:67` and of the
  maintenance gate throw for the same reason.
* A restore can leave the decrypted dump in the backup directory (see Backups above).
* The cleanup may delete the backup that is being restored; the restore then brings
  its row back, as `in_progress` and without its file. A restore into tables that
  are not empty fails per table and is reported as a success. The age alone decides
  what the cleanup deletes.
* `main.ts` never calls `loadModules`, and `subscribeToUpdates` of the maintenance
  service has no caller.

## 4. Proofs

`tlapm` checks every step of the eight modules `*Proofs`. `Polling` is the
assumption that there is one handler.

**Accounts** (any finite set of users, any table at startup):

* `AccountsTypeCorrect`: types, for any number of handlers.
* `OneSwitchPerConfirmation`: assumes `Polling`.
  `ConfirmationUsedOnce` alone is not inductive: a key pressed and withdrawn is
  no longer in `confirm` but still unspent, and a key may be pressed again while
  an execute is under way. `ConfirmInv` adds that every usable key is unspent
  and that a handler which deleted its key is not accompanied by a second one.
* The lemma `CountStep`, used by the refinement below: `CountHolds` says that
  a demotion that has passed the count leaves another active SUPER_ADMIN; it
  holds until the update because no other handler changes the table. The count
  itself is a cardinality, taken apart with the lemmas on finite sets.

**Sections** (any sets of sections, modules, operators and handlers, with
crashes anywhere):

* `TypeCorrect`, `EveryModuleHasASection` (`ModulesHaveSections`) and
  `ParentsAreNeverGone` (`ParentsExist`) for `ServiceSpec`, re-parenting included.
  The last two rest on the foreign keys, which act in one step with the
  deletion.
* `TreeHasTwoLevels` for `Spec`. `TwoLevels` is not inductive: the insert relies
  on a check made earlier. What is left of the check when the insert runs is
  `CheckedParents`: the parent is still a main section *if it still exists*, and
  no running creation will bring that id back. The last part needs `NewIds`: a
  row being created does not exist and has one creator.
* `TreeIsAcyclic` for `Spec`, from the same invariant: a set of sections that
  has a main section contains a section whose parent is outside, and otherwise
  the parent of each member is a main section, hence outside.
* `ReparentingIsAcyclic` for `ServiceSpec` assumes one handler (`OneHandler`). The
  invariant is `UpdatesChecked`, part of `ServiceInv`: from the check of
  `sections.ts:152` until the write, the new parent is another section and still a
  main one. A section moved under a root other than itself closes no cycle: a set
  that holds both has that root in it, whose parent is outside. The climb of
  `isDescendant` is not needed for that. With two handlers the new parent can be
  moved in between, and TLC closes a cycle.
* `BotImplementsCatalogue` (`KeepsCatalogue`) for `Spec` and any number of handlers,
  from the invariant of `TreeHasTwoLevels`. An insert is an `Add` because of
  `CheckedParents`, a deletion is a `Remove` because of the foreign keys, and
  every other step leaves the rows alone and spends ids at most (`SpendingIds`).

**JoinRequests** (any users and identities, any number of requests):

* `JoinTypeCorrect`, for any number of handlers. The strengthening `Typed` adds
  that a review runs on a request that was filed.
* `IdentitiesStayUnique` (`IdentityUnique`), for any number of handlers and with
  crashes anywhere: only a bootstrap and an approval write an identity, and each does
  it in one commit under the unique columns. It does not depend on what was looked up.
* `OnboardingImplementsAdmission` (`KeepsAdmission`) assumes `Polling`. Its
  invariant `AdmissionInv` puts together what each flow still knows: a handler runs one
  flow at a time (`OneFlow`), the identity of a submission is still free
  (`SubmissionsHold`), the targets of the administration have a row
  (`TargetsHold`), a review that passed the check still finds the request PENDING
  (`Undecided`), between the count of `join-requests.ts:62` and the insert nobody becomes
  SUPER_ADMIN (`StillNone`), and `CountHolds` is that of `AccountsProofs`.
* `ConfirmationsAreSpentOnce` assumes `Polling`: the theorem about `Accounts` holds
  in the composition as well, although bootstraps and approvals write its table.

**Menus** (`ScopedSpec`: any sections, admins and handlers, with enabling and
disabling, which the run leaves out):

* `AccessTypeCorrect`, `CacheStaysUsable`, `MenusAndChecksAgree`,
  `MenusReachAuthorized`, `GrantsRestOnScopes`, `ScopesAreInherited`, all from
  `AccessInv`, which contains the `TreeInv` of `SectionsProofs`. A cached ancestry is
  never dropped, so it must not become wrong: what it holds is the parent of its
  section or is deleted, and a deleted id is not given out again (`Known`,
  `Unborn`). A walk that a deletion overtakes ends where the tree now ends
  (`Walking`).
* `AccessImplementsSections`: beside checks and scopes the tree takes the steps of
  `Sections` only, so `TreeHoldsBesideChecks` and `AccessKeepsCatalogue` carry the
  theorems about `Sections` over. `ScopesAreOnSections`: the cascade of
  `admin_scopes` leaves no scope on a section that is gone.

**Notifications** (any number of notifications, batches, handlers, attempts,
stalls and deaths):

* `NotificationsTypeCorrect`, `CompletedJobsReached`, `CopiesAreBounded` and
  `QueuedMeansRecorded`. `CopiesBounded` is not inductive: `JobInv` bounds the
  copies by `Calls` times the attempts that have got as far as sending, and the attempts
  by failures and stalls, state by state of the job. `CallInv` follows a call, which
  alone may touch its rows and jobs until it ends.
* `PipelineImplementsOutbox`: each step of the pipeline is a step of `Outbox` or
  changes nothing that it sees. This is `Promise!Safe`, the part of `KeepsPromise`
  without fairness.
* `EndedJobsStay`: a job that is done or failed is never run again.
* `JobsRunOutOfSteps`: what `EveryJobEnds` rests on apart from fairness. `StepsLeft`
  counts five steps for each attempt and stall to come and those the present attempt
  can still take; it is bounded, goes down with every step of the job or of its run,
  and no crash, shutdown or other job raises it.
* `ShutdownCutsNoRun`: once the shutdown counts the worker as closed, no run is under
  way until the process starts again.

**SessionStore** (any members, roles, handlers, updates, outages and crashes):

* `SessionsTypeCorrect`, and `RecoveryIsArmed`: while the
  storage is in memory a timer or a ping is under way. That is the invariant
  behind `Recovers`.
* `RecoveryComesNearer`: `Distance` is zero exactly while
  the storage uses Redis, and as long as Redis answers nothing raises it and each
  step of the reconnection lowers it. What is left to TLC is that these steps happen.
* `RolesAreCurrent` and `LogoutLasts`, from `AccessInv`. `LoggedOut` is not inductive:
  a session is written by an update that passed the check before. `PassedAreWelcome`
  says that no update past the check belongs to a dismissed member, which holds when the
  member is dismissed, by the definition of `dismissed`, and stays so because `Check`
  refuses a member with an account that is not active (`DismissedAreRefused`). One
  lemma, `AccessMove`, covers the steps of a handler: it changes some accounts, and
  every other handler at work for their owners becomes `late`.

**Backups** (any number of backups and handlers, crashes anywhere):

* `BackupsTypeCorrect`, `YoungBackupsAreKept`, `NoFileIsForgotten` and
  `StatusStaysFinal`, from `BackupInv`: a backup in the making has one maker
  (`OneMaker`), its row says so and it is not old (`MakersHold`); the cleanup has old
  ones in hand only (`CleanerHolds`); what is gone was old, and what a dump names has
  existed (`PastIsKnown`), so that a restore can bring back old rows only.
  A file without a row is one that could not be deleted.
* `InProgressMeansWorkedOn` is inductive by itself, given the types.

**Settings** (any types, languages and defaults, crashes anywhere):

* `SettingsTypeCorrect`, for any number of handlers.
* `MenuFollowsPresses` and `SwitchesCount` assume `Polling`. `SettingsInv` says what a
  handler still knows at each place: both looks of a toggle agree with the set until it
  is written, an interrupted loop over all types has only `rest` left to do, the value
  about to be set is the opposite of the one that is stored.

The assumptions on constants are named `...Assumption` (a finite set of users,
disjoint sets, bounds that are numbers); TLC evaluates them in the runs of the
modules that declare them.

Only model-checked: the liveness properties `EveryJobEnds` and `Recovers`, and the
fairness of `Outbox` in `KeepsPromise`; the measures that make them true are proved.
`ModulesHaveSections`, `Acyclic` and what concerns re-parenting are proved and have
no run of their own: `KeepsCatalogue` says more about what the bot does. Liveness
and ENABLED are out of the prover's reach, as are induction over data (what a
recursive definition computes for every input) and modules that reach a RECURSIVE
operator; no module has one.

## 5. What the models abstract

* Text, keyboards, pagination, i18n and log lines.
* The questions of the join form and their validation.
* The session middleware, outside `SessionStore`: a session is read and written in
  the step that uses it.
* A lookup in a handler that the service repeats is taken together with it.
* Editing a section's name, icon or order index, and listing, which change
  nothing a property reads.
* Notification rows and jobs in `JoinRequests`, where the queue only succeeds or
  throws.
* The contents of dumps, but for the rows that describe backups, and the decrypted
  file of a restore; encryption is the
  presence of the auth tag, without which a file is refused.
* In `SessionStore`, everything in a session but the role. What a recovery does to the
  rest is among the divergences.
* The audit entries of the users, sections and scopes handlers, which are
  written last and read by no handler.

### Not modelled

* **Module conversations and drafts.** `main.ts` never calls `loadModules`, so no
  module conversation is ever registered; and `draft.ts` asks for
  `session.conversations`, where the plugin keeps `session.conversation`. A model of
  drafts would describe code that does not run.
* **Error alerts.** A throttle per error in the memory of one process, read and set
  with no `await` in between: one actor and a clock. Sentry is external.
* **Rate limit and sanitising.** Wrappers of libraries and text conversions.
* **Validators and input helpers.** Pure functions of one string, covered by their
  unit tests, and prompts for modules that the bot does not load.
* **Health check, audit browser, system information.** They only read.

## 6. Plan

Done: the four modules of users, onboarding, sections and scopes; notifications;
settings and maintenance; backups; the session store; the menus; the abstract
specifications `Outbox`, `Catalogue` and `Admission`; the proofs of all of them, and
of the three refinements.

Left, in this order:

1. `SessionStore` composed with `Backups`: `pendingRestore` in a session that comes
   back from memory after a recovery.
2. The drafts, once modules are loaded by `main.ts`.
