----------------------------- MODULE JoinRequests -----------------------------
(***************************************************************************)
(* Onboarding: the join conversation (bot/conversations/join.ts), the      *)
(* bootstrap of the first SUPER_ADMIN (services/join-requests.ts) and the  *)
(* review of join requests (bot/handlers/approvals.ts), composed with the  *)
(* administration of the same users table (module Accounts).               *)
(*                                                                         *)
(* phone and national_id, both unique in users, are one Identity: they are *)
(* asked for, checked and stored together.                                 *)
(***************************************************************************)
EXTENDS Accounts, Sequences

CONSTANTS
  Identity,        \* phone and national id of a person
  Initial,         \* env.INITIAL_SUPER_ADMIN_ID
  LeftoverButtons, \* chats that show a start_join button at startup
  QueueTakesBigInt,\* does the job queue accept a payload that holds a BigInt?
  MaxRequests      \* bound on the join requests ever filed

ASSUME JoinAssumption ==
  /\ Initial \in User
  /\ LeftoverButtons \subseteq User
  /\ QueueTakesBigInt \in BOOLEAN
  /\ MaxRequests \in Nat

NoIdentity == "NO_IDENTITY"

VARIABLES
  identity,  \* users.phone and users.national_id
  form,      \* the join conversation stored in each chat's session
  buttons,   \* chats that show the start_join button of a cancelled form
  requests,  \* join_requests, in order of creation
  audited,   \* requests with a USER_APPROVE or USER_REJECT audit entry, and
             \* Bootstrap once there is a USER_BOOTSTRAP entry
  failed,    \* history: users whose last submission ended in an error
  job        \* what each handler does for a submission or a review

joinVars == <<identity, form, buttons, requests, audited, failed, job>>
vars == <<accountVars, joinVars>>

Bootstrap == 0

NoForm == [at |-> "none"]
AskForm == [at |-> "ask"]
Form == [at: {"confirm"}, identity: Identity]

Statuses == {"PENDING", "APPROVED", "REJECTED"}
Request == [user: User, identity: Identity, status: Statuses]

SubmitJob == [at: {"submit_count", "submit_bootstrap", "submit_audit",
                   "submit_request", "submit_notify"},
              user: User, identity: Identity]

ReviewJob == [at: {"review_find", "review_commit", "review_notify", "review_audit"},
              request: 1 .. MaxRequests, verdict: {"APPROVED", "REJECTED"}]

TypeOK ==
  /\ AccountsTypeOK
  /\ identity \in [User -> Identity \cup {NoIdentity}]
  /\ form \in [User -> {NoForm, AskForm} \cup Form]
  /\ buttons \subseteq User
  /\ requests \in Seq(Request) /\ Len(requests) <= MaxRequests
  /\ audited \subseteq DOMAIN requests \cup {Bootstrap}
  /\ failed \subseteq User
  /\ job \in [Handler -> {Idle} \cup SubmitJob \cup ReviewJob]

Free(h) == task[h] = Idle /\ job[h] = Idle

Taken(i) == \E u \in User : identity[u] = i

Pending(u) == \E r \in DOMAIN requests :
                requests[r].user = u /\ requests[r].status = "PENDING"

SuperAdmins == {u \in User : role[u] = "SUPER_ADMIN"}

(* Whom notifyAdmins writes to.                                             *)
ActiveAdmins == {u \in User : role[u] \in {"SUPER_ADMIN", "ADMIN"} /\ isActive[u]}

Init ==
  /\ AccountsInit
  /\ identity = [u \in User |-> NoIdentity]
  /\ form = [u \in User |-> NoForm]
  /\ buttons = LeftoverButtons
  /\ requests = <<>>
  /\ audited = {}
  /\ failed = {}
  /\ job = [h \in Handler |-> Idle]

-----------------------------------------------------------------------------
(* The conversation.  /start shows the menu, the pending notice or the      *)
(* first question.  While a form is open the text of the command is one     *)
(* more answer: bot/index.ts:112 empties session.conversations, and the     *)
(* plugin keeps its state in session.conversation.                          *)

SetForm(u, f) == form' = [form EXCEPT ![u] = f]

Start(h, u) ==
  /\ Free(h) /\ RbacAdmits(u)
  /\ form[u] = NoForm
  /\ SetForm(u, IF HasRow(u) \/ Pending(u) THEN NoForm ELSE AskForm)
  /\ UNCHANGED <<accountVars, identity, buttons, requests, audited, failed, job>>

(* The start_join button enters the conversation without those checks.      *)
StartJoin(h, u) ==
  /\ Free(h) /\ RbacAdmits(u)
  /\ u \in buttons /\ form[u] = NoForm
  /\ SetForm(u, AskForm)
  /\ UNCHANGED <<accountVars, identity, buttons, requests, audited, failed, job>>

(* askForPhone and askForNationalId ask again while a users row has it.     *)
Answer(h, u, i) ==
  /\ Free(h) /\ RbacAdmits(u)
  /\ form[u] = AskForm /\ ~Taken(i)
  /\ SetForm(u, [at |-> "confirm", identity |-> i])
  /\ UNCHANGED <<accountVars, identity, buttons, requests, audited, failed, job>>

CancelForm(h, u) ==
  /\ Free(h) /\ RbacAdmits(u)
  /\ form[u] # NoForm
  /\ SetForm(u, NoForm)
  /\ buttons' = buttons \cup {u}
  /\ UNCHANGED <<accountVars, identity, requests, audited, failed, job>>

(* Confirming replays the conversation, which repeats the lookups of the    *)
(* answers; the stored conversation is only dropped when the update ends.   *)
ConfirmForm(h, u) ==
  /\ Free(h) /\ RbacAdmits(u)
  /\ form[u].at = "confirm"
  /\ IF Taken(form[u].identity)
       THEN SetForm(u, AskForm) /\ UNCHANGED job
       ELSE /\ job' = [job EXCEPT ![h] = [at |-> "submit_count", user |-> u,
                                          identity |-> form[u].identity]]
            /\ UNCHANGED form
  /\ UNCHANGED <<accountVars, identity, buttons, requests, audited, failed>>

-----------------------------------------------------------------------------
(* joinRequestService.createOrBootstrap                                     *)

GotoJob(h, stage) == job' = [job EXCEPT ![h].at = stage]
FinishJob(h) == job' = [job EXCEPT ![h] = Idle]

(* The update ends.  The session middleware stores the session, without the *)
(* finished conversation, unless an error came through it.                  *)
Succeed(h) ==
  /\ FinishJob(h)
  /\ SetForm(job[h].user, NoForm)
  /\ failed' = failed \ {job[h].user}

Fail(h) ==
  /\ FinishJob(h)
  /\ failed' = failed \cup {job[h].user}
  /\ UNCHANGED form

SubmitCount(h) ==
  /\ job[h].at = "submit_count"
  /\ GotoJob(h, IF SuperAdmins = {} /\ job[h].user = Initial
                  THEN "submit_bootstrap" ELSE "submit_request")
  /\ UNCHANGED <<accountVars, identity, form, buttons, requests, audited, failed>>

(* user.create meets the unique columns of users.                           *)
Inserts(u, i) == ~HasRow(u) /\ ~Taken(i)

(* The audit entry is written by a statement of its own.                    *)
SubmitBootstrap(h) ==
  LET u == job[h].user IN
  /\ job[h].at = "submit_bootstrap"
  /\ \/ /\ Inserts(u, job[h].identity)
        /\ role' = [role EXCEPT ![u] = "SUPER_ADMIN"]
        /\ isActive' = [isActive EXCEPT ![u] = TRUE]
        /\ identity' = [identity EXCEPT ![u] = job[h].identity]
        /\ GotoJob(h, "submit_audit")
        /\ UNCHANGED <<form, failed>>
     \/ /\ ~Inserts(u, job[h].identity)
        /\ Fail(h)
        /\ UNCHANGED <<table, identity>>
  /\ UNCHANGED <<keyboards, confirm, unspent, task, buttons, requests, audited>>

(* Fault: the audit entry names the user and not the event.                 *)
SubmitAuditOfUser(h) ==
  /\ job[h].at = "submit_audit"
  /\ audited' = audited \cup {job[h].user}
  /\ Succeed(h)
  /\ UNCHANGED <<accountVars, identity, buttons, requests>>

SubmitAudit(h) ==
  /\ job[h].at = "submit_audit"
  /\ audited' = audited \cup {Bootstrap}
  /\ Succeed(h)
  /\ UNCHANGED <<accountVars, identity, buttons, requests>>

(* join_requests.telegram_id references users.telegram_id.                  *)
SubmitRequest(h) ==
  LET u == job[h].user IN
  /\ job[h].at = "submit_request"
  /\ \/ /\ HasRow(u) /\ Len(requests) < MaxRequests
        /\ requests' = Append(requests,
             [user |-> u, identity |-> job[h].identity, status |-> "PENDING"])
        /\ GotoJob(h, "submit_notify")
        /\ UNCHANGED <<form, failed>>
     \/ /\ ~HasRow(u)
        /\ Fail(h)
        /\ UNCHANGED requests
  /\ UNCHANGED <<accountVars, identity, buttons, audited>>

(* The applicant has its answer; what the queue throws ends the update.     *)
SubmitNotify(h) ==
  /\ job[h].at = "submit_notify"
  /\ \/ (QueueTakesBigInt \/ ActiveAdmins = {}) /\ Succeed(h)
     \/ ActiveAdmins # {} /\ Fail(h)
  /\ UNCHANGED <<accountVars, identity, buttons, requests, audited>>

-----------------------------------------------------------------------------
(* approvalsHandler: a transaction, a notification and an audit entry       *)

Review(h, a, r, verdict) ==
  /\ Free(h) /\ HasRow(a) /\ RbacAdmits(a)
  /\ r \in DOMAIN requests
  /\ job' = [job EXCEPT ![h] = [at |-> "review_find", request |-> r, verdict |-> verdict]]
  /\ UNCHANGED <<accountVars, identity, form, buttons, requests, audited, failed>>

ReviewFind(h) ==
  /\ job[h].at = "review_find"
  /\ IF requests[job[h].request].status = "PENDING"
       THEN GotoJob(h, "review_commit")
       ELSE FinishJob(h)
  /\ UNCHANGED <<accountVars, identity, form, buttons, requests, audited, failed>>

SetStatus(r, status) == requests' = [requests EXCEPT ![r].status = status]

(* Fault: phone and national id are not unique columns.                     *)
ClashIgnored(q) == FALSE

(* Another row holds the phone or the national id of the request.           *)
Clash(q) == \E v \in User \ {q.user} : identity[v] = q.identity

(* Fault: the status is written outside the transaction.                    *)
RollBackKeepsStatus(h) ==
  /\ SetStatus(job[h].request, "APPROVED")
  /\ FinishJob(h)
  /\ UNCHANGED <<table, identity>>

(* The upsert throws, and the catch block answers the admin.                *)
RollBack(h) == FinishJob(h) /\ UNCHANGED <<table, identity, requests>>

ReviewCommit(h) ==
  LET r == job[h].request
      q == requests[r]
  IN
  /\ job[h].at = "review_commit"
  /\ \/ /\ job[h].verdict = "APPROVED" /\ ~Clash(q)
        /\ role' = [role EXCEPT ![q.user] = "EMPLOYEE"]
        /\ isActive' = [isActive EXCEPT ![q.user] = TRUE]
        /\ identity' = [identity EXCEPT ![q.user] = q.identity]
        /\ SetStatus(r, "APPROVED")
        /\ GotoJob(h, "review_notify")
     \/ /\ job[h].verdict = "APPROVED" /\ Clash(q)
        /\ RollBack(h)
     \/ /\ job[h].verdict = "REJECTED"
        /\ SetStatus(r, "REJECTED")
        /\ GotoJob(h, "review_notify")
        /\ UNCHANGED <<table, identity>>
  /\ UNCHANGED <<keyboards, confirm, unspent, task, form, buttons, audited, failed>>

(* queueNotification hands BullMQ a payload with a BigInt; what it throws,  *)
(* for this reason or because Redis is away, skips the audit entry.         *)
ReviewNotify(h) ==
  /\ job[h].at = "review_notify"
  /\ (QueueTakesBigInt /\ GotoJob(h, "review_audit")) \/ FinishJob(h)
  /\ UNCHANGED <<accountVars, identity, form, buttons, requests, audited, failed>>

ReviewAudit(h) ==
  /\ job[h].at = "review_audit"
  /\ audited' = audited \cup {job[h].request}
  /\ FinishJob(h)
  /\ UNCHANGED <<accountVars, identity, form, buttons, requests, failed>>

-----------------------------------------------------------------------------
Restart ==
  /\ \E h \in Handler : ~Free(h)
  /\ task' = [h \in Handler |-> Idle]
  /\ job' = [h \in Handler |-> Idle]
  /\ UNCHANGED <<table, keyboards, confirm, unspent, identity, form, buttons,
                 requests, audited, failed>>

Conversation(h) ==
  \E u \in User : \/ Start(h, u)
                  \/ StartJoin(h, u)
                  \/ \E i \in Identity : Answer(h, u, i)
                  \/ CancelForm(h, u)
                  \/ ConfirmForm(h, u)

SubmitStep(h) ==
  \/ SubmitCount(h)
  \/ SubmitBootstrap(h) \/ SubmitAudit(h)
  \/ SubmitRequest(h) \/ SubmitNotify(h)

ReviewStep(h) ==
  \/ \E a \in User, r \in 1 .. MaxRequests, v \in {"APPROVED", "REJECTED"} :
       Review(h, a, r, v)
  \/ ReviewFind(h)
  \/ ReviewCommit(h)
  \/ ReviewNotify(h)
  \/ ReviewAudit(h)

JoinStep(h) == Conversation(h) \/ SubmitStep(h) \/ ReviewStep(h)

(* Whose session a step deletes.                                            *)
LoggedOut(h) ==
  IF task[h].at = "toggle_logout" THEN {task[h].target} ELSE {}

(* A handler serves one update: an administration step needs an idle job.   *)
AdminStep(h) ==
  /\ job[h] = Idle
  /\ AccountsHandler(h)
  /\ form' = [u \in User |-> IF u \in LoggedOut(h) THEN NoForm ELSE form[u]]
  /\ UNCHANGED <<identity, buttons, requests, audited, failed, job>>

Next ==
  \/ \E h \in Handler : JoinStep(h) \/ AdminStep(h)
  \/ \E a, t \in User : ToggleWithdraw(a, t) /\ UNCHANGED joinVars
  \/ Restart

Spec == Init /\ [][Next]_vars

-----------------------------------------------------------------------------
(* Two accounts never carry the same phone and national id, although the    *)
(* conversation looked the identity up long before it is stored.            *)
IdentityUnique ==
  \A u, v \in User : (u # v /\ identity[u] # NoIdentity) => identity[u] # identity[v]

(* A decision is taken on a request that is PENDING when it is written      *)
(* (approvals.ts:34, "Atomic status check and update").                     *)
DecisionsAreAtomic ==
  \A h \in Handler, r \in DOMAIN requests :
    (job[h].at = "review_commit" /\ job[h].request = r /\ requests'[r] # requests[r])
      => requests[r].status = "PENDING"

(* A bootstrap creates the first SUPER_ADMIN (FR-014.2: the count is        *)
(* "atomically verified inside the same transaction").                      *)
BootstrapsAreAtomic ==
  \A h \in Handler :
    (job[h].at = "submit_bootstrap" /\ job'[h] # job[h] /\ role' # role)
      => SuperAdmins = {}

(* What a handler has looked up still holds when it writes, whatever the    *)
(* updates beside it do: the documents and the comments call these checks   *)
(* and their writes atomic.                                                 *)
ChecksHoldAtWrite ==
  [][DemotionsAreAtomic /\ DecisionsAreAtomic /\ BootstrapsAreAtomic]_vars

(* A confirmed form of a person without an account ends as a bootstrap or   *)
(* as a PENDING request (FR-012), never in an error.                        *)
NewcomerIsHeard ==
  \A u \in User : u \in failed => HasRow(u)

(* One update at a time, onboarding, review and administration implement    *)
(* Admission: what a handler looked up in an earlier statement still holds  *)
(* when it writes (a free identity, the missing SUPER_ADMIN, the status of  *)
(* the request, the count, the switch), wherever the process stops.         *)
Promise == INSTANCE Admission

KeepsAdmission == Promise!Spec

===============================================================================
