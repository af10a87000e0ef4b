-------------------------- MODULE JoinRequestsProofs --------------------------
(***************************************************************************)
(* Proofs about onboarding and review, composed with the administration of *)
(* the same users table, for every set of users and identities, any number *)
(* of requests and, unless a theorem assumes Polling, any number of        *)
(* concurrent handlers.  Under Polling the composition implements          *)
(* Admission: AdmissionInv says what each flow has looked up and still     *)
(* knows when it writes.                                                   *)
(***************************************************************************)
EXTENDS JoinRequests, AccountsProofs, SequenceTheorems

(* A review runs on a request that was filed.                               *)
ReviewsFiled ==
  \A h \in Handler : job[h] \in ReviewJob => job[h].request \in DOMAIN requests

Typed == TypeOK /\ ReviewsFiled

(* The stages that only one flow has.                                       *)
SubmitStages == {"submit_count", "submit_bootstrap", "submit_audit",
                 "submit_request", "submit_notify"}
ReviewStages == {"review_find", "review_commit", "review_notify", "review_audit"}

-----------------------------------------------------------------------------
(* Jobs                                                                     *)

(* A job whose stage is one of a flow has the fields of that flow.          *)
LEMMA JobShape ==
  ASSUME NEW j \in {Idle} \cup SubmitJob \cup ReviewJob
  PROVE  /\ j.at \in SubmitStages => j \in SubmitJob
         /\ j.at \in ReviewStages => j \in ReviewJob
         /\ j \in SubmitJob => j.at \notin ReviewStages
BY DEF SubmitJob, ReviewJob, Idle, SubmitStages, ReviewStages

(* What a step of a job needs to know of the types.                         *)
LEMMA JobTyped ==
  ASSUME Typed, NEW h \in Handler
  PROVE  /\ job[h].at \in SubmitStages =>
              job[h] \in SubmitJob /\ job[h].user \in User /\ job[h].identity \in Identity
         /\ job[h].at \in ReviewStages =>
              /\ job[h] \in ReviewJob
              /\ job[h].request \in DOMAIN requests
              /\ requests[job[h].request] \in Request
              /\ requests[job[h].request].user \in User
              /\ requests[job[h].request].identity \in Identity
<1>1. job[h] \in {Idle} \cup SubmitJob \cup ReviewJob
  BY DEF Typed, TypeOK
<1>2. \A r \in DOMAIN requests : requests[r] \in Request
  BY LenProperties, ElementOfSeq DEF Typed, TypeOK
<1>3. QED
  BY <1>1, <1>2, JobShape DEF Typed, ReviewsFiled, SubmitJob, Request

(* Ending a job, or moving it to another stage of its flow, keeps the jobs  *)
(* well typed and on requests that were filed.                              *)
LEMMA JobMoves ==
  ASSUME Typed, NEW h \in Handler,
         \/ FinishJob(h)
         \/ \E s \in SubmitStages : job[h].at \in SubmitStages /\ GotoJob(h, s)
         \/ \E s \in ReviewStages : job[h].at \in ReviewStages /\ GotoJob(h, s)
  PROVE  /\ job' \in [Handler -> {Idle} \cup SubmitJob \cup ReviewJob]
         /\ \A k \in Handler : job'[k] \in ReviewJob => job'[k].request \in DOMAIN requests
<1>0. job \in [Handler -> {Idle} \cup SubmitJob \cup ReviewJob] /\ ReviewsFiled
  BY DEF Typed, TypeOK
<1>1. CASE FinishJob(h)
  BY <1>0, <1>1 DEF FinishJob, ReviewsFiled, ReviewJob, Idle
<1>2. ASSUME NEW s \in SubmitStages, job[h].at \in SubmitStages, GotoJob(h, s)
      PROVE  /\ job' \in [Handler -> {Idle} \cup SubmitJob \cup ReviewJob]
             /\ \A k \in Handler :
                  job'[k] \in ReviewJob => job'[k].request \in DOMAIN requests
  <2>1. job[h] \in SubmitJob
    BY <1>2, JobTyped
  <2>2. [job[h] EXCEPT !.at = s] \in SubmitJob /\ [job[h] EXCEPT !.at = s] \notin ReviewJob
    BY <1>2, <2>1 DEF SubmitJob, ReviewJob, SubmitStages
  <2>3. job' = [job EXCEPT ![h] = [job[h] EXCEPT !.at = s]]
    BY <1>2 DEF GotoJob
  <2>4. QED
    BY <1>0, <2>2, <2>3 DEF ReviewsFiled
<1>3. ASSUME NEW s \in ReviewStages, job[h].at \in ReviewStages, GotoJob(h, s)
      PROVE  /\ job' \in [Handler -> {Idle} \cup SubmitJob \cup ReviewJob]
             /\ \A k \in Handler :
                  job'[k] \in ReviewJob => job'[k].request \in DOMAIN requests
  <2>1. job[h] \in ReviewJob /\ job[h].request \in DOMAIN requests
    BY <1>3, JobTyped
  <2>2. /\ [job[h] EXCEPT !.at = s] \in ReviewJob
        /\ [job[h] EXCEPT !.at = s].request = job[h].request
    BY <1>3, <2>1 DEF ReviewJob, ReviewStages
  <2>3. job' = [job EXCEPT ![h] = [job[h] EXCEPT !.at = s]]
    BY <1>3 DEF GotoJob
  <2>4. QED
    BY <1>0, <2>1, <2>2, <2>3 DEF ReviewsFiled
<1>4. QED
  BY <1>1, <1>2, <1>3

-----------------------------------------------------------------------------
(* The list of requests                                                     *)

(* Filing one more request.                                                 *)
LEMMA Filing ==
  ASSUME Typed, NEW q \in Request, Len(requests) < MaxRequests,
         requests' = Append(requests, q)
  PROVE  /\ requests' \in Seq(Request) /\ Len(requests') <= MaxRequests
         /\ DOMAIN requests \subseteq DOMAIN requests'
         /\ \A r \in DOMAIN requests : requests'[r] = requests[r]
         /\ \A r \in DOMAIN requests' : r \notin DOMAIN requests => requests'[r] = q
<1>1. requests \in Seq(Request) /\ Len(requests) \in Nat /\ MaxRequests \in Nat
  BY LenProperties, JoinAssumption DEF Typed, TypeOK
<1>2. /\ requests' \in Seq(Request) /\ Len(requests') = Len(requests) + 1
      /\ \A r \in 1 .. Len(requests) : requests'[r] = requests[r]
      /\ requests'[Len(requests) + 1] = q
  BY <1>1
<1>3. DOMAIN requests = 1 .. Len(requests) /\ DOMAIN requests' = 1 .. Len(requests')
  BY <1>1, <1>2, LenProperties
<1>4. QED
  BY <1>1, <1>2, <1>3

(* Deciding a request.                                                      *)
LEMMA Deciding ==
  ASSUME Typed, NEW r \in DOMAIN requests, NEW s \in Statuses, SetStatus(r, s)
  PROVE  /\ requests' \in Seq(Request) /\ Len(requests') <= MaxRequests
         /\ DOMAIN requests' = DOMAIN requests
         /\ requests'[r].status = s
         /\ requests'[r].identity = requests[r].identity
         /\ \A p \in DOMAIN requests : p # r => requests'[p] = requests[p]
<1> DEFINE q == [requests[r] EXCEPT !.status = s]
<1>1. requests \in Seq(Request) /\ DOMAIN requests = 1 .. Len(requests)
  BY LenProperties DEF Typed, TypeOK
<1>2. requests[r] \in Request
  BY <1>1, ElementOfSeq
<1>3. q \in Request /\ q.status = s /\ q.identity = requests[r].identity
  BY <1>2 DEF Request
<1>4. requests' = [requests EXCEPT ![r] = q]
  BY DEF SetStatus
<1> HIDE DEF q
<1>5. /\ requests' \in Seq(Request) /\ Len(requests') = Len(requests)
      /\ \A p \in 1 .. Len(requests) : requests'[p] = IF p = r THEN q ELSE requests[p]
  BY <1>1, <1>3, <1>4, ExceptSeq
<1>6. DOMAIN requests' = 1 .. Len(requests')
  BY <1>5, LenProperties
<1>7. QED
  BY <1>1, <1>3, <1>5, <1>6 DEF Typed, TypeOK

-----------------------------------------------------------------------------
(* Types                                                                    *)

(* The tables are empty, or hold what Seed says, at startup.                *)
LEMMA TypedInit == Init => Typed
<1> SUFFICES ASSUME Init
             PROVE  Typed
  OBVIOUS
<1>1. AccountsTypeOK
  BY TypeInit DEF Init
<1>2. requests \in Seq(Request) /\ Len(requests) <= MaxRequests
  BY EmptySeq, JoinAssumption DEF Init
<1>3. ReviewsFiled
  BY DEF Init, ReviewsFiled, ReviewJob, Idle
<1>4. QED
  BY <1>1, <1>2, <1>3, JoinAssumption DEF Typed, TypeOK, Init, NoForm

(* The conversation changes the form, the buttons and the job of a handler. *)
LEMMA ConversationTyped ==
  ASSUME Typed, NEW h \in Handler, Conversation(h)
  PROVE  Typed'
<1> USE DEF Typed, TypeOK, SetForm
<1>0. PICK u \in User : \/ Start(h, u) \/ StartJoin(h, u) \/ CancelForm(h, u)
                        \/ \E i \in Identity : Answer(h, u, i)
                        \/ ConfirmForm(h, u)
  BY DEF Conversation
<1>1. AccountsTypeOK' /\ requests' = requests
  BY <1>0 DEF AccountsTypeOK, accountVars, table, Start, StartJoin, CancelForm, Answer,
              ConfirmForm
<1>2. CASE Start(h, u) \/ StartJoin(h, u)
  BY <1>1, <1>2 DEF Start, StartJoin, ReviewsFiled
<1>3. CASE CancelForm(h, u)
  BY <1>1, <1>3 DEF CancelForm, ReviewsFiled
<1>4. ASSUME NEW i \in Identity, Answer(h, u, i)
      PROVE  Typed'
  BY <1>1, <1>4 DEF Answer, ReviewsFiled, Form
<1>5. CASE ConfirmForm(h, u)
  <2>1. CASE Taken(form[u].identity)
    BY <1>1, <1>5, <2>1 DEF ConfirmForm, ReviewsFiled
  <2>2. CASE ~ Taken(form[u].identity)
    <3> DEFINE j == [at |-> "submit_count", user |-> u, identity |-> form[u].identity]
    <3>1. form[u] \in Form
      BY <1>5 DEF ConfirmForm, NoForm, AskForm
    <3>2. j \in SubmitJob /\ j \notin ReviewJob
      BY <3>1 DEF Form, SubmitJob, ReviewJob
    <3>3. job' = [job EXCEPT ![h] = j]
      BY <1>5, <2>2 DEF ConfirmForm
    <3>4. QED
      BY <1>1, <1>5, <2>2, <3>2, <3>3 DEF ConfirmForm, ReviewsFiled
  <2>3. QED
    BY <2>1, <2>2
<1>6. QED
  BY <1>0, <1>2, <1>3, <1>4, <1>5

(* createOrBootstrap                                                        *)
LEMMA SubmitTyped ==
  ASSUME Typed, NEW h \in Handler, SubmitStep(h)
  PROVE  Typed'
<1> USE DEF Typed, TypeOK, SetForm
<1> DEFINE u == job[h].user
<1>0. /\ job[h].at \in SubmitStages
      /\ job[h] \in SubmitJob /\ u \in User /\ job[h].identity \in Identity
  BY JobTyped DEF SubmitStep, SubmitCount, SubmitBootstrap, SubmitAudit, SubmitRequest,
                  SubmitNotify, SubmitStages
<1>j. /\ job' \in [Handler -> {Idle} \cup SubmitJob \cup ReviewJob]
      /\ \A k \in Handler : job'[k] \in ReviewJob => job'[k].request \in DOMAIN requests
  <2>1. FinishJob(h) \/ \E s \in SubmitStages : GotoJob(h, s)
    BY DEF SubmitStep, SubmitCount, SubmitBootstrap, SubmitAudit, SubmitRequest,
           SubmitNotify, SubmitStages, Succeed, Fail, GotoJob
  <2>2. QED
    BY <1>0, <2>1, JobMoves
<1>1. CASE SubmitCount(h)
  BY <1>1, <1>j DEF SubmitCount, ReviewsFiled, AccountsTypeOK, accountVars, table
<1>2. CASE SubmitBootstrap(h)
  <2>1. role' \in [User -> Roles \cup {NoRow}] /\ isActive' \in [User -> BOOLEAN]
    BY <1>0, <1>2 DEF SubmitBootstrap, AccountsTypeOK, table, Roles
  <2>2. AccountsTypeOK'
    BY <1>2, <2>1 DEF SubmitBootstrap, AccountsTypeOK
  <2>3. /\ identity' \in [User -> Identity \cup {NoIdentity}]
        /\ form' = form /\ failed' \subseteq User
    BY <1>0, <1>2 DEF SubmitBootstrap, Fail
  <2>4. QED
    BY <1>2, <1>j, <2>2, <2>3 DEF SubmitBootstrap, ReviewsFiled
<1>3. CASE SubmitAudit(h)
  BY <1>0, <1>3, <1>j
     DEF SubmitAudit, Succeed, ReviewsFiled, AccountsTypeOK, accountVars, table
<1>4. CASE SubmitRequest(h)
  <2>1. AccountsTypeOK'
    BY <1>4 DEF SubmitRequest, AccountsTypeOK, accountVars, table
  <2>2. CASE HasRow(u) /\ Len(requests) < MaxRequests
    <3> DEFINE q == [user |-> u, identity |-> job[h].identity, status |-> "PENDING"]
    <3>1. q \in Request
      BY <1>0 DEF Request, Statuses
    <3>2. requests' = Append(requests, q) /\ form' = form /\ failed' = failed
      BY <1>4, <2>2 DEF SubmitRequest
    <3>3. /\ requests' \in Seq(Request) /\ Len(requests') <= MaxRequests
          /\ DOMAIN requests \subseteq DOMAIN requests'
      BY <2>2, <3>1, <3>2, Filing
    <3>4. QED
      BY <1>4, <1>j, <2>1, <3>2, <3>3 DEF SubmitRequest, ReviewsFiled
  <2>3. CASE ~ (HasRow(u) /\ Len(requests) < MaxRequests)
    BY <1>0, <1>4, <1>j, <2>1, <2>3 DEF SubmitRequest, Fail, ReviewsFiled
  <2>4. QED
    BY <2>2, <2>3
<1>5. CASE SubmitNotify(h)
  BY <1>0, <1>5, <1>j
     DEF SubmitNotify, Succeed, Fail, ReviewsFiled, AccountsTypeOK, accountVars, table
<1>6. QED
  BY <1>1, <1>2, <1>3, <1>4, <1>5 DEF SubmitStep

(* A press of approve: or reject:                                           *)
LEMMA ReviewBegins ==
  ASSUME Typed, NEW h \in Handler, NEW a \in User, NEW r \in 1 .. MaxRequests,
         NEW v \in {"APPROVED", "REJECTED"}, Review(h, a, r, v)
  PROVE  Typed'
<1> USE DEF Typed, TypeOK
<1> DEFINE j == [at |-> "review_find", request |-> r, verdict |-> v]
<1>1. job' = [job EXCEPT ![h] = j] /\ r \in DOMAIN requests
  BY DEF Review
<1>2. j \in ReviewJob
  BY DEF ReviewJob
<1>3. AccountsTypeOK' /\ requests' = requests
  BY DEF Review, AccountsTypeOK, accountVars, table
<1>4. QED
  BY <1>1, <1>2, <1>3 DEF Review, ReviewsFiled

(* approvalsHandler                                                         *)
LEMMA ReviewTyped ==
  ASSUME Typed, NEW h \in Handler, ReviewStep(h)
  PROVE  Typed'
<1> USE DEF Typed, TypeOK
<1> DEFINE r == job[h].request
           q == requests[r]
<1>0. SUFFICES ASSUME ReviewFind(h) \/ ReviewCommit(h) \/ ReviewNotify(h) \/ ReviewAudit(h)
               PROVE  Typed'
  BY ReviewBegins DEF ReviewStep
<1>1. /\ job[h].at \in ReviewStages
      /\ r \in DOMAIN requests
      /\ q.user \in User /\ q.identity \in Identity
  BY <1>0, JobTyped DEF ReviewFind, ReviewCommit, ReviewNotify, ReviewAudit, ReviewStages
<1>j. /\ job' \in [Handler -> {Idle} \cup SubmitJob \cup ReviewJob]
      /\ \A k \in Handler : job'[k] \in ReviewJob => job'[k].request \in DOMAIN requests
  <2>1. FinishJob(h) \/ \E s \in ReviewStages : GotoJob(h, s)
    BY <1>0 DEF ReviewFind, ReviewCommit, ReviewNotify, ReviewAudit, ReviewStages, RollBack,
                GotoJob
  <2>2. QED
    BY <1>1, <2>1, JobMoves
<1>2. CASE ReviewFind(h) \/ ReviewNotify(h)
  BY <1>2, <1>j
     DEF ReviewFind, ReviewNotify, ReviewsFiled, AccountsTypeOK, accountVars, table
<1>3. CASE ReviewCommit(h)
  <2>1. AccountsTypeOK'
    <3>1. role' \in [User -> Roles \cup {NoRow}] /\ isActive' \in [User -> BOOLEAN]
      BY <1>1, <1>3 DEF ReviewCommit, RollBack, AccountsTypeOK, table, Roles
    <3>2. QED
      BY <1>3, <3>1 DEF ReviewCommit, AccountsTypeOK
  <2>2. identity' \in [User -> Identity \cup {NoIdentity}]
    BY <1>1, <1>3 DEF ReviewCommit, RollBack
  <2>3. requests' = requests \/ \E s \in Statuses : SetStatus(r, s)
    BY <1>3 DEF ReviewCommit, RollBack, Statuses, SetStatus
  <2>4. /\ requests' \in Seq(Request) /\ Len(requests') <= MaxRequests
        /\ DOMAIN requests' = DOMAIN requests
    BY <1>1, <2>3, Deciding
  <2>5. QED
    BY <1>3, <1>j, <2>1, <2>2, <2>4 DEF ReviewCommit, ReviewsFiled
<1>4. CASE ReviewAudit(h)
  BY <1>1, <1>4, <1>j DEF ReviewAudit, ReviewsFiled, AccountsTypeOK, accountVars, table
<1>5. QED
  BY <1>0, <1>2, <1>3, <1>4

(* What the bot does apart from onboarding and review.                      *)
LEMMA OthersTyped ==
  ASSUME Typed,
         \/ \E h \in Handler : AdminStep(h)
         \/ \E a, t \in User : ToggleWithdraw(a, t) /\ UNCHANGED joinVars
         \/ Restart
         \/ UNCHANGED vars
  PROVE  Typed'
<1> USE DEF Typed, TypeOK
<1>1. ASSUME NEW h \in Handler, AdminStep(h)
      PROVE  Typed'
  <2>1. AccountsTypeOK'
    BY <1>1, TypeStep DEF AdminStep, AccountsNext
  <2>2. form' \in [User -> {NoForm, AskForm} \cup Form]
    BY <1>1 DEF AdminStep
  <2>3. QED
    BY <1>1, <2>1, <2>2 DEF AdminStep, ReviewsFiled
<1>2. ASSUME NEW a \in User, NEW t \in User, ToggleWithdraw(a, t), UNCHANGED joinVars
      PROVE  Typed'
  <2>1. AccountsTypeOK'
    BY <1>2, TypeStep DEF AccountsNext
  <2>2. QED
    BY <1>2, <2>1 DEF joinVars, ReviewsFiled
<1>3. CASE Restart
  BY <1>3 DEF Restart, AccountsTypeOK, table, ReviewsFiled, ReviewJob, Idle
<1>4. CASE UNCHANGED vars
  BY <1>4 DEF vars, joinVars, accountVars, AccountsTypeOK, ReviewsFiled
<1>5. QED
  BY <1>1, <1>2, <1>3, <1>4

(* Every step keeps the types.                                              *)
LEMMA TypedStep == Typed /\ [Next]_vars => Typed'
BY ConversationTyped, SubmitTyped, ReviewTyped, OthersTyped DEF Next, JoinStep

(* The tables of onboarding, the stored forms and the jobs stay well        *)
(* formed, together with the users table they share.                        *)
THEOREM JoinTypeCorrect == Spec => []TypeOK
<1>1. Typed => TypeOK
  BY DEF Typed
<1>2. QED
  BY TypedInit, TypedStep, <1>1, PTL DEF Spec

-----------------------------------------------------------------------------
(* Identities                                                               *)

(* An identity is stored by a bootstrap or by an approval.                  *)
LEMMA IdentityWriters ==
  ASSUME [Next]_vars, identity' # identity
  PROVE  \E h \in Handler : SubmitBootstrap(h) \/ ReviewCommit(h)
BY DEF Next, JoinStep, Conversation, Start, StartJoin, Answer, CancelForm, ConfirmForm,
       SubmitStep, SubmitCount, SubmitRequest, SubmitAudit, SubmitNotify,
       ReviewStep, Review, ReviewFind, ReviewNotify, ReviewAudit,
       AdminStep, Restart, joinVars, vars

(* The unique columns refuse what another user has.                         *)
LEMMA IdentityStep == Typed /\ IdentityUnique /\ [Next]_vars => IdentityUnique'
<1> SUFFICES ASSUME Typed, IdentityUnique, [Next]_vars
             PROVE  IdentityUnique'
  OBVIOUS
<1>0. identity \in [User -> Identity \cup {NoIdentity}]
  BY DEF Typed, TypeOK
(* One user gets an identity that no other user has.                        *)
<1>1. ASSUME NEW w \in User, NEW i, identity' = [identity EXCEPT ![w] = i],
             \A v \in User \ {w} : identity[v] # i
      PROVE  IdentityUnique'
  BY <1>0, <1>1 DEF IdentityUnique
<1>2. CASE identity' = identity
  BY <1>2 DEF IdentityUnique
<1>3. ASSUME NEW h \in Handler, SubmitBootstrap(h), identity' # identity
      PROVE  IdentityUnique'
  <2> DEFINE w == job[h].user
             i == job[h].identity
  <2>1. w \in User
    BY <1>3, JobTyped DEF SubmitBootstrap, SubmitStages
  <2>2. /\ identity' = [identity EXCEPT ![w] = i]
        /\ \A v \in User \ {w} : identity[v] # i
    BY <1>3 DEF SubmitBootstrap, Inserts, Taken
  <2> HIDE DEF w, i
  <2>3. QED
    BY <1>1, <2>1, <2>2
<1>4. ASSUME NEW h \in Handler, ReviewCommit(h), identity' # identity
      PROVE  IdentityUnique'
  <2> DEFINE w == requests[job[h].request].user
             i == requests[job[h].request].identity
  <2>1. w \in User
    BY <1>4, JobTyped DEF ReviewCommit, ReviewStages
  <2>2. /\ identity' = [identity EXCEPT ![w] = i]
        /\ \A v \in User \ {w} : identity[v] # i
    BY <1>4 DEF ReviewCommit, RollBack, Clash
  <2> HIDE DEF w, i
  <2>3. QED
    BY <1>1, <2>1, <2>2
<1>5. QED
  BY <1>2, <1>3, <1>4, IdentityWriters

(* No two accounts ever share a phone and national id, although every       *)
(* lookup of the conversation may be out of date when they are stored.      *)
THEOREM IdentitiesStayUnique == Spec => []IdentityUnique
<1>1. Init => IdentityUnique
  BY DEF Init, IdentityUnique
<1>2. QED
  BY TypedInit, TypedStep, IdentityStep, <1>1, PTL DEF Spec

-----------------------------------------------------------------------------
(* One update at a time: decisions                                          *)

(* A review that passed the check still finds the request undecided.        *)
Undecided ==
  \A h \in Handler :
    job[h].at = "review_commit" => requests[job[h].request].status = "PENDING"

(* Every step of the only handler that reaches the commit comes from the    *)
(* check.                                                                   *)
LEMMA UndecidedStep ==
  ASSUME Polling, Typed, Undecided, [Next]_vars
  PROVE  Undecided'
<1> USE DEF Typed, TypeOK
<1>w. PICK w : Handler = {w}
  BY DEF Polling
<1>0. ASSUME job'[w].at # "review_commit"
      PROVE  Undecided'
  BY <1>0, <1>w DEF Undecided
<1>1. CASE Conversation(w)
  <2>1. job[w] = Idle
    BY <1>1 DEF Conversation, Start, StartJoin, Answer, CancelForm, ConfirmForm, Free
  <2>2. job' = job \/ \E u \in User : ConfirmForm(w, u)
    BY <1>1 DEF Conversation, Start, StartJoin, Answer, CancelForm
  <2>3. CASE job' = job
    BY <2>1, <2>3, <1>0 DEF Idle
  <2>4. ASSUME NEW u \in User, ConfirmForm(w, u), job' # job
        PROVE  Undecided'
    BY <2>4, <1>0, <1>w DEF ConfirmForm
  <2>5. QED
    BY <2>2, <2>3, <2>4
<1>2. CASE SubmitStep(w)
  <2>1. job[w] \in SubmitJob
    BY <1>2, <1>w, JobTyped
       DEF SubmitStep, SubmitCount, SubmitBootstrap, SubmitAudit, SubmitRequest, SubmitNotify,
           SubmitStages
  <2>2. job'[w].at # "review_commit"
    BY <1>2, <1>w, <2>1
       DEF SubmitStep, SubmitCount, SubmitBootstrap, SubmitAudit, SubmitRequest, SubmitNotify,
           GotoJob, FinishJob, Succeed, Fail, SubmitJob, Idle
  <2>3. QED
    BY <2>2, <1>0
<1>3. CASE ReviewStep(w)
  <2>1. CASE ReviewFind(w)
    <3>1. job[w] \in ReviewJob
      BY <2>1, <1>w, JobTyped DEF ReviewFind, ReviewStages
    <3>2. CASE requests[job[w].request].status = "PENDING"
      <4>1. job'[w].request = job[w].request /\ requests' = requests
        BY <2>1, <1>w, <3>1, <3>2 DEF ReviewFind, GotoJob, ReviewJob
      <4>2. QED
        BY <3>2, <4>1, <1>w DEF Undecided
    <3>3. CASE requests[job[w].request].status # "PENDING"
      BY <2>1, <3>3, <1>0, <1>w DEF ReviewFind, FinishJob, Idle
    <3>4. QED
      BY <3>2, <3>3
  <2>2. CASE ReviewCommit(w) \/ ReviewNotify(w) \/ ReviewAudit(w)
    <3>1. job[w] \in ReviewJob
      BY <2>2, <1>w, JobTyped DEF ReviewCommit, ReviewNotify, ReviewAudit, ReviewStages
    <3>2. job'[w].at # "review_commit"
      BY <2>2, <1>w, <3>1
         DEF ReviewCommit, ReviewNotify, ReviewAudit, RollBack, GotoJob, FinishJob,
             ReviewJob, Idle
    <3>3. QED
      BY <3>2, <1>0
  <2>3. ASSUME NEW a \in User, NEW r \in 1 .. MaxRequests,
               NEW v \in {"APPROVED", "REJECTED"}, Review(w, a, r, v)
        PROVE  Undecided'
    BY <2>3, <1>0, <1>w DEF Review
  <2>4. QED
    BY <1>3, <2>1, <2>2, <2>3 DEF ReviewStep
<1>4. CASE AdminStep(w)
  BY <1>4 DEF AdminStep, Undecided
<1>5. ASSUME NEW a \in User, NEW t \in User, ToggleWithdraw(a, t), UNCHANGED joinVars
      PROVE  Undecided'
  BY <1>5 DEF joinVars, Undecided
<1>6. CASE Restart
  BY <1>6, <1>0, <1>w DEF Restart, Idle
<1>7. CASE UNCHANGED vars
  BY <1>7 DEF vars, joinVars, Undecided
<1>8. QED
  BY <1>w, <1>1, <1>2, <1>3, <1>4, <1>5, <1>6, <1>7 DEF Next, JoinStep

-----------------------------------------------------------------------------
(* One update at a time: the bootstrap                                      *)

(* A submission that counted no SUPER_ADMIN still finds none when it is     *)
(* about to create one.                                                     *)
StillNone ==
  \A h \in Handler : job[h].at = "submit_bootstrap" => SuperAdmins = {}

(* The only handler that could make a SUPER_ADMIN is the one that counted.  *)
LEMMA StillNoneStep ==
  ASSUME Polling, Typed, StillNone, [Next]_vars
  PROVE  StillNone'
<1> USE DEF Typed, TypeOK
<1>w. PICK w : Handler = {w}
  BY DEF Polling
<1>0. ASSUME job'[w].at # "submit_bootstrap"
      PROVE  StillNone'
  BY <1>0, <1>w DEF StillNone
<1>1. CASE Conversation(w)
  <2>1. job[w] = Idle
    BY <1>1 DEF Conversation, Start, StartJoin, Answer, CancelForm, ConfirmForm, Free
  <2>2. job' = job \/ \E u \in User : ConfirmForm(w, u)
    BY <1>1 DEF Conversation, Start, StartJoin, Answer, CancelForm
  <2>3. CASE job' = job
    BY <2>1, <2>3, <1>0 DEF Idle
  <2>4. ASSUME NEW u \in User, ConfirmForm(w, u), job' # job
        PROVE  StillNone'
    BY <2>4, <1>0, <1>w DEF ConfirmForm
  <2>5. QED
    BY <2>2, <2>3, <2>4
<1>2. CASE SubmitStep(w)
  <2>1. job[w] \in SubmitJob
    BY <1>2, <1>w, JobTyped
       DEF SubmitStep, SubmitCount, SubmitBootstrap, SubmitAudit, SubmitRequest, SubmitNotify,
           SubmitStages
  <2>2. CASE SubmitCount(w)
    <3>1. CASE SuperAdmins = {}
      <4>1. SuperAdmins' = {}
        BY <2>2, <3>1 DEF SubmitCount, accountVars, table, SuperAdmins
      <4>2. QED
        BY <4>1 DEF StillNone
    <3>2. CASE SuperAdmins # {}
      <4>1. job'[w].at = "submit_request"
        BY <2>1, <2>2, <3>2, <1>w DEF SubmitCount, GotoJob, SubmitJob
      <4>2. QED
        BY <4>1, <1>0
    <3>3. QED
      BY <3>1, <3>2
  <2>3. CASE SubmitBootstrap(w) \/ SubmitAudit(w) \/ SubmitRequest(w) \/ SubmitNotify(w)
    <3>1. job'[w].at # "submit_bootstrap"
      BY <2>1, <2>3, <1>w
         DEF SubmitBootstrap, SubmitAudit, SubmitRequest, SubmitNotify, GotoJob, FinishJob,
             Succeed, Fail, SubmitJob, Idle
    <3>2. QED
      BY <3>1, <1>0
  <2>4. QED
    BY <1>2, <2>2, <2>3 DEF SubmitStep
<1>3. CASE ReviewStep(w)
  <2>1. CASE ReviewFind(w) \/ ReviewCommit(w) \/ ReviewNotify(w) \/ ReviewAudit(w)
    <3>1. job[w] \in ReviewJob
      BY <2>1, <1>w, JobTyped
         DEF ReviewFind, ReviewCommit, ReviewNotify, ReviewAudit, ReviewStages
    <3>2. job'[w].at # "submit_bootstrap"
      BY <2>1, <1>w, <3>1
         DEF ReviewFind, ReviewCommit, ReviewNotify, ReviewAudit, RollBack, GotoJob,
             FinishJob, ReviewJob, Idle
    <3>3. QED
      BY <3>2, <1>0
  <2>2. ASSUME NEW a \in User, NEW r \in 1 .. MaxRequests,
               NEW v \in {"APPROVED", "REJECTED"}, Review(w, a, r, v)
        PROVE  StillNone'
    BY <2>2, <1>0, <1>w DEF Review
  <2>3. QED
    BY <1>3, <2>1, <2>2 DEF ReviewStep
<1>4. CASE AdminStep(w)
  BY <1>4, <1>0 DEF AdminStep, Idle
<1>5. ASSUME NEW a \in User, NEW t \in User, ToggleWithdraw(a, t), UNCHANGED joinVars
      PROVE  StillNone'
  BY <1>5 DEF joinVars, ToggleWithdraw, table, StillNone, SuperAdmins
<1>6. CASE Restart
  BY <1>6, <1>0, <1>w DEF Restart, Idle
<1>7. CASE UNCHANGED vars
  BY <1>7 DEF vars, joinVars, accountVars, table, StillNone, SuperAdmins
<1>8. QED
  BY <1>w, <1>1, <1>2, <1>3, <1>4, <1>5, <1>6, <1>7 DEF Next, JoinStep

-----------------------------------------------------------------------------
(* One update at a time: onboarding and administration implement Admission  *)

(* An update is a submission, a review or a press on an administration      *)
(* button, one of them.                                                     *)
OneFlow == \A h \in Handler : job[h] = Idle \/ task[h] = Idle

(* The identity that was free when the form was confirmed is still free when*)
(* it is filed or stored, and only the founder gets as far as a bootstrap.  *)
SubmissionsHold ==
  \A h \in Handler :
    /\ job[h].at \in {"submit_count", "submit_bootstrap", "submit_request"}
         => ~ Taken(job[h].identity)
    /\ job[h].at = "submit_bootstrap" => job[h].user = Initial

(* The target of a role change or a switch has an account, in the state the *)
(* switch has read.                                                         *)
TargetsHold ==
  \A h \in Handler :
    /\ task[h] # Idle => HasRow(task[h].target)
    /\ task[h].at = "toggle_update" => task[h].found = isActive[task[h].target]

AdmissionInv ==
  OneFlow /\ Undecided /\ StillNone /\ SubmissionsHold /\ TargetsHold /\ CountHolds

(* The actions of the two flows begin and end at Idle.                      *)
LEMMA FlowsApart ==
  ASSUME OneFlow, NEW h \in Handler
  PROVE  /\ Conversation(h) => job[h] = Idle /\ task[h] = Idle /\ task' = task
         /\ SubmitStep(h) \/ ReviewStep(h) => task[h] = Idle /\ task' = task
         /\ AdminStep(h) => job[h] = Idle /\ job' = job
<1>1. SubmitStep(h) => job[h] # Idle
  BY DEF SubmitStep, SubmitCount, SubmitBootstrap, SubmitAudit, SubmitRequest, SubmitNotify,
         Idle
<1>2. ReviewStep(h) => job[h] # Idle \/ task[h] = Idle
  BY DEF ReviewStep, Review, ReviewFind, ReviewCommit, ReviewNotify, ReviewAudit, Free, Idle
<1>3. QED
  BY <1>1, <1>2
     DEF OneFlow, Conversation, Start, StartJoin, Answer, CancelForm, ConfirmForm, Free,
         SubmitStep, SubmitCount, SubmitBootstrap, SubmitAudit, SubmitRequest, SubmitNotify,
         ReviewStep, Review, ReviewFind, ReviewCommit, ReviewNotify, ReviewAudit, AdminStep,
         accountVars

(* Administration, as the module of its own knows it.                       *)
LEMMA AdministrationIsAccounts ==
  ASSUME OneFlow, NEW w, Handler = {w}, [Next]_vars
  PROVE  \/ task[w] = Idle /\ task' = task
         \/ [AccountsNext]_accountVars
         \/ task' = [h \in Handler |-> Idle]
<1>1. CASE JoinStep(w)
  BY <1>1, FlowsApart DEF JoinStep
<1>2. CASE AdminStep(w)
  BY <1>2 DEF AdminStep, AccountsNext
<1>3. QED
  BY <1>1, <1>2 DEF Next, Restart, AccountsNext, vars

LEMMA OneFlowStep ==
  ASSUME Polling, Typed, OneFlow, [Next]_vars
  PROVE  OneFlow'
<1>w. PICK w : Handler = {w}
  BY DEF Polling
<1>1. CASE JoinStep(w)
  BY <1>1, <1>w, FlowsApart DEF OneFlow, JoinStep
<1>2. CASE AdminStep(w)
  BY <1>2, <1>w, FlowsApart DEF OneFlow
<1>3. CASE Restart
  BY <1>3 DEF OneFlow, Restart
<1>4. CASE UNCHANGED <<task, job>>
  BY <1>4 DEF OneFlow
<1>5. QED
  BY <1>w, <1>1, <1>2, <1>3, <1>4 DEF Next, ToggleWithdraw, joinVars, vars, accountVars

(* Nobody stores an identity between the lookup of the only handler and its *)
(* own write.                                                               *)
LEMMA SubmissionsStep ==
  ASSUME Polling, Typed, OneFlow, SubmissionsHold, [Next]_vars
  PROVE  SubmissionsHold'
<1> USE DEF Typed, TypeOK
<1>w. PICK w : Handler = {w}
  BY DEF Polling
<1>0. ASSUME job'[w].at \notin {"submit_count", "submit_bootstrap", "submit_request"}
      PROVE  SubmissionsHold'
  BY <1>0, <1>w DEF SubmissionsHold
<1>1. CASE Conversation(w)
  <2>1. job[w] = Idle
    BY <1>1 DEF Conversation, Start, StartJoin, Answer, CancelForm, ConfirmForm, Free
  <2>2. job' = job \/ \E u \in User : ConfirmForm(w, u)
    BY <1>1 DEF Conversation, Start, StartJoin, Answer, CancelForm
  <2>3. CASE job' = job
    BY <2>1, <2>3, <1>0 DEF Idle
  <2>4. ASSUME NEW u \in User, ConfirmForm(w, u), job' # job
        PROVE  SubmissionsHold'
    <3>1. /\ ~ Taken(form[u].identity) /\ identity' = identity
          /\ job'[w].at = "submit_count" /\ job'[w].identity = form[u].identity
      BY <2>4, <1>w DEF ConfirmForm
    <3>2. QED
      BY <3>1, <1>w DEF SubmissionsHold, Taken
  <2>5. QED
    BY <2>2, <2>3, <2>4
<1>2. CASE SubmitStep(w)
  <2>1. job[w] \in SubmitJob
    BY <1>2, <1>w, JobTyped
       DEF SubmitStep, SubmitCount, SubmitBootstrap, SubmitAudit, SubmitRequest, SubmitNotify,
           SubmitStages
  <2>2. CASE SubmitCount(w)
    <3>1. /\ job'[w].identity = job[w].identity /\ job'[w].user = job[w].user
          /\ job'[w].at = "submit_bootstrap" => job[w].user = Initial
          /\ identity' = identity /\ job[w].at = "submit_count"
      BY <2>1, <2>2, <1>w DEF SubmitCount, GotoJob, SubmitJob
    <3>2. QED
      BY <3>1, <1>w DEF SubmissionsHold, Taken
  <2>3. CASE SubmitBootstrap(w) \/ SubmitAudit(w) \/ SubmitRequest(w) \/ SubmitNotify(w)
    <3>1. job'[w].at \notin {"submit_count", "submit_bootstrap", "submit_request"}
      BY <2>1, <2>3, <1>w
         DEF SubmitBootstrap, SubmitAudit, SubmitRequest, SubmitNotify, GotoJob, FinishJob,
             Succeed, Fail, SubmitJob, Idle
    <3>2. QED
      BY <3>1, <1>0
  <2>4. QED
    BY <1>2, <2>2, <2>3 DEF SubmitStep
<1>3. CASE ReviewStep(w)
  <2>1. CASE ReviewFind(w) \/ ReviewCommit(w) \/ ReviewNotify(w) \/ ReviewAudit(w)
    <3>1. job[w] \in ReviewJob
      BY <2>1, <1>w, JobTyped
         DEF ReviewFind, ReviewCommit, ReviewNotify, ReviewAudit, ReviewStages
    <3>2. job'[w].at \notin {"submit_count", "submit_bootstrap", "submit_request"}
      BY <2>1, <1>w, <3>1
         DEF ReviewFind, ReviewCommit, ReviewNotify, ReviewAudit, RollBack, GotoJob,
             FinishJob, ReviewJob, Idle
    <3>3. QED
      BY <3>2, <1>0
  <2>2. ASSUME NEW a \in User, NEW r \in 1 .. MaxRequests,
               NEW v \in {"APPROVED", "REJECTED"}, Review(w, a, r, v)
        PROVE  SubmissionsHold'
    BY <2>2, <1>0, <1>w DEF Review
  <2>3. QED
    BY <1>3, <2>1, <2>2 DEF ReviewStep
<1>4. CASE AdminStep(w)
  BY <1>4, <1>0 DEF AdminStep, Idle
<1>5. CASE Restart
  BY <1>5, <1>0, <1>w DEF Restart, Idle
<1>6. CASE UNCHANGED <<identity, job>>
  BY <1>6 DEF SubmissionsHold, Taken
<1>7. QED
  BY <1>w, <1>1, <1>2, <1>3, <1>4, <1>5, <1>6 DEF Next, JoinStep, joinVars, vars

(* Rows are never deleted, and nothing but the only handler switches one.   *)
LEMMA TargetsStep ==
  ASSUME Polling, Typed, OneFlow, TargetsHold, [Next]_vars
  PROVE  TargetsHold'
<1> USE DEF Typed, TypeOK, AccountsTypeOK
<1>w. PICK w : Handler = {w}
  BY DEF Polling
<1>0. ASSUME task'[w] = Idle
      PROVE  TargetsHold'
  BY <1>0, <1>w DEF TargetsHold, Idle
<1>1. ASSUME UNCHANGED table,
             task'[w] # Idle => HasRow(task'[w].target),
             task'[w].at # "toggle_update"
      PROVE  TargetsHold'
  BY <1>1, <1>w DEF TargetsHold, HasRow, table
<1>2. CASE JoinStep(w)
  BY <1>2, <1>0, <1>w, FlowsApart DEF JoinStep
<1>3. CASE AdminStep(w)
  <2>1. CASE \E a \in User : OpenUsers(w, a)
    BY <2>1, <1>0, <1>w DEF OpenUsers
  <2>2. ASSUME NEW a \in User, NEW t \in User, NEW r \in GrantableRoles, ChangeRole(w, a, t, r)
        PROVE  TargetsHold'
    BY <2>2, <1>1, <1>w DEF ChangeRole, Presses, table
  <2>3. ASSUME NEW a \in User, NEW t \in User, ToggleConfirm(w, a, t) \/ ToggleExecute(w, a, t)
        PROVE  TargetsHold'
    BY <2>3, <1>0, <1>1, <1>w DEF ToggleConfirm, ToggleExecute, Presses, table
  <2>4. CASE RoleStep(w)
    <3>1. task[w] \in RoleTask
      BY <2>4, <1>w, TaskShape DEF RoleStep, RoleFind, RoleCount, RoleUpdate
    <3>2. CASE RoleUpdate(w)
      BY <3>2, <1>0, <1>w DEF RoleUpdate, Finish
    <3>3. CASE RoleFind(w) \/ RoleCount(w)
      <4>1. /\ UNCHANGED table /\ task[w] # Idle
            /\ task'[w] = Idle \/ task'[w].target = task[w].target
            /\ task'[w].at # "toggle_update"
        BY <3>1, <3>3, <1>w DEF RoleFind, RoleCount, Goto, Finish, RoleTask, Idle, table
      <4>2. QED
        BY <4>1, <1>0, <1>1, <1>w DEF TargetsHold
    <3>4. QED
      BY <2>4, <3>2, <3>3 DEF RoleStep
  <2>5. CASE ToggleStep(w)
    <3>1. task[w] \in ToggleTask /\ task[w] # Idle
      BY <2>5, <1>w, TaskShape
         DEF ToggleStep, ToggleDel, ToggleFind, ToggleUpdate, ToggleLogout, Idle
    <3>2. HasRow(task[w].target)
      BY <3>1, <1>w DEF TargetsHold
    <3>3. CASE ToggleFind(w)
      <4>1. /\ task'[w].found = isActive[task[w].target]
            /\ task'[w].target = task[w].target
        BY <3>1, <3>3, <1>w DEF ToggleFind, ToggleTask
      <4>2. QED
        BY <3>2, <3>3, <4>1, <1>w DEF ToggleFind, TargetsHold, HasRow
    <3>4. CASE ToggleDel(w)
      BY <3>1, <3>2, <3>4, <1>1, <1>w DEF ToggleDel, Goto, ToggleTask, table
    <3>5. CASE ToggleUpdate(w)
      <4>1. /\ task'[w] = Idle \/ task'[w].target = task[w].target
            /\ task'[w].at # "toggle_update" /\ role' = role
        BY <3>1, <3>5, <1>w DEF ToggleUpdate, Goto, Finish, ToggleTask, Idle
      <4>2. QED
        BY <3>2, <4>1, <1>w DEF TargetsHold, HasRow
    <3>6. CASE ToggleLogout(w)
      BY <3>6, <1>0, <1>w DEF ToggleLogout, Finish
    <3>7. QED
      BY <2>5, <3>3, <3>4, <3>5, <3>6 DEF ToggleStep
  <2>6. QED
    BY <1>3, <2>1, <2>2, <2>3, <2>4, <2>5
       DEF AdminStep, AccountsHandler, RoleRequest, ToggleRequest
<1>4. CASE Restart
  BY <1>4, <1>0, <1>w DEF Restart
<1>5. CASE UNCHANGED <<role, isActive, task>>
  BY <1>5 DEF TargetsHold, HasRow
<1>6. QED
  BY <1>w, <1>2, <1>3, <1>4, <1>5 DEF Next, ToggleWithdraw, joinVars, vars, accountVars

LEMMA AdmissionInvStep ==
  ASSUME Polling
  PROVE  Typed /\ AdmissionInv /\ [Next]_vars => AdmissionInv'
<1> SUFFICES ASSUME Typed, AdmissionInv, [Next]_vars
             PROVE  AdmissionInv'
  OBVIOUS
<1>w. PICK w : Handler = {w}
  BY DEF Polling
<1>1. /\ OneFlow' /\ Undecided' /\ StillNone'
      /\ SubmissionsHold' /\ TargetsHold'
  BY OneFlowStep, UndecidedStep, StillNoneStep, SubmissionsStep, TargetsStep DEF AdmissionInv
<1>2. CountHolds'
  <2>1. CASE [AccountsNext]_accountVars
    BY <2>1, CountStep DEF AdmissionInv, Typed, TypeOK
  <2>2. CASE task'[w] = Idle
    BY <2>2, <1>w DEF CountHolds, Idle
  <2>3. QED
    BY <1>w, <2>1, <2>2, AdministrationIsAccounts DEF AdmissionInv
<1>3. QED
  BY <1>1, <1>2 DEF AdmissionInv

(* The statements that write accounts or requests.                          *)
Unwritten == UNCHANGED <<role, isActive, identity, requests>>

LEMMA AdmissionWriters ==
  ASSUME [Next]_vars, ~ Unwritten
  PROVE  \E h \in Handler : \/ SubmitBootstrap(h) \/ SubmitRequest(h) \/ ReviewCommit(h)
                            \/ AdminStep(h) /\ (RoleUpdate(h) \/ ToggleUpdate(h))
<1> USE DEF Unwritten, accountVars, table
<1>1. ASSUME NEW h \in Handler, JoinStep(h)
      PROVE  SubmitBootstrap(h) \/ SubmitRequest(h) \/ ReviewCommit(h)
  <2>1. ~ Conversation(h)
    BY DEF Conversation, Start, StartJoin, Answer, CancelForm, ConfirmForm
  <2>2. SubmitStep(h) => SubmitBootstrap(h) \/ SubmitRequest(h)
    BY DEF SubmitStep, SubmitCount, SubmitAudit, SubmitNotify
  <2>3. ReviewStep(h) => ReviewCommit(h)
    BY DEF ReviewStep, Review, ReviewFind, ReviewNotify, ReviewAudit
  <2>4. QED
    BY <1>1, <2>1, <2>2, <2>3 DEF JoinStep
<1>2. ASSUME NEW h \in Handler, AdminStep(h)
      PROVE  RoleUpdate(h) \/ ToggleUpdate(h)
  <2>1. RoleStep(h) => RoleUpdate(h)
    BY <1>2 DEF AdminStep, RoleStep, RoleFind, RoleCount
  <2>2. ToggleStep(h) => ToggleUpdate(h)
    BY <1>2 DEF AdminStep, ToggleStep, ToggleDel, ToggleFind, ToggleLogout
  <2>3. QED
    BY <1>2, <2>1, <2>2
       DEF AdminStep, AccountsHandler, OpenUsers, RoleRequest, ChangeRole, ToggleRequest,
           ToggleConfirm, ToggleExecute
<1>3. ~ Restart /\ ~ UNCHANGED vars
  BY DEF Restart, vars, joinVars
<1>4. ~ \E a, t \in User : ToggleWithdraw(a, t) /\ UNCHANGED joinVars
  BY DEF ToggleWithdraw, joinVars
<1>5. QED
  BY <1>1, <1>2, <1>3, <1>4 DEF Next

(* The writes are the events of Admission.                                  *)
PromiseStep == [Promise!Next]_(Promise!admissionVars)

LEMMA Unseen == Unwritten => PromiseStep
BY DEF Unwritten, PromiseStep, Promise!admissionVars

(* What Admission calls free, an account and an active SUPER_ADMIN.         *)
LEMMA PromiseTerms ==
  /\ Promise!SuperAdmins = SuperAdmins
  /\ Promise!Serving = ActiveSuperAdmins
  /\ \A u \in User : u \in Promise!Members <=> HasRow(u)
  /\ \A i : Promise!Nobody(i) <=> ~ Taken(i)
BY DEF Promise!SuperAdmins, Promise!Serving, Promise!Members, Promise!Nobody, SuperAdmins,
       ActiveSuperAdmins, HasRow, Taken

(* The bootstrap founds: its count and its lookups are still true.          *)
LEMMA BootstrapFounds ==
  ASSUME Typed, AdmissionInv, NEW h \in Handler, SubmitBootstrap(h)
  PROVE  PromiseStep
<1>1. CASE Unwritten
  BY <1>1, Unseen
<1>2. CASE ~ Unwritten
  <2>1. PICK i \in Identity : i = job[h].identity
    BY JobTyped DEF SubmitBootstrap, SubmitStages
  <2>2. /\ job[h].user = Initial /\ ~ HasRow(Initial) /\ ~ Taken(i) /\ SuperAdmins = {}
        /\ role' = [role EXCEPT ![Initial] = "SUPER_ADMIN"]
        /\ isActive' = [isActive EXCEPT ![Initial] = TRUE]
        /\ identity' = [identity EXCEPT ![Initial] = i]
        /\ requests' = requests
    BY <1>2, <2>1
       DEF AdmissionInv, SubmissionsHold, StillNone, SubmitBootstrap, Inserts, Fail,
           Unwritten, table
  <2>3. Initial \in User
    BY JoinAssumption
  <2>4. Promise!Found(i)
    BY <2>2, <2>3, PromiseTerms DEF Promise!Found, Promise!Enroll
  <2>5. Promise!Next
    BY <2>4 DEF Promise!Next
  <2>6. QED
    BY <2>5 DEF PromiseStep
<1>3. QED
  BY <1>1, <1>2

(* A request is filed with an identity that nobody has by then.             *)
LEMMA RequestFiles ==
  ASSUME Typed, AdmissionInv, NEW h \in Handler, SubmitRequest(h)
  PROVE  PromiseStep
<1>1. CASE Unwritten
  BY <1>1, Unseen
<1>2. CASE ~ Unwritten
  <2>1. PICK u \in User, i \in Identity : u = job[h].user /\ i = job[h].identity
    BY JobTyped DEF SubmitRequest, SubmitStages
  <2>2. /\ HasRow(u) /\ ~ Taken(i)
        /\ requests' = Append(requests, [user |-> u, identity |-> i, status |-> "PENDING"])
        /\ UNCHANGED <<role, isActive, identity>>
    BY <1>2, <2>1
       DEF AdmissionInv, SubmissionsHold, SubmitRequest, Fail, Unwritten, accountVars, table
  <2>3. Promise!File(u, i)
    BY <2>2, PromiseTerms DEF Promise!File
  <2>4. Promise!Next
    BY <2>3 DEF Promise!Next
  <2>5. QED
    BY <2>4 DEF PromiseStep
<1>3. QED
  BY <1>1, <1>2

(* A review that commits decides a request that is still undecided.         *)
LEMMA ReviewDecides ==
  ASSUME Typed, AdmissionInv, NEW h \in Handler, ReviewCommit(h)
  PROVE  PromiseStep
<1>1. PICK r \in DOMAIN requests : r = job[h].request
  BY JobTyped DEF ReviewCommit, ReviewStages
<1>2. requests[r].status = "PENDING"
  BY <1>1 DEF AdmissionInv, Undecided, ReviewCommit
<1>3. CASE Unwritten
  BY <1>3, Unseen
<1>4. CASE ~ Unwritten
  <2>1. Promise!Approve(r) \/ Promise!Reject(r)
    BY <1>1, <1>2, <1>4
       DEF ReviewCommit, RollBack, SetStatus, Clash, Unwritten, table, Promise!Approve,
           Promise!Reject, Promise!Decide, Promise!Enroll
  <2>2. Promise!Next
    BY <2>1 DEF Promise!Next
  <2>3. QED
    BY <2>2 DEF PromiseStep
<1>5. QED
  BY <1>3, <1>4

(* A role is assigned as the count allowed, a switch turns what it found.   *)
LEMMA AdministrationAssigns ==
  ASSUME Typed, AdmissionInv, NEW h \in Handler, AdminStep(h),
         RoleUpdate(h) \/ ToggleUpdate(h)
  PROVE  PromiseStep
<1>1. task[h] \in RoleTask \cup ToggleTask /\ task[h] # Idle
  BY TaskShape DEF Typed, TypeOK, AccountsTypeOK, RoleUpdate, ToggleUpdate, Idle
<1>2. PICK u \in User : u = task[h].target
  BY <1>1 DEF RoleTask, ToggleTask
<1>3. HasRow(u) /\ UNCHANGED <<identity, requests>>
  BY <1>1, <1>2 DEF AdmissionInv, TargetsHold, AdminStep
<1>4. CASE RoleUpdate(h)
  <2>1. PICK r \in Roles : r = task[h].newRole
    BY <1>4, TaskShape DEF Typed, TypeOK, AccountsTypeOK, RoleUpdate, RoleTask
  <2>2. (u \in SuperAdmins /\ r # "SUPER_ADMIN") => ActiveSuperAdmins \ {u} # {}
    BY <1>2, <1>4, <2>1 DEF AdmissionInv, CountHolds, RoleUpdate, SuperAdmins
  <2>3. Promise!Assign(u, r)
    BY <1>2, <1>3, <1>4, <2>1, <2>2, PromiseTerms DEF Promise!Assign, RoleUpdate
  <2>4. Promise!Next
    BY <2>3 DEF Promise!Next
  <2>5. QED
    BY <2>4 DEF PromiseStep
<1>5. CASE ToggleUpdate(h)
  <2>1. task[h].found = isActive[u]
    BY <1>2, <1>5 DEF AdmissionInv, TargetsHold, ToggleUpdate
  <2>2. Promise!Switch(u)
    BY <1>2, <1>3, <1>5, <2>1, PromiseTerms DEF Promise!Switch, ToggleUpdate
  <2>3. Promise!Next
    BY <2>2 DEF Promise!Next
  <2>4. QED
    BY <2>3 DEF PromiseStep
<1>6. QED
  BY <1>4, <1>5

LEMMA AdmissionSimulation == Typed /\ AdmissionInv /\ [Next]_vars => PromiseStep
BY Unseen, AdmissionWriters, BootstrapFounds, RequestFiles, ReviewDecides,
   AdministrationAssigns

LEMMA AdmissionInit == Init => AdmissionInv /\ Promise!Init
BY DEF Init, AccountsInit, AdmissionInv, OneFlow, Undecided, StillNone, SubmissionsHold,
       TargetsHold, CountHolds, Idle, Promise!Init

(* With one update at a time, everything the conversation, the review and   *)
(* the administration check in one statement and use in a later one still   *)
(* holds: together they only do what Admission does in single steps.        *)
THEOREM OnboardingImplementsAdmission ==
  ASSUME Polling
  PROVE  Spec => KeepsAdmission
<1>1. Typed /\ AdmissionInv /\ [Next]_vars => [Promise!Next]_(Promise!admissionVars)
  BY AdmissionSimulation DEF PromiseStep
<1>2. Typed /\ AdmissionInv /\ [Next]_vars => AdmissionInv'
  BY AdmissionInvStep
<1>3. QED
  BY TypedInit, TypedStep, AdmissionInit, <1>1, <1>2, PTL DEF Spec, KeepsAdmission, Promise!Spec

-----------------------------------------------------------------------------
(* Confirmations, beside onboarding and review                              *)

(* Neither a submission nor a review touches a confirmation.                *)
LEMMA ConfirmationsBeside ==
  ASSUME Polling
  PROVE  Typed /\ OneFlow /\ ConfirmInv /\ [Next]_vars => ConfirmInv'
<1> SUFFICES ASSUME Typed, OneFlow, ConfirmInv, [Next]_vars
             PROVE  ConfirmInv'
  OBVIOUS
<1>w. PICK w : Handler = {w}
  BY DEF Polling
<1>1. CASE [AccountsNext]_accountVars
  BY <1>1, ConfirmStep DEF Typed, TypeOK
<1>2. CASE UNCHANGED <<confirm, unspent, task>>
  BY <1>2 DEF ConfirmInv, ConfirmationUsedOnce, Confirmation
<1>3. CASE JoinStep(w)
  <2>1. task' = task
    BY <1>3, <1>w, FlowsApart DEF JoinStep
  <2>2. UNCHANGED <<confirm, unspent>>
    <3>1. Conversation(w) => UNCHANGED <<confirm, unspent>>
      BY DEF Conversation, Start, StartJoin, Answer, CancelForm, ConfirmForm, accountVars
    <3>2. SubmitStep(w) => UNCHANGED <<confirm, unspent>>
      BY DEF SubmitStep, SubmitCount, SubmitBootstrap, SubmitAudit, SubmitRequest,
             SubmitNotify, accountVars
    <3>3. ReviewStep(w) => UNCHANGED <<confirm, unspent>>
      BY DEF ReviewStep, Review, ReviewFind, ReviewCommit, ReviewNotify, ReviewAudit,
             accountVars
    <3>4. QED
      BY <1>3, <3>1, <3>2, <3>3 DEF JoinStep
  <2>3. QED
    BY <1>2, <2>1, <2>2
<1>4. CASE Restart
  BY <1>4 DEF Restart, ConfirmInv, ConfirmationUsedOnce, Confirmation, Idle
<1>5. QED
  BY <1>w, <1>1, <1>2, <1>3, <1>4
     DEF Next, AdminStep, AccountsNext, joinVars, vars, accountVars

(* With one update at a time, a confirmation is spent once, while people    *)
(* join and requests are reviewed.                                          *)
THEOREM ConfirmationsAreSpentOnce ==
  ASSUME Polling
  PROVE  Spec => []ConfirmationUsedOnce
<1>1. Typed /\ AdmissionInv /\ [Next]_vars => AdmissionInv'
  BY AdmissionInvStep
<1>2. Typed /\ AdmissionInv /\ ConfirmInv /\ [Next]_vars => ConfirmInv'
  BY ConfirmationsBeside DEF AdmissionInv
<1>3. Init => ConfirmInv
  BY DEF Init, AccountsInit, ConfirmInv, ConfirmationUsedOnce, Confirmation, Idle
<1>4. ConfirmInv => ConfirmationUsedOnce
  BY DEF ConfirmInv
<1>5. QED
  BY TypedInit, TypedStep, AdmissionInit, <1>1, <1>2, <1>3, <1>4, PTL DEF Spec

===============================================================================
