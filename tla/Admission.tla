------------------------------- MODULE Admission -------------------------------
(***************************************************************************)
(* What onboarding, review and user administration promise together        *)
(* (services/join-requests.ts, bot/handlers/approvals.ts and users.ts)     *)
(* when updates are handled one after the other: without conversations,    *)
(* confirmations, transactions or crashes, every event is one step, and    *)
(* what the code looks up beforehand holds in that step.                   *)
(*   - A request is filed for an account, with an identity nobody has.     *)
(*   - It is decided once; an approval makes the applicant an EMPLOYEE     *)
(*     with the requested identity, whatever its role was, and a rejection *)
(*     changes no account.                                                 *)
(*   - The founder gets an account while there is no SUPER_ADMIN.          *)
(*   - A SUPER_ADMIN is demoted while another one is active, and a switch  *)
(*     turns an account off or on.                                         *)
(***************************************************************************)
EXTENDS Sequences

CONSTANTS
  User,       \* Telegram ids
  Roles,      \* the roles of an account
  NoRow,      \* the role of an id without an account
  Identity,   \* phone and national id of a person
  NoIdentity, \* the identity of an account that has none
  Initial     \* the founder

VARIABLES
  role,     \* of each user
  isActive, \* of each user
  identity, \* of each user
  requests  \* every request filed so far, in order

admissionVars == <<role, isActive, identity, requests>>

Members == {u \in User : role[u] # NoRow}
SuperAdmins == {u \in User : role[u] = "SUPER_ADMIN"}
Serving == {u \in SuperAdmins : isActive[u]}

Nobody(i) == \A u \in User : identity[u] # i

(* The account of u after it got a role and an identity.                    *)
Enroll(u, r, i) ==
  /\ role' = [role EXCEPT ![u] = r]
  /\ isActive' = [isActive EXCEPT ![u] = TRUE]
  /\ identity' = [identity EXCEPT ![u] = i]

Init ==
  /\ identity = [u \in User |-> NoIdentity]
  /\ requests = <<>>

Found(i) ==
  /\ SuperAdmins = {} /\ Initial \notin Members /\ Nobody(i)
  /\ Enroll(Initial, "SUPER_ADMIN", i)
  /\ UNCHANGED requests

File(u, i) ==
  /\ u \in Members /\ Nobody(i)
  /\ requests' = Append(requests, [user |-> u, identity |-> i, status |-> "PENDING"])
  /\ UNCHANGED <<role, isActive, identity>>

Decide(r, status) ==
  /\ requests[r].status = "PENDING"
  /\ requests' = [requests EXCEPT ![r].status = status]

Approve(r) ==
  LET q == requests[r] IN
  /\ \A u \in User \ {q.user} : identity[u] # q.identity
  /\ Decide(r, "APPROVED")
  /\ Enroll(q.user, "EMPLOYEE", q.identity)

Reject(r) == Decide(r, "REJECTED") /\ UNCHANGED <<role, isActive, identity>>

Assign(u, r) ==
  /\ u \in Members
  /\ (u \in SuperAdmins /\ r # "SUPER_ADMIN") => Serving \ {u} # {}
  /\ role' = [role EXCEPT ![u] = r]
  /\ UNCHANGED <<isActive, identity, requests>>

Switch(u) ==
  /\ u \in Members
  /\ isActive' = [isActive EXCEPT ![u] = ~isActive[u]]
  /\ UNCHANGED <<role, identity, requests>>

Next ==
  \/ \E i \in Identity : Found(i) \/ \E u \in User : File(u, i)
  \/ \E r \in DOMAIN requests : Approve(r) \/ Reject(r)
  \/ \E u \in User : Switch(u) \/ \E r \in Roles : Assign(u, r)

Spec == Init /\ [][Next]_admissionVars

===============================================================================
