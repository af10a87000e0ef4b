---------------------------- MODULE MCJoinRequests ----------------------------
(* Small instances of JoinRequests for TLC.                                 *)
EXTENDS JoinRequests, TLC

CONSTANTS n, s, i1, i2, h1, h2

(* n is the founder (env.INITIAL_SUPER_ADMIN_ID).                           *)
MCUser == {n, s}

Table(q, r) == [role |-> (n :> q) @@ (s :> r),
                isActive |-> (n :> (q # NoRow)) @@ (s :> (r # NoRow))]

MCIdentity == {i1, i2}
MCHandler == {h1, h2}

(* Nobody yet, or s alone as an employee or as the super admin.             *)
AtMostOneAccount == {Table(NoRow, r) : r \in {NoRow, "EMPLOYEE", "SUPER_ADMIN"}}

TwoSuperAdmins == {Table("SUPER_ADMIN", "SUPER_ADMIN")}
===============================================================================
