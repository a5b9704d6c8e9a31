------------------------------ MODULE MCMembers ------------------------------
(* Instances of Members for TLC.                                             *)
EXTENDS Members, TLC

CONSTANTS o1, o2, m, g, keeper, auditor

AllPermissions == {ManageMembers, ManageRoles, "account:update"}

\* Two Owners, a user who is no member yet, and a manager of members and roles, who
\* sends the requests; a role nobody has yet allows what the manager may not do.
Staff == o1 :> Owner @@ o2 :> Owner @@ m :> keeper @@ g :> NoRole
StaffGrants == keeper :> {ManageMembers, ManageRoles} @@ auditor :> {"account:update"}

\* One Owner, who acts, and a manager of members.
OneOwner == o1 :> Owner @@ m :> keeper
KeeperGrants == keeper :> {ManageMembers}

Symmetry == Permutations(Proc) \cup Permutations({o1, o2})
=============================================================================
