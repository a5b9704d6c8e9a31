-------------------------------- MODULE Members --------------------------------
(* Members and roles of one account: packages/core/src/modules/authz/          *)
(* application/{actor,members,roles}.ts and loadPermissions of sessions.ts.    *)
(*                                                                             *)
(* As in Sessions, an action is one SQL statement or one commit at READ        *)
(* COMMITTED.  Other accounts never appear: every query is under the tenant's  *)
(* row-level security.                                                         *)

CONSTANTS
    Proc,           \* requests being served at the same time
    User,
    Role,           \* custom roles
    Owner,          \* the immutable system role with every permission
    NoRole,         \* not a member of the account
    Permission,
    Actor,          \* users who send requests
    Assignable,     \* roles the requests hand out
    InitialRole,    \* each user's role at the start
    InitialGrants   \* the permissions of each custom role at the start

ManageMembers == "members:manage"
ManageRoles == "roles:manage"

ASSUME RoleAssumption == Owner \notin Role /\ NoRole \notin Role \cup {Owner}
ASSUME PermissionAssumption == {ManageMembers, ManageRoles} \subseteq Permission
ASSUME ActorAssumption == Actor \subseteq User
ASSUME AssignableAssumption == Assignable \subseteq Role \cup {Owner}
ASSUME InitialAssumption ==
    /\ InitialRole \in [User -> Role \cup {Owner, NoRole}]
    /\ InitialGrants \in [Role -> SUBSET Permission]
    /\ \E u \in User : InitialRole[u] = Owner
    \* the foreign key: Init's roles are those with grants
    /\ \A u \in User : InitialRole[u] \in Role => InitialGrants[InitialRole[u]] # {}

VARIABLES
    members,    \* account_users: the role of each user, or NoRole
    roles,      \* the custom roles that exist
    grants,     \* role_permissions of the custom roles
    proc        \* what each request is doing

vars == <<members, roles, grants, proc>>

-----------------------------------------------------------------------------
(* Data *)

PC == {"idle", "role", "actor", "insert", "current", "owners", "locking", "write",
       "rewrite", "drop"}

Request ==
    [pc : PC, user : User \cup {NoRole}, role : Role \cup {Owner, NoRole},
     held : SUBSET Permission,      \* actor.permissions, loaded once
     asked : SUBSET Permission,     \* the permissions of an updateRole
     seen : SUBSET Permission,      \* rows its DELETE found in its snapshot
     owners : SUBSET User,          \* Owner rows its SELECT found
     locked : SUBSET User]          \* rows of account_users it holds FOR UPDATE

Idle ==
    [pc |-> "idle", user |-> NoRole, role |-> NoRole, held |-> {}, asked |-> {},
     seen |-> {}, owners |-> {}, locked |-> {}]

At(p, label) == proc[p].pc = label
Become(p, request) == proc' = [proc EXCEPT ![p] = request]
Finish(p) == Become(p, Idle)

GrantsOf(r) ==
    IF r = Owner THEN Permission ELSE IF r \in roles THEN grants[r] ELSE {}
Exists(r) == r = Owner \/ r \in roles
Owners == {u \in User : members[u] = Owner}

\* Another request holds the row of account_users FOR UPDATE.
LockedByOther(p, u) == \E q \in Proc \ {p} : u \in proc[q].locked

-----------------------------------------------------------------------------
(* authenticate: loadPermissions reads the role, then the role's permissions *)

LoadRole(p, u) ==
    /\ At(p, "idle")
    /\ u \in Actor
    /\ members[u] # NoRole
    /\ Become(p, [Idle EXCEPT !.pc = "role", !.role = members[u]])
    /\ UNCHANGED <<members, roles, grants>>

LoadPermissions(p) ==
    /\ At(p, "role")
    /\ Become(p, [Idle EXCEPT !.pc = "actor", !.held = GrantsOf(proc[p].role)])
    /\ UNCHANGED <<members, roles, grants>>

Can(p, permission) == permission \in proc[p].held

\* mutant: the route's permission is enough
CanGrantAnything(p, permissions) == TRUE
\* assertCanGrant: nobody gives a permission they do not hold.
CanGrant(p, permissions) == permissions \subseteq proc[p].held

\* assertCan(actor, 'members:manage'), then assertCanAssignRole.
MayAssign(p, r) ==
    /\ At(p, "actor")
    /\ Can(p, ManageMembers)
    /\ Exists(r)
    /\ CanGrant(p, GrantsOf(r))

-----------------------------------------------------------------------------
(* Members *)

StartAdd(p, u, r) ==
    /\ MayAssign(p, r)
    /\ Become(p, [Idle EXCEPT !.pc = "insert", !.user = u, !.role = r])
    /\ UNCHANGED <<members, roles, grants>>

\* mutant: userId and roleId change places
InsertSwapped(p) ==
    /\ At(p, "insert")
    /\ members[proc[p].user] = NoRole
    /\ members' = [members EXCEPT ![proc[p].user] = proc[p].user]
    /\ Finish(p)
    /\ UNCHANGED <<roles, grants>>

\* INSERT: refused for a member (email_taken) and, by the foreign key, for a role
\* deleted in the meantime.
InsertMember(p) ==
    /\ At(p, "insert")
    /\ members' = IF members[proc[p].user] = NoRole /\ Exists(proc[p].role)
                  THEN [members EXCEPT ![proc[p].user] = proc[p].role]
                  ELSE members
    /\ Finish(p)
    /\ UNCHANGED <<roles, grants>>

StartChange(p, u, r) ==
    /\ MayAssign(p, r)
    /\ Become(p, [Idle EXCEPT !.pc = "current", !.user = u, !.role = r])
    /\ UNCHANGED <<members, roles, grants>>

\* changeMemberRole reads the member's role without a lock, and asks about the
\* last Owner only if the new role differs from it.
ReadCurrent(p) ==
    LET current == members[proc[p].user] IN
    /\ At(p, "current")
    /\ \/ current = NoRole /\ Finish(p)
       \/ current = proc[p].role /\ Become(p, [proc[p] EXCEPT !.pc = "write"])
       \/ /\ current \notin {NoRole, proc[p].role}
          /\ Become(p, [proc[p] EXCEPT !.pc = "owners"])
    /\ UNCHANGED <<members, roles, grants>>

\* removeMember: the same steps with no role to give.
StartRemove(p, u) ==
    /\ At(p, "actor")
    /\ Can(p, ManageMembers)
    /\ Become(p, [Idle EXCEPT !.pc = "owners", !.user = u])
    /\ UNCHANGED <<members, roles, grants>>

\* assertNotLastOwner, SELECT ... FOR UPDATE: the snapshot of the Owner rows,
FindOwners(p) ==
    /\ At(p, "owners")
    /\ Become(p, [proc[p] EXCEPT !.pc = "locking", !.owners = Owners])
    /\ UNCHANGED <<members, roles, grants>>

\* mutant: the row is taken as it was before the wait
AsFound(u) == TRUE
\* A row that changed while it was waited for is looked at again.
StillOwner(u) == members[u] = Owner

\* ... then their locks, one after the other and in no order SQL would promise.  A
\* row left out because it is no longer an Owner's stays locked all the same.
LockOwner(p, u) ==
    /\ At(p, "locking")
    /\ u \in proc[p].owners \ proc[p].locked
    /\ ~LockedByOther(p, u)
    /\ Become(p, [proc[p] EXCEPT !.locked = @ \cup {u},
                                 !.owners = IF StillOwner(u) THEN @ ELSE @ \ {u}])
    /\ UNCHANGED <<members, roles, grants>>

\* owners.length === 1 && owners[0].userId === targetUserId
AssertNotLastOwner(p) ==
    /\ At(p, "locking")
    /\ proc[p].owners \subseteq proc[p].locked
    /\ IF proc[p].owners = {proc[p].user}
       THEN Finish(p)
       ELSE Become(p, [proc[p] EXCEPT !.pc = "write"])
    /\ UNCHANGED <<members, roles, grants>>

\* The UPDATE or DELETE of the member's row and the commit that frees the locks.
\* No row: nothing is written.  A role deleted meanwhile: the foreign key refuses.
\* Who waits for a deleted row never gets it, even if the user is added again.
WriteMember(p) ==
    LET u == proc[p].user
        r == proc[p].role IN
    /\ At(p, "write")
    /\ ~LockedByOther(p, u)
    /\ members' = IF members[u] # NoRole /\ (r = NoRole \/ Exists(r))
                  THEN [members EXCEPT ![u] = r]
                  ELSE members
    /\ proc' = [q \in Proc |->
                  CASE q = p -> Idle
                    [] q # p /\ At(q, "locking") /\ r = NoRole ->
                         [proc[q] EXCEPT !.owners = @ \ {u}]
                    [] OTHER -> proc[q]]
    /\ UNCHANGED <<roles, grants>>
-----------------------------------------------------------------------------
(* Roles *)

CreateRole(p, r, permissions) ==
    /\ At(p, "actor")
    /\ Can(p, ManageRoles)
    /\ CanGrant(p, permissions)
    /\ r \in Role \ roles
    /\ roles' = roles \cup {r}
    /\ grants' = [grants EXCEPT ![r] = permissions]
    /\ Finish(p)
    /\ UNCHANGED members

\* updateRole up to its DELETE FROM role_permissions, which sees the rows
\* committed by now.  (With a new name the UPDATE of the role's row comes first
\* and makes two of them wait for each other: fewer interleavings than here.)
StartUpdateRole(p, r, permissions) ==
    /\ At(p, "actor")
    /\ Can(p, ManageRoles)
    /\ CanGrant(p, permissions)
    /\ r \in roles
    /\ Become(p, [Idle EXCEPT !.pc = "rewrite", !.role = r, !.asked = permissions,
                              !.seen = grants[r]])
    /\ UNCHANGED <<members, roles, grants>>

\* INSERT and COMMIT.  Rows another update inserted since are still there: the
\* primary key refuses a permission that is among them (name_taken), the others
\* stay beside the new ones.  Rows this DELETE removed are gone for the rest.
CommitUpdateRole(p) ==
    LET r == proc[p].role
        kept == grants[r] \ proc[p].seen
        refused == r \notin roles \/ kept \cap proc[p].asked # {} IN
    /\ At(p, "rewrite")
    /\ IF refused
       THEN Finish(p) /\ UNCHANGED grants
       ELSE /\ grants' = [grants EXCEPT ![r] = kept \cup proc[p].asked]
            /\ proc' = [q \in Proc |->
                          CASE q = p -> Idle
                            [] q # p /\ At(q, "rewrite") /\ proc[q].role = r ->
                                 [proc[q] EXCEPT !.seen = @ \cap kept]
                            [] OTHER -> proc[q]]
    /\ UNCHANGED <<members, roles>>

Used(r) == \E u \in User : members[u] = r

StartDeleteRole(p, r) ==
    /\ At(p, "actor")
    /\ Can(p, ManageRoles)
    /\ r \in roles
    /\ ~Used(r)
    /\ Become(p, [Idle EXCEPT !.pc = "drop", !.role = r])
    /\ UNCHANGED <<members, roles, grants>>

\* mutant: the foreign key would cascade
DeletableAnyway(r) == r \in roles
\* The foreign key of account_users refuses if somebody was given the role.
Deletable(r) == r \in roles /\ ~Used(r)

CommitDeleteRole(p) ==
    LET r == proc[p].role IN
    /\ At(p, "drop")
    /\ IF Deletable(r)
       THEN roles' = roles \ {r} /\ grants' = [grants EXCEPT ![r] = {}]
       ELSE UNCHANGED <<roles, grants>>
    /\ Finish(p)
    /\ UNCHANGED members
-----------------------------------------------------------------------------
\* The request ends early (another route, an error, the process dies): ROLLBACK.  So
\* ends the one of two requests in a deadlock that PostgreSQL picks, as HTTP 500:
\* their row locks do come in different orders.
Abandon(p) ==
    /\ ~At(p, "idle")
    /\ Finish(p)
    /\ UNCHANGED <<members, roles, grants>>

Init ==
    /\ members = InitialRole
    /\ roles = {r \in Role : InitialGrants[r] # {}}
    /\ grants = InitialGrants
    /\ proc = [p \in Proc |-> Idle]

Start(p) ==
    \/ \E u \in User : LoadRole(p, u) \/ StartRemove(p, u)
    \/ \E u \in User, r \in Assignable : StartAdd(p, u, r) \/ StartChange(p, u, r)
    \/ \E r \in Role, s \in SUBSET Permission : CreateRole(p, r, s) \/ StartUpdateRole(p, r, s)
    \/ \E r \in Role : StartDeleteRole(p, r)

Proceed(p) ==
    \/ \E u \in User : LockOwner(p, u)
    \/ AssertNotLastOwner(p)
    \/ WriteMember(p)
    \/ LoadPermissions(p)
    \/ InsertMember(p)
    \/ ReadCurrent(p)
    \/ FindOwners(p)
    \/ CommitUpdateRole(p)
    \/ CommitDeleteRole(p)

Next == \E p \in Proc : Start(p) \/ Proceed(p) \/ Abandon(p)

Spec == Init /\ [][Next]_vars
-----------------------------------------------------------------------------
(* Properties *)

TypeOK ==
    /\ members \in [User -> Role \cup {Owner, NoRole}]
    /\ roles \subseteq Role
    /\ grants \in [Role -> SUBSET Permission]
    /\ proc \in [Proc -> Request]

\* "a conta nunca fica sem Owner": whatever removals and changes of role overlap,
\* somebody still owns the account (assertNotLastOwner).
AccountHasOwner == Owners # {}

\* The permissions a user starts with, and those of all who act together.
GrantedFirst(u) ==
    CASE InitialRole[u] = Owner -> Permission
      [] InitialRole[u] \in Role -> InitialGrants[InitialRole[u]]
      [] OTHER -> {}
Ceiling == UNION {GrantedFirst(u) : u \in Actor}

\* Anti-escalation: no sequence of creating, editing and assigning roles, with
\* stale permissions and overlapping edits, gives anyone, whether they act or not, a
\* permission they did not start with and none of the acting users had.
NoEscalation ==
    /\ \A u \in User : GrantsOf(members[u]) \subseteq GrantedFirst(u) \cup Ceiling
    /\ \A r \in Role : grants[r] \subseteq InitialGrants[r] \cup Ceiling

\* A member never has a role that was deleted, although the check for use and the
\* assignment run in different transactions.
MembersHaveRoles == \A u \in User : members[u] = NoRole \/ Exists(members[u])
=============================================================================
