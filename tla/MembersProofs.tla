----------------------------- MODULE MembersProofs -----------------------------
(* Theorems about Members, for any number of users, roles, permissions and     *)
(* requests.  Three inductive invariants, each on top of the one before: the   *)
(* types with the foreign key, the permissions, and the Owner rows' locks.     *)
EXTENDS Members, TLAPS

-----------------------------------------------------------------------------
(* Types and the foreign key *)

MembersInv == TypeOK /\ MembersHaveRoles

\* A request that becomes another leaves the others alone.
LEMMA BecomeRequest ==
    ASSUME TypeOK, NEW p \in Proc, NEW request \in Request, Become(p, request)
    PROVE  /\ proc' \in [Proc -> Request]
           /\ proc'[p] = request
           /\ \A q \in Proc \ {p} : proc'[q] = proc[q]
  BY DEF TypeOK, Become

\* A request that has ended is a request.
LEMMA IdleIsRequest == Idle \in Request
  BY DEF Idle, Request, PC

\* What each step writes has its type, whatever request it is for.
LEMMA StartKeepsTypes ==
    ASSUME TypeOK, NEW p \in Proc, Start(p)
    PROVE  TypeOK'
  <1>1. \A u \in User : LoadRole(p, u) => TypeOK'
    <2> SUFFICES ASSUME NEW u \in User, LoadRole(p, u) PROVE TypeOK'  OBVIOUS
    <2>1. [Idle EXCEPT !.pc = "role", !.role = members[u]] \in Request
      BY DEF Idle, Request, PC, TypeOK
    <2> QED  BY <2>1, BecomeRequest DEF LoadRole, TypeOK
  <1>2. \A u \in User : StartRemove(p, u) => TypeOK'
    <2> SUFFICES ASSUME NEW u \in User, StartRemove(p, u) PROVE TypeOK'  OBVIOUS
    <2>1. [Idle EXCEPT !.pc = "owners", !.user = u] \in Request
      BY DEF Idle, Request, PC
    <2> QED  BY <2>1, BecomeRequest DEF StartRemove, TypeOK
  <1>3. \A u \in User, r \in Assignable : StartAdd(p, u, r) => TypeOK'
    <2> SUFFICES ASSUME NEW u \in User, NEW r \in Assignable, StartAdd(p, u, r)
                 PROVE  TypeOK'
      OBVIOUS
    <2>1. [Idle EXCEPT !.pc = "insert", !.user = u, !.role = r] \in Request
      BY AssignableAssumption DEF Idle, Request, PC
    <2> QED  BY <2>1, BecomeRequest DEF StartAdd, TypeOK
  <1>4. \A u \in User, r \in Assignable : StartChange(p, u, r) => TypeOK'
    <2> SUFFICES ASSUME NEW u \in User, NEW r \in Assignable, StartChange(p, u, r)
                 PROVE  TypeOK'
      OBVIOUS
    <2>1. [Idle EXCEPT !.pc = "current", !.user = u, !.role = r] \in Request
      BY AssignableAssumption DEF Idle, Request, PC
    <2> QED  BY <2>1, BecomeRequest DEF StartChange, TypeOK
  <1>5. \A r \in Role, s \in SUBSET Permission : CreateRole(p, r, s) => TypeOK'
    <2> SUFFICES ASSUME NEW r \in Role, NEW s \in SUBSET Permission, CreateRole(p, r, s)
                 PROVE  TypeOK'
      OBVIOUS
    <2>1. proc' \in [Proc -> Request]
      BY IdleIsRequest, BecomeRequest DEF CreateRole, Finish
    <2> QED  BY <2>1 DEF CreateRole, TypeOK
  <1>6. \A r \in Role, s \in SUBSET Permission : StartUpdateRole(p, r, s) => TypeOK'
    <2> SUFFICES ASSUME NEW r \in Role, NEW s \in SUBSET Permission,
                        StartUpdateRole(p, r, s)
                 PROVE  TypeOK'
      OBVIOUS
    <2>1. grants[r] \in SUBSET Permission
      BY DEF TypeOK
    <2>2. [Idle EXCEPT !.pc = "rewrite", !.role = r, !.asked = s, !.seen = grants[r]]
            \in Request
      BY <2>1 DEF Idle, Request, PC
    <2> QED  BY <2>2, BecomeRequest DEF StartUpdateRole, TypeOK
  <1>7. \A r \in Role : StartDeleteRole(p, r) => TypeOK'
    <2> SUFFICES ASSUME NEW r \in Role, StartDeleteRole(p, r) PROVE TypeOK'  OBVIOUS
    <2>1. [Idle EXCEPT !.pc = "drop", !.role = r] \in Request
      BY DEF Idle, Request, PC
    <2> QED  BY <2>1, BecomeRequest DEF StartDeleteRole, TypeOK
  <1> QED
    BY <1>1, <1>2, <1>3, <1>4, <1>5, <1>6, <1>7 DEF Start

\* The same for the steps of a request under way.
LEMMA ProceedKeepsTypes ==
    ASSUME TypeOK, NEW p \in Proc, Proceed(p)
    PROVE  TypeOK'
  <1> DEFINE r == proc[p]
  <1>0. r \in Request
    BY DEF TypeOK
  <1> HIDE DEF r
  <1>a. CASE \E u \in User : LockOwner(p, u)
    <2>1. PICK u \in User : LockOwner(p, u)
      BY <1>a
    <2> DEFINE left == IF StillOwner(u) THEN r.owners ELSE r.owners \ {u}
               lock == [r EXCEPT !.locked = r.locked \cup {u}, !.owners = left]
    <2>2. lock \in Request
      BY <1>0 DEF Request
    <2>3. Become(p, lock)
      BY <2>1 DEF LockOwner, r
    <2> HIDE DEF lock
    <2>4. proc' \in [Proc -> Request]
      BY <2>2, <2>3, BecomeRequest
    <2> QED  BY <2>1, <2>4 DEF LockOwner, TypeOK
  <1>1. CASE AssertNotLastOwner(p)
    <2>1. [r EXCEPT !.pc = "write"] \in Request
      BY <1>0 DEF Request, PC
    <2>2. Finish(p) \/ Become(p, [r EXCEPT !.pc = "write"])
      BY <1>1 DEF AssertNotLastOwner, r
    <2>3. proc' \in [Proc -> Request]
      BY <2>1, <2>2, IdleIsRequest, BecomeRequest DEF Finish
    <2> QED  BY <1>1, <2>3 DEF AssertNotLastOwner, TypeOK
  <1>2. CASE WriteMember(p)
    <2>1. ASSUME NEW q \in Proc
          PROVE  proc'[q] \in Request
      <3> DEFINE s == proc[q]
      <3>1. s \in Request
        BY DEF TypeOK
      <3> HIDE DEF s
      <3>2. [s EXCEPT !.owners = @ \ {r.user}] \in Request
        BY <3>1 DEF Request
      <3>3. proc'[q] \in {Idle, s, [s EXCEPT !.owners = @ \ {r.user}]}
        BY <1>2 DEF WriteMember, r, s
      <3> QED  BY <3>1, <3>2, <3>3, IdleIsRequest
    <2>2. proc' = [q \in Proc |-> proc'[q]]
      BY <1>2 DEF WriteMember
    <2>3. proc' \in [Proc -> Request]
      BY <2>1, <2>2
    <2>4. r.role \in Role \cup {Owner, NoRole}
      BY <1>0 DEF Request
    <2>5. members' \in [User -> Role \cup {Owner, NoRole}]
      BY <1>2, <2>4 DEF WriteMember, TypeOK, r
    <2> QED  BY <1>2, <2>3, <2>5 DEF WriteMember, TypeOK
  <1>3. CASE LoadPermissions(p)
    <2>1. GrantsOf(r.role) \in SUBSET Permission
      BY DEF GrantsOf, TypeOK
    <2>2. [Idle EXCEPT !.pc = "actor", !.held = GrantsOf(r.role)] \in Request
      BY <2>1 DEF Idle, Request, PC
    <2>3. Become(p, [Idle EXCEPT !.pc = "actor", !.held = GrantsOf(r.role)])
      BY <1>3 DEF LoadPermissions, r
    <2> QED  BY <1>3, <2>2, <2>3, BecomeRequest DEF LoadPermissions, TypeOK
  <1>4. CASE InsertMember(p)
    <2>1. proc' \in [Proc -> Request]
      BY <1>4, IdleIsRequest, BecomeRequest DEF InsertMember, Finish
    <2>2. r.role \in Role \cup {Owner, NoRole}
      BY <1>0 DEF Request
    <2>3. members' \in [User -> Role \cup {Owner, NoRole}]
      BY <1>4, <2>2 DEF InsertMember, TypeOK, r
    <2> QED  BY <1>4, <2>1, <2>3 DEF InsertMember, TypeOK
  <1>5. CASE ReadCurrent(p)
    <2>1. /\ [r EXCEPT !.pc = "write"] \in Request
          /\ [r EXCEPT !.pc = "owners"] \in Request
      BY <1>0 DEF Request, PC
    <2>2. \/ Finish(p)
          \/ Become(p, [r EXCEPT !.pc = "write"])
          \/ Become(p, [r EXCEPT !.pc = "owners"])
      BY <1>5 DEF ReadCurrent, r
    <2>3. proc' \in [Proc -> Request]
      BY <2>1, <2>2, IdleIsRequest, BecomeRequest DEF Finish
    <2> QED  BY <1>5, <2>3 DEF ReadCurrent, TypeOK
  <1>6. CASE FindOwners(p)
    <2>1. Owners \in SUBSET User
      BY DEF Owners
    <2>2. [r EXCEPT !.pc = "locking", !.owners = Owners] \in Request
      BY <1>0, <2>1 DEF Request, PC
    <2>3. Become(p, [r EXCEPT !.pc = "locking", !.owners = Owners])
      BY <1>6 DEF FindOwners, r
    <2> QED  BY <1>6, <2>2, <2>3, BecomeRequest DEF FindOwners, TypeOK
  <1>7. CASE CommitUpdateRole(p)
    <2> DEFINE kept == grants[r.role] \ r.seen
    <2>1. CASE UNCHANGED grants /\ Finish(p)
      <3>1. proc' \in [Proc -> Request]
        BY <2>1, IdleIsRequest, BecomeRequest DEF Finish
      <3> QED  BY <1>7, <2>1, <3>1 DEF CommitUpdateRole, TypeOK
    <2>2. CASE /\ r.role \in roles
               /\ grants' = [grants EXCEPT ![r.role] = kept \cup r.asked]
               /\ proc' = [q \in Proc |->
                             CASE q = p -> Idle
                               [] q # p /\ At(q, "rewrite") /\ proc[q].role = r.role ->
                                    [proc[q] EXCEPT !.seen = @ \cap kept]
                               [] OTHER -> proc[q]]
      <3>1. ASSUME NEW q \in Proc
            PROVE  proc'[q] \in Request
        <4> DEFINE s == proc[q]
        <4>1. s \in Request
          BY DEF TypeOK
        <4> HIDE DEF s, kept
        <4>2. [s EXCEPT !.seen = @ \cap kept] \in Request
          BY <4>1 DEF Request
        <4>3. proc'[q] \in {Idle, s, [s EXCEPT !.seen = @ \cap kept]}
          BY <2>2 DEF s
        <4> QED  BY <4>1, <4>2, <4>3, IdleIsRequest
      <3>2. proc' = [q \in Proc |-> proc'[q]]
        BY <2>2
      <3>3. proc' \in [Proc -> Request]
        BY <3>1, <3>2
      <3>4. r.role \in Role /\ kept \cup r.asked \in SUBSET Permission
        BY <1>0, <2>2 DEF Request, TypeOK
      <3>5. grants' \in [Role -> SUBSET Permission]
        BY <2>2, <3>4 DEF TypeOK
      <3> QED  BY <1>7, <3>3, <3>5 DEF CommitUpdateRole, TypeOK
    <2> QED  BY <1>7, <2>1, <2>2 DEF CommitUpdateRole, r
  <1>8. CASE CommitDeleteRole(p)
    <2>1. proc' \in [Proc -> Request]
      BY <1>8, IdleIsRequest, BecomeRequest DEF CommitDeleteRole, Finish
    <2> QED  BY <1>8, <2>1 DEF CommitDeleteRole, TypeOK
  <1> QED
    BY <1>a, <1>1, <1>2, <1>3, <1>4, <1>5, <1>6, <1>7, <1>8 DEF Proceed

-----------------------------------------------------------------------------
\* Where a member's role comes from: a role that exists when it is written, and no
\* role is deleted while somebody has it.
LEMMA ForeignKeyKept ==
    ASSUME MembersInv, NEW p \in Proc, Start(p) \/ Proceed(p) \/ Abandon(p)
    PROVE  MembersHaveRoles'
  <1> USE DEF MembersInv
  <1> SUFFICES ASSUME NEW u \in User
               PROVE  (members[u] = NoRole \/ Exists(members[u]))'
    BY DEF MembersHaveRoles
  <1>0. members[u] = NoRole \/ Exists(members[u])
    BY DEF MembersHaveRoles
  <1>1. CASE UNCHANGED <<members, roles>>
    BY <1>0, <1>1 DEF Exists
  <1>2. CASE InsertMember(p)
    <2>1. members'[u] = members[u] \/ (members'[u] = proc[p].role /\ Exists(proc[p].role))
      BY <1>2 DEF InsertMember, TypeOK
    <2> QED  BY <1>0, <1>2, <2>1 DEF InsertMember, Exists
  <1>3. CASE WriteMember(p)
    <2>1. \/ members'[u] = members[u]
          \/ /\ members'[u] = proc[p].role
             /\ proc[p].role = NoRole \/ Exists(proc[p].role)
      BY <1>3 DEF WriteMember, TypeOK
    <2> QED  BY <1>0, <1>3, <2>1 DEF WriteMember, Exists
  <1>4. CASE \E r \in Role, s \in SUBSET Permission : CreateRole(p, r, s)
    BY <1>0, <1>4 DEF CreateRole, Exists
  <1>5. CASE CommitDeleteRole(p)
    BY <1>0, <1>5 DEF CommitDeleteRole, Deletable, Used, Exists
  <1> QED
    BY <1>1, <1>2, <1>3, <1>4, <1>5
    DEF Start, Proceed, Abandon, LoadRole, StartRemove, StartAdd, StartChange,
        StartUpdateRole, StartDeleteRole, LockOwner, AssertNotLastOwner,
        LoadPermissions, ReadCurrent, FindOwners, CommitUpdateRole

\* Both hold for ever.
THEOREM MembersInvariant == Spec => []MembersInv
  <1>1. Init => MembersInv
    <2> SUFFICES ASSUME Init PROVE MembersInv  OBVIOUS
    <2>1. TypeOK
      BY IdleIsRequest, InitialAssumption DEF Init, TypeOK
    <2>2. MembersHaveRoles
      BY InitialAssumption DEF Init, MembersHaveRoles, Exists
    <2> QED  BY <2>1, <2>2 DEF MembersInv
  <1>2. MembersInv /\ [Next]_vars => MembersInv'
    <2> SUFFICES ASSUME MembersInv, [Next]_vars PROVE MembersInv'  OBVIOUS
    <2>1. ASSUME NEW p \in Proc, Start(p) \/ Proceed(p) \/ Abandon(p)
          PROVE  MembersInv'
      <3>1. TypeOK
        BY DEF MembersInv
      <3>2. CASE Abandon(p)
        <4>1. proc' \in [Proc -> Request]
          BY <3>1, <3>2, IdleIsRequest, BecomeRequest DEF Abandon, Finish
        <4>2. TypeOK'
          BY <3>1, <3>2, <4>1 DEF Abandon, TypeOK
        <4> QED  BY <2>1, <4>2, ForeignKeyKept DEF MembersInv
      <3> QED
        BY <2>1, <3>1, <3>2, StartKeepsTypes, ProceedKeepsTypes, ForeignKeyKept
        DEF MembersInv
    <2>2. CASE UNCHANGED vars
      BY <2>2 DEF vars, MembersInv, TypeOK, MembersHaveRoles, Exists
    <2> QED  BY <2>1, <2>2 DEF Next
  <1> QED
    BY <1>1, <1>2, PTL DEF Spec

\* Every variable keeps its type.
THEOREM MembersTypeCorrect == Spec => []TypeOK
  <1>1. MembersInv => TypeOK
    BY DEF MembersInv
  <1> QED
    BY <1>1, MembersInvariant, PTL

\* A member's role exists, whatever deletions and assignments overlap.
THEOREM RolesInUseStay == Spec => []MembersHaveRoles
  <1>1. MembersInv => MembersHaveRoles
    BY DEF MembersInv
  <1> QED
    BY <1>1, MembersInvariant, PTL

-----------------------------------------------------------------------------
(* Permissions *)

\* Where a request carries a role it has asked about, or its own.
Handing == {"role", "insert", "current", "owners", "locking", "write"}

\* Below the ceiling are the permissions a request acts with, those it asks for, and
\* those of the role it hands out, although the role may be edited, deleted or made
\* again after it was asked about.
RequestsBelow ==
    \A p \in Proc :
        /\ proc[p].held \subseteq Ceiling
        /\ proc[p].asked \subseteq Ceiling
        /\ proc[p].pc \in Handing => GrantsOf(proc[p].role) \subseteq Ceiling

EscalationInv == MembersInv /\ NoEscalation /\ RequestsBelow

\* A step leaves the other requests where they are, with the role and the
\* permissions they have.
LEMMA OthersKeep ==
    ASSUME MembersInv, NEW p \in Proc, Start(p) \/ Proceed(p) \/ Abandon(p),
           NEW q \in Proc, q # p
    PROVE  /\ proc'[q].pc = proc[q].pc
           /\ proc'[q].user = proc[q].user
           /\ proc'[q].role = proc[q].role
           /\ proc'[q].held = proc[q].held
           /\ proc'[q].asked = proc[q].asked
  <1>0. proc \in [Proc -> Request]
    BY DEF MembersInv, TypeOK
  <1> DEFINE s == proc[q]
  <1>1. s \in Request
    BY <1>0
  <1>2. CASE proc'[q] = s
    BY <1>2
  <1>3. CASE WriteMember(p)
    <2>1. proc'[q] \in {s, [s EXCEPT !.owners = @ \ {proc[p].user}]}
      BY <1>3 DEF WriteMember
    <2> HIDE DEF s
    <2>2. /\ proc'[q].pc = s.pc /\ proc'[q].user = s.user /\ proc'[q].role = s.role
          /\ proc'[q].held = s.held /\ proc'[q].asked = s.asked
      BY <1>1, <2>1 DEF Request
    <2> QED  BY <2>2 DEF s
  <1>4. CASE CommitUpdateRole(p)
    <2> DEFINE kept == grants[proc[p].role] \ proc[p].seen
    <2>1. \/ Finish(p)
          \/ proc'[q] \in {s, [s EXCEPT !.seen = @ \cap kept]}
      BY <1>4 DEF CommitUpdateRole
    <2>2. proc'[q] \in {s, [s EXCEPT !.seen = @ \cap kept]}
      BY <1>0, <2>1 DEF Finish, Become
    <2> HIDE DEF s, kept
    <2>3. /\ proc'[q].pc = s.pc /\ proc'[q].user = s.user /\ proc'[q].role = s.role
          /\ proc'[q].held = s.held /\ proc'[q].asked = s.asked
      BY <1>1, <2>2 DEF Request
    <2> QED  BY <2>3 DEF s
  <1>5. CASE \E request : Become(p, request)
    <2>1. proc'[q] = s
      BY <1>0, <1>5 DEF Become
    <2> QED  BY <2>1
  <1> QED
    BY <1>3, <1>4, <1>5
    DEF Start, Proceed, Abandon, LoadRole, StartRemove, StartAdd, StartChange,
        CreateRole, StartUpdateRole, StartDeleteRole, LockOwner, AssertNotLastOwner,
        LoadPermissions, InsertMember, ReadCurrent, FindOwners, CommitDeleteRole, Finish

\* A role below a bound as high as the ceiling stays there: what an edit or a new role
\* brings is below the ceiling, and what an edit leaves was the role's already.
LEMMA RoleStaysBelow ==
    ASSUME MembersInv, RequestsBelow,
           NEW p \in Proc, Start(p) \/ Proceed(p) \/ Abandon(p),
           NEW bound, Ceiling \subseteq bound,
           NEW r \in Role \cup {Owner, NoRole}, GrantsOf(r) \subseteq bound
    PROVE  GrantsOf(r)' \subseteq bound
  <1>0. TypeOK
    BY DEF MembersInv
  <1>1. CASE UNCHANGED <<roles, grants>>
    BY <1>1 DEF GrantsOf
  <1>2. CASE \E x \in Role, s \in SUBSET Permission : CreateRole(p, x, s)
    <2>1. PICK x \in Role, s \in SUBSET Permission : CreateRole(p, x, s)
      BY <1>2
    <2>2. s \subseteq Ceiling
      BY <2>1 DEF CreateRole, CanGrant, RequestsBelow
    <2>3. grants'[x] = s /\ x \notin roles /\ roles' = roles \cup {x}
      BY <1>0, <2>1 DEF CreateRole, TypeOK
    <2>4. \A y \in Role \ {x} : grants'[y] = grants[y]
      BY <1>0, <2>1 DEF CreateRole, TypeOK
    <2>5. roles \subseteq Role
      BY <1>0 DEF TypeOK
    <2> QED  BY <2>2, <2>3, <2>4, <2>5 DEF GrantsOf
  <1>3. CASE CommitUpdateRole(p)
    <2>1. /\ proc[p].asked \subseteq Ceiling
          /\ roles' = roles /\ roles \subseteq Role
      BY <1>0, <1>3 DEF CommitUpdateRole, TypeOK, RequestsBelow
    <2>2. \A y \in Role : y \in roles =>
            grants'[y] \subseteq grants[y] \cup proc[p].asked
      BY <1>0, <1>3 DEF CommitUpdateRole, TypeOK
    <2> QED  BY <2>1, <2>2 DEF GrantsOf
  <1>4. CASE CommitDeleteRole(p)
    <2>1. roles \subseteq Role /\ roles' \subseteq roles
      BY <1>0, <1>4 DEF CommitDeleteRole, TypeOK
    <2>2. \A y \in Role : grants'[y] \subseteq grants[y]
      BY <1>0, <1>4 DEF CommitDeleteRole, TypeOK
    <2> QED  BY <2>1, <2>2 DEF GrantsOf
  <1> QED
    BY <1>1, <1>2, <1>3, <1>4
    DEF Start, Proceed, Abandon, LoadRole, StartRemove, StartAdd, StartChange,
        StartUpdateRole, StartDeleteRole, LockOwner, AssertNotLastOwner, LoadPermissions,
        InsertMember, ReadCurrent, FindOwners, WriteMember

\* The request that makes the step stays below the ceiling: it acts with the
\* permissions of an acting user's role, and asks for no more than it has.
LEMMA StarterStaysBelow ==
    ASSUME EscalationInv, NEW p \in Proc, Start(p)
    PROVE  /\ proc'[p].held \subseteq Ceiling
           /\ proc'[p].asked \subseteq Ceiling
           /\ proc'[p].pc \in Handing => GrantsOf(proc'[p].role) \subseteq Ceiling
  <1>0. TypeOK /\ proc[p].held \subseteq Ceiling
    BY DEF EscalationInv, MembersInv, RequestsBelow
  <1>a. GrantsOf(NoRole) = {} /\ Idle \in Request
    BY <1>0, RoleAssumption, IdleIsRequest DEF GrantsOf, TypeOK
  <1>1. ASSUME NEW u \in User, LoadRole(p, u)
        PROVE  /\ proc'[p].held = {} /\ proc'[p].asked = {}
               /\ proc'[p].role = members[u] /\ u \in Actor
    BY <1>0, <1>1 DEF LoadRole, Become, Idle, TypeOK
  <1>2. ASSUME NEW u \in User, StartRemove(p, u)
        PROVE  proc'[p].held = {} /\ proc'[p].asked = {} /\ proc'[p].role = NoRole
    BY <1>0, <1>2 DEF StartRemove, Become, Idle, TypeOK
  <1>3. ASSUME NEW u \in User, NEW r \in Assignable, StartAdd(p, u, r) \/ StartChange(p, u, r)
        PROVE  /\ proc'[p].held = {} /\ proc'[p].asked = {}
               /\ proc'[p].role = r /\ GrantsOf(r) \subseteq Ceiling
    BY <1>0, <1>3 DEF StartAdd, StartChange, MayAssign, CanGrant, Become, Idle, TypeOK
  <1>4. ASSUME NEW r \in Role, NEW s \in SUBSET Permission, CreateRole(p, r, s)
        PROVE  proc'[p] = Idle
    BY <1>0, <1>4 DEF CreateRole, Finish, Become, TypeOK
  <1>5. ASSUME NEW r \in Role, NEW s \in SUBSET Permission, StartUpdateRole(p, r, s)
        PROVE  /\ proc'[p].held = {} /\ proc'[p].asked = s /\ proc'[p].pc = "rewrite"
               /\ s \subseteq Ceiling
    BY <1>0, <1>5 DEF StartUpdateRole, CanGrant, Become, Idle, TypeOK
  <1>6. ASSUME NEW r \in Role, StartDeleteRole(p, r)
        PROVE  proc'[p].held = {} /\ proc'[p].asked = {} /\ proc'[p].pc = "drop"
    BY <1>0, <1>6 DEF StartDeleteRole, Become, Idle, TypeOK
  <1>7. ASSUME NEW u \in Actor
        PROVE  GrantsOf(members[u]) \subseteq Ceiling
    BY ActorAssumption DEF EscalationInv, NoEscalation, Ceiling
  <1>8. Idle.held = {} /\ Idle.asked = {} /\ Idle.pc \notin Handing
    BY DEF Idle, Handing
  <1>9. "rewrite" \notin Handing /\ "drop" \notin Handing
    BY DEF Handing
  <1>c1. CASE \E u \in User : LoadRole(p, u)
    BY <1>c1, <1>1, <1>7
  <1>c2. CASE \E u \in User : StartRemove(p, u)
    BY <1>c2, <1>2, <1>a
  <1>c3. CASE \E u \in User, r \in Assignable : StartAdd(p, u, r) \/ StartChange(p, u, r)
    BY <1>c3, <1>3
  <1>c4. CASE \E r \in Role, s \in SUBSET Permission : CreateRole(p, r, s)
    BY <1>c4, <1>4, <1>8
  <1>c5. CASE \E r \in Role, s \in SUBSET Permission : StartUpdateRole(p, r, s)
    BY <1>c5, <1>5, <1>9
  <1>c6. CASE \E r \in Role : StartDeleteRole(p, r)
    BY <1>c6, <1>6, <1>9
  <1> QED
    BY <1>c1, <1>c2, <1>c3, <1>c4, <1>c5, <1>c6 DEF Start

\* So does a request under way: it keeps its role or ends, and the permissions it
\* loads are those of a role below the ceiling.
LEMMA ProceederStaysBelow ==
    ASSUME EscalationInv, NEW p \in Proc, Proceed(p) \/ Abandon(p)
    PROVE  /\ proc'[p].held \subseteq Ceiling
           /\ proc'[p].asked \subseteq Ceiling
           /\ proc'[p].pc \in Handing => GrantsOf(proc'[p].role) \subseteq Ceiling
  <1> DEFINE r == proc[p]
             loaded == GrantsOf(r.role)
  <1>0. /\ r \in Request
        /\ r.held \subseteq Ceiling /\ r.asked \subseteq Ceiling
        /\ r.pc \in Handing => loaded \subseteq Ceiling
    BY DEF EscalationInv, MembersInv, TypeOK, RequestsBelow
  <1>1. Idle.held = {} /\ Idle.asked = {} /\ Idle.pc \notin Handing
    BY DEF Idle, Handing
  <1>2. proc \in [Proc -> Request]
    BY DEF EscalationInv, MembersInv, TypeOK
  <1>c1. CASE proc'[p] = Idle
    BY <1>c1, <1>1
  <1>c2. CASE LoadPermissions(p)
    <2>1. proc'[p] = [Idle EXCEPT !.pc = "actor", !.held = loaded] /\ r.pc = "role"
      BY <1>2, <1>c2 DEF LoadPermissions, Become, At
    <2> HIDE DEF r, loaded
    <2>2. proc'[p].held = loaded /\ proc'[p].asked = {} /\ proc'[p].pc = "actor"
      BY <2>1 DEF Idle
    <2> QED  BY <1>0, <2>1, <2>2 DEF Handing
  <1>c3. CASE /\ \/ proc'[p] = [r EXCEPT !.pc = "write"]
                 \/ proc'[p] = [r EXCEPT !.pc = "owners"]
                 \/ \E found : proc'[p] = [r EXCEPT !.pc = "locking", !.owners = found]
                 \/ \E rows, left : proc'[p] = [r EXCEPT !.locked = rows, !.owners = left]
              /\ r.pc \in Handing
    <2> HIDE DEF r
    <2>1. /\ proc'[p].held = r.held /\ proc'[p].asked = r.asked
          /\ proc'[p].role = r.role
      BY <1>0, <1>c3 DEF Request
    <2> QED  BY <1>0, <1>c3, <2>1
  <1>3. \/ proc'[p] = Idle
        \/ LoadPermissions(p)
        \/ /\ \/ proc'[p] = [r EXCEPT !.pc = "write"]
              \/ proc'[p] = [r EXCEPT !.pc = "owners"]
              \/ \E found : proc'[p] = [r EXCEPT !.pc = "locking", !.owners = found]
              \/ \E rows, left : proc'[p] = [r EXCEPT !.locked = rows, !.owners = left]
           /\ r.pc \in Handing
    <2>a. CASE \E u \in User : LockOwner(p, u)
      <3>1. PICK u \in User : LockOwner(p, u)
        BY <2>a
      <3>2. proc'[p] = [r EXCEPT !.locked = r.locked \cup {u},
                                 !.owners = IF StillOwner(u) THEN r.owners
                                            ELSE r.owners \ {u}]
        BY <1>2, <3>1 DEF LockOwner, Become
      <3>3. r.pc \in Handing
        BY <3>1 DEF LockOwner, At, Handing
      <3> HIDE DEF r
      <3> QED  BY <3>2, <3>3
    <2>1. CASE AssertNotLastOwner(p)
      BY <1>2, <2>1 DEF AssertNotLastOwner, Finish, Become, At, Handing
    <2>2. CASE WriteMember(p)
      BY <2>2 DEF WriteMember
    <2>3. CASE ReadCurrent(p)
      BY <1>2, <2>3 DEF ReadCurrent, Finish, Become, At, Handing
    <2>4. CASE FindOwners(p)
      BY <1>2, <2>4 DEF FindOwners, Become, At, Handing
    <2>5. CASE CommitUpdateRole(p)
      BY <1>2, <2>5 DEF CommitUpdateRole, Finish, Become
    <2>6. CASE InsertMember(p) \/ CommitDeleteRole(p) \/ Abandon(p)
      BY <1>2, <2>6 DEF InsertMember, CommitDeleteRole, Abandon, Finish, Become
    <2> QED  BY <2>a, <2>1, <2>2, <2>3, <2>4, <2>5, <2>6 DEF Proceed
  <1> QED
    BY <1>3, <1>c1, <1>c2, <1>c3

\* Every member's new role was handed out by a request.
LEMMA NewRoleWasHandedOut ==
    ASSUME MembersInv, NEW p \in Proc, Start(p) \/ Proceed(p) \/ Abandon(p),
           NEW u \in User, members'[u] # members[u]
    PROVE  /\ proc[p].pc \in {"insert", "write"}
           /\ u = proc[p].user
           /\ members'[u] = proc[p].role
           /\ proc'[p] = Idle
           /\ InsertMember(p) => members[u] = NoRole
           /\ WriteMember(p) => members[u] # NoRole
           /\ InsertMember(p) \/ WriteMember(p)
  <1>0. TypeOK
    BY DEF MembersInv
  <1>1. InsertMember(p) \/ WriteMember(p)
    BY DEF Start, Proceed, Abandon, LoadRole, StartRemove, StartAdd, StartChange,
        CreateRole, StartUpdateRole, StartDeleteRole, LockOwner, AssertNotLastOwner,
        LoadPermissions, ReadCurrent, FindOwners, CommitUpdateRole, CommitDeleteRole
  <1>2. CASE InsertMember(p)
    BY <1>0, <1>2 DEF InsertMember, WriteMember, Finish, Become, At, TypeOK
  <1>3. CASE WriteMember(p)
    BY <1>0, <1>3 DEF WriteMember, InsertMember, At, TypeOK
  <1> QED
    BY <1>1, <1>2, <1>3

\* No step raises anybody above the ceiling.
LEMMA NobodyRises ==
    ASSUME EscalationInv, NEW p \in Proc, Start(p) \/ Proceed(p) \/ Abandon(p)
    PROVE  NoEscalation'
  <1>0. /\ MembersInv /\ RequestsBelow /\ TypeOK
        /\ \A u \in User : GrantsOf(members[u]) \subseteq GrantedFirst(u) \cup Ceiling
        /\ \A r \in Role : grants[r] \subseteq InitialGrants[r] \cup Ceiling
    BY DEF EscalationInv, NoEscalation, MembersInv
  <1>1. ASSUME NEW u \in User
        PROVE  GrantsOf(members[u])' \subseteq GrantedFirst(u) \cup Ceiling
    <2> DEFINE bound == GrantedFirst(u) \cup Ceiling
    <2>0. Ceiling \subseteq bound
      OBVIOUS
    <2> HIDE DEF bound
    <2>1. ASSUME NEW r \in Role \cup {Owner, NoRole}, GrantsOf(r) \subseteq bound,
                 members'[u] = r
          PROVE  GrantsOf(members[u])' \subseteq bound
      <3>1. GrantsOf(r)' \subseteq bound
        BY <1>0, <2>0, <2>1, RoleStaysBelow
      <3> QED  BY <2>1, <3>1 DEF GrantsOf
    <2>2. members[u] \in Role \cup {Owner, NoRole} /\ GrantsOf(members[u]) \subseteq bound
      BY <1>0 DEF TypeOK, bound
    <2>3. ASSUME members'[u] = members[u]
          PROVE  GrantsOf(members[u])' \subseteq bound
      BY <2>1, <2>2, <2>3
    <2>4. ASSUME members'[u] # members[u]
          PROVE  GrantsOf(members[u])' \subseteq bound
      <3>1. members'[u] = proc[p].role /\ proc[p].pc \in {"insert", "write"}
        BY <1>0, <2>4, NewRoleWasHandedOut
      <3>2. GrantsOf(proc[p].role) \subseteq bound
        BY <1>0, <2>0, <3>1 DEF RequestsBelow, Handing
      <3>3. PICK r \in Role \cup {Owner, NoRole} : r = proc[p].role
        BY <1>0 DEF TypeOK, Request
      <3>4. GrantsOf(r) \subseteq bound /\ members'[u] = r
        BY <3>1, <3>2, <3>3
      <3> QED  BY <2>1, <3>4
    <2> QED  BY <2>3, <2>4 DEF bound
  <1>2. ASSUME NEW r \in Role
        PROVE  grants'[r] \subseteq InitialGrants[r] \cup Ceiling
    <2>0. grants[r] \subseteq InitialGrants[r] \cup Ceiling
      BY <1>0
    <2>1. CASE UNCHANGED grants
      BY <2>0, <2>1
    <2>2. CASE \E x \in Role, s \in SUBSET Permission : CreateRole(p, x, s)
      <3>1. grants'[r] = grants[r] \/ grants'[r] \subseteq proc[p].held
        BY <1>0, <2>2 DEF CreateRole, CanGrant, TypeOK
      <3> QED  BY <1>0, <2>0, <3>1 DEF RequestsBelow
    <2>3. CASE CommitUpdateRole(p)
      <3>1. grants'[r] \subseteq grants[r] \cup proc[p].asked
        BY <1>0, <2>3 DEF CommitUpdateRole, TypeOK
      <3> QED  BY <1>0, <2>0, <3>1 DEF RequestsBelow
    <2>4. CASE CommitDeleteRole(p)
      <3>1. grants'[r] \subseteq grants[r]
        BY <1>0, <2>4 DEF CommitDeleteRole, TypeOK
      <3> QED  BY <2>0, <3>1
    <2> QED
      BY <2>1, <2>2, <2>3, <2>4
      DEF Start, Proceed, Abandon, LoadRole, StartRemove, StartAdd, StartChange,
          StartUpdateRole, StartDeleteRole, LockOwner, AssertNotLastOwner,
          LoadPermissions, InsertMember, ReadCurrent, FindOwners, WriteMember
  <1>3. \A u \in User : GrantsOf(members[u])' \subseteq GrantedFirst(u) \cup Ceiling
    BY <1>1
  <1>4. \A r \in Role : grants'[r] \subseteq InitialGrants[r] \cup Ceiling
    BY <1>2
  <1> QED
    BY <1>3, <1>4 DEF NoEscalation, GrantedFirst, Ceiling

\* No request rises above it either.
LEMMA RequestsStayBelow ==
    ASSUME EscalationInv, NEW p \in Proc, Start(p) \/ Proceed(p) \/ Abandon(p)
    PROVE  RequestsBelow'
  <1>0. MembersInv /\ RequestsBelow
    BY DEF EscalationInv
  <1> SUFFICES ASSUME NEW q \in Proc
               PROVE  /\ proc'[q].held \subseteq Ceiling
                      /\ proc'[q].asked \subseteq Ceiling
                      /\ proc'[q].pc \in Handing => GrantsOf(proc[q].role)' \subseteq Ceiling
    BY DEF RequestsBelow
  <1>1. /\ proc'[q].held \subseteq Ceiling
        /\ proc'[q].asked \subseteq Ceiling
        /\ proc'[q].pc \in Handing => GrantsOf(proc'[q].role) \subseteq Ceiling
    <2>1. CASE q = p
      BY <2>1, StarterStaysBelow, ProceederStaysBelow
    <2>2. CASE q # p
      BY <1>0, <2>2, OthersKeep DEF RequestsBelow
    <2> QED  BY <2>1, <2>2
  <1>2. ASSUME NEW r \in Role \cup {Owner, NoRole}, GrantsOf(r) \subseteq Ceiling,
               proc'[q].role = r
        PROVE  GrantsOf(proc[q].role)' \subseteq Ceiling
    <2>1. GrantsOf(r)' \subseteq Ceiling
      BY <1>0, <1>2, RoleStaysBelow
    <2> QED  BY <1>2, <2>1 DEF GrantsOf
  <1>3. proc'[q].role \in Role \cup {Owner, NoRole}
    <2>1. CASE q = p
      <3>1. TypeOK'
        BY <1>0, IdleIsRequest, BecomeRequest, StartKeepsTypes, ProceedKeepsTypes
        DEF MembersInv, Abandon, Finish, TypeOK
      <3> QED  BY <3>1 DEF TypeOK, Request
    <2>2. CASE q # p
      BY <1>0, <2>2, OthersKeep DEF MembersInv, TypeOK, Request
    <2> QED  BY <2>1, <2>2
  <1> QED
    BY <1>1, <1>2, <1>3

\* The permissions stay below the ceiling for ever.
THEOREM EscalationInvariant == Spec => []EscalationInv
  <1>1. Init => RequestsBelow /\ NoEscalation
    <2> SUFFICES ASSUME Init PROVE RequestsBelow /\ NoEscalation  OBVIOUS
    <2>1. RequestsBelow
      BY DEF Init, RequestsBelow, Idle, Handing
    <2>2. ASSUME NEW u \in User
          PROVE  GrantsOf(members[u]) \subseteq GrantedFirst(u)
      BY InitialAssumption, RoleAssumption DEF Init, GrantsOf, GrantedFirst
    <2>3. \A u \in User : GrantsOf(members[u]) \subseteq GrantedFirst(u) \cup Ceiling
      BY <2>2
    <2> QED  BY <2>1, <2>3 DEF NoEscalation, Init
  <1>2. EscalationInv /\ MembersInv' /\ [Next]_vars => EscalationInv'
    <2> SUFFICES ASSUME EscalationInv, MembersInv', [Next]_vars PROVE EscalationInv'
      OBVIOUS
    <2>1. ASSUME NEW p \in Proc, Start(p) \/ Proceed(p) \/ Abandon(p)
          PROVE  EscalationInv'
      BY <2>1, NobodyRises, RequestsStayBelow DEF EscalationInv
    <2>2. CASE UNCHANGED vars
      BY <2>2 DEF vars, EscalationInv, NoEscalation, RequestsBelow, GrantsOf
    <2> QED  BY <2>1, <2>2 DEF Next
  <1>3. MembersInv /\ RequestsBelow /\ NoEscalation <=> EscalationInv
    BY DEF EscalationInv
  <1> QED
    BY <1>1, <1>2, <1>3, MembersInvariant, PTL DEF Spec

\* Anti-escalation: however many requests create, edit, delete and assign roles with
\* whatever permissions they loaded earlier, no user, acting or not, gets a permission
\* beside those they started with and those the acting users had between them, and
\* no role does either.
THEOREM NobodyEscalates == Spec => []NoEscalation
  <1>1. EscalationInv => NoEscalation
    BY DEF EscalationInv
  <1> QED
    BY <1>1, EscalationInvariant, PTL

-----------------------------------------------------------------------------
(* The last Owner *)

\* The acting users lack some permission between them, so none of their requests
\* passes assertCanGrant for the Owner role.  With an Owner among them
\* the account can lose its last Owner: MCMembersPromotion shows it.
OwnerOutOfReach == ~(Permission \subseteq Ceiling)

\* A snapshot waited with holds every Owner row of now, and what it has locked and
\* kept of it is an Owner's.  A request that may write has locked exactly the Owners'
\* rows, one of them not its member's, or its member is no Owner.
OwnerLocks ==
    \A p \in Proc :
        /\ proc[p].pc \in {"current", "owners"} => proc[p].owners = {} /\ proc[p].locked = {}
        /\ At(p, "locking") => /\ Owners \subseteq proc[p].owners
                               /\ proc[p].owners \cap proc[p].locked \subseteq Owners
        /\ At(p, "write") =>
             \/ proc[p].owners = {} /\ proc[p].user \notin Owners
             \/ /\ proc[p].owners = Owners
                /\ Owners \subseteq proc[p].locked
                /\ Owners # {proc[p].user}

OwnerInv == EscalationInv /\ AccountHasOwner /\ OwnerLocks

\* No request hands out the Owner role.
LEMMA OwnersAreNotMade ==
    ASSUME OwnerOutOfReach, EscalationInv,
           NEW p \in Proc, proc[p].pc \in Handing
    PROVE  proc[p].role # Owner
  BY DEF EscalationInv, RequestsBelow, GrantsOf, OwnerOutOfReach

\* The Owners only become fewer, one at a time, by a request whose user it is.
LEMMA OwnersShrink ==
    ASSUME OwnerOutOfReach, EscalationInv,
           NEW p \in Proc, Start(p) \/ Proceed(p) \/ Abandon(p)
    PROVE  \/ Owners' = Owners
           \/ /\ WriteMember(p)
              /\ proc[p].user \in Owners
              /\ Owners' = Owners \ {proc[p].user}
  <1>0. MembersInv
    BY DEF EscalationInv
  <1>1. ASSUME NEW u \in User, members'[u] # members[u]
        PROVE  /\ u = proc[p].user
               /\ members'[u] # Owner
               /\ members[u] = Owner => WriteMember(p)
    <2>1. /\ u = proc[p].user
          /\ members'[u] = proc[p].role
          /\ proc[p].pc \in Handing
          /\ InsertMember(p) => members[u] = NoRole
          /\ InsertMember(p) \/ WriteMember(p)
      BY <1>0, <1>1, NewRoleWasHandedOut DEF Handing
    <2>2. proc[p].role # Owner
      BY <2>1, OwnersAreNotMade
    <2> QED  BY <2>1, <2>2, RoleAssumption
  <1>2. CASE \E u \in User : members'[u] # members[u] /\ members[u] = Owner
    <2>1. PICK u \in User : members'[u] # members[u] /\ members[u] = Owner
      BY <1>2
    <2>2. /\ u = proc[p].user /\ WriteMember(p) /\ members'[u] # Owner
          /\ \A x \in User \ {u} : members'[x] = members[x]
      BY <1>1, <2>1
    <2>3. Owners' = Owners \ {u} /\ u \in Owners
      BY <2>1, <2>2 DEF Owners
    <2> QED  BY <2>2, <2>3
  <1>3. CASE \A u \in User : members[u] = Owner => members'[u] = members[u]
    BY <1>1, <1>3 DEF Owners
  <1> QED
    BY <1>2, <1>3

\* What becomes of another request's Owner rows: nothing, but that a row deleted
\* while it is waited for drops out.
LEMMA OthersKeepLocks ==
    ASSUME EscalationInv, NEW p \in Proc, Start(p) \/ Proceed(p) \/ Abandon(p),
           NEW q \in Proc, q # p
    PROVE  /\ proc'[q].locked = proc[q].locked
           /\ \/ proc'[q].owners = proc[q].owners
              \/ /\ At(q, "locking")
                 /\ proc'[q].owners = proc[q].owners \ {proc[p].user}
                 /\ proc[p].user \notin Owners'
  <1>0. TypeOK
    BY DEF EscalationInv, MembersInv
  <1> DEFINE s == proc[q]
  <1>1. s \in Request
    BY <1>0 DEF TypeOK
  <1>2. CASE WriteMember(p)
    <2>1. \/ proc'[q] = s
          \/ /\ proc'[q] = [s EXCEPT !.owners = @ \ {proc[p].user}]
             /\ At(q, "locking") /\ proc[p].role = NoRole
      BY <1>2 DEF WriteMember
    <2>2. CASE proc'[q] = s
      BY <2>2
    <2>3. CASE /\ proc'[q] = [s EXCEPT !.owners = @ \ {proc[p].user}]
               /\ At(q, "locking") /\ proc[p].role = NoRole
      <3>1. members'[proc[p].user] # Owner \/ proc[p].user \notin User
        BY <1>0, <1>2, <2>3, RoleAssumption DEF WriteMember, TypeOK
      <3>2. proc[p].user \notin Owners'
        BY <3>1 DEF Owners
      <3> HIDE DEF s
      <3>3. proc'[q].owners = s.owners \ {proc[p].user} /\ proc'[q].locked = s.locked
        BY <1>1, <2>3 DEF Request
      <3> QED  BY <2>3, <3>2, <3>3 DEF s
    <2> QED  BY <2>1, <2>2, <2>3
  <1>3. CASE CommitUpdateRole(p)
    <2> DEFINE kept == grants[proc[p].role] \ proc[p].seen
    <2>1. \/ Finish(p)
          \/ proc'[q] \in {s, [s EXCEPT !.seen = @ \cap kept]}
      BY <1>3 DEF CommitUpdateRole
    <2>2. proc'[q] \in {s, [s EXCEPT !.seen = @ \cap kept]}
      BY <1>0, <2>1 DEF Finish, Become, TypeOK
    <2> HIDE DEF s, kept
    <2>3. proc'[q].owners = s.owners /\ proc'[q].locked = s.locked
      BY <1>1, <2>2 DEF Request
    <2> QED  BY <2>3 DEF s
  <1>4. CASE \E request : Become(p, request)
    BY <1>0, <1>4 DEF Become, TypeOK
  <1> QED
    BY <1>2, <1>3, <1>4
    DEF Start, Proceed, Abandon, LoadRole, StartRemove, StartAdd, StartChange,
        CreateRole, StartUpdateRole, StartDeleteRole, LockOwner, AssertNotLastOwner,
        LoadPermissions, InsertMember, ReadCurrent, FindOwners, CommitDeleteRole, Finish

\* What the request that makes the step has locked, looked for or left.
LEMMA OwnLocks ==
    ASSUME OwnerOutOfReach, OwnerInv,
           NEW p \in Proc, Start(p) \/ Proceed(p) \/ Abandon(p)
    PROVE  /\ proc'[p].pc \in {"current", "owners"} =>
                proc'[p].owners = {} /\ proc'[p].locked = {}
           /\ proc'[p].pc \in {"locking", "write"} => members' = members
           /\ proc'[p].pc = "locking" => /\ Owners \subseteq proc'[p].owners
                                         /\ proc'[p].owners \cap proc'[p].locked \subseteq Owners
           /\ proc'[p].pc = "write" =>
                \/ proc'[p].owners = {} /\ proc'[p].user \notin Owners
                \/ /\ proc'[p].owners = Owners
                   /\ Owners \subseteq proc'[p].locked
                   /\ Owners # {proc'[p].user}
  <1> DEFINE r == proc[p]
             n == proc'[p]
  <1>0. /\ r \in Request /\ EscalationInv
        /\ proc \in [Proc -> Request]
        /\ r.pc \in {"current", "owners"} => r.owners = {} /\ r.locked = {}
        /\ r.pc = "locking" => Owners \subseteq r.owners /\ r.owners \cap r.locked \subseteq Owners
    BY DEF OwnerInv, EscalationInv, MembersInv, TypeOK, OwnerLocks, At
  <1>1. CASE n.pc \notin {"current", "owners", "locking", "write"}
    BY <1>1
  <1>2. CASE \E u \in User, x \in Assignable : StartChange(p, u, x)
    <2>1. n.pc = "current" /\ n.owners = {} /\ n.locked = {}
      BY <1>0, <1>2 DEF StartChange, Become, Idle
    <2> QED  BY <2>1
  <1>3. CASE ReadCurrent(p)
    <2>0. r.pc = "current" /\ r.owners = {} /\ r.locked = {} /\ members' = members
      BY <1>0, <1>3 DEF ReadCurrent, At
    <2>1. CASE n = [r EXCEPT !.pc = "write"] /\ members[r.user] = r.role
      <3>1. r.role # Owner
        BY <1>0, <2>0, OwnersAreNotMade DEF Handing
      <3> HIDE DEF r, n
      <3>2. n.pc = "write" /\ n.owners = {} /\ n.user = r.user
        BY <1>0, <2>0, <2>1 DEF Request
      <3>3. r.user \notin Owners
        BY <2>1, <3>1 DEF Owners
      <3> QED  BY <2>0, <3>2, <3>3 DEF n
    <2>2. CASE n = Idle
      BY <2>2 DEF Idle
    <2>3. CASE n = [r EXCEPT !.pc = "owners"]
      <3> HIDE DEF r, n
      <3>1. n.pc = "owners" /\ n.owners = {} /\ n.locked = {}
        BY <1>0, <2>0, <2>3 DEF Request
      <3> QED  BY <3>1 DEF n
    <2> QED
      BY <1>0, <1>3, <2>1, <2>2, <2>3 DEF ReadCurrent, Become, Finish, At
  <1>4. CASE FindOwners(p)
    <2>1. /\ n = [r EXCEPT !.pc = "locking", !.owners = Owners]
          /\ r.locked = {} /\ members' = members
      BY <1>0, <1>4 DEF FindOwners, Become, At
    <2> HIDE DEF r, n
    <2>2. n.pc = "locking" /\ n.owners = Owners /\ n.locked = {}
      BY <1>0, <2>1 DEF Request
    <2> QED  BY <2>1, <2>2 DEF n
  <1>5. CASE \E u \in User : LockOwner(p, u)
    <2>1. PICK u \in User : LockOwner(p, u)
      BY <1>5
    <2> DEFINE left == IF u \in Owners THEN r.owners ELSE r.owners \ {u}
    <2>2. /\ n = [r EXCEPT !.locked = r.locked \cup {u}, !.owners = left]
          /\ r.pc = "locking" /\ members' = members
      BY <1>0, <2>1 DEF LockOwner, Become, At, StillOwner, Owners
    <2>3. Owners \subseteq left /\ left \cap (r.locked \cup {u}) \subseteq Owners
      BY <1>0, <2>2
    <2> HIDE DEF r, n, left
    <2>4. n.pc = "locking" /\ n.owners = left /\ n.locked = r.locked \cup {u}
      BY <1>0, <2>2 DEF Request
    <2> QED  BY <2>2, <2>3, <2>4 DEF n
  <1>6. CASE AssertNotLastOwner(p)
    <2>1. /\ r.owners = Owners /\ Owners \subseteq r.locked /\ members' = members
      BY <1>0, <1>6 DEF AssertNotLastOwner, At
    <2>2. \/ n = Idle
          \/ n = [r EXCEPT !.pc = "write"] /\ Owners # {r.user}
      BY <1>0, <1>6, <2>1 DEF AssertNotLastOwner, Become, Finish
    <2>3. CASE n = Idle
      BY <2>3 DEF Idle
    <2>4. CASE n = [r EXCEPT !.pc = "write"] /\ Owners # {r.user}
      <3> HIDE DEF r, n
      <3>1. n.pc = "write" /\ n.owners = Owners /\ n.user = r.user /\ n.locked = r.locked
        BY <1>0, <2>1, <2>4 DEF Request
      <3> QED  BY <2>1, <2>4, <3>1 DEF n
    <2> QED  BY <2>2, <2>3, <2>4
  <1>7. CASE n = Idle
    BY <1>7 DEF Idle
  <1>8. CASE LoadPermissions(p)
    BY <1>0, <1>8, <1>1 DEF LoadPermissions, Become, Idle
  <1>9. CASE \E u \in User : LoadRole(p, u) \/ StartRemove(p, u)
    <2>1. \/ \E u \in User : n = [Idle EXCEPT !.pc = "role", !.role = members[u]]
          \/ \E u \in User : n = [Idle EXCEPT !.pc = "owners", !.user = u]
      BY <1>0, <1>9 DEF LoadRole, StartRemove, Become
    <2>2. n.pc \in {"role", "owners"} /\ n.owners = {} /\ n.locked = {}
      BY <2>1 DEF Idle
    <2> QED  BY <2>2, <1>1
  <1>10. CASE \E u \in User, x \in Assignable : StartAdd(p, u, x)
    BY <1>0, <1>10, <1>1 DEF StartAdd, Become, Idle
  <1>11. CASE \E x \in Role, s \in SUBSET Permission : CreateRole(p, x, s)
    BY <1>0, <1>11, <1>7 DEF CreateRole, Become, Finish
  <1>12. CASE \E x \in Role, s \in SUBSET Permission : StartUpdateRole(p, x, s)
    BY <1>0, <1>12, <1>1 DEF StartUpdateRole, Become, Idle
  <1>13. CASE \E x \in Role : StartDeleteRole(p, x)
    BY <1>0, <1>13, <1>1 DEF StartDeleteRole, Become, Idle
  <1>14. CASE InsertMember(p) \/ WriteMember(p) \/ CommitUpdateRole(p) \/ CommitDeleteRole(p)
              \/ Abandon(p)
    BY <1>0, <1>14, <1>7
    DEF InsertMember, WriteMember, CommitUpdateRole, CommitDeleteRole, Abandon, Become, Finish
  <1> HIDE DEF r, n
  <1>15. Start(p) =>
           \/ \E u \in User : LoadRole(p, u) \/ StartRemove(p, u)
           \/ \E u \in User, x \in Assignable : StartAdd(p, u, x)
           \/ \E u \in User, x \in Assignable : StartChange(p, u, x)
           \/ \E x \in Role, s \in SUBSET Permission : CreateRole(p, x, s)
           \/ \E x \in Role, s \in SUBSET Permission : StartUpdateRole(p, x, s)
           \/ \E x \in Role : StartDeleteRole(p, x)
    BY DEF Start
  <1>16. CASE Start(p)
    BY ONLY <1>16, <1>15, <1>2, <1>9, <1>10, <1>11, <1>12, <1>13
  <1>17. CASE Proceed(p) \/ Abandon(p)
    BY ONLY <1>17, <1>3, <1>4, <1>5, <1>6, <1>8, <1>14 DEF Proceed
  <1> QED
    BY ONLY <1>16, <1>17, Start(p) \/ Proceed(p) \/ Abandon(p)

\* The last Owner stays: a row that is locked is written by nobody else.
LEMMA OwnersStayLocked ==
    ASSUME OwnerOutOfReach, OwnerInv,
           NEW p \in Proc, Start(p) \/ Proceed(p) \/ Abandon(p)
    PROVE  AccountHasOwner' /\ OwnerLocks'
  <1>0. /\ EscalationInv /\ MembersInv /\ TypeOK
        /\ Owners # {} /\ OwnerLocks
    BY DEF OwnerInv, EscalationInv, MembersInv, AccountHasOwner
  <1>s. \/ Owners' = Owners
        \/ /\ WriteMember(p) /\ proc[p].user \in Owners
           /\ Owners' = Owners \ {proc[p].user}
    BY <1>0, OwnersShrink
  \* The request that takes an Owner away has all their rows locked.
  <1>1. Owners' # {}
    <2>1. WriteMember(p) /\ proc[p].user \in Owners => Owners # {proc[p].user}
      BY <1>0 DEF OwnerLocks, WriteMember, At
    <2> QED  BY <1>0, <1>s, <2>1
  <1>2. OwnerLocks'
    <2> SUFFICES ASSUME NEW q \in Proc
                 PROVE  /\ proc'[q].pc \in {"current", "owners"} =>
                             proc'[q].owners = {} /\ proc'[q].locked = {}
                        /\ proc'[q].pc = "locking" =>
                             /\ Owners' \subseteq proc'[q].owners
                             /\ proc'[q].owners \cap proc'[q].locked \subseteq Owners'
                        /\ proc'[q].pc = "write" =>
                             \/ proc'[q].owners = {} /\ proc'[q].user \notin Owners'
                             \/ /\ proc'[q].owners = Owners'
                                /\ Owners' \subseteq proc'[q].locked
                                /\ Owners' # {proc'[q].user}
      BY DEF OwnerLocks, At
    <2>1. CASE q = p
      <3>1. members' = members => Owners' = Owners
        BY DEF Owners
      <3> QED  BY <2>1, <3>1, OwnLocks
    <2>2. CASE q # p
      <3>0. /\ proc'[q].pc = proc[q].pc /\ proc'[q].user = proc[q].user
            /\ proc'[q].locked = proc[q].locked
        BY <1>0, <2>2, OthersKeep, OthersKeepLocks
      <3>a. \/ proc'[q].owners = proc[q].owners
            \/ /\ At(q, "locking")
               /\ proc'[q].owners = proc[q].owners \ {proc[p].user}
               /\ proc[p].user \notin Owners'
        BY <1>0, <2>2, OthersKeepLocks
      <3>b. \/ Owners' = Owners
            \/ /\ Owners' = Owners \ {proc[p].user}
               /\ proc[p].user \notin proc[q].locked
        BY <1>s, <2>2 DEF WriteMember, LockedByOther
      <3>1. proc'[q].pc \in {"current", "owners"} =>
              proc'[q].owners = {} /\ proc'[q].locked = {}
        BY <1>0, <3>0, <3>a DEF OwnerLocks, At
      <3>2. proc'[q].pc = "locking" =>
              /\ Owners' \subseteq proc'[q].owners
              /\ proc'[q].owners \cap proc'[q].locked \subseteq Owners'
        BY <1>0, <3>0, <3>a, <3>b DEF OwnerLocks, At
      <3>3. proc'[q].pc = "write" =>
              \/ proc'[q].owners = {} /\ proc'[q].user \notin Owners'
              \/ /\ proc'[q].owners = Owners'
                 /\ Owners' \subseteq proc'[q].locked
                 /\ Owners' # {proc'[q].user}
        <4> SUFFICES ASSUME At(q, "write")
                     PROVE  \/ proc'[q].owners = {} /\ proc'[q].user \notin Owners'
                            \/ /\ proc'[q].owners = Owners'
                               /\ Owners' \subseteq proc'[q].locked
                               /\ Owners' # {proc'[q].user}
          BY <3>0 DEF At
        <4>1. proc'[q].owners = proc[q].owners
          BY <3>a DEF At
        <4>2. CASE proc[q].owners = {} /\ proc[q].user \notin Owners
          BY <3>0, <3>b, <4>1, <4>2
        <4>3. CASE /\ proc[q].owners = Owners /\ Owners \subseteq proc[q].locked
                   /\ Owners # {proc[q].user}
          <5>1. Owners' = Owners
            BY <1>s, <3>b, <4>3
          <5> QED  BY <3>0, <4>1, <4>3, <5>1
        <4> QED  BY <1>0, <4>2, <4>3 DEF OwnerLocks
      <3> QED  BY <3>1, <3>2, <3>3
    <2> QED  BY <2>1, <2>2
  <1> QED
    BY <1>1, <1>2 DEF AccountHasOwner

\* The last Owner's invariant holds for ever.
THEOREM OwnerInvariant ==
    ASSUME OwnerOutOfReach
    PROVE  Spec => []OwnerInv
  <1>1. Init => AccountHasOwner /\ OwnerLocks
    BY InitialAssumption
    DEF Init, AccountHasOwner, Owners, OwnerLocks, At, Idle
  <1>2. OwnerInv /\ EscalationInv' /\ [Next]_vars => OwnerInv'
    <2> SUFFICES ASSUME OwnerInv, EscalationInv', [Next]_vars PROVE OwnerInv'
      OBVIOUS
    <2>1. ASSUME NEW p \in Proc, Start(p) \/ Proceed(p) \/ Abandon(p)
          PROVE  OwnerInv'
      BY <2>1, OwnersStayLocked DEF OwnerInv
    <2>2. CASE UNCHANGED vars
      BY <2>2 DEF vars, OwnerInv, AccountHasOwner, Owners, OwnerLocks, At
    <2> QED  BY <2>1, <2>2 DEF Next
  <1>3. EscalationInv /\ AccountHasOwner /\ OwnerLocks <=> OwnerInv
    BY DEF OwnerInv
  <1> QED
    BY <1>1, <1>2, <1>3, EscalationInvariant, PTL DEF Spec

\* The account keeps an Owner, however many removals and changes of role overlap, as
\* long as the users who send them cannot hand out the Owner role.
THEOREM AccountKeepsOwner ==
    ASSUME OwnerOutOfReach
    PROVE  Spec => []AccountHasOwner
  <1>1. OwnerInv => AccountHasOwner
    BY DEF OwnerInv
  <1> QED
    BY <1>1, OwnerInvariant, PTL
=============================================================================
