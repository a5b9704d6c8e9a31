------------------------------- MODULE Tenancy -------------------------------
(* Requests of several tenants on one pool of connections: withTenant and      *)
(* withUser (packages/db/src/tenant.ts), the row-level security of migrations  *)
(* 0001 and 0003, and what stands on them: the settings of an account          *)
(* (account.ts), the audit log and its pages (record.ts, list.ts), and the     *)
(* lists that have no account in their WHERE clause.                            *)
(*                                                                              *)
(* A request is a sequence of sections, each with a connection of its own, and  *)
(* a section a sequence of statements: see Script.                              *)
EXTENDS Naturals, FiniteSets, Sequences

CONSTANTS
    Proc,           \* requests at work
    Conn,           \* connections of the pool
    Account,
    Membership,     \* rows of account_users: [user, account]
    Requests,       \* the pairs [op, account] that are asked for
    Audited,        \* the account whose audit log somebody pages through
    PageSize,       \* limit of listAuditLogs
    MaxRecords,     \* bound: ids of audit_logs that are ever made, in their order
    Millisecond,    \* the time in each of those ids: what is random may be equal in time
    Skew,           \* how far the clock of one API host is ahead of another's
    None            \* no request, no setting, SQL's NULL

\* The requests of the model: see Script.
Op == {"update", "page", "members", "me", "login", "refused"}
User == {m.user : m \in Membership}
AuditRow == [id : 1..MaxRecords, account : Account \cup {None}, value : BOOLEAN \cup {None}]

ASSUME PageAssumption == PageSize \in Nat \ {0}
ASSUME RecordsAssumption == MaxRecords \in Nat /\ Skew \in Nat
\* uuidv7: the time comes first, so the order of ids is that of their milliseconds.
ASSUME ClockAssumption ==
    /\ Millisecond \in [1..MaxRecords -> Nat]
    /\ \A i, j \in 1..MaxRecords : i < j => Millisecond[i] <= Millisecond[j]
ASSUME AuditedAssumption == Audited \in Account
ASSUME PoolAssumption == Conn # {}
ASSUME MembershipAssumption == Membership \subseteq [user : User, account : Account]
\* Whoever pages through a log pages through the log of Audited.
ASSUME RequestsAssumption ==
    /\ Requests \subseteq [op : Op, account : Account]
    /\ \A r \in Requests : r.op = "page" => r.account = Audited
ASSUME NoneAssumption ==
    /\ None \notin Proc /\ None \notin Account /\ None \notin User
    /\ None \notin Op /\ None \notin BOOLEAN /\ None \notin Nat /\ None \notin AuditRow

VARIABLES
    conn,       \* holder and settings app.account_id, app.user_id of each connection
    proc,       \* each request: what it still has to run, and what it read and wrote
    audit,      \* committed rows of audit_logs
    require2fa, \* committed accounts.require2fa
    clock,      \* the time, in milliseconds, on the slowest host
    paging      \* what the reader of Audited's log has, and asks for next

vars == <<conn, proc, audit, require2fa, clock, paging>>

WithTenant(statement) == <<"setAccount", statement>>
WithUser(statement) == <<"setUser", statement>>

\* mutant: recordAudit comes first
UpdateAuditFirst == <<"setAccount", "audit", "update">>
UpdateAccount == <<"setAccount", "update", "audit">>

\* What each request runs: authenticate finds the session without a tenant, then the
\* permissions in it.  A section that only repeats one before it is left out (login
\* reads the account and opens the session in a tenant as well).
UpdateScript == << <<"session">>, WithTenant("permissions"), UpdateAccount >>
PageScript == << <<"session">>, WithTenant("permissions"), WithTenant("page") >>
MembersScript == << <<"session">>, WithTenant("permissions"), WithTenant("members") >>
MeScript == << <<"session">>, WithTenant("permissions"), <<"session">>, WithTenant("own") >>
LoginScript == << <<"session">>, WithUser("memberships"), WithTenant("audit") >>
RefusedScript == << <<"session">>, <<"audit">> >>

Script(op) ==
    CASE op = "update"  -> UpdateScript
      [] op = "page"    -> PageScript
      [] op = "members" -> MembersScript
      [] op = "me"      -> MeScript
      [] op = "login"   -> LoginScript
      [] op = "refused" -> RefusedScript

\* section and next: where the request is in its script; next is 0 while the section
\* has no connection.
Idle == [op |-> None, account |-> None, user |-> None, input |-> None, section |-> 1, next |-> 0,
         value |-> None, row |-> None, seen |-> {}, page |-> <<>>]

Free == [holder |-> None, account |-> None, user |-> None]
ConnOf(p) == {c \in Conn : conn[c].holder = p}
Section(p) == Script(proc[p].op)[proc[p].section]
InLastSection(p) == proc[p].section = Len(Script(proc[p].op))
InTransaction(p) == proc[p].op # None /\ proc[p].next # 0
At(p, statement) ==
    /\ InTransaction(p)
    /\ proc[p].next <= Len(Section(p))
    /\ Section(p)[proc[p].next] = statement
-----------------------------------------------------------------------------
(* Row-level security *)

\* mutant: the rows without an account are everybody's
VisibleAuditOrGlobal(c) == {r \in audit : r.account \in {conn[c].account, None}}
\* audit_select: account_id = app_account_id(), and NULL equals nothing.
VisibleAudit(c) == {r \in audit : r.account = conn[c].account /\ r.account # None}

\* tenant_isolation or member_self_read on account_users.
VisibleMembers(c) ==
    {m \in Membership : m.account = conn[c].account \/ m.user = conn[c].user}

\* audit_insert: WITH CHECK (account_id IS NULL OR account_id = app_account_id())
MayInsert(c, account) == account \in {None, conn[c].account}
-----------------------------------------------------------------------------
(* The pool *)

Start(p) ==
    /\ proc[p].op = None
    /\ \E r \in Requests :
          /\ r.op = "page" => \A q \in Proc : proc[q].op # "page"
          /\ \E m \in Membership, v \in IF r.op = "update" THEN BOOLEAN ELSE {None} :
                /\ m.account = r.account
                /\ proc' = [proc EXCEPT ![p] =
                      [Idle EXCEPT !.op = r.op, !.account = r.account, !.user = m.user,
                                   !.input = v]]
    /\ UNCHANGED <<conn, audit, require2fa, clock, paging>>

\* mutant: ctx.db is used inside withTenant
AcquireAnother(p) ==
    /\ proc[p].op # None
    /\ \E c \in Conn :
          /\ conn[c].holder = None
          /\ conn' = [conn EXCEPT ![c].holder = p]
    /\ proc' = [proc EXCEPT ![p].next = IF @ = 0 THEN 1 ELSE @]
    /\ UNCHANGED <<audit, require2fa, clock, paging>>

\* A section begins with any connection that is free, and waits while none is.
Acquire(p) ==
    /\ proc[p].op # None
    /\ proc[p].next = 0
    /\ \E c \in Conn :
          /\ conn[c].holder = None
          /\ conn' = [conn EXCEPT ![c].holder = p]
    /\ proc' = [proc EXCEPT ![p].next = 1]
    /\ UNCHANGED <<audit, require2fa, clock, paging>>

\* mutant: set_config(..., false), for the session
ReturnedAsIs(c) == [conn EXCEPT ![c].holder = None]
\* COMMIT and ROLLBACK undo set_config(..., true), and the connection goes back.
Returned(c) == [conn EXCEPT ![c] = Free]

\* The rows of one page, newest first.
Newest(rows, n) ==
    LET ids == {r.id : r \in rows}
        newer(i) == Cardinality({j \in ids : j > i})
        size == IF Cardinality(ids) < n THEN Cardinality(ids) ELSE n IN
    [k \in 1..size |-> CHOOSE i \in ids : newer(i) = k - 1]

\* mutant: nextCursor from the row that only shows that there are more
NextBeforeLookahead(page) == page[Len(page)]
\* nextCursor = items.at(-1).id
NextBefore(page) == page[PageSize]

\* rows.slice(0, limit), and a cursor if there was one more.
Delivered(page) ==
    LET items == SubSeq(page, 1, IF Len(page) > PageSize THEN PageSize ELSE Len(page)) IN
    [paging EXCEPT !.got = @ \o items,
                   !.before = IF Len(page) > PageSize THEN NextBefore(page) ELSE None,
                   !.done = Len(page) <= PageSize]

InNextSection(p) ==
    [proc[p] EXCEPT !.section = @ + 1, !.next = 0, !.row = None, !.value = None, !.seen = {}]

\* mutant: the connection is kept for the next section, which asks for its own
CommitKeeps(p) ==
    /\ InTransaction(p)
    /\ proc[p].next > Len(Section(p))
    /\ ~InLastSection(p)
    /\ proc' = [proc EXCEPT ![p] = InNextSection(p)]
    /\ UNCHANGED <<conn, audit, require2fa, clock, paging>>

\* COMMIT: what the section wrote is there for everybody, its locks are free.
Commit(p) ==
    /\ InTransaction(p)
    /\ proc[p].next > Len(Section(p))
    /\ \E c \in ConnOf(p) : conn' = Returned(c)
    /\ audit' = IF proc[p].row = None THEN audit ELSE audit \cup {proc[p].row}
    /\ require2fa' = IF proc[p].value = None THEN require2fa
                     ELSE [require2fa EXCEPT ![proc[p].account] = proc[p].value]
    /\ paging' = IF proc[p].op = "page" /\ InLastSection(p) THEN Delivered(proc[p].page)
                                                               ELSE paging
    /\ proc' = [proc EXCEPT ![p] =
                   IF InLastSection(p) THEN Idle ELSE InNextSection(p)]
    /\ UNCHANGED <<clock>>

\* A statement fails or the answer is a refusal: ROLLBACK, and the request ends.
Fail(p) ==
    /\ InTransaction(p)
    /\ \E c \in ConnOf(p) : conn' = Returned(c)
    /\ proc' = [proc EXCEPT ![p] = Idle]
    /\ UNCHANGED <<audit, require2fa, clock, paging>>
-----------------------------------------------------------------------------
(* Statements *)

SetAccount(p) ==
    /\ At(p, "setAccount")
    /\ \E c \in ConnOf(p) : conn' = [conn EXCEPT ![c].account = proc[p].account]
    /\ proc' = [proc EXCEPT ![p].next = @ + 1]
    /\ UNCHANGED <<audit, require2fa, clock, paging>>

SetUser(p) ==
    /\ At(p, "setUser")
    /\ \E c \in ConnOf(p) : conn' = [conn EXCEPT ![c].user = proc[p].user]
    /\ proc' = [proc EXCEPT ![p].next = @ + 1]
    /\ UNCHANGED <<audit, require2fa, clock, paging>>

Reads(p, statement, seen) ==
    /\ At(p, statement)
    /\ proc' = [proc EXCEPT ![p].next = @ + 1, ![p].seen = seen]
    /\ UNCHANGED <<conn, audit, require2fa, clock, paging>>

\* The table users, and sessions, which has no policy: found by id, e-mail or token.
ReadSession(p) == Reads(p, "session", {})

\* loadPermissions: WHERE account_id = and user_id =
ReadPermissions(p) ==
    \E c \in ConnOf(p) :
        Reads(p, "permissions",
              {m \in VisibleMembers(c) : m.account = proc[p].account /\ m.user = proc[p].user})

\* login: WHERE user_id =
ReadMemberships(p) ==
    \E c \in ConnOf(p) :
        Reads(p, "memberships", {m \in VisibleMembers(c) : m.user = proc[p].user})

\* getMe: WHERE user_id =, LIMIT 1, joined with the visible roles.
ReadOwnRole(p) ==
    \E c \in ConnOf(p) :
        Reads(p, "own", {m \in VisibleMembers(c) : m.user = proc[p].user
                                                   /\ m.account = conn[c].account})

\* listMembers has no WHERE: policies, and a join with the visible roles.
ListMembers(p) ==
    \E c \in ConnOf(p) :
        Reads(p, "members", {m \in VisibleMembers(c) : m.account = conn[c].account})

\* mutant: lte for lt
BeforeOrAt(rows, before) == {r \in rows : before = None \/ r.id <= before}
\* opts.before ? lt(id, before) : undefined
Before(rows, before) == {r \in rows : before = None \/ r.id < before}

\* listAuditLogs has no account in its WHERE; the first page starts a new reading.
ReadPage(p) ==
    /\ At(p, "page")
    /\ \E c \in ConnOf(p) :
          LET first == paging.before = None
              rows == Before(VisibleAudit(c), paging.before) IN
          /\ proc' = [proc EXCEPT ![p].next = @ + 1, ![p].seen = rows,
                                  ![p].page = Newest(rows, PageSize + 1)]
          /\ paging' = IF first THEN [before |-> None, got |-> <<>>, done |-> FALSE,
                                      from |-> {r.id : r \in {r \in audit : r.account = Audited}}]
                                ELSE paging
    /\ UNCHANGED <<conn, audit, require2fa, clock>>

\* updateAccount's UPDATE waits for the row of the account.
RowLocked(p) ==
    \E q \in Proc \ {p} : proc[q].value # None /\ proc[q].account = proc[p].account

Update(p) ==
    /\ At(p, "update")
    /\ ~RowLocked(p)
    /\ proc' = [proc EXCEPT ![p].next = @ + 1, ![p].value = proc[p].input]
    /\ UNCHANGED <<conn, audit, require2fa, clock, paging>>

\* uuidv7(): the host's clock, and bits that tell the ids of one millisecond apart.
FreshId(id) ==
    /\ Millisecond[id] \in clock..(clock + Skew)
    /\ \A r \in audit : r.id # id
    /\ \A q \in Proc : proc[q].row # None => proc[q].row.id # id

\* The id is made when the row is inserted, before it is committed.  A login that is
\* refused belongs to no account.
RecordAudit(p) ==
    /\ At(p, "audit")
    /\ \E c \in ConnOf(p) :
          LET account == IF proc[p].op = "refused" THEN None ELSE proc[p].account IN
          /\ MayInsert(c, account)
          /\ \E id \in 1..MaxRecords :
                /\ FreshId(id)
                /\ proc' = [proc EXCEPT ![p].next = @ + 1,
                                        ![p].row = [id |-> id, account |-> account,
                                                    value |-> proc[p].input]]
    /\ UNCHANGED <<conn, audit, require2fa, clock, paging>>

\* Time passes while there are ids for it.
Tick ==
    /\ \E id \in 1..MaxRecords : Millisecond[id] > clock
    /\ clock' = clock + 1
    /\ UNCHANGED <<conn, proc, audit, require2fa, paging>>
-----------------------------------------------------------------------------
(* The end of the process *)

\* A crash, or the 15 s timer of its shutdown: every open transaction is rolled back,
\* and the next process begins with a new pool.
Kill ==
    /\ conn' = [c \in Conn |-> Free]
    /\ proc' = [p \in Proc |-> Idle]
    /\ UNCHANGED <<audit, require2fa, clock, paging>>
-----------------------------------------------------------------------------
Init ==
    /\ conn = [c \in Conn |-> Free]
    /\ proc = [p \in Proc |-> Idle]
    /\ audit = {}
    /\ require2fa = [a \in Account |-> FALSE]
    /\ clock = 0
    /\ paging = [before |-> None, got |-> <<>>, done |-> FALSE, from |-> {}]

Execute(p) ==
    \/ SetAccount(p) \/ SetUser(p) \/ ReadSession(p) \/ ReadPermissions(p) \/ ReadMemberships(p)
    \/ ReadOwnRole(p) \/ ListMembers(p) \/ ReadPage(p) \/ RecordAudit(p) \/ Commit(p)

Next ==
    \/ \E p \in Proc : Start(p) \/ Acquire(p) \/ Execute(p) \/ Update(p) \/ Fail(p)
    \/ Tick \/ Kill

Spec == Init /\ [][Next]_vars
-----------------------------------------------------------------------------
(* Properties *)

TypeOK ==
    /\ conn \in [Conn -> [holder : Proc \cup {None}, account : Account \cup {None},
                          user : User \cup {None}]]
    /\ \A p \in Proc :
          /\ proc[p].account \in Account \cup {None} /\ proc[p].user \in User \cup {None}
          /\ proc[p].value \in BOOLEAN \cup {None} /\ proc[p].row \in AuditRow \cup {None}
          /\ Cardinality(ConnOf(p)) <= (IF proc[p].op = None THEN 0 ELSE 1)
    /\ audit \subseteq AuditRow
    /\ require2fa \in [Account -> BOOLEAN]
    /\ clock \in Nat

\* A connection that waits in the pool carries no tenant and no user: whatever ran
\* on it before, and however it ended, the next request starts from nothing.
IdleConnectionsAreClean ==
    \A c \in Conn : conn[c].holder = None => conn[c].account = None /\ conn[c].user = None

\* What a request reads is of its own account, or its own user's membership: also
\* where the query names no account.
ReadsStayInTenant ==
    \A p \in Proc : \A r \in proc[p].seen :
        r.account = proc[p].account \/ (proc[p].op = "login" /\ r.user = proc[p].user)

\* The audit log tells the truth about the settings, as far as its clocks go: the
\* value an account has was recorded, and no change is recorded more than Skew
\* milliseconds after that.  Within those the ids are in no order, and with them the
\* list is not: two changes of one millisecond may be listed the wrong way round.
NewestRecordTellsSetting ==
    \A a \in Account :
        LET changes == {r \in audit : r.account = a /\ r.value # None} IN
        IF changes = {} THEN ~require2fa[a]
        ELSE \E r \in changes :
                /\ r.value = require2fa[a]
                /\ \A q \in changes : Millisecond[q.id] <= Millisecond[r.id] + Skew

\* Reading page after page, newest first, shows no record twice ...
PagesDescend ==
    \A i, j \in 1..Len(paging.got) : i < j => paging.got[i] > paging.got[j]

\* ... and in the end every record that was there when the reading began, however
\* many were committed meanwhile, in whatever order.
PagesAreComplete ==
    paging.done => paging.from \subseteq {paging.got[i] : i \in 1..Len(paging.got)}

\* Nobody waits in a circle, for connections of the pool and for rows: of the
\* requests at work there is always one that needs nothing another one has.
Waits(p) ==
    \/ proc[p].next = 0 /\ \A c \in Conn : conn[c].holder # None
    \/ At(p, "update") /\ RowLocked(p)

SomebodyGoesOn ==
    LET working == {p \in Proc : proc[p].op # None} IN
    working # {} => \E p \in working : ~Waits(p)
=============================================================================
