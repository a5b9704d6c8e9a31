----------------------------- MODULE TenancyProofs -----------------------------
(* Proofs about Tenancy, for any set of requests, connections, accounts and    *)
(* memberships, any page size and any number of audit records.                 *)
EXTENDS Tenancy, FiniteSetTheorems, SequenceTheorems, TLAPS

-----------------------------------------------------------------------------
(* How far a request is *)

\* The last section of a request, with n statements left to run.
LastWith(p, n) == InLastSection(p) /\ proc[p].next + n = Len(Section(p)) + 1

-----------------------------------------------------------------------------
(* The inductive invariant *)

ConnType == [holder : Proc \cup {None}, account : Account \cup {None}, user : User \cup {None}]

RequestType ==
    [op : Op \cup {None}, account : Account \cup {None}, user : User \cup {None},
     input : BOOLEAN \cup {None}, section : Nat, next : Nat, value : BOOLEAN \cup {None},
     row : AuditRow \cup {None}, seen : SUBSET (Membership \cup AuditRow), page : Seq(Nat)]

Types ==
    /\ conn \in [Conn -> ConnType]
    /\ proc \in [Proc -> RequestType]
    /\ audit \in SUBSET AuditRow
    /\ require2fa \in [Account -> BOOLEAN]
    /\ clock \in Nat

\* A request holds at most one connection, from the beginning of a section to its end,
\* and none once it has ended.
OneConnection ==
    /\ \A c, d \in Conn : conn[c].holder = conn[d].holder /\ conn[c].holder # None => c = d
    /\ \A c \in Conn : conn[c].holder # None => proc[conn[c].holder].op # None
    /\ \A p \in Proc : proc[p].next # 0 <=> ConnOf(p) # {}

\* A connection carries no account but that of the request that holds it.
SettingsAreOwn ==
    \A c \in Conn : conn[c].account # None =>
        conn[c].holder # None /\ conn[c].account = proc[conn[c].holder].account

\* A request runs its script in order; one that ended has left nothing behind.
FollowsScript ==
    \A p \in Proc :
        /\ proc[p].op = None => proc[p] = Idle
        /\ proc[p].op # None =>
              /\ proc[p].account \in Account
              /\ proc[p].op = "page" => proc[p].account = Audited
              /\ proc[p].input # None <=> proc[p].op = "update"
              /\ proc[p].section \in 1..Len(Script(proc[p].op))
              /\ proc[p].next \in 0..(Len(Section(p)) + 1)

\* The requests that record what they did.
Recording == {"update", "login", "refused"}

\* What a transaction has written and not committed: the account from the UPDATE
\* on, the record from the INSERT on, under one connection.
WritesAreHeld ==
    \A p \in Proc :
        /\ proc[p].value # None <=>
              proc[p].op = "update" /\ (LastWith(p, 0) \/ LastWith(p, 1))
        /\ proc[p].row # None <=> proc[p].op \in Recording /\ LastWith(p, 0)
        /\ proc[p].value # None => proc[p].value = proc[p].input
        /\ proc[p].value # None \/ proc[p].row # None => ConnOf(p) # {}

\* The record a transaction has written is its own, and its time is at most Skew before
\* that of every record committed of a change to the account it has locked.
RecordsAreOwn ==
    \A p \in Proc : proc[p].row # None =>
        /\ proc[p].row.account = IF proc[p].op = "refused" THEN None ELSE proc[p].account
        /\ proc[p].row.value = proc[p].input
        /\ Millisecond[proc[p].row.id] <= clock + Skew
        /\ proc[p].value # None =>
              \A r \in audit : r.account = proc[p].account /\ r.value # None
                                  => Millisecond[r.id] <= Millisecond[proc[p].row.id] + Skew

\* Two transactions never have the row of one account locked.
LocksExclude ==
    \A p, q \in Proc : p # q /\ proc[p].value # None /\ proc[q].value # None
                          => proc[p].account # proc[q].account

\* No clock is more than Skew ahead.
RecordsAreKnown == \A r \in audit : Millisecond[r.id] <= clock + Skew

TenancyInv ==
    /\ Types
    /\ OneConnection
    /\ SettingsAreOwn
    /\ IdleConnectionsAreClean
    /\ FollowsScript
    /\ WritesAreHeld
    /\ RecordsAreOwn
    /\ LocksExclude
    /\ RecordsAreKnown
    /\ ReadsStayInTenant
    /\ NewestRecordTellsSetting

-----------------------------------------------------------------------------
(* The inductive invariant of the pages *)

IdsOf(rows) == {r.id : r \in rows}
GotIds == {paging.got[i] : i \in 1..Len(paging.got)}
AuditedIds == IdsOf({r \in audit : r.account = Audited})
PageRead(p) == proc[p].op = "page" /\ LastWith(p, 0)
SeenIds(p) == IdsOf(proc[p].seen)

\* One reader pages through the log.
OneReader == \A p, q \in Proc : proc[p].op = "page" /\ proc[q].op = "page" => p = q

\* Between two pages: what was there at the start is delivered or below the cursor.
CursorSplits ==
    /\ paging \in [before : Nat \cup {None}, got : Seq(Nat), done : BOOLEAN, from : SUBSET Nat]
    /\ paging.from \subseteq AuditedIds
    /\ paging.before # None =>
          /\ ~paging.done
          /\ \A i \in GotIds : paging.before <= i
          /\ \A i \in paging.from \ GotIds : i < paging.before
    /\ paging.before = None /\ ~paging.done => paging.got = <<>>

\* A page that is read and not yet delivered: the newest of rows that hold all that
\* is still owed, all below the cursor.
PageCovers ==
    \A p \in Proc : PageRead(p) =>
        /\ proc[p].page = Newest(proc[p].seen, PageSize + 1)
        /\ proc[p].seen \subseteq audit
        /\ paging.from \ GotIds \subseteq SeenIds(p)
        /\ ~paging.done
        /\ paging.before # None => \A i \in SeenIds(p) : i < paging.before

\* Whoever is about to read a page has set the tenant.
TenantIsSet ==
    \A p \in Proc : proc[p].op = "page" /\ LastWith(p, 1) =>
        \E c \in ConnOf(p) : conn[c].account = Audited

PagingInv ==
    OneReader /\ CursorSplits /\ PageCovers /\ TenantIsSet /\ PagesDescend /\ PagesAreComplete

-----------------------------------------------------------------------------
(* Scripts *)

\* Which statement a request runs tells where in its script it is, and the other
\* way round.
SectionFacts(op, statement, last, n, length) ==
    /\ statement = "update" <=> op = "update" /\ last /\ n + 1 = length
    /\ statement = "audit" <=> op \in Recording /\ last /\ n = length
    /\ statement = "page" <=> op = "page" /\ last /\ n = length
    /\ op = "page" /\ last /\ n = 1 => statement = "setAccount"
    /\ statement = "memberships" => op = "login"

ScriptFacts(op, script) ==
    /\ Len(script) \in 2..4
    /\ \A j \in 1..Len(script) :
          /\ Len(script[j]) \in 1..3
          /\ op = "update" /\ j = Len(script) => Len(script[j]) = 3
          /\ op = "page" /\ j = Len(script) => Len(script[j]) = 2
          /\ \A n \in 1..Len(script[j]) :
                SectionFacts(op, script[j][n], j = Len(script), n, Len(script[j]))

\* The scripts are such.
LEMMA Scripts == \A op \in Op : ScriptFacts(op, Script(op))
<1> USE DEF Script, ScriptFacts, SectionFacts, Recording, WithTenant, WithUser, UpdateAccount,
            UpdateScript, PageScript, MembersScript, MeScript, LoginScript, RefusedScript
<1>1. ScriptFacts("update", Script("update"))
  <2> DEFINE s == Script("update")
  <2>1. Len(s) = 3
    OBVIOUS
  <2>2. Len(s[1]) = 1 /\ s[1][1] = "session"
    OBVIOUS
  <2>3. Len(s[2]) = 2 /\ s[2][1] = "setAccount" /\ s[2][2] = "permissions"
    OBVIOUS
  <2>4. Len(s[3]) = 3 /\ s[3][1] = "setAccount" /\ s[3][2] = "update" /\ s[3][3] = "audit"
    OBVIOUS
  <2> HIDE DEF s, Script
  <2>5. ASSUME NEW j \in 1..3, NEW n \in 1..Len(s[j])
        PROVE  SectionFacts("update", s[j][n], j = Len(s), n, Len(s[j]))
    <3>1. CASE j = 1
      BY <2>1, <2>2, <3>1
    <3>2. CASE j = 2
      BY <2>1, <2>3, <3>2
    <3>3. CASE j = 3
      <4>0. Len(s[j]) = 3
        BY <2>4, <3>3
      <4>1. n \in {1, 2, 3}
        BY <4>0
      <4>2. CASE n = 1
        BY <2>1, <2>4, <3>3, <4>2
      <4>3. CASE n = 2
        BY <2>1, <2>4, <3>3, <4>3
      <4>4. CASE n = 3
        BY <2>1, <2>4, <3>3, <4>4
      <4> QED BY <4>1, <4>2, <4>3, <4>4
    <3> QED BY <3>1, <3>2, <3>3
  <2>6. ScriptFacts("update", s)
    BY <2>1, <2>2, <2>3, <2>4, <2>5
  <2> QED BY <2>6 DEF s
<1>2. ScriptFacts("page", Script("page"))
  OBVIOUS
<1>3. ScriptFacts("members", Script("members"))
  OBVIOUS
<1>4. ScriptFacts("me", Script("me"))
  <2> DEFINE s == Script("me")
  <2>1. Len(s) = 4
    OBVIOUS
  <2>2. Len(s[1]) = 1 /\ s[1][1] = "session"
    OBVIOUS
  <2>3. Len(s[2]) = 2 /\ s[2][1] = "setAccount" /\ s[2][2] = "permissions"
    OBVIOUS
  <2>4. Len(s[3]) = 1 /\ s[3][1] = "session"
    OBVIOUS
  <2>5. Len(s[4]) = 2 /\ s[4][1] = "setAccount" /\ s[4][2] = "own"
    OBVIOUS
  <2> HIDE DEF s, Script
  <2>6. ASSUME NEW j \in 1..4, NEW n \in 1..Len(s[j])
        PROVE  SectionFacts("me", s[j][n], j = Len(s), n, Len(s[j]))
    BY <2>1, <2>2, <2>3, <2>4, <2>5
  <2>7. ScriptFacts("me", s)
    BY <2>1, <2>2, <2>3, <2>4, <2>5, <2>6
  <2> QED BY <2>7 DEF s
<1>5. ScriptFacts("login", Script("login"))
  <2> DEFINE s == Script("login")
  <2>1. Len(s) = 3
    OBVIOUS
  <2>2. Len(s[1]) = 1 /\ s[1][1] = "session"
    OBVIOUS
  <2>3. Len(s[2]) = 2 /\ s[2][1] = "setUser" /\ s[2][2] = "memberships"
    OBVIOUS
  <2>4. Len(s[3]) = 2 /\ s[3][1] = "setAccount" /\ s[3][2] = "audit"
    OBVIOUS
  <2> HIDE DEF s, Script
  <2>5. ASSUME NEW j \in 1..3, NEW n \in 1..Len(s[j])
        PROVE  SectionFacts("login", s[j][n], j = Len(s), n, Len(s[j]))
    BY <2>1, <2>2, <2>3, <2>4
  <2>6. ScriptFacts("login", s)
    BY <2>1, <2>2, <2>3, <2>4, <2>5
  <2> QED BY <2>6 DEF s
<1>6. ScriptFacts("refused", Script("refused"))
  OBVIOUS
<1> QED BY <1>1, <1>2, <1>3, <1>4, <1>5, <1>6 DEF Op

-----------------------------------------------------------------------------
(* Newest *)

NewerThan(ids, i) == Cardinality({j \in ids : j > i})

\* The newer of two ids has fewer newer ones.
LEMMA FewerAreNewer ==
    ASSUME NEW ids \in SUBSET Nat, IsFiniteSet(ids), NEW i \in ids, NEW j \in ids, i < j
    PROVE  NewerThan(ids, j) < NewerThan(ids, i)
<1> DEFINE I == {x \in ids : x > i}
           J == {x \in ids : x > j}
<1>1. J \in SUBSET I /\ j \in I /\ j \notin J /\ I \in SUBSET ids
  <2>1. j \in Nat /\ i \in Nat /\ \A x \in ids : x \in Nat
    OBVIOUS
  <2>2. \A x \in ids : x > j => x > i
    BY <2>1
  <2>3. J \in SUBSET I /\ I \in SUBSET ids
    BY <2>2
  <2>4. j \in I
    OBVIOUS
  <2>5. j \notin J
    BY <2>1
  <2> QED BY <2>3, <2>4, <2>5
<1>a. IsFiniteSet(I)
  BY <1>1, FS_Subset
<1> HIDE DEF I, J
<1>b. IsFiniteSet(J) /\ Cardinality(J) <= Cardinality(I) /\ Cardinality(J) # Cardinality(I)
  BY <1>1, <1>a, FS_Subset
<1>2. Cardinality(I) \in Nat /\ Cardinality(J) \in Nat /\ Cardinality(J) <= Cardinality(I)
      /\ Cardinality(J) # Cardinality(I)
  BY <1>a, <1>b, FS_CardinalityType
<1> QED BY <1>2 DEF NewerThan, I, J

\* Counting the newer ones numbers the ids from zero.
LEMMA NewerNumbers ==
    ASSUME NEW ids \in SUBSET Nat, IsFiniteSet(ids)
    PROVE  /\ Cardinality(ids) \in Nat
           /\ \A i \in ids : NewerThan(ids, i) \in 0..(Cardinality(ids) - 1)
           /\ \A i, j \in ids : NewerThan(ids, i) = NewerThan(ids, j) => i = j
           /\ \A k \in 0..(Cardinality(ids) - 1) : \E i \in ids : NewerThan(ids, i) = k
<1> DEFINE c == Cardinality(ids)
           T == 0..(c - 1)
           f == [i \in ids |-> NewerThan(ids, i)]
<1>1. c \in Nat
  BY FS_CardinalityType
<1>2. ASSUME NEW i \in ids PROVE NewerThan(ids, i) \in T
  <2> DEFINE I == {x \in ids : x > i}
  <2>1. I \in SUBSET ids /\ i \notin I
    OBVIOUS
  <2>2. IsFiniteSet(I) /\ Cardinality(I) <= c /\ Cardinality(I) # c
    BY <2>1, FS_Subset
  <2>3. Cardinality(I) \in Nat
    BY <2>2, FS_CardinalityType
  <2> QED BY <1>1, <2>2, <2>3 DEF NewerThan
<1>3. ASSUME NEW i \in ids, NEW j \in ids, NewerThan(ids, i) = NewerThan(ids, j) PROVE i = j
  <2>1. ~(i < j) /\ ~(j < i)
    BY <1>2, <1>3, FewerAreNewer
  <2> QED BY <2>1
<1>4. IsFiniteSet(T) /\ Cardinality(T) = c
  <2>1. 0 \in Int /\ c - 1 \in Int
    BY <1>1
  <2>2. IsFiniteSet(T) /\ Cardinality(T) = IF 0 > c - 1 THEN 0 ELSE (c - 1) - 0 + 1
    BY <2>1, FS_Interval
  <2> QED BY <1>1, <2>2
<1>5. f \in Injection(ids, T)
  BY <1>2, <1>3 DEF Injection, IsInjective
<1>6. f \in Surjection(ids, T)
  BY <1>4, <1>5, FS_Injection
<1> QED BY <1>1, <1>2, <1>3, <1>6 DEF Surjection

\* What a page of at most n ids is, of the given ids: the greatest in descending
\* order, all of them or as many as were asked for, with the rest below.
IsPageOf(s, ids, n) ==
    /\ s \in Seq(Nat)
    /\ Len(s) <= n
    /\ \A k \in 1..Len(s) : s[k] \in ids
    /\ \A j, k \in 1..Len(s) : j < k => s[j] > s[k]
    /\ \A i \in ids : (\A k \in 1..Len(s) : s[k] # i)
                         => Len(s) = n /\ \A k \in 1..Len(s) : i < s[k]

\* Newest returns such a page.
LEMMA NewestRows ==
    ASSUME NEW rows, IdsOf(rows) \in SUBSET Nat, IsFiniteSet(IdsOf(rows)), NEW n \in Nat
    PROVE  IsPageOf(Newest(rows, n), IdsOf(rows), n)
<1> DEFINE ids == IdsOf(rows)
           c == Cardinality(ids)
           size == IF c < n THEN c ELSE n
           pick(k) == CHOOSE i \in ids : NewerThan(ids, i) = k - 1
           s == [k \in 1..size |-> pick(k)]
<1>1. /\ c \in Nat
      /\ \A i \in ids : NewerThan(ids, i) \in 0..(c - 1)
      /\ \A i, j \in ids : NewerThan(ids, i) = NewerThan(ids, j) => i = j
      /\ \A k \in 0..(c - 1) : \E i \in ids : NewerThan(ids, i) = k
  BY NewerNumbers
<1>2. Newest(rows, n) = s
  BY DEF Newest, IdsOf, NewerThan
<1>3. size \in Nat /\ size <= n /\ size <= c /\ (size < c => size = n)
  BY <1>1
<1>4. ASSUME NEW k \in 1..size PROVE pick(k) \in ids /\ NewerThan(ids, pick(k)) = k - 1
  <2>1. k - 1 \in 0..(c - 1)
    BY <1>1, <1>3
  <2>2. \E i \in ids : NewerThan(ids, i) = k - 1
    BY <1>1, <2>1
  <2> QED BY <2>2
<1>5. ids \in SUBSET Nat /\ IsFiniteSet(ids)
  OBVIOUS
<1>0. \A i, j \in ids : i < j => NewerThan(ids, j) < NewerThan(ids, i)
  BY <1>5, FewerAreNewer
<1> HIDE DEF pick, size, c, ids
<1>a. \A k \in 1..size : pick(k) \in Nat
  BY <1>4, <1>5
<1>6. s \in [1..size -> Nat] /\ \A k \in 1..size : s[k] = pick(k)
  BY <1>a
<1> HIDE DEF s
<1>b. s \in Seq(Nat) /\ Len(s) = size
  BY <1>3, <1>6
<1>c. \A k \in 1..size : s[k] \in ids /\ NewerThan(ids, s[k]) = k - 1
  BY <1>4, <1>6
<1>7. ASSUME NEW j \in 1..size, NEW k \in 1..size, j < k PROVE s[j] > s[k]
  <2>1. s[j] \in ids /\ s[k] \in ids /\ NewerThan(ids, s[j]) = j - 1 /\ NewerThan(ids, s[k]) = k - 1
    BY <1>c
  <2>2. ~(s[j] < s[k]) /\ s[j] # s[k]
    BY <1>0, <1>3, <1>7, <2>1
  <2>3. s[j] \in Nat /\ s[k] \in Nat
    BY <1>5, <2>1
  <2> QED BY <2>2, <2>3
<1>8. ASSUME NEW i \in ids, \A k \in 1..size : s[k] # i
      PROVE  size = n /\ \A k \in 1..size : i < s[k]
  <2>1. NewerThan(ids, i) \in 0..(c - 1)
    BY <1>1
  <2>2. ASSUME NewerThan(ids, i) + 1 \in 1..size PROVE FALSE
    <3> DEFINE k == NewerThan(ids, i) + 1
    <3>0. k \in 1..size /\ k - 1 = NewerThan(ids, i)
      BY <2>1, <2>2
    <3> HIDE DEF k
    <3>1. s[k] \in ids /\ NewerThan(ids, s[k]) = NewerThan(ids, i)
      BY <1>c, <3>0
    <3> QED BY <1>1, <1>8, <3>0, <3>1
  <2>3. size <= NewerThan(ids, i) /\ size < c
    BY <1>1, <1>3, <2>1, <2>2
  <2>4. ASSUME NEW k \in 1..size PROVE i < s[k]
    <3>1. s[k] \in ids /\ NewerThan(ids, s[k]) = k - 1
      BY <1>c
    <3>2. ~(s[k] < i) /\ s[k] # i
      BY <1>0, <1>3, <1>8, <2>1, <2>3, <3>1
    <3>3. s[k] \in Nat /\ i \in Nat
      BY <1>5, <3>1
    <3> QED BY <3>2, <3>3
  <2> QED BY <1>3, <2>3, <2>4
<1> QED BY <1>2, <1>3, <1>b, <1>c, <1>7, <1>8 DEF ids, IsPageOf

-----------------------------------------------------------------------------
(* Where a request is *)

\* The statement a request comes to tells how much of its script is left.
LEMMA Position ==
    ASSUME Types, FollowsScript, NEW p \in Proc, proc[p].op # None
    PROVE  /\ Len(Script(proc[p].op)) \in 2..4
           /\ Len(Section(p)) \in 1..3
           /\ proc[p].section \in Nat /\ proc[p].next \in Nat
           /\ proc[p].op = "update" /\ InLastSection(p) => Len(Section(p)) = 3
           /\ proc[p].op = "page" /\ InLastSection(p) => Len(Section(p)) = 2
           /\ At(p, "update") <=> InTransaction(p) /\ proc[p].op = "update" /\ LastWith(p, 2)
           /\ At(p, "audit") <=> InTransaction(p) /\ proc[p].op \in Recording /\ LastWith(p, 1)
           /\ At(p, "page") <=> InTransaction(p) /\ proc[p].op = "page" /\ LastWith(p, 1)
           /\ At(p, "memberships") => proc[p].op = "login"
           /\ \A st : At(p, st) /\ proc[p].op = "page" /\ LastWith(p, 2) => st = "setAccount"
<1> DEFINE op == proc[p].op
           j == proc[p].section
           n == proc[p].next
           L == Len(Section(p))
<1>1. op \in Op /\ j \in 1..Len(Script(op)) /\ n \in 0..(L + 1) /\ j \in Nat /\ n \in Nat
  BY DEF Types, RequestType, FollowsScript
<1>2. ScriptFacts(op, Script(op))
  BY <1>1, Scripts
<1>3. L \in 1..3 /\ Len(Script(op)) \in 2..4
  BY <1>1, <1>2 DEF ScriptFacts, Section
<1>4. (op = "update" /\ InLastSection(p) => L = 3) /\ (op = "page" /\ InLastSection(p) => L = 2)
  BY <1>1, <1>2 DEF ScriptFacts, Section, InLastSection
<1>5. n # 0 /\ n <= L => SectionFacts(op, Section(p)[n], InLastSection(p), n, L)
  BY <1>1, <1>2, <1>3 DEF ScriptFacts, Section, InLastSection
<1>6. \A k \in {0, 1, 2} : LastWith(p, k) <=> InLastSection(p) /\ n + k = L + 1
  BY DEF LastWith
<1>7. /\ InTransaction(p) <=> n # 0
      /\ \A st : At(p, st) <=> InTransaction(p) /\ n <= L /\ Section(p)[n] = st
  BY DEF At, InTransaction
<1> HIDE DEF op, j, n, L
<1>8. At(p, "update") <=> InTransaction(p) /\ op = "update" /\ LastWith(p, 2)
  BY <1>1, <1>3, <1>5, <1>6, <1>7 DEF SectionFacts
<1>9. At(p, "audit") <=> InTransaction(p) /\ op \in Recording /\ LastWith(p, 1)
  BY <1>1, <1>3, <1>5, <1>6, <1>7 DEF SectionFacts
<1>10. At(p, "page") <=> InTransaction(p) /\ op = "page" /\ LastWith(p, 1)
  BY <1>1, <1>3, <1>5, <1>6, <1>7 DEF SectionFacts
<1>11. At(p, "memberships") => op = "login"
  BY <1>5, <1>7 DEF SectionFacts
<1>12. ASSUME NEW st, At(p, st), op = "page", LastWith(p, 2) PROVE st = "setAccount"
  BY <1>1, <1>3, <1>4, <1>5, <1>6, <1>7, <1>12 DEF SectionFacts
<1> QED BY <1>1, <1>3, <1>4, <1>8, <1>9, <1>10, <1>11, <1>12 DEF op, j, n, L

\* p ran a statement: the next one is up.
Advances(p) ==
    /\ InTransaction(p)
    /\ proc[p].next <= Len(Section(p))
    /\ proc' \in [Proc -> RequestType]
    /\ \A q \in Proc : q # p => proc'[q] = proc[q]
    /\ proc'[p].op = proc[p].op /\ proc'[p].account = proc[p].account
    /\ proc'[p].user = proc[p].user /\ proc'[p].input = proc[p].input
    /\ proc'[p].section = proc[p].section /\ proc'[p].next = proc[p].next + 1
    /\ conn' \in [Conn -> ConnType]
    /\ \A c \in Conn : conn'[c].holder = conn[c].holder

\* A statement takes the request one step further in its script, and nobody else.
LEMMA Advance ==
    ASSUME Types, OneConnection, FollowsScript, NEW p \in Proc, Advances(p)
    PROVE  /\ OneConnection' /\ FollowsScript'
           /\ \A q \in Proc : (ConnOf(q))' = ConnOf(q)
           /\ \A q \in Proc : (Section(q))' = Section(q)
           /\ \A q \in Proc : q # p => \A n \in 0..2 : (LastWith(q, n))' = LastWith(q, n)
           /\ (LastWith(p, 0))' = LastWith(p, 1)
           /\ (LastWith(p, 1))' = LastWith(p, 2)
           /\ ~LastWith(p, 0)
<1>2. \A q \in Proc : (ConnOf(q))' = ConnOf(q)
  BY DEF Advances, ConnOf
<1>1. OneConnection'
  <2>1. \A c, d \in Conn : conn'[c].holder = conn'[d].holder /\ conn'[c].holder # None => c = d
    BY DEF Advances, OneConnection
  <2>2. ASSUME NEW c \in Conn, conn'[c].holder # None PROVE proc'[conn'[c].holder].op # None
    <3>1. conn[c].holder \in Proc /\ proc[conn[c].holder].op # None
      BY <2>2 DEF Advances, OneConnection, Types, ConnType
    <3> QED BY <3>1 DEF Advances
  <2>3. ASSUME NEW q \in Proc PROVE proc'[q].next # 0 <=> (ConnOf(q))' # {}
    <3>1. proc[p].next \in Nat /\ proc[p].next # 0
      BY DEF Advances, InTransaction, Types, RequestType
    <3>2. proc'[q].next # 0 <=> proc[q].next # 0
      BY <3>1 DEF Advances
    <3> QED BY <1>2, <3>2 DEF OneConnection
  <2> QED BY <2>1, <2>2, <2>3 DEF OneConnection
<1>3. \A q \in Proc : proc'[q].section = proc[q].section /\ proc'[q].op = proc[q].op
  BY DEF Advances
<1>4. \A q \in Proc : (Section(q))' = Section(q) /\ (InLastSection(q))' = InLastSection(q)
  BY <1>3 DEF Section, InLastSection
<1>5. Len(Section(p)) \in 1..3 /\ proc[p].next \in Nat /\ proc[p].op # None
  BY Position DEF Advances, InTransaction
<1>6. FollowsScript'
  <2> SUFFICES ASSUME NEW q \in Proc
               PROVE  /\ proc'[q].op = None => proc'[q] = Idle
                      /\ proc'[q].op # None =>
                            /\ proc'[q].account \in Account
                            /\ proc'[q].op = "page" => proc'[q].account = Audited
                            /\ proc'[q].input # None <=> proc'[q].op = "update"
                            /\ proc'[q].section \in 1..Len(Script(proc'[q].op))
                            /\ proc'[q].next \in 0..(Len(Section(q)) + 1)
    BY <1>4 DEF FollowsScript
  <2>1. CASE q # p
    BY <2>1 DEF Advances, FollowsScript
  <2>2. CASE q = p
    <3>1. proc[p].op # None /\ proc'[p].next = proc[p].next + 1 /\ proc[p].next <= Len(Section(p))
      BY <1>5 DEF Advances
    <3>2. proc'[p].next \in 0..(Len(Section(p)) + 1)
      BY <1>5, <3>1 DEF FollowsScript
    <3> QED BY <2>2, <3>1, <3>2 DEF Advances, FollowsScript
  <2> QED BY <2>1, <2>2
<1>7. \A q \in Proc : q # p => \A n \in 0..2 : (LastWith(q, n))' = LastWith(q, n)
  BY <1>4 DEF LastWith, Advances
<1>8. (LastWith(p, 0))' = LastWith(p, 1) /\ (LastWith(p, 1))' = LastWith(p, 2) /\ ~LastWith(p, 0)
  <2>1. proc'[p].next = proc[p].next + 1 /\ proc[p].next <= Len(Section(p))
    BY DEF Advances
  <2>2. (LastWith(p, 0))' <=> LastWith(p, 1)
    BY <1>4, <1>5, <2>1 DEF LastWith
  <2>3. (LastWith(p, 1))' <=> LastWith(p, 2)
    BY <1>4, <1>5, <2>1 DEF LastWith
  <2>4. ~LastWith(p, 0)
    BY <1>5, <2>1 DEF LastWith
  <2>5. /\ (LastWith(p, 0))' \in BOOLEAN /\ LastWith(p, 1) \in BOOLEAN
        /\ (LastWith(p, 1))' \in BOOLEAN /\ LastWith(p, 2) \in BOOLEAN
    BY DEF LastWith, InLastSection
  <2> QED BY <2>2, <2>3, <2>4, <2>5
<1> QED BY <1>1, <1>2, <1>4, <1>6, <1>7, <1>8

\* Where nothing is recorded, committed or locked, what is said of records and locks stays.
LEMMA Quiet ==
    ASSUME RecordsAreOwn, LocksExclude, RecordsAreKnown, NewestRecordTellsSetting,
           UNCHANGED <<audit, require2fa, clock>>,
           \A q \in Proc :
              /\ proc'[q].value # None =>
                    proc'[q].value = proc[q].value /\ proc'[q].account = proc[q].account
              /\ proc'[q].row # None =>
                    /\ proc'[q].row = proc[q].row /\ proc'[q].op = proc[q].op
                    /\ proc'[q].account = proc[q].account /\ proc'[q].input = proc[q].input
    PROVE  RecordsAreOwn' /\ LocksExclude' /\ RecordsAreKnown' /\ NewestRecordTellsSetting'
<1>1. RecordsAreOwn'
  BY DEF RecordsAreOwn
<1>2. LocksExclude'
  BY DEF LocksExclude
<1>3. RecordsAreKnown' /\ NewestRecordTellsSetting'
  BY DEF RecordsAreKnown, NewestRecordTellsSetting
<1> QED BY <1>1, <1>2, <1>3

-----------------------------------------------------------------------------
(* Statements keep the invariant *)

\* A statement that neither locks the account nor records keeps all that it does not
\* concern: what is left to see are the settings and what the request has read.
LEMMA PlainStatement ==
    ASSUME TenancyInv, NEW p \in Proc, Advances(p), ~At(p, "update"), ~At(p, "audit"),
           proc'[p].value = proc[p].value, proc'[p].row = proc[p].row,
           UNCHANGED <<audit, require2fa, clock>>
    PROVE  /\ Types' /\ OneConnection' /\ FollowsScript' /\ WritesAreHeld'
           /\ RecordsAreOwn' /\ LocksExclude' /\ RecordsAreKnown'
           /\ NewestRecordTellsSetting'
<1> USE DEF TenancyInv
<1>1. Types'
  BY DEF Types, Advances
<1>2. /\ OneConnection' /\ FollowsScript'
      /\ \A q \in Proc : (ConnOf(q))' = ConnOf(q)
      /\ \A q \in Proc : q # p => \A n \in 0..2 : (LastWith(q, n))' = LastWith(q, n)
      /\ (LastWith(p, 0))' = LastWith(p, 1)
      /\ (LastWith(p, 1))' = LastWith(p, 2)
      /\ ~LastWith(p, 0)
  BY Advance
<1>3. \A q \in Proc : /\ proc'[q].op = proc[q].op /\ proc'[q].account = proc[q].account
                      /\ proc'[q].input = proc[q].input
                      /\ proc'[q].value = proc[q].value /\ proc'[q].row = proc[q].row
  BY DEF Advances
<1>4. WritesAreHeld'
  <2>1. ASSUME NEW q \in Proc
        PROVE  /\ proc'[q].value # None <=>
                    proc'[q].op = "update" /\ ((LastWith(q, 0))' \/ (LastWith(q, 1))')
               /\ proc'[q].row # None <=> proc'[q].op \in Recording /\ (LastWith(q, 0))'
    <3>1. CASE q # p
      <4>1. (LastWith(q, 0))' = LastWith(q, 0) /\ (LastWith(q, 1))' = LastWith(q, 1)
        BY <1>2, <3>1
      <4> QED BY <1>3, <4>1 DEF WritesAreHeld
    <3>2. CASE q = p
      <4>1. InTransaction(p) /\ proc[p].op # None
        BY DEF InTransaction, Advances
      <4>2. ~(proc[p].op = "update" /\ LastWith(p, 2)) /\ ~(proc[p].op \in Recording /\ LastWith(p, 1))
        BY <4>1, Position
      <4> QED BY <1>2, <1>3, <3>2, <4>2 DEF WritesAreHeld, Recording
    <3> QED BY <3>1, <3>2
  <2>2. \A q \in Proc :
           /\ proc'[q].value # None => proc'[q].value = proc'[q].input
           /\ proc'[q].value # None \/ proc'[q].row # None => (ConnOf(q))' # {}
    BY <1>2, <1>3 DEF WritesAreHeld
  <2> QED BY <2>1, <2>2 DEF WritesAreHeld
<1>5. RecordsAreOwn' /\ LocksExclude' /\ RecordsAreKnown' /\ NewestRecordTellsSetting'
  BY <1>3, Quiet
<1> QED BY <1>1, <1>2, <1>4, <1>5

\* A statement that only reads: what it reads has to be of the tenant.
LEMMA ReadStatement ==
    ASSUME TenancyInv, NEW p \in Proc, NEW st, st \notin {"update", "audit"}, At(p, st),
           NEW seen \in SUBSET (Membership \cup AuditRow), NEW page \in Seq(Nat),
           \A r \in seen : \/ r.account = proc[p].account
                           \/ proc[p].op = "login" /\ r.user = proc[p].user,
           proc' = [proc EXCEPT ![p].next = @ + 1, ![p].seen = seen, ![p].page = page],
           UNCHANGED <<conn, audit, require2fa, clock>>
    PROVE  TenancyInv' /\ Advances(p)
<1> USE DEF TenancyInv
<1>1. proc[p] \in RequestType
  BY DEF Types
<1>2. proc'[p] = [proc[p] EXCEPT !.next = @ + 1, !.seen = seen, !.page = page]
  BY DEF Types
<1>3. proc'[p] \in RequestType /\ /\ proc'[p].op = proc[p].op /\ proc'[p].account = proc[p].account
                                  /\ proc'[p].user = proc[p].user /\ proc'[p].input = proc[p].input
                                  /\ proc'[p].section = proc[p].section
                                  /\ proc'[p].next = proc[p].next + 1
                                  /\ proc'[p].value = proc[p].value /\ proc'[p].row = proc[p].row
                                  /\ proc'[p].seen = seen
  <2> DEFINE r == proc[p]
             q == proc'[p]
  <2>1. r \in RequestType /\ q = [r EXCEPT !.next = @ + 1, !.seen = seen, !.page = page]
    BY <1>1, <1>2
  <2> HIDE DEF r, q
  <2>2. /\ q.op = r.op /\ q.account = r.account /\ q.user = r.user /\ q.input = r.input
        /\ q.section = r.section /\ q.next = r.next + 1 /\ q.value = r.value /\ q.row = r.row
        /\ q.seen = seen /\ q.page = page
    BY <2>1 DEF RequestType
  <2>3. r.next + 1 \in Nat
    BY <2>1 DEF RequestType
  <2>4. q \in RequestType
    BY <2>1, <2>3 DEF RequestType
  <2> QED BY <2>2, <2>4 DEF r, q
<1>4. /\ proc'[p].op = proc[p].op /\ proc'[p].account = proc[p].account
      /\ proc'[p].user = proc[p].user /\ proc'[p].input = proc[p].input
      /\ proc'[p].section = proc[p].section /\ proc'[p].next = proc[p].next + 1
      /\ proc'[p].value = proc[p].value /\ proc'[p].row = proc[p].row
      /\ proc'[p].seen = seen
  BY <1>3
<1>5. \A q \in Proc : q # p => proc'[q] = proc[q]
  BY DEF Types
<1>6. proc' \in [Proc -> RequestType]
  BY <1>3 DEF Types
<1>7. Advances(p)
  BY <1>4, <1>5, <1>6 DEF Advances, At, InTransaction, Types
<1>8. ~At(p, "update") /\ ~At(p, "audit")
  BY DEF At
<1>9. /\ Types' /\ OneConnection' /\ FollowsScript' /\ WritesAreHeld'
      /\ RecordsAreOwn' /\ LocksExclude' /\ RecordsAreKnown'
      /\ NewestRecordTellsSetting'
  BY <1>4, <1>7, <1>8, PlainStatement
<1>10. SettingsAreOwn' /\ IdleConnectionsAreClean'
  <2>1. \A q \in Proc : proc'[q].account = proc[q].account
    BY <1>4, <1>5
  <2>2. \A c \in Conn : conn[c].holder # None => conn[c].holder \in Proc
    BY DEF Types, ConnType
  <2> QED BY <2>1, <2>2 DEF SettingsAreOwn, IdleConnectionsAreClean
<1>11. ReadsStayInTenant'
  <2>1. ASSUME NEW q \in Proc, NEW r \in proc'[q].seen
        PROVE  r.account = proc'[q].account \/ (proc'[q].op = "login" /\ r.user = proc'[q].user)
    <3>1. CASE q = p
      BY <1>4, <2>1, <3>1
    <3>2. CASE q # p
      BY <1>5, <2>1, <3>2 DEF ReadsStayInTenant
    <3> QED BY <3>1, <3>2
  <2> QED BY <2>1 DEF ReadsStayInTenant
<1> QED BY <1>7, <1>9, <1>10, <1>11

\* The statements that read memberships, or nothing that belongs to a tenant.
LEMMA ReadsStep ==
    ASSUME TenancyInv, NEW p \in Proc, NEW st, st \notin {"update", "audit"},
           NEW seen \in SUBSET Membership, Reads(p, st, seen),
           \A r \in seen : \/ r.account = proc[p].account
                           \/ proc[p].op = "login" /\ r.user = proc[p].user
    PROVE  TenancyInv' /\ Advances(p)
<1> DEFINE r == proc[p]
           page == r.page
<1>1. r \in RequestType /\ page \in Seq(Nat)
  BY DEF TenancyInv, Types, RequestType
<1>2. [r EXCEPT !.next = @ + 1, !.seen = seen] = [r EXCEPT !.next = @ + 1, !.seen = seen, !.page = page]
  <2> HIDE DEF r
  <2> QED BY <1>1 DEF RequestType
<1>3. proc' = [proc EXCEPT ![p] = [r EXCEPT !.next = @ + 1, !.seen = seen]]
  BY DEF Reads, TenancyInv, Types
<1>4. proc' = [proc EXCEPT ![p].next = @ + 1, ![p].seen = seen, ![p].page = page]
  BY <1>2, <1>3 DEF TenancyInv, Types
<1>5. At(p, st) /\ UNCHANGED <<conn, audit, require2fa, clock>>
  BY DEF Reads
<1> HIDE DEF page
<1> QED BY <1>1, <1>4, <1>5, ReadStatement

\* What a policy lets through of memberships or of the log, with the account of the
\* connection, is the request's own.
LEMMA ConnectionTells ==
    ASSUME TenancyInv, NEW p \in Proc, NEW c \in ConnOf(p), conn[c].account # None
    PROVE  c \in Conn /\ conn[c].account = proc[p].account
BY DEF TenancyInv, SettingsAreOwn, ConnOf

\* Every statement that only reads.
LEMMA ReadingStep ==
    ASSUME TenancyInv, NEW p \in Proc,
           \/ ReadSession(p) \/ ReadPermissions(p) \/ ReadMemberships(p) \/ ReadOwnRole(p)
           \/ ListMembers(p)
    PROVE  TenancyInv' /\ Advances(p)
<1>1. CASE ReadSession(p)
  BY <1>1, ReadsStep DEF ReadSession
<1>2. CASE ReadPermissions(p)
  <2> PICK c \in ConnOf(p) : Reads(p, "permissions",
          {m \in VisibleMembers(c) : m.account = proc[p].account /\ m.user = proc[p].user})
    BY <1>2 DEF ReadPermissions
  <2> DEFINE seen == {m \in VisibleMembers(c) : m.account = proc[p].account /\ m.user = proc[p].user}
  <2>1. seen \in SUBSET Membership /\ \A m \in seen : m.account = proc[p].account
    BY DEF VisibleMembers
  <2>2. Reads(p, "permissions", seen)
    OBVIOUS
  <2> HIDE DEF seen
  <2> QED BY <2>1, <2>2, ReadsStep
<1>3. CASE ReadMemberships(p)
  <2> PICK c \in ConnOf(p) : Reads(p, "memberships", {m \in VisibleMembers(c) : m.user = proc[p].user})
    BY <1>3 DEF ReadMemberships
  <2> DEFINE seen == {m \in VisibleMembers(c) : m.user = proc[p].user}
  <2>1. seen \in SUBSET Membership /\ \A m \in seen : m.user = proc[p].user
    BY DEF VisibleMembers
  <2>2. Reads(p, "memberships", seen)
    OBVIOUS
  <2> HIDE DEF seen
  <2>3. proc[p].op = "login"
    BY <2>2, Position DEF Reads, At, InTransaction, TenancyInv
  <2> QED BY <2>1, <2>2, <2>3, ReadsStep
<1>4. CASE ReadOwnRole(p)
  <2> PICK c \in ConnOf(p) : Reads(p, "own",
          {m \in VisibleMembers(c) : m.user = proc[p].user /\ m.account = conn[c].account})
    BY <1>4 DEF ReadOwnRole
  <2> DEFINE seen == {m \in VisibleMembers(c) : m.user = proc[p].user /\ m.account = conn[c].account}
  <2>1. seen \in SUBSET Membership
    BY DEF VisibleMembers
  <2>2. Reads(p, "own", seen)
    OBVIOUS
  <2>3. ASSUME NEW m \in seen PROVE m.account = proc[p].account
    <3>1. m.account # None /\ m.account = conn[c].account
      BY <2>1, MembershipAssumption, NoneAssumption
    <3> QED BY <3>1, ConnectionTells
  <2> HIDE DEF seen
  <2> QED BY <2>1, <2>2, <2>3, ReadsStep
<1>5. CASE ListMembers(p)
  <2> PICK c \in ConnOf(p) : Reads(p, "members", {m \in VisibleMembers(c) : m.account = conn[c].account})
    BY <1>5 DEF ListMembers
  <2> DEFINE seen == {m \in VisibleMembers(c) : m.account = conn[c].account}
  <2>1. seen \in SUBSET Membership
    BY DEF VisibleMembers
  <2>2. Reads(p, "members", seen)
    OBVIOUS
  <2>3. ASSUME NEW m \in seen PROVE m.account = proc[p].account
    <3>1. m.account # None /\ m.account = conn[c].account
      BY <2>1, MembershipAssumption, NoneAssumption
    <3> QED BY <3>1, ConnectionTells
  <2> HIDE DEF seen
  <2> QED BY <2>1, <2>2, <2>3, ReadsStep
<1> QED BY <1>1, <1>2, <1>3, <1>4, <1>5

\* There are finitely many ids of records.
LEMMA RecordIds ==
    ASSUME NEW rows \in SUBSET AuditRow
    PROVE  IdsOf(rows) \in SUBSET Nat /\ IsFiniteSet(IdsOf(rows))
<1>1. 1 \in Int /\ MaxRecords \in Int
  BY RecordsAssumption
<1>2. IsFiniteSet(1..MaxRecords)
  BY <1>1, FS_Interval
<1>3. IdsOf(rows) \in SUBSET (1..MaxRecords)
  BY DEF IdsOf, AuditRow
<1>4. IsFiniteSet(IdsOf(rows))
  BY <1>2, <1>3, FS_Subset
<1> QED BY <1>3, <1>4

\* A page of the log is of the account that is asked about.
LEMMA ReadPageStep ==
    ASSUME TenancyInv, NEW p \in Proc, ReadPage(p)
    PROVE  TenancyInv' /\ Advances(p)
<1> PICK c \in ConnOf(p) :
       proc' = [proc EXCEPT ![p].next = @ + 1, ![p].seen = Before(VisibleAudit(c), paging.before),
                            ![p].page = Newest(Before(VisibleAudit(c), paging.before), PageSize + 1)]
  BY DEF ReadPage
<1> DEFINE rows == Before(VisibleAudit(c), paging.before)
           page == Newest(rows, PageSize + 1)
<1>1. rows \in SUBSET AuditRow
  BY DEF Before, VisibleAudit, TenancyInv, Types
<1>2. \A r \in rows : r.account = conn[c].account /\ r.account # None
  BY DEF Before, VisibleAudit
<1>3. \A r \in rows : r.account = proc[p].account
  BY <1>2, ConnectionTells
<1>4. proc' = [proc EXCEPT ![p].next = @ + 1, ![p].seen = rows, ![p].page = page]
  OBVIOUS
<1> HIDE DEF rows
<1>5. PageSize + 1 \in Nat
  BY PageAssumption
<1>6. page \in Seq(Nat)
  BY <1>1, <1>5, RecordIds, NewestRows DEF IsPageOf
<1> HIDE DEF page
<1>7. At(p, "page") /\ UNCHANGED <<conn, audit, require2fa, clock>>
  BY DEF ReadPage
<1> QED BY <1>1, <1>3, <1>4, <1>6, <1>7, ReadStatement

\* set_config for the transaction: the tenant and the user of the request.
LEMMA SettingStep ==
    ASSUME TenancyInv, NEW p \in Proc, SetAccount(p) \/ SetUser(p)
    PROVE  TenancyInv' /\ Advances(p)
<1> USE DEF TenancyInv
<1>0. /\ proc' = [proc EXCEPT ![p].next = @ + 1]
      /\ At(p, "setAccount") \/ At(p, "setUser")
      /\ UNCHANGED <<audit, require2fa, clock>>
      /\ \E c \in ConnOf(p) : \/ conn' = [conn EXCEPT ![c].account = proc[p].account]
                              \/ conn' = [conn EXCEPT ![c].user = proc[p].user]
  BY DEF SetAccount, SetUser
<1>1. /\ proc'[p] \in RequestType
      /\ proc'[p].op = proc[p].op /\ proc'[p].account = proc[p].account
      /\ proc'[p].user = proc[p].user /\ proc'[p].input = proc[p].input
      /\ proc'[p].section = proc[p].section /\ proc'[p].next = proc[p].next + 1
      /\ proc'[p].value = proc[p].value /\ proc'[p].row = proc[p].row
      /\ proc'[p].seen = proc[p].seen
  <2> DEFINE r == proc[p]
             q == proc'[p]
  <2>1. r \in RequestType /\ q = [r EXCEPT !.next = @ + 1]
    BY <1>0 DEF Types
  <2> HIDE DEF r, q, TenancyInv
  <2>2. /\ q.op = r.op /\ q.account = r.account /\ q.user = r.user /\ q.input = r.input
        /\ q.section = r.section /\ q.next = r.next + 1 /\ q.value = r.value /\ q.row = r.row
        /\ q.seen = r.seen
    BY <2>1 DEF RequestType
  <2>3. r.next + 1 \in Nat
    BY <2>1 DEF RequestType
  <2>4. q \in RequestType
    BY <2>1, <2>3 DEF RequestType
  <2> QED BY <2>2, <2>4 DEF r, q
<1>2. \A q \in Proc : q # p => proc'[q] = proc[q]
  BY <1>0 DEF Types
<1>3. PICK c \in ConnOf(p) :
         \/ conn' = [conn EXCEPT ![c].account = proc[p].account]
         \/ conn' = [conn EXCEPT ![c].user = proc[p].user]
  BY <1>0
<1>4. c \in Conn /\ conn[c] \in ConnType /\ conn[c].holder = p
  BY DEF ConnOf, Types
<1>5. proc[p].op # None /\ proc[p].account \in Account \cup {None} /\ proc[p].user \in User \cup {None}
  BY <1>0 DEF At, InTransaction, Types, RequestType
<1>6. /\ conn'[c] \in ConnType
      /\ conn'[c].holder = p
      /\ conn'[c].account \in {conn[c].account, proc[p].account}
      /\ \A d \in Conn : d # c => conn'[d] = conn[d]
  <2>1. CASE conn' = [conn EXCEPT ![c].account = proc[p].account]
    BY <1>4, <1>5, <2>1 DEF Types, ConnType
  <2>2. CASE conn' = [conn EXCEPT ![c].user = proc[p].user]
    BY <1>4, <1>5, <2>2 DEF Types, ConnType
  <2> QED BY <1>3, <2>1, <2>2
<1>7. conn' \in [Conn -> ConnType]
  BY <1>3, <1>6 DEF Types
<1>8. proc' \in [Proc -> RequestType]
  BY <1>0, <1>1 DEF Types
<1>9. Advances(p)
  <2>1. InTransaction(p) /\ proc[p].next <= Len(Section(p))
    BY <1>0 DEF At
  <2>2. \A d \in Conn : conn'[d].holder = conn[d].holder
    BY <1>4, <1>6
  <2> QED BY <1>1, <1>2, <1>5, <1>7, <1>8, <2>1, <2>2 DEF Advances
<1>10. ~At(p, "update") /\ ~At(p, "audit")
  BY <1>0 DEF At
<1>11. /\ Types' /\ OneConnection' /\ FollowsScript' /\ WritesAreHeld'
       /\ RecordsAreOwn' /\ LocksExclude' /\ RecordsAreKnown'
       /\ NewestRecordTellsSetting'
  BY <1>0, <1>1, <1>9, <1>10, PlainStatement
<1>12. \A q \in Proc : proc'[q].account = proc[q].account
  BY <1>1, <1>2
<1>13. SettingsAreOwn' /\ IdleConnectionsAreClean'
  <2>1. ASSUME NEW d \in Conn
        PROVE  /\ conn'[d].account # None =>
                     conn'[d].holder # None /\ conn'[d].account = proc'[conn'[d].holder].account
               /\ conn'[d].holder = None => conn'[d].account = None /\ conn'[d].user = None
    <3>1. CASE d # c
      <4>1. conn'[d] = conn[d] /\ conn[d].holder \in Proc \cup {None}
        BY <1>6, <3>1 DEF Types, ConnType
      <4> QED BY <1>12, <4>1 DEF SettingsAreOwn, IdleConnectionsAreClean
    <3>2. CASE d = c
      <4>1. p # None /\ (conn[c].account # None => conn[c].account = proc[p].account)
        BY <1>4, NoneAssumption DEF SettingsAreOwn
      <4> QED BY <1>6, <1>12, <3>2, <4>1
    <3> QED BY <3>1, <3>2
  <2> QED BY <2>1 DEF SettingsAreOwn, IdleConnectionsAreClean
<1>14. ReadsStayInTenant'
  <2>1. \A q \in Proc : /\ proc'[q].op = proc[q].op /\ proc'[q].account = proc[q].account
                        /\ proc'[q].user = proc[q].user /\ proc'[q].seen = proc[q].seen
    BY <1>1, <1>2
  <2> QED BY <2>1 DEF ReadsStayInTenant
<1> QED BY <1>9, <1>11, <1>13, <1>14

\* A statement that leaves the connections alone leaves the settings and what was read
\* in order.
LEMMA SameSettings ==
    ASSUME SettingsAreOwn, IdleConnectionsAreClean, ReadsStayInTenant, Types, UNCHANGED conn,
           \A q \in Proc : /\ proc'[q].op = proc[q].op /\ proc'[q].account = proc[q].account
                           /\ proc'[q].user = proc[q].user /\ proc'[q].seen = proc[q].seen
    PROVE  SettingsAreOwn' /\ IdleConnectionsAreClean' /\ ReadsStayInTenant'
<1>1. SettingsAreOwn'
  <2>1. \A c \in Conn : conn[c].holder \in Proc \cup {None}
    BY DEF Types, ConnType
  <2> QED BY <2>1 DEF SettingsAreOwn
<1>2. IdleConnectionsAreClean' /\ ReadsStayInTenant'
  BY DEF IdleConnectionsAreClean, ReadsStayInTenant
<1> QED BY <1>1, <1>2

\* The UPDATE of updateAccount: it has waited until nobody else has the account locked.
LEMMA UpdateStep ==
    ASSUME TenancyInv, NEW p \in Proc, Update(p)
    PROVE  TenancyInv' /\ Advances(p)
<1> USE DEF TenancyInv
<1>0. /\ proc' = [proc EXCEPT ![p].next = @ + 1, ![p].value = proc[p].input]
      /\ At(p, "update") /\ ~RowLocked(p)
      /\ UNCHANGED <<conn, audit, require2fa, clock, paging>>
  BY DEF Update
<1>1. /\ proc'[p] \in RequestType
      /\ proc'[p].op = proc[p].op /\ proc'[p].account = proc[p].account
      /\ proc'[p].user = proc[p].user /\ proc'[p].input = proc[p].input
      /\ proc'[p].section = proc[p].section /\ proc'[p].next = proc[p].next + 1
      /\ proc'[p].value = proc[p].input /\ proc'[p].row = proc[p].row
      /\ proc'[p].seen = proc[p].seen
  <2> DEFINE r == proc[p]
             q == proc'[p]
  <2>1. r \in RequestType /\ q = [r EXCEPT !.next = @ + 1, !.value = r.input]
    BY <1>0 DEF Types
  <2> HIDE DEF r, q, TenancyInv
  <2>2. /\ q.op = r.op /\ q.account = r.account /\ q.user = r.user /\ q.input = r.input
        /\ q.section = r.section /\ q.next = r.next + 1 /\ q.value = r.input /\ q.row = r.row
        /\ q.seen = r.seen
    BY <2>1 DEF RequestType
  <2>3. r.next + 1 \in Nat
    BY <2>1 DEF RequestType
  <2>4. q \in RequestType
    BY <2>1, <2>3 DEF RequestType
  <2> QED BY <2>2, <2>4 DEF r, q
<1>2. \A q \in Proc : q # p => proc'[q] = proc[q]
  BY <1>0 DEF Types
<1>3. proc' \in [Proc -> RequestType]
  BY <1>0, <1>1 DEF Types
<1>4. proc[p].op = "update" /\ LastWith(p, 2) /\ InTransaction(p) /\ proc[p].op # None
      /\ ConnOf(p) # {} /\ proc[p].next <= Len(Section(p))
  BY <1>0, Position DEF At, InTransaction, OneConnection
<1>5. Advances(p)
  BY <1>0, <1>1, <1>2, <1>3, <1>4 DEF Advances, Types
<1>6. /\ OneConnection' /\ FollowsScript'
      /\ \A q \in Proc : (ConnOf(q))' = ConnOf(q)
      /\ \A q \in Proc : q # p => \A n \in 0..2 : (LastWith(q, n))' = LastWith(q, n)
      /\ (LastWith(p, 0))' = LastWith(p, 1)
      /\ (LastWith(p, 1))' = LastWith(p, 2)
      /\ ~LastWith(p, 0)
  BY <1>5, Advance
<1>7. ~LastWith(p, 1)
  <2>1. proc[p].next \in Nat /\ Len(Section(p)) \in 1..3
    BY <1>4, Position
  <2> QED BY <1>4, <2>1 DEF LastWith
<1>8. proc[p].input # None /\ proc[p].row = None /\ proc[p].value = None
  BY <1>4, <1>6, <1>7 DEF FollowsScript, WritesAreHeld
<1>9. Types'
  BY <1>0, <1>3 DEF Types
<1>10. SettingsAreOwn' /\ IdleConnectionsAreClean' /\ ReadsStayInTenant'
  <2>1. \A q \in Proc : /\ proc'[q].op = proc[q].op /\ proc'[q].account = proc[q].account
                        /\ proc'[q].user = proc[q].user /\ proc'[q].seen = proc[q].seen
    BY <1>1, <1>2
  <2> QED BY <1>0, <2>1, SameSettings
<1>11. WritesAreHeld'
  <2> SUFFICES ASSUME NEW q \in Proc
               PROVE  /\ proc'[q].value # None <=>
                           proc'[q].op = "update" /\ ((LastWith(q, 0))' \/ (LastWith(q, 1))')
                      /\ proc'[q].row # None <=> proc'[q].op \in Recording /\ (LastWith(q, 0))'
                      /\ proc'[q].value # None => proc'[q].value = proc'[q].input
                      /\ proc'[q].value # None \/ proc'[q].row # None => (ConnOf(q))' # {}
    BY DEF WritesAreHeld
  <2>1. CASE q # p
    <3>1. (LastWith(q, 0))' = LastWith(q, 0) /\ (LastWith(q, 1))' = LastWith(q, 1)
          /\ (ConnOf(q))' = ConnOf(q)
      BY <1>6, <2>1
    <3> QED BY <1>2, <2>1, <3>1 DEF WritesAreHeld
  <2>2. CASE q = p
    BY <1>1, <1>4, <1>6, <1>7, <1>8, <2>2
  <2> QED BY <2>1, <2>2
<1>12. RecordsAreOwn'
  <2>1. proc'[p].row = None
    BY <1>1, <1>8
  <2>2. \A q \in Proc : proc'[q].row # None => proc'[q] = proc[q]
    BY <1>2, <2>1
  <2>3. UNCHANGED <<audit, clock>>
    BY <1>0
  <2> HIDE DEF TenancyInv
  <2>4. RecordsAreOwn
    BY DEF TenancyInv
  <2> QED BY <2>2, <2>3, <2>4 DEF RecordsAreOwn
<1>13. LocksExclude'
  <2>1. \A q \in Proc : q # p /\ proc[q].value # None => proc[q].account # proc[p].account
    BY <1>0 DEF RowLocked
  <2> QED BY <1>1, <1>2, <2>1 DEF LocksExclude
<1>14. RecordsAreKnown' /\ NewestRecordTellsSetting'
  BY <1>0 DEF RecordsAreKnown, NewestRecordTellsSetting
<1> QED BY <1>5, <1>6, <1>9, <1>10, <1>11, <1>12, <1>13, <1>14

\* The times of ids, and the clock, are natural numbers.
LEMMA Times ==
    ASSUME Types
    PROVE  /\ clock \in Nat /\ Skew \in Nat
           /\ \A i \in 1..MaxRecords : Millisecond[i] \in Nat
           /\ \A r \in AuditRow : r.id \in 1..MaxRecords /\ Millisecond[r.id] \in Nat
BY RecordsAssumption, ClockAssumption DEF Types, AuditRow

\* The INSERT of recordAudit, with an id of this moment.
LEMMA RecordStep ==
    ASSUME TenancyInv, NEW p \in Proc, RecordAudit(p)
    PROVE  TenancyInv' /\ Advances(p)
<1> USE DEF TenancyInv
<1> DEFINE account == IF proc[p].op = "refused" THEN None ELSE proc[p].account
<1>b. PICK id \in 1..MaxRecords :
         /\ FreshId(id)
         /\ proc' = [proc EXCEPT ![p].next = @ + 1,
                                 ![p].row = [id |-> id, account |-> account,
                                             value |-> proc[p].input]]
  BY DEF RecordAudit
<1> DEFINE row == [id |-> id, account |-> account, value |-> proc[p].input]
<1>0. /\ proc' = [proc EXCEPT ![p].next = @ + 1, ![p].row = row]
      /\ At(p, "audit")
      /\ Millisecond[id] \in clock..(clock + Skew)
      /\ UNCHANGED <<conn, audit, require2fa, clock, paging>>
  BY <1>b DEF RecordAudit, FreshId
<1>1. /\ proc[p].op \in Recording /\ LastWith(p, 1) /\ InTransaction(p) /\ proc[p].op # None
      /\ ConnOf(p) # {} /\ proc[p].next <= Len(Section(p))
  BY <1>0, Position DEF At, InTransaction, OneConnection
<1>2. ~LastWith(p, 0)
  BY <1>1, Position DEF LastWith
<1>3. proc[p].row = None
  BY <1>2 DEF WritesAreHeld
<1>4. clock \in Nat /\ Skew \in Nat /\ Millisecond[id] \in Nat
      /\ \A r \in AuditRow : Millisecond[r.id] \in Nat
  BY Times
<1>7. row \in AuditRow /\ row # None /\ row.id = id /\ row.account = account
      /\ row.value = proc[p].input
  <2>1. account \in Account \cup {None} /\ proc[p].input \in BOOLEAN \cup {None}
    BY DEF Types, RequestType
  <2>2. row \in AuditRow
    BY <2>1 DEF AuditRow
  <2> QED BY <2>2, NoneAssumption
<1> HIDE DEF row, account
<1>8. /\ proc'[p] \in RequestType
      /\ proc'[p].op = proc[p].op /\ proc'[p].account = proc[p].account
      /\ proc'[p].user = proc[p].user /\ proc'[p].input = proc[p].input
      /\ proc'[p].section = proc[p].section /\ proc'[p].next = proc[p].next + 1
      /\ proc'[p].value = proc[p].value /\ proc'[p].row = row
      /\ proc'[p].seen = proc[p].seen
  <2> DEFINE r == proc[p]
             q == proc'[p]
  <2>1. r \in RequestType /\ q = [r EXCEPT !.next = @ + 1, !.row = row]
    BY <1>0 DEF Types
  <2> HIDE DEF r, q, TenancyInv
  <2>2. /\ q.op = r.op /\ q.account = r.account /\ q.user = r.user /\ q.input = r.input
        /\ q.section = r.section /\ q.next = r.next + 1 /\ q.value = r.value /\ q.row = row
        /\ q.seen = r.seen
    BY <2>1 DEF RequestType
  <2>3. r.next + 1 \in Nat
    BY <2>1 DEF RequestType
  <2>4. q \in RequestType
    BY <1>7, <2>1, <2>3 DEF RequestType
  <2> QED BY <2>2, <2>4 DEF r, q
<1>9. \A q \in Proc : q # p => proc'[q] = proc[q]
  BY <1>0 DEF Types
<1>10. proc' \in [Proc -> RequestType]
  BY <1>0, <1>8 DEF Types
<1>11. Advances(p)
  BY <1>0, <1>1, <1>8, <1>9, <1>10 DEF Advances, Types
<1>12. /\ OneConnection' /\ FollowsScript'
       /\ \A q \in Proc : (ConnOf(q))' = ConnOf(q)
       /\ \A q \in Proc : q # p => \A n \in 0..2 : (LastWith(q, n))' = LastWith(q, n)
       /\ (LastWith(p, 0))' = LastWith(p, 1)
       /\ (LastWith(p, 1))' = LastWith(p, 2)
  BY <1>11, Advance
<1>13. Types'
  BY <1>0, <1>4, <1>10 DEF Types
<1>14. SettingsAreOwn' /\ IdleConnectionsAreClean' /\ ReadsStayInTenant'
  <2>1. \A q \in Proc : /\ proc'[q].op = proc[q].op /\ proc'[q].account = proc[q].account
                        /\ proc'[q].user = proc[q].user /\ proc'[q].seen = proc[q].seen
    BY <1>8, <1>9
  <2> QED BY <1>0, <2>1, SameSettings
<1>15. ~LastWith(p, 2)
  BY <1>1, Position DEF LastWith
<1>16. WritesAreHeld'
  <2> SUFFICES ASSUME NEW q \in Proc
               PROVE  /\ proc'[q].value # None <=>
                           proc'[q].op = "update" /\ ((LastWith(q, 0))' \/ (LastWith(q, 1))')
                      /\ proc'[q].row # None <=> proc'[q].op \in Recording /\ (LastWith(q, 0))'
                      /\ proc'[q].value # None => proc'[q].value = proc'[q].input
                      /\ proc'[q].value # None \/ proc'[q].row # None => (ConnOf(q))' # {}
    BY DEF WritesAreHeld
  <2>1. CASE q # p
    <3>1. (LastWith(q, 0))' = LastWith(q, 0) /\ (LastWith(q, 1))' = LastWith(q, 1)
          /\ (ConnOf(q))' = ConnOf(q)
      BY <1>12, <2>1
    <3> QED BY <1>9, <2>1, <3>1 DEF WritesAreHeld
  <2>2. CASE q = p
    <3>1. proc[p].value # None <=> proc[p].op = "update" /\ LastWith(p, 1)
      BY <1>2 DEF WritesAreHeld
    <3>2. proc[p].value # None => proc[p].value = proc[p].input
      BY DEF WritesAreHeld
    <3> QED BY <1>1, <1>7, <1>8, <1>12, <1>15, <2>2, <3>1, <3>2
  <2> QED BY <2>1, <2>2
<1>17. RecordsAreOwn'
  <2> SUFFICES ASSUME NEW q \in Proc, proc'[q].row # None
               PROVE  /\ proc'[q].row.account
                            = IF proc'[q].op = "refused" THEN None ELSE proc'[q].account
                      /\ proc'[q].row.value = proc'[q].input
                      /\ Millisecond[proc'[q].row.id] <= clock' + Skew
                      /\ proc'[q].value # None =>
                            \A r \in audit' : r.account = proc'[q].account /\ r.value # None
                                 => Millisecond[r.id] <= Millisecond[proc'[q].row.id] + Skew
    BY DEF RecordsAreOwn
  <2>1. CASE q = p
    <3>1. clock <= Millisecond[id] /\ Millisecond[id] <= clock + Skew
      BY <1>0, <1>4
    <3>2. \A r \in audit : Millisecond[r.id] \in Nat /\ Millisecond[r.id] <= clock + Skew
      BY <1>4 DEF RecordsAreKnown, Types
    <3>3. \A r \in audit : Millisecond[r.id] <= Millisecond[id] + Skew
      BY <1>4, <3>1, <3>2
    <3>4. proc'[p].row.id = id
      BY <1>7, <1>8
    <3> QED BY <1>0, <1>7, <1>8, <2>1, <3>1, <3>3, <3>4 DEF account
  <2>2. CASE q # p
    <3>1. proc'[q] = proc[q] /\ proc[q].row # None
      BY <1>9, <2>2
    <3> QED BY <1>0, <3>1 DEF RecordsAreOwn
  <2> QED BY <2>1, <2>2
<1>18. LocksExclude'
  BY <1>8, <1>9 DEF LocksExclude
<1>19. RecordsAreKnown'
  BY <1>0 DEF RecordsAreKnown
<1>20. NewestRecordTellsSetting'
  BY <1>0 DEF NewestRecordTellsSetting
<1> QED BY <1>11, <1>12, <1>13, <1>14, <1>16, <1>17, <1>18, <1>19, <1>20

-----------------------------------------------------------------------------
(* Connections and sections keep the invariant *)

\* COMMIT and ROLLBACK give the one connection of the request back as it came.
LEMMA Release ==
    ASSUME Types, OneConnection, SettingsAreOwn, IdleConnectionsAreClean, NEW p \in Proc,
           \E c \in ConnOf(p) : conn' = Returned(c),
           proc'[p].next = 0, \A q \in Proc : q # p => proc'[q] = proc[q]
    PROVE  /\ conn' \in [Conn -> ConnType]
           /\ OneConnection' /\ SettingsAreOwn' /\ IdleConnectionsAreClean'
           /\ (ConnOf(p))' = {} /\ \A q \in Proc : q # p => (ConnOf(q))' = ConnOf(q)
           /\ \A q \in Proc, d \in Conn : q # p /\ d \in ConnOf(q) => conn'[d] = conn[d]
<1>1. PICK c \in ConnOf(p) : conn' = [conn EXCEPT ![c] = Free]
  BY DEF Returned
<1>2. c \in Conn /\ conn[c].holder = p /\ p # None
  BY NoneAssumption DEF ConnOf
<1>3. Free \in ConnType /\ Free.holder = None /\ Free.account = None /\ Free.user = None
  BY DEF Free, ConnType
<1>4. conn' \in [Conn -> ConnType] /\ conn'[c] = Free /\ \A d \in Conn : d # c => conn'[d] = conn[d]
  BY <1>1, <1>2, <1>3 DEF Types
<1>5. \A d \in Conn : d # c => conn[d].holder # p
  BY <1>2 DEF OneConnection
<1>6. \A d \in Conn : conn'[d].holder # None =>
         d # c /\ conn'[d] = conn[d] /\ conn[d].holder \in Proc
               /\ proc'[conn[d].holder] = proc[conn[d].holder]
  BY <1>2, <1>3, <1>4, <1>5 DEF Types, ConnType
<1>8. IdleConnectionsAreClean'
  BY <1>3, <1>4 DEF IdleConnectionsAreClean
<1>9. SettingsAreOwn'
  <2>1. ASSUME NEW d \in Conn, conn'[d].account # None
        PROVE  conn'[d].holder # None /\ conn'[d].account = proc'[conn'[d].holder].account
    <3>1. d # c /\ conn'[d] = conn[d]
      BY <1>3, <1>4, <2>1
    <3>2. conn[d].holder # None /\ conn[d].account = proc[conn[d].holder].account
      BY <2>1, <3>1 DEF SettingsAreOwn
    <3> QED BY <1>6, <3>1, <3>2
  <2> QED BY <2>1 DEF SettingsAreOwn
<1>10. (ConnOf(p))' = {} /\ \A q \in Proc : q # p => (ConnOf(q))' = ConnOf(q)
  <2>1. \A q \in Proc : \A d \in Conn : conn'[d].holder = q <=> q # p /\ conn[d].holder = q
    BY <1>2, <1>3, <1>4, <1>5, NoneAssumption
  <2> QED BY <2>1 DEF ConnOf
<1>7. OneConnection'
  <2>1. \A d, e \in Conn : conn'[d].holder = conn'[e].holder /\ conn'[d].holder # None => d = e
    BY <1>6 DEF OneConnection
  <2>2. \A d \in Conn : conn'[d].holder # None => proc'[conn'[d].holder].op # None
    BY <1>6 DEF OneConnection
  <2>3. \A q \in Proc : proc'[q].next # 0 <=> (ConnOf(q))' # {}
    BY <1>10 DEF OneConnection
  <2> QED BY <2>1, <2>2, <2>3 DEF OneConnection
<1>11. \A q \in Proc, d \in Conn : q # p /\ d \in ConnOf(q) => conn'[d] = conn[d]
  BY <1>2, <1>4 DEF ConnOf
<1> QED BY <1>4, <1>7, <1>8, <1>9, <1>10, <1>11

\* A request that starts, goes on to its next section or ends.
Begins(p) ==
    /\ proc'[p] \in RequestType
    /\ proc'[p].next = 0 /\ proc'[p].value = None /\ proc'[p].row = None /\ proc'[p].seen = {}
    /\ \/ proc'[p] = Idle
       \/ /\ proc'[p].op # None
          /\ proc'[p].section \in 1..Len(Script(proc'[p].op))
          /\ proc'[p].account \in Account
          /\ proc'[p].op = "page" => proc'[p].account = Audited
          /\ proc'[p].input # None <=> proc'[p].op = "update"

\* It has neither written nor read anything yet.
LEMMA Begin ==
    ASSUME TenancyInv, NEW p \in Proc, Begins(p), proc' = [proc EXCEPT ![p] = proc'[p]],
           \A q \in Proc : q # p => (ConnOf(q))' = ConnOf(q)
    PROVE  /\ proc' \in [Proc -> RequestType]
           /\ \A q \in Proc : q # p => proc'[q] = proc[q]
           /\ FollowsScript' /\ WritesAreHeld' /\ ReadsStayInTenant' /\ LocksExclude'
<1> USE DEF TenancyInv
<1>1. proc' \in [Proc -> RequestType] /\ \A q \in Proc : q # p => proc'[q] = proc[q]
  BY DEF Types, Begins
<1>2. \A q \in Proc : q # p =>
         /\ (Section(q))' = Section(q) /\ (InLastSection(q))' = InLastSection(q)
         /\ \A n \in 0..2 : (LastWith(q, n))' = LastWith(q, n)
  BY <1>1 DEF Section, InLastSection, LastWith
<1>3. ASSUME proc'[p].op # None
      PROVE  /\ proc'[p].next = 0 /\ Len(Section(p)') \in 1..3
             /\ proc'[p].op = "update" /\ InLastSection(p)' => Len(Section(p)') = 3
             /\ proc'[p].section \in 1..Len(Script(proc'[p].op))
             /\ proc'[p].account \in Account
             /\ proc'[p].op = "page" => proc'[p].account = Audited
             /\ proc'[p].input # None <=> proc'[p].op = "update"
  <2>1. proc'[p] # Idle
    BY <1>3 DEF Idle
  <2>2. proc'[p].op \in Op /\ proc'[p].section \in 1..Len(Script(proc'[p].op))
    BY <1>3, <2>1 DEF Begins, RequestType
  <2>3. ScriptFacts(proc'[p].op, Script(proc'[p].op))
    BY <2>2, Scripts
  <2>4. Len(Section(p)') \in 1..3 /\ (proc'[p].op = "update" /\ InLastSection(p)' => Len(Section(p)') = 3)
    BY <2>2, <2>3 DEF ScriptFacts, Section, InLastSection
  <2> QED BY <2>1, <2>4, <1>3 DEF Begins
<1>4. FollowsScript'
  <2> SUFFICES ASSUME NEW q \in Proc
               PROVE  /\ proc'[q].op = None => proc'[q] = Idle
                      /\ proc'[q].op # None =>
                            /\ proc'[q].account \in Account
                            /\ proc'[q].op = "page" => proc'[q].account = Audited
                            /\ proc'[q].input # None <=> proc'[q].op = "update"
                            /\ proc'[q].section \in 1..Len(Script(proc'[q].op))
                            /\ proc'[q].next \in 0..(Len(Section(q)') + 1)
    BY DEF FollowsScript
  <2>1. CASE q # p
    BY <1>1, <1>2, <2>1 DEF FollowsScript
  <2>2. CASE q = p
    BY <1>3, <2>2 DEF Begins
  <2> QED BY <2>1, <2>2
<1>5. WritesAreHeld'
  <2> SUFFICES ASSUME NEW q \in Proc
               PROVE  /\ proc'[q].value # None <=>
                           proc'[q].op = "update" /\ ((LastWith(q, 0))' \/ (LastWith(q, 1))')
                      /\ proc'[q].row # None <=> proc'[q].op \in Recording /\ (LastWith(q, 0))'
                      /\ proc'[q].value # None => proc'[q].value = proc'[q].input
                      /\ proc'[q].value # None \/ proc'[q].row # None => (ConnOf(q))' # {}
    BY DEF WritesAreHeld
  <2>1. CASE q # p
    <3>1. (LastWith(q, 0))' = LastWith(q, 0) /\ (LastWith(q, 1))' = LastWith(q, 1)
          /\ (ConnOf(q))' = ConnOf(q)
      BY <1>2, <2>1
    <3> QED BY <1>1, <2>1, <3>1 DEF WritesAreHeld
  <2>2. CASE q = p
    <3>1. proc'[p].value = None /\ proc'[p].row = None
      BY DEF Begins
    <3>2. CASE proc'[p].op = None
      BY <2>2, <3>1, <3>2, NoneAssumption DEF Recording, Op
    <3>3. CASE proc'[p].op # None
      <4>1. ~(LastWith(p, 0))' /\ ~(proc'[p].op = "update" /\ (LastWith(p, 1))')
        <5>1. proc'[p].next = 0 /\ Len(Section(p)') \in 1..3
          BY <1>3, <3>3
        <5>2. ~(LastWith(p, 0))'
          BY <5>1 DEF LastWith
        <5>3. proc'[p].op = "update" /\ InLastSection(p)' => Len(Section(p)') = 3
          BY <1>3, <3>3
        <5>4. ~(proc'[p].op = "update" /\ (LastWith(p, 1))')
          BY <5>1, <5>3 DEF LastWith
        <5> QED BY <5>2, <5>4
      <4> QED BY <2>2, <3>1, <4>1
    <3> QED BY <3>2, <3>3
  <2> QED BY <2>1, <2>2
<1>6. ReadsStayInTenant'
  <2>1. ASSUME NEW q \in Proc, NEW r \in proc'[q].seen
        PROVE  r.account = proc'[q].account \/ (proc'[q].op = "login" /\ r.user = proc'[q].user)
    <3>1. q # p
      BY <2>1 DEF Begins
    <3> QED BY <1>1, <2>1, <3>1 DEF ReadsStayInTenant
  <2> QED BY <2>1 DEF ReadsStayInTenant
<1>7. LocksExclude'
  BY <1>1 DEF LocksExclude, Begins
<1> QED BY <1>1, <1>4, <1>5, <1>6, <1>7

\* A request that has ended is one that begins nothing.
LEMMA Ended ==
    Idle \in RequestType /\ Idle.op = None /\ Idle.value = None /\ Idle.row = None
    /\ Idle.next = 0 /\ Idle.seen = {}
<1>1. <<>> \in Seq(Nat) /\ 1 \in Nat /\ 0 \in Nat
  OBVIOUS
<1> QED BY <1>1 DEF Idle, RequestType

\* ROLLBACK: the request ends and nothing it wrote is left.
LEMMA FailStep ==
    ASSUME TenancyInv, NEW p \in Proc, Fail(p)
    PROVE  TenancyInv' /\ Begins(p) /\ \A q \in Proc : q # p => proc'[q] = proc[q]
<1> USE DEF TenancyInv
<1>1. /\ proc' = [proc EXCEPT ![p] = Idle] /\ \E c \in ConnOf(p) : conn' = Returned(c)
      /\ UNCHANGED <<audit, require2fa, clock, paging>>
  BY DEF Fail
<1>2. proc'[p] = Idle /\ proc' = [proc EXCEPT ![p] = proc'[p]]
      /\ \A q \in Proc : q # p => proc'[q] = proc[q]
  BY <1>1 DEF Types
<1>3. /\ conn' \in [Conn -> ConnType]
      /\ OneConnection' /\ SettingsAreOwn' /\ IdleConnectionsAreClean'
      /\ \A q \in Proc : q # p => (ConnOf(q))' = ConnOf(q)
  BY <1>1, <1>2, Ended, Release
<1>4. Begins(p)
  BY <1>2, Ended DEF Begins
<1>5. /\ proc' \in [Proc -> RequestType]
      /\ FollowsScript' /\ WritesAreHeld' /\ ReadsStayInTenant' /\ LocksExclude'
  BY <1>2, <1>3, <1>4, Begin
<1>6. Types'
  BY <1>1, <1>3, <1>5 DEF Types
<1>7. RecordsAreOwn' /\ RecordsAreKnown' /\ NewestRecordTellsSetting'
  BY <1>1, <1>2, Ended, Quiet
<1> QED BY <1>2, <1>3, <1>4, <1>5, <1>6, <1>7

\* A request takes a free connection, which carries nothing.
LEMMA AcquireStep ==
    ASSUME TenancyInv, NEW p \in Proc, Acquire(p)
    PROVE  /\ TenancyInv'
           /\ \A q \in Proc : q # p => proc'[q] = proc[q]
           /\ proc'[p].op = proc[p].op
           /\ proc'[p].op = "page" => ~(LastWith(p, 0))' /\ ~(LastWith(p, 1))'
<1> USE DEF TenancyInv
<1>1. PICK c \in Conn : conn[c].holder = None /\ conn' = [conn EXCEPT ![c].holder = p]
  BY DEF Acquire
<1>2. /\ proc[p].op # None /\ proc[p].next = 0 /\ proc' = [proc EXCEPT ![p].next = 1]
      /\ UNCHANGED <<audit, require2fa, clock, paging>>
  BY DEF Acquire
<1>a. ConnOf(p) = {}
  BY <1>2 DEF OneConnection
<1>b. /\ proc'[p] \in RequestType
      /\ proc'[p].op = proc[p].op /\ proc'[p].account = proc[p].account
      /\ proc'[p].user = proc[p].user /\ proc'[p].input = proc[p].input
      /\ proc'[p].section = proc[p].section /\ proc'[p].next = 1
      /\ proc'[p].value = proc[p].value /\ proc'[p].row = proc[p].row
      /\ proc'[p].seen = proc[p].seen
  <2> DEFINE r == proc[p]
             q == proc'[p]
  <2>1. r \in RequestType /\ q = [r EXCEPT !.next = 1]
    BY <1>2 DEF Types
  <2> HIDE DEF r, q, TenancyInv
  <2>2. /\ q.op = r.op /\ q.account = r.account /\ q.user = r.user /\ q.input = r.input
        /\ q.section = r.section /\ q.next = 1 /\ q.value = r.value /\ q.row = r.row
        /\ q.seen = r.seen
    BY <2>1 DEF RequestType
  <2>3. q \in RequestType
    BY <2>1 DEF RequestType
  <2> QED BY <2>2, <2>3 DEF r, q
<1>c. \A q \in Proc : q # p => proc'[q] = proc[q]
  BY <1>2 DEF Types
<1>d. proc' \in [Proc -> RequestType]
  BY <1>2, <1>b DEF Types
<1>e. \A q \in Proc : /\ proc'[q].op = proc[q].op /\ proc'[q].account = proc[q].account
                      /\ proc'[q].user = proc[q].user /\ proc'[q].input = proc[q].input
                      /\ proc'[q].section = proc[q].section
                      /\ proc'[q].value = proc[q].value /\ proc'[q].row = proc[q].row
                      /\ proc'[q].seen = proc[q].seen
  BY <1>b, <1>c
<1>f. \A q \in Proc : (Section(q))' = Section(q) /\ (InLastSection(q))' = InLastSection(q)
  BY <1>e DEF Section, InLastSection
<1>3. /\ conn'[c] \in ConnType /\ conn'[c].holder = p
      /\ conn'[c].account = conn[c].account /\ conn'[c].user = conn[c].user
      /\ \A d \in Conn : d # c => conn'[d] = conn[d]
  BY <1>1 DEF Types, ConnType
<1>4. conn' \in [Conn -> ConnType]
  BY <1>1, <1>3 DEF Types
<1>5. \A d \in Conn : conn[d].holder # p /\ p # None
  BY <1>a, NoneAssumption DEF ConnOf
<1>8. (ConnOf(p))' # {} /\ \A q \in Proc : q # p => (ConnOf(q))' = ConnOf(q)
  <2>1. \A q \in Proc : q # p => \A d \in Conn : conn'[d].holder = q <=> conn[d].holder = q
    BY <1>1, <1>3, NoneAssumption
  <2> QED BY <1>3, <2>1 DEF ConnOf
<1>6. OneConnection'
  <2>1. \A d, e \in Conn : conn'[d].holder = conn'[e].holder /\ conn'[d].holder # None => d = e
    BY <1>3, <1>5 DEF OneConnection
  <2>2. ASSUME NEW d \in Conn, conn'[d].holder # None PROVE proc'[conn'[d].holder].op # None
    <3>1. CASE d = c
      BY <1>2, <1>3, <1>e, <3>1
    <3>2. CASE d # c
      <4>1. conn'[d] = conn[d] /\ conn[d].holder \in Proc
        BY <1>3, <2>2, <3>2 DEF Types, ConnType
      <4> QED BY <1>e, <2>2, <4>1 DEF OneConnection
    <3> QED BY <3>1, <3>2
  <2>3. \A q \in Proc : proc'[q].next # 0 <=> (ConnOf(q))' # {}
    BY <1>8, <1>b, <1>c DEF OneConnection
  <2> QED BY <2>1, <2>2, <2>3 DEF OneConnection
<1>7. SettingsAreOwn' /\ IdleConnectionsAreClean'
  <2>1. conn[c].account = None
    BY <1>1 DEF IdleConnectionsAreClean
  <2>2. ASSUME NEW d \in Conn, conn'[d].account # None
        PROVE  conn'[d].holder # None /\ conn'[d].account = proc'[conn'[d].holder].account
    <3>1. conn'[d] = conn[d] /\ conn[d].holder \in Proc \cup {None}
      BY <1>3, <2>1, <2>2 DEF Types, ConnType
    <3> QED BY <1>e, <2>2, <3>1 DEF SettingsAreOwn
  <2>3. SettingsAreOwn'
    BY <2>2 DEF SettingsAreOwn
  <2> QED BY <1>3, <1>5, <2>3 DEF IdleConnectionsAreClean
<1>9. FollowsScript'
  <2> SUFFICES ASSUME NEW q \in Proc
               PROVE  /\ proc'[q].op = None => proc'[q] = Idle
                      /\ proc'[q].op # None =>
                            /\ proc'[q].account \in Account
                            /\ proc'[q].op = "page" => proc'[q].account = Audited
                            /\ proc'[q].input # None <=> proc'[q].op = "update"
                            /\ proc'[q].section \in 1..Len(Script(proc'[q].op))
                            /\ proc'[q].next \in 0..(Len(Section(q)) + 1)
    BY <1>f DEF FollowsScript
  <2>1. CASE q # p
    BY <1>c, <2>1 DEF FollowsScript
  <2>2. CASE q = p
    <3>1. Len(Section(p)) \in 1..3
      BY <1>2, Position
    <3>2. proc'[p].next \in 0..(Len(Section(p)) + 1)
      BY <1>b, <3>1
    <3> QED BY <1>2, <1>b, <2>2, <3>2 DEF FollowsScript
  <2> QED BY <2>1, <2>2
<1>10. /\ \A q \in Proc : q # p => /\ (LastWith(q, 0))' = LastWith(q, 0)
                                   /\ (LastWith(q, 1))' = LastWith(q, 1)
       /\ ~(LastWith(p, 0))' /\ ~LastWith(p, 0)
       /\ proc[p].op \in {"update", "page"} => ~(LastWith(p, 1))' /\ ~LastWith(p, 1)
  <2>1. \A q \in Proc : q # p => /\ (LastWith(q, 0))' = LastWith(q, 0)
                                 /\ (LastWith(q, 1))' = LastWith(q, 1)
    BY <1>c, <1>f DEF LastWith
  <2>2. /\ Len(Section(p)) \in 1..3 /\ proc'[p].next = 1 /\ proc[p].next = 0
        /\ proc[p].op \in {"update", "page"} /\ InLastSection(p) => Len(Section(p)) \in 2..3
    BY <1>2, <1>b, Position
  <2>a. (Section(p))' = Section(p) /\ (InLastSection(p))' = InLastSection(p)
    BY <1>f
  <2>b. /\ (LastWith(p, 0))' <=> InLastSection(p) /\ 1 + 0 = Len(Section(p)) + 1
        /\ (LastWith(p, 1))' <=> InLastSection(p) /\ 1 + 1 = Len(Section(p)) + 1
    BY <2>2, <2>a DEF LastWith
  <2>c. /\ LastWith(p, 0) <=> InLastSection(p) /\ 0 + 0 = Len(Section(p)) + 1
        /\ LastWith(p, 1) <=> InLastSection(p) /\ 0 + 1 = Len(Section(p)) + 1
    BY <2>2 DEF LastWith
  <2>3. ~(LastWith(p, 0))' /\ ~LastWith(p, 0)
    BY <2>2, <2>b, <2>c
  <2>4. ASSUME proc[p].op \in {"update", "page"} PROVE ~(LastWith(p, 1))' /\ ~LastWith(p, 1)
    <3>1. InLastSection(p) => Len(Section(p)) \in {2, 3}
      BY <1>2, <2>4, Position
    <3>2. InLastSection(p) => 1 + 1 # Len(Section(p)) + 1 /\ 0 + 1 # Len(Section(p)) + 1
      BY <3>1
    <3> QED BY <2>b, <2>c, <3>2
  <2> QED BY <2>1, <2>3, <2>4
<1>11. WritesAreHeld'
  <2> SUFFICES ASSUME NEW q \in Proc
               PROVE  /\ proc'[q].value # None <=>
                           proc'[q].op = "update" /\ ((LastWith(q, 0))' \/ (LastWith(q, 1))')
                      /\ proc'[q].row # None <=> proc'[q].op \in Recording /\ (LastWith(q, 0))'
                      /\ proc'[q].value # None => proc'[q].value = proc'[q].input
                      /\ proc'[q].value # None \/ proc'[q].row # None => (ConnOf(q))' # {}
    BY DEF WritesAreHeld
  <2>1. CASE q # p
    <3>1. (LastWith(q, 0))' = LastWith(q, 0) /\ (LastWith(q, 1))' = LastWith(q, 1)
          /\ (ConnOf(q))' = ConnOf(q)
      BY <1>8, <1>10, <2>1
    <3> QED BY <1>c, <2>1, <3>1 DEF WritesAreHeld
  <2>2. CASE q = p
    <3>1. proc[p].value = None /\ proc[p].row = None
      BY <1>10 DEF WritesAreHeld
    <3> QED BY <1>b, <1>10, <2>2, <3>1
  <2> QED BY <2>1, <2>2
<1>12. Types'
  BY <1>2, <1>4, <1>d DEF Types
<1>13. RecordsAreOwn' /\ LocksExclude' /\ RecordsAreKnown' /\ NewestRecordTellsSetting'
  BY <1>2, <1>e, Quiet
<1>14. ReadsStayInTenant'
  BY <1>e DEF ReadsStayInTenant
<1> QED BY <1>6, <1>7, <1>9, <1>10, <1>11, <1>12, <1>13, <1>14, <1>b, <1>c

\* A request starts: it has no connection.
LEMMA StartStep ==
    ASSUME TenancyInv, NEW p \in Proc, Start(p)
    PROVE  TenancyInv' /\ Begins(p) /\ \A q \in Proc : q # p => proc'[q] = proc[q]
<1> USE DEF TenancyInv
<1>0. PICK r \in Requests :
         \E m \in Membership, v \in IF r.op = "update" THEN BOOLEAN ELSE {None} :
            /\ m.account = r.account
            /\ proc' = [proc EXCEPT ![p] = [Idle EXCEPT !.op = r.op, !.account = r.account,
                                                        !.user = m.user, !.input = v]]
  BY DEF Start
<1>1. PICK m \in Membership, v \in IF r.op = "update" THEN BOOLEAN ELSE {None} :
         /\ m.account = r.account
         /\ proc' = [proc EXCEPT ![p] = [Idle EXCEPT !.op = r.op, !.account = r.account,
                                                     !.user = m.user, !.input = v]]
  BY <1>0
<1>2. proc[p].op = None /\ UNCHANGED <<conn, audit, require2fa, clock, paging>>
  BY DEF Start
<1>3. r.op \in Op /\ r.account \in Account /\ (r.op = "page" => r.account = Audited)
      /\ m.user \in User /\ v \in BOOLEAN \cup {None} /\ (v # None <=> r.op = "update")
  BY <1>1, RequestsAssumption, MembershipAssumption, NoneAssumption
<1>4. proc'[p] = [Idle EXCEPT !.op = r.op, !.account = r.account, !.user = m.user, !.input = v]
  BY <1>1 DEF Types
<1>5. /\ proc'[p].op = r.op /\ proc'[p].account = r.account /\ proc'[p].input = v
      /\ proc'[p].section = 1 /\ proc'[p].next = 0
      /\ proc'[p].value = None /\ proc'[p].row = None /\ proc'[p].seen = {}
  BY <1>4 DEF Idle
<1>6. proc'[p] \in RequestType
  <2> DEFINE z == Idle
  <2>1. z \in RequestType
    BY Ended
  <2>2. proc'[p] = [z EXCEPT !.op = r.op, !.account = r.account, !.user = m.user, !.input = v]
    BY <1>4
  <2> HIDE DEF z, TenancyInv
  <2> QED BY <1>3, <2>1, <2>2 DEF RequestType
<1>7. r.op # None /\ Len(Script(r.op)) \in 2..4
  BY <1>3, Scripts, NoneAssumption DEF ScriptFacts
<1>8. Begins(p)
  <2> DEFINE L == Len(Script(r.op))
  <2>0. L \in 2..4
    BY <1>7
  <2> HIDE DEF L, TenancyInv
  <2>a. 1 \in 1..L
    BY ONLY <2>0
  <2>1. 1 \in 1..Len(Script(r.op))
    BY <2>a DEF L
  <2> QED BY <1>3, <1>5, <1>6, <1>7, <2>1 DEF Begins
<1>9. \A q \in Proc : (ConnOf(q))' = ConnOf(q)
  BY <1>2 DEF ConnOf
<1>10. proc' = [proc EXCEPT ![p] = proc'[p]]
  BY <1>1, <1>4
<1>11. /\ proc' \in [Proc -> RequestType]
       /\ \A q \in Proc : q # p => proc'[q] = proc[q]
       /\ FollowsScript' /\ WritesAreHeld' /\ ReadsStayInTenant' /\ LocksExclude'
  BY <1>8, <1>9, <1>10, Begin
<1>12. Types'
  BY <1>2, <1>11 DEF Types
<1>13. \A c \in Conn : conn[c].holder # None => conn[c].holder \in Proc /\ conn[c].holder # p
  BY <1>2 DEF Types, ConnType, OneConnection
<1>14. OneConnection' /\ SettingsAreOwn' /\ IdleConnectionsAreClean'
  <2>1. \A c \in Conn : conn[c].holder # None => proc'[conn[c].holder] = proc[conn[c].holder]
    BY <1>11, <1>13
  <2>2. proc'[p].next = 0 /\ proc[p].next = 0
    BY <1>2, <1>5, Ended DEF FollowsScript
  <2>3. \A q \in Proc : proc'[q].next # 0 <=> (ConnOf(q))' # {}
    BY <1>9, <1>11, <2>2 DEF OneConnection
  <2> QED BY <1>2, <2>1, <2>3 DEF OneConnection, SettingsAreOwn, IdleConnectionsAreClean
<1>15. RecordsAreOwn' /\ RecordsAreKnown' /\ NewestRecordTellsSetting'
  <2>1. \A q \in Proc :
           /\ proc'[q].value # None =>
                 proc'[q].value = proc[q].value /\ proc'[q].account = proc[q].account
           /\ proc'[q].row # None =>
                 /\ proc'[q].row = proc[q].row /\ proc'[q].op = proc[q].op
                 /\ proc'[q].account = proc[q].account /\ proc'[q].input = proc[q].input
    BY <1>5, <1>11
  <2> QED BY <1>2, <2>1, Quiet
<1> QED BY <1>8, <1>11, <1>12, <1>14, <1>15

\* COMMIT: what the section has written is there for everybody.
LEMMA CommitStep ==
    ASSUME TenancyInv, NEW p \in Proc, Commit(p)
    PROVE  TenancyInv' /\ Begins(p) /\ \A q \in Proc : q # p => proc'[q] = proc[q]
<1> USE DEF TenancyInv
<1> DEFINE r == proc[p]
           on == InNextSection(p)
<1>1. /\ InTransaction(p) /\ proc[p].op # None /\ proc[p].next > Len(Section(p))
      /\ \E c \in ConnOf(p) : conn' = Returned(c)
      /\ audit' = IF proc[p].row = None THEN audit ELSE audit \cup {proc[p].row}
      /\ require2fa' = IF proc[p].value = None THEN require2fa
                       ELSE [require2fa EXCEPT ![proc[p].account] = proc[p].value]
      /\ clock' = clock
  BY DEF Commit, InTransaction
<1>a. proc' = [proc EXCEPT ![p] = IF InLastSection(p) THEN Idle ELSE on]
  BY DEF Commit
<1>2. /\ r \in RequestType /\ r.account \in Account /\ r.op \in Op
      /\ r.op = "page" => r.account = Audited
      /\ r.input # None <=> r.op = "update"
      /\ r.section \in 1..Len(Script(r.op))
      /\ Len(Script(r.op)) \in 2..4
  BY <1>1, Position DEF Types, RequestType, FollowsScript
<1>3. on \in RequestType /\ on.op = r.op /\ on.account = r.account /\ on.input = r.input
      /\ on.section = r.section + 1 /\ on.next = 0 /\ on.value = None /\ on.row = None
      /\ on.seen = {}
  <2>1. r.section + 1 \in Nat /\ r \in RequestType /\ 0 \in Nat
    BY <1>2
  <2> HIDE DEF r, TenancyInv
  <2>a. on = [r EXCEPT !.section = @ + 1, !.next = 0, !.row = None, !.value = None, !.seen = {}]
    BY DEF InNextSection, r
  <2> HIDE DEF on
  <2>2. on.op = r.op /\ on.account = r.account /\ on.input = r.input
        /\ on.section = r.section + 1 /\ on.next = 0 /\ on.value = None /\ on.row = None
        /\ on.seen = {}
    BY <2>1, <2>a DEF RequestType
  <2>3. on \in RequestType
    BY <2>1, <2>a DEF RequestType
  <2> QED BY <2>2, <2>3
<1> HIDE DEF on
<1>4. proc'[p] = (IF InLastSection(p) THEN Idle ELSE on) /\ proc' = [proc EXCEPT ![p] = proc'[p]]
      /\ proc'[p].next = 0 /\ \A q \in Proc : q # p => proc'[q] = proc[q]
  BY <1>a, <1>3, Ended DEF Types
<1>5. /\ conn' \in [Conn -> ConnType]
      /\ OneConnection' /\ SettingsAreOwn' /\ IdleConnectionsAreClean'
      /\ \A q \in Proc : q # p => (ConnOf(q))' = ConnOf(q)
  BY <1>1, <1>4, Release
<1>6. ~InLastSection(p) => r.section + 1 \in 1..Len(Script(r.op))
  BY <1>2 DEF InLastSection
<1>7. Begins(p)
  <2>1. CASE InLastSection(p)
    BY <1>4, <2>1, Ended DEF Begins
  <2>2. CASE ~InLastSection(p)
    BY <1>1, <1>2, <1>3, <1>4, <1>6, <2>2 DEF Begins
  <2> QED BY <2>1, <2>2
<1>8. /\ proc' \in [Proc -> RequestType]
      /\ FollowsScript' /\ WritesAreHeld' /\ ReadsStayInTenant' /\ LocksExclude'
  BY <1>4, <1>5, <1>7, Begin
<1>9. proc'[p].value = None /\ proc'[p].row = None
  BY <1>7 DEF Begins
<1>10. r.value # None => /\ r.op = "update" /\ r.row # None
                         /\ r.row.account = r.account /\ r.row.value = r.value
  <2>1. r.value # None => r.op = "update" /\ InLastSection(p)
    BY DEF WritesAreHeld, LastWith
  <2>2. r.next = Len(Section(p)) + 1
    BY <1>1, Position DEF FollowsScript
  <2>3. r.value # None => LastWith(p, 0)
    BY <2>1, <2>2, Position, <1>1 DEF LastWith
  <2>4. r.value # None => r.row # None /\ r.value = r.input
    BY <2>1, <2>3 DEF WritesAreHeld, Recording
  <2> QED BY <2>1, <2>4 DEF RecordsAreOwn
<1>11. r.row # None /\ r.row.value # None => r.value # None
  <2>1. r.row # None /\ r.row.value # None => r.op = "update" /\ LastWith(p, 0)
    BY <1>2 DEF RecordsAreOwn, WritesAreHeld
  <2> QED BY <2>1 DEF WritesAreHeld
<1>12. r.row # None => r.row \in AuditRow /\ Millisecond[r.row.id] <= clock + Skew
  BY <1>2 DEF RequestType, RecordsAreOwn
<1>13. r.value \in BOOLEAN \cup {None}
  BY <1>2 DEF RequestType
<1>14. Types'
  <2>1. audit' \in SUBSET AuditRow
    BY <1>1, <1>12 DEF Types
  <2>2. require2fa' \in [Account -> BOOLEAN]
    BY <1>1, <1>2, <1>13 DEF Types
  <2> QED BY <1>1, <1>5, <1>8, <2>1, <2>2 DEF Types
<1>15. RecordsAreOwn'
  <2> SUFFICES ASSUME NEW q \in Proc, proc'[q].row # None
               PROVE  /\ proc'[q].row.account
                            = IF proc'[q].op = "refused" THEN None ELSE proc'[q].account
                      /\ proc'[q].row.value = proc'[q].input
                      /\ Millisecond[proc'[q].row.id] <= clock' + Skew
                      /\ proc'[q].value # None =>
                            \A s \in audit' : s.account = proc'[q].account /\ s.value # None
                                 => Millisecond[s.id] <= Millisecond[proc'[q].row.id] + Skew
    BY DEF RecordsAreOwn
  <2>1. q # p /\ proc'[q] = proc[q]
    BY <1>4, <1>9
  <2>2. ASSUME proc[q].value # None, NEW s \in audit', s.account = proc[q].account, s.value # None
        PROVE  s \in audit
    <3>1. SUFFICES ASSUME r.row # None, s = r.row PROVE FALSE
      BY <1>1, <2>2
    <3>2. r.value # None /\ r.row.account = r.account
      BY <1>10, <1>11, <2>2, <3>1
    <3> QED BY <2>1, <2>2, <3>1, <3>2 DEF LocksExclude
  <2> QED BY <1>1, <2>1, <2>2 DEF RecordsAreOwn
<1>16. RecordsAreKnown'
  BY <1>1, <1>12 DEF RecordsAreKnown
<1>17. NewestRecordTellsSetting'
  <2> DEFINE changes(a) == {s \in audit : s.account = a /\ s.value # None}
             Told(a) == IF changes(a) = {} THEN ~require2fa[a]
                        ELSE \E s \in changes(a) :
                                /\ s.value = require2fa[a]
                                /\ \A t \in changes(a) :
                                      Millisecond[t.id] <= Millisecond[s.id] + Skew
  <2>1. NewestRecordTellsSetting <=> \A a \in Account : Told(a)
    BY DEF NewestRecordTellsSetting
  <2>2. NewestRecordTellsSetting' <=> \A a \in Account : Told(a)'
    BY DEF NewestRecordTellsSetting
  <2>3. ASSUME NEW a \in Account, r.value = None \/ a # r.account PROVE Told(a)'
    <3>1. r.row # None => ~(r.row.account = a /\ r.row.value # None)
      BY <1>10, <1>11, <2>3
    <3>2. changes(a)' = changes(a)
      BY <1>1, <3>1
    <3>3. require2fa'[a] = require2fa[a]
      BY <1>1, <1>2, <2>3 DEF Types
    <3>4. Told(a)
      BY <2>1
    <3> HIDE DEF changes
    <3> QED BY <3>2, <3>3, <3>4
  <2>4. ASSUME NEW a \in Account, a = r.account, r.value # None PROVE Told(a)'
    <3> DEFINE row == r.row
               value == r.value
    <3>1. row \in AuditRow /\ row.account = a /\ row.value = value /\ value # None
          /\ audit' = audit \cup {row} /\ require2fa'[a] = value
      BY <1>1, <1>2, <1>10, <1>12, <2>4 DEF Types
    <3>2. \A s \in audit : s.account = a /\ s.value # None
                              => Millisecond[s.id] <= Millisecond[row.id] + Skew
      BY <1>10, <2>4 DEF RecordsAreOwn
    <3>3. Millisecond[row.id] <= Millisecond[row.id] + Skew
      <4>1. Millisecond[row.id] \in Nat /\ Skew \in Nat
        BY <3>1, Times
      <4> QED BY <4>1
    <3> SUFFICES \E s \in {s \in audit' : s.account = a /\ s.value # None} :
                    /\ s.value = require2fa'[a]
                    /\ \A t \in {t \in audit' : t.account = a /\ t.value # None} :
                          Millisecond[t.id] <= Millisecond[s.id] + Skew
      OBVIOUS
    <3> HIDE DEF row, value
    <3>5. row \in {s \in audit' : s.account = a /\ s.value # None}
      BY <3>1
    <3>6. \A t \in {t \in audit' : t.account = a /\ t.value # None} :
             Millisecond[t.id] <= Millisecond[row.id] + Skew
      BY <3>1, <3>2, <3>3
    <3> QED BY <3>1, <3>5, <3>6
  <2>5. \A a \in Account : Told(a)'
    BY <2>3, <2>4
  <2> HIDE DEF Told
  <2> QED BY <2>2, <2>5
<1> QED BY <1>4, <1>5, <1>7, <1>8, <1>14, <1>15, <1>16, <1>17

\* Time passes.
LEMMA TickStep ==
    ASSUME TenancyInv, Tick
    PROVE  TenancyInv'
<1> USE DEF TenancyInv
<1>1. clock' = clock + 1 /\ UNCHANGED <<conn, proc, audit, require2fa, paging>>
  BY DEF Tick
<1>2. clock \in Nat /\ Skew \in Nat /\ \A r \in AuditRow : Millisecond[r.id] \in Nat
  BY Times
<1>3. \A p \in Proc : (Section(p))' = Section(p) /\ (InLastSection(p))' = InLastSection(p)
                      /\ (ConnOf(p))' = ConnOf(p)
  BY <1>1 DEF Section, InLastSection, ConnOf
<1>4. \A p \in Proc : (LastWith(p, 0))' = LastWith(p, 0) /\ (LastWith(p, 1))' = LastWith(p, 1)
  BY <1>1, <1>3 DEF LastWith
<1>5. Types'
  BY <1>1, <1>2 DEF Types
<1>6. OneConnection' /\ SettingsAreOwn' /\ IdleConnectionsAreClean'
  BY <1>1, <1>3 DEF OneConnection, SettingsAreOwn, IdleConnectionsAreClean
<1>7. FollowsScript'
  BY <1>1, <1>3 DEF FollowsScript
<1>8. WritesAreHeld'
  BY <1>1, <1>3, <1>4 DEF WritesAreHeld
<1>9. RecordsAreOwn'
  <2>1. ASSUME NEW p \in Proc, proc[p].row # None
        PROVE  Millisecond[proc[p].row.id] <= clock' + Skew
    <3>1. Millisecond[proc[p].row.id] \in Nat
      BY <1>2, <2>1 DEF Types, RequestType
    <3>2. Millisecond[proc[p].row.id] <= clock + Skew
      BY <2>1 DEF RecordsAreOwn
    <3> QED BY <1>1, <1>2, <3>1, <3>2
  <2> QED BY <1>1, <2>1 DEF RecordsAreOwn
<1>10. RecordsAreKnown'
  <2>1. ASSUME NEW r \in audit PROVE Millisecond[r.id] <= clock' + Skew
    <3>1. Millisecond[r.id] \in Nat /\ Millisecond[r.id] <= clock + Skew
      BY <1>2 DEF Types, RecordsAreKnown
    <3> QED BY <1>1, <1>2, <3>1
  <2> QED BY <1>1, <2>1 DEF RecordsAreKnown
<1>11. LocksExclude' /\ ReadsStayInTenant' /\ NewestRecordTellsSetting'
  BY <1>1 DEF LocksExclude, ReadsStayInTenant, NewestRecordTellsSetting
<1> QED BY <1>5, <1>6, <1>7, <1>8, <1>9, <1>10, <1>11

\* The end of the process takes every request and every connection with it.
LEMMA KillStep ==
    ASSUME TenancyInv, Kill
    PROVE  TenancyInv'
<1> USE DEF TenancyInv
<1>1. /\ conn' = [c \in Conn |-> Free] /\ proc' = [p \in Proc |-> Idle]
      /\ UNCHANGED <<audit, require2fa, clock, paging>>
  BY DEF Kill
<1>2. Free \in ConnType /\ Free.holder = None /\ Free.account = None /\ Free.user = None
  BY DEF Free, ConnType
<1>3. \A p \in Proc : proc'[p] = Idle
  BY <1>1
<1>4. \A c \in Conn : conn'[c] = Free
  BY <1>1
<1>5. Types'
  BY <1>1, <1>2, Ended DEF Types
<1>6. OneConnection' /\ SettingsAreOwn' /\ IdleConnectionsAreClean'
  <2>1. \A p \in Proc : (ConnOf(p))' = {}
    BY <1>2, <1>4, NoneAssumption DEF ConnOf
  <2> QED BY <1>2, <1>3, <1>4, <2>1, Ended DEF OneConnection, SettingsAreOwn, IdleConnectionsAreClean
<1>7. FollowsScript' /\ ReadsStayInTenant'
  BY <1>3, Ended DEF FollowsScript, ReadsStayInTenant
<1>8. None \notin Recording /\ None # "update"
  BY NoneAssumption DEF Recording, Op
<1>9. WritesAreHeld'
  BY <1>3, <1>8, Ended DEF WritesAreHeld
<1>10. RecordsAreOwn' /\ LocksExclude' /\ RecordsAreKnown' /\ NewestRecordTellsSetting'
  BY <1>1, <1>3, Ended, Quiet
<1> QED BY <1>5, <1>6, <1>7, <1>9, <1>10

-----------------------------------------------------------------------------
(* Theorems *)

\* At the start nobody holds, reads or writes anything.
LEMMA TenancyInit ==
    ASSUME Init
    PROVE  TenancyInv
<1>1. Free \in ConnType /\ Free.holder = None /\ Free.account = None /\ Free.user = None
  BY DEF Free, ConnType
<1>2. (\A p \in Proc : proc[p] = Idle) /\ (\A c \in Conn : conn[c] = Free) /\ audit = {}
      /\ (\A a \in Account : require2fa[a] = FALSE) /\ clock = 0
  BY DEF Init
<1>3. None \notin Recording /\ None # "update"
  BY NoneAssumption DEF Recording, Op
<1>4. Types
  BY <1>1, Ended DEF Init, Types
<1>5. OneConnection /\ SettingsAreOwn /\ IdleConnectionsAreClean
  <2>1. \A p \in Proc : ConnOf(p) = {}
    BY <1>1, <1>2, NoneAssumption DEF ConnOf
  <2> QED BY <1>1, <1>2, <2>1, Ended DEF OneConnection, SettingsAreOwn, IdleConnectionsAreClean
<1>6. FollowsScript /\ ReadsStayInTenant
  BY <1>2, Ended DEF FollowsScript, ReadsStayInTenant
<1>7. WritesAreHeld
  BY <1>2, <1>3, Ended DEF WritesAreHeld
<1>8. RecordsAreOwn /\ LocksExclude /\ RecordsAreKnown
  BY <1>2, Ended DEF RecordsAreOwn, LocksExclude, RecordsAreKnown
<1>9. NewestRecordTellsSetting
  BY <1>2 DEF NewestRecordTellsSetting
<1> QED BY <1>4, <1>5, <1>6, <1>7, <1>8, <1>9 DEF TenancyInv

\* A stutter changes nothing.
LEMMA TenancyStutter ==
    ASSUME TenancyInv, UNCHANGED vars
    PROVE  TenancyInv'
BY DEF TenancyInv, vars, Types, OneConnection, SettingsAreOwn, IdleConnectionsAreClean,
       FollowsScript, WritesAreHeld, RecordsAreOwn, LocksExclude, RecordsAreKnown,
       ReadsStayInTenant, NewestRecordTellsSetting, ConnOf, LastWith,
       InLastSection, Section

\* Every step of every request, of the clock and of the server keeps the invariant.
LEMMA TenancyStep ==
    ASSUME TenancyInv, [Next]_vars
    PROVE  TenancyInv'
<1>1. ASSUME NEW p \in Proc, Execute(p) PROVE TenancyInv'
  BY <1>1, SettingStep, ReadingStep, ReadPageStep, RecordStep, CommitStep DEF Execute
<1>2. ASSUME NEW p \in Proc, Start(p) \/ Acquire(p) \/ Update(p) \/ Fail(p) PROVE TenancyInv'
  BY <1>2, StartStep, AcquireStep, UpdateStep, FailStep
<1> QED BY <1>1, <1>2, TickStep, KillStep, TenancyStutter DEF Next

\* Requests follow their scripts, hold one connection each, and what they have
\* written and not committed is kept under it.
THEOREM TenancyInvariant == Spec => []TenancyInv
<1>1. Init => TenancyInv
  BY TenancyInit
<1>2. TenancyInv /\ [Next]_vars => TenancyInv'
  BY TenancyStep
<1> QED BY <1>1, <1>2, PTL DEF Spec

\* The state has its type: no request holds two connections.
THEOREM TenancyTypeCorrect == Spec => []TypeOK
<1>1. TenancyInv => TypeOK
  <2> SUFFICES ASSUME TenancyInv PROVE TypeOK
    OBVIOUS
  <2> USE DEF TenancyInv
  <2>1. ASSUME NEW p \in Proc
        PROVE  /\ proc[p].account \in Account \cup {None} /\ proc[p].user \in User \cup {None}
               /\ proc[p].value \in BOOLEAN \cup {None} /\ proc[p].row \in AuditRow \cup {None}
    BY DEF Types, RequestType
  <2>2. ASSUME NEW p \in Proc
        PROVE  Cardinality(ConnOf(p)) <= (IF proc[p].op = None THEN 0 ELSE 1)
    <3>1. CASE ConnOf(p) = {}
      <4>1. Cardinality(ConnOf(p)) = 0
        BY <3>1, FS_EmptySet
      <4> QED BY <4>1
    <3>2. CASE ConnOf(p) # {}
      <4>1. PICK c \in Conn : conn[c].holder = p
        BY <3>2 DEF ConnOf
      <4>2. p # None
        BY NoneAssumption
      <4>3. ConnOf(p) = {c} /\ proc[p].op # None
        BY <4>1, <4>2 DEF ConnOf, OneConnection
      <4>4. Cardinality(ConnOf(p)) = 1
        BY <4>3, FS_Singleton
      <4> QED BY <4>3, <4>4
    <3> QED BY <3>1, <3>2
  <2> QED BY <2>1, <2>2 DEF TypeOK, Types, ConnType
<1> QED BY <1>1, TenancyInvariant, PTL

\* However the request before ended, a connection in the pool carries nobody's tenant.
THEOREM PoolIsClean == Spec => []IdleConnectionsAreClean
<1>1. TenancyInv => IdleConnectionsAreClean
  BY DEF TenancyInv
<1> QED BY <1>1, TenancyInvariant, PTL

\* No request reads what belongs to another account, with a WHERE or without.
THEOREM TenantsAreApart == Spec => []ReadsStayInTenant
<1>1. TenancyInv => ReadsStayInTenant
  BY DEF TenancyInv
<1> QED BY <1>1, TenancyInvariant, PTL

\* However updates of an account interleave, the value it has was recorded, and no
\* change is recorded as later than that by more than the clocks of the hosts differ.
THEOREM AuditTellsSetting == Spec => []NewestRecordTellsSetting
<1>1. TenancyInv => NewestRecordTellsSetting
  BY DEF TenancyInv
<1> QED BY <1>1, TenancyInvariant, PTL

\* Who has an account locked has a connection and waits for nothing; where nobody has,
\* who has a connection goes on, and else there is a free one.  So no circle of waiting
\* requests, whatever the size of the pool.
THEOREM NoDeadlock == Spec => []SomebodyGoesOn
<1>1. TenancyInv => SomebodyGoesOn
  <2> SUFFICES ASSUME TenancyInv, NEW p \in Proc, proc[p].op # None
               PROVE  \E q \in Proc : proc[q].op # None /\ ~Waits(q)
    BY DEF SomebodyGoesOn
  <2> USE DEF TenancyInv
  <2>1. CASE \E q \in Proc : proc[q].value # None
    <3>1. PICK q \in Proc : proc[q].value # None
      BY <2>1
    <3>2. proc[q].op = "update" /\ (LastWith(q, 0) \/ LastWith(q, 1)) /\ ConnOf(q) # {}
      BY <3>1 DEF WritesAreHeld
    <3>3. proc[q].op # None
      BY <3>2, NoneAssumption DEF Op
    <3>4. ~LastWith(q, 2)
      BY <3>2, <3>3, Position DEF LastWith
    <3>5. ~At(q, "update")
      BY <3>3, <3>4, Position
    <3>6. proc[q].next # 0
      BY <3>2 DEF OneConnection
    <3> QED BY <3>3, <3>5, <3>6 DEF Waits
  <2>2. CASE \A q \in Proc : proc[q].value = None
    <3>1. \A q \in Proc : ~RowLocked(q)
      BY <2>2 DEF RowLocked
    <3>2. CASE \E c \in Conn : conn[c].holder = None
      BY <3>1, <3>2 DEF Waits
    <3>3. CASE \A c \in Conn : conn[c].holder # None
      <4>1. PICK c \in Conn : conn[c].holder # None
        BY <3>3, PoolAssumption
      <4>2. conn[c].holder \in Proc /\ proc[conn[c].holder].op # None /\ c \in ConnOf(conn[c].holder)
        BY <4>1 DEF Types, ConnType, OneConnection, ConnOf
      <4>3. proc[conn[c].holder].next # 0
        BY <4>2 DEF OneConnection
      <4> QED BY <3>1, <4>2, <4>3 DEF Waits
    <3> QED BY <3>2, <3>3
  <2> QED BY <2>1, <2>2
<1> QED BY <1>1, TenancyInvariant, PTL

-----------------------------------------------------------------------------
(* Pages *)

\* A step that leaves the reading alone: records may be added, no page is read.
LEMMA PagingKept ==
    ASSUME PagingInv, UNCHANGED paging, audit \subseteq audit',
           \A q \in Proc : (PageRead(q))' => PageRead(q) /\ proc'[q] = proc[q]
    PROVE  CursorSplits' /\ PageCovers' /\ PagesDescend' /\ PagesAreComplete'
<1> USE DEF PagingInv
<1>1. GotIds' = GotIds /\ AuditedIds \subseteq AuditedIds'
  BY DEF GotIds, AuditedIds, IdsOf
<1>2. CursorSplits'
  BY <1>1 DEF CursorSplits
<1>3. PagesDescend' /\ PagesAreComplete'
  BY DEF PagesDescend, PagesAreComplete
<1>4. ASSUME NEW q \in Proc, (PageRead(q))'
      PROVE  /\ proc'[q].page = Newest(proc'[q].seen, PageSize + 1)
             /\ proc'[q].seen \subseteq audit'
             /\ paging'.from \ GotIds' \subseteq (SeenIds(q))'
             /\ ~paging'.done
             /\ paging'.before # None => \A i \in (SeenIds(q))' : i < paging'.before
  <2>1. PageRead(q) /\ proc'[q] = proc[q]
    BY <1>4
  <2>2. (SeenIds(q))' = SeenIds(q)
    BY <2>1 DEF SeenIds, IdsOf
  <2> QED BY <1>1, <2>1, <2>2 DEF PageCovers
<1>5. PageCovers'
  BY <1>4 DEF PageCovers
<1> QED BY <1>2, <1>3, <1>5

\* A request that starts, goes on to its next section or ends reads no page with it.
LEMMA PagingBegin ==
    ASSUME TenancyInv, PagingInv, NEW p \in Proc, Begins(p),
           \A q \in Proc : q # p => proc'[q] = proc[q],
           \A q \in Proc, c \in Conn : q # p /\ c \in ConnOf(q) => conn'[c] = conn[c],
           proc'[p].op = "page" =>
              proc[p].op = "page" \/ \A q \in Proc : proc[q].op # "page"
    PROVE  /\ OneReader' /\ TenantIsSet'
           /\ ~(PageRead(p))' /\ \A q \in Proc : q # p => (PageRead(q))' = PageRead(q)
<1> USE DEF TenancyInv
<1>1. OneReader'
  BY DEF OneReader, PagingInv
<1>2. \A q \in Proc : q # p =>
         /\ (Section(q))' = Section(q) /\ (InLastSection(q))' = InLastSection(q)
  BY DEF Section, InLastSection
<1>3. \A q \in Proc : q # p => (LastWith(q, 0))' = LastWith(q, 0) /\ (LastWith(q, 1))' = LastWith(q, 1)
  BY <1>2 DEF LastWith
<1>4. \A q \in Proc : q # p => (PageRead(q))' = PageRead(q)
  BY <1>3 DEF PageRead
<1>5. ~(proc'[p].op = "page" /\ ((LastWith(p, 0))' \/ (LastWith(p, 1))'))
  <2> SUFFICES ASSUME proc'[p].op = "page", InLastSection(p)'
               PROVE  ~(LastWith(p, 0))' /\ ~(LastWith(p, 1))'
    BY DEF LastWith
  <2>1. proc'[p] # Idle
    BY NoneAssumption DEF Idle, Op
  <2>2. proc'[p].next = 0 /\ proc'[p].section \in 1..Len(Script(proc'[p].op))
    BY <2>1 DEF Begins
  <2>3. "page" \in Op
    BY DEF Op
  <2>4. ScriptFacts("page", Script("page"))
    BY <2>3, Scripts
  <2>5. Len(Section(p)') = 2
    BY <2>2, <2>4 DEF ScriptFacts, Section, InLastSection
  <2> QED BY <2>2, <2>5 DEF LastWith
<1>6. ~(PageRead(p))'
  BY <1>5 DEF PageRead
<1>7. TenantIsSet'
  <2> SUFFICES ASSUME NEW q \in Proc, proc'[q].op = "page", (LastWith(q, 1))'
               PROVE  \E c \in (ConnOf(q))' : conn'[c].account = Audited
    BY DEF TenantIsSet
  <2>1. q # p /\ proc[q].op = "page" /\ LastWith(q, 1)
    BY <1>3, <1>5
  <2>2. PICK c \in ConnOf(q) : conn[c].account = Audited
    BY <2>1 DEF TenantIsSet, PagingInv
  <2>3. c \in Conn /\ conn'[c] = conn[c]
    BY <2>1, <2>2 DEF ConnOf
  <2> QED BY <2>2, <2>3 DEF ConnOf
<1> QED BY <1>1, <1>4, <1>6, <1>7

\* A statement takes no part in the reading unless it reads the page.
LEMMA PagingStatement ==
    ASSUME TenancyInv, PagingInv, NEW p \in Proc, Advances(p), NEW st, At(p, st), st # "page",
           st = "setAccount" => \E c \in ConnOf(p) : conn'[c].account = proc[p].account,
           \A q \in Proc, c \in Conn : q # p /\ c \in ConnOf(q) => conn'[c] = conn[c],
           UNCHANGED paging, audit \subseteq audit'
    PROVE  PagingInv'
<1> USE DEF TenancyInv
<1>1. /\ \A q \in Proc : (ConnOf(q))' = ConnOf(q)
      /\ \A q \in Proc : q # p => \A n \in 0..2 : (LastWith(q, n))' = LastWith(q, n)
      /\ (LastWith(p, 0))' = LastWith(p, 1)
      /\ (LastWith(p, 1))' = LastWith(p, 2)
  BY Advance
<1>2. (\A q \in Proc : q # p => proc'[q] = proc[q]) /\ proc'[p].op = proc[p].op
  BY DEF Advances
<1>3. OneReader'
  BY <1>2 DEF OneReader, PagingInv
<1>4. proc[p].op # None /\ InTransaction(p)
  BY DEF At, InTransaction
<1>5. ~(proc[p].op = "page" /\ LastWith(p, 1))
  <2>1. ~At(p, "page")
    BY DEF At
  <2> QED BY <1>4, <2>1, Position
<1>6. \A q \in Proc : (PageRead(q))' => PageRead(q) /\ proc'[q] = proc[q]
  <2> SUFFICES ASSUME NEW q \in Proc, (PageRead(q))' PROVE PageRead(q) /\ proc'[q] = proc[q]
    OBVIOUS
  <2>1. q # p
    BY <1>1, <1>2, <1>5 DEF PageRead
  <2>2. (LastWith(q, 0))' = LastWith(q, 0)
    BY <1>1, <2>1
  <2> QED BY <1>2, <2>1, <2>2 DEF PageRead
<1>7. CursorSplits' /\ PageCovers' /\ PagesDescend' /\ PagesAreComplete'
  BY <1>6, PagingKept
<1>8. TenantIsSet'
  <2> SUFFICES ASSUME NEW q \in Proc, proc'[q].op = "page", (LastWith(q, 1))'
               PROVE  \E c \in (ConnOf(q))' : conn'[c].account = Audited
    BY DEF TenantIsSet
  <2>1. CASE q # p
    <3>1. proc[q].op = "page" /\ LastWith(q, 1)
      BY <1>1, <1>2, <2>1
    <3>2. PICK c \in ConnOf(q) : conn[c].account = Audited
      BY <3>1 DEF TenantIsSet, PagingInv
    <3>3. conn'[c] = conn[c]
      BY <2>1, <3>2 DEF ConnOf
    <3> QED BY <1>1, <3>2, <3>3
  <2>2. CASE q = p
    <3>1. proc[p].op = "page" /\ LastWith(p, 2)
      BY <1>1, <1>2, <2>2
    <3>2. st = "setAccount"
      BY <1>4, <3>1, Position
    <3>3. proc[p].account = Audited
      BY <1>4, <3>1 DEF FollowsScript
    <3> QED BY <1>1, <2>2, <3>2, <3>3
  <2> QED BY <2>1, <2>2
<1> QED BY <1>3, <1>7, <1>8 DEF PagingInv

\* A page is read under the tenant of the log and below the cursor.
LEMMA PagingRead ==
    ASSUME TenancyInv, PagingInv, NEW p \in Proc, ReadPage(p)
    PROVE  PagingInv'
<1> USE DEF TenancyInv
<1>1. PICK c \in ConnOf(p) :
         /\ proc' = [proc EXCEPT ![p].next = @ + 1, ![p].seen = Before(VisibleAudit(c), paging.before),
                            ![p].page = Newest(Before(VisibleAudit(c), paging.before), PageSize + 1)]
         /\ paging' = IF paging.before = None
                      THEN [before |-> None, got |-> <<>>, done |-> FALSE,
                            from |-> {r.id : r \in {r \in audit : r.account = Audited}}]
                      ELSE paging
  BY DEF ReadPage
<1>2. At(p, "page") /\ UNCHANGED <<conn, audit, require2fa, clock>>
  BY DEF ReadPage
<1>3. Advances(p) /\ Types'
  BY ReadPageStep
<1>4. /\ \A q \in Proc : q # p => \A n \in 0..2 : (LastWith(q, n))' = LastWith(q, n)
      /\ (LastWith(p, 0))' = LastWith(p, 1) /\ (LastWith(p, 1))' = LastWith(p, 2)
      /\ \A q \in Proc : (ConnOf(q))' = ConnOf(q)
  BY <1>3, Advance
<1>5. proc[p].op = "page" /\ LastWith(p, 1) /\ proc[p].op # None
  BY <1>2, Position DEF At, InTransaction
<1>6. (\A q \in Proc : q # p => proc'[q] = proc[q]) /\ \A q \in Proc : proc'[q].op = proc[q].op
  BY <1>3 DEF Advances
<1>7. OneReader'
  BY <1>6 DEF OneReader, PagingInv
<1>8. \A q \in Proc : q # p => proc'[q].op # "page"
  BY <1>5, <1>6 DEF OneReader, PagingInv
<1>9. TenantIsSet'
  <2>1. ~LastWith(p, 2)
    BY <1>5, Position DEF LastWith
  <2> QED BY <1>4, <1>8, <2>1 DEF TenantIsSet
<1>10. conn[c].account = Audited /\ Audited # None
  <2>1. PICK d \in ConnOf(p) : conn[d].account = Audited
    BY <1>5 DEF TenantIsSet, PagingInv
  <2>2. d = c /\ Audited # None
    BY AuditedAssumption, NoneAssumption DEF ConnOf, OneConnection
  <2> QED BY <2>1, <2>2
<1> DEFINE rows == Before(VisibleAudit(c), paging.before)
           all == {r \in audit : r.account = Audited}
<1>11. rows = {r \in all : paging.before = None \/ r.id < paging.before}
  BY <1>10 DEF Before, VisibleAudit
<1>12. proc'[p].seen = rows /\ proc'[p].page = Newest(rows, PageSize + 1)
  <2> DEFINE r == proc[p]
             q == proc'[p]
             page == Newest(rows, PageSize + 1)
  <2> HIDE DEF rows
  <2>1. r \in RequestType /\ q = [r EXCEPT !.next = @ + 1, !.seen = rows, !.page = page]
    BY <1>1 DEF Types, rows
  <2> HIDE DEF r, q, page, TenancyInv
  <2>2. q.seen = rows /\ q.page = page
    BY <2>1 DEF RequestType
  <2> QED BY <2>2 DEF q, page
<1> HIDE DEF rows
<1>13. SeenIds(p)' = IdsOf(rows) /\ rows \subseteq audit
  BY <1>11, <1>12 DEF SeenIds, IdsOf
<1>14. AuditedIds \in SUBSET Nat /\ AuditedIds = IdsOf(all) /\ AuditedIds' = AuditedIds
  <2>1. all \in SUBSET AuditRow
    BY DEF Types
  <2> QED BY <1>2, <2>1, RecordIds DEF AuditedIds, IdsOf
<1>15. ASSUME paging.before = None
       PROVE  /\ CursorSplits' /\ PagesDescend' /\ PagesAreComplete'
              /\ paging'.from \ GotIds' \subseteq SeenIds(p)'
              /\ ~paging'.done /\ paging'.before = None
  <2>1. /\ paging'.before = None /\ paging'.got = <<>> /\ paging'.done = FALSE
        /\ paging'.from = AuditedIds
        /\ paging' = [before |-> None, got |-> <<>>, done |-> FALSE, from |-> AuditedIds]
    BY <1>1, <1>15 DEF AuditedIds, IdsOf
  <2>2. rows = all
    BY <1>11, <1>15
  <2>3. <<>> \in Seq(Nat) /\ Len(<<>>) = 0
    OBVIOUS
  <2>4. CursorSplits'
    BY <1>14, <2>1, <2>3 DEF CursorSplits
  <2>5. PagesDescend' /\ PagesAreComplete'
    BY <2>1, <2>3 DEF PagesDescend, PagesAreComplete
  <2> QED BY <1>13, <1>14, <2>1, <2>2, <2>4, <2>5
<1>16. ASSUME paging.before # None
       PROVE  /\ CursorSplits' /\ PagesDescend' /\ PagesAreComplete'
              /\ paging'.from \ GotIds' \subseteq SeenIds(p)'
              /\ ~paging'.done
              /\ \A i \in SeenIds(p)' : i < paging'.before
  <2>1. paging' = paging
    BY <1>1, <1>16
  <2>2. GotIds' = GotIds
    BY <2>1 DEF GotIds
  <2>3. CursorSplits
    BY DEF PagingInv
  <2>4. CursorSplits'
    BY <1>14, <2>1, <2>2, <2>3 DEF CursorSplits
  <2>5. PagesDescend' /\ PagesAreComplete'
    BY <2>1 DEF PagesDescend, PagesAreComplete, PagingInv
  <2>6. ~paging.done /\ \A i \in paging.from \ GotIds : i \in AuditedIds /\ i < paging.before
    BY <1>16, <2>3 DEF CursorSplits
  <2>7. \A i \in IdsOf(rows) : i < paging.before
    BY <1>11, <1>16 DEF IdsOf
  <2>8. \A i \in AuditedIds : i < paging.before => i \in IdsOf(rows)
    BY <1>11, <1>14 DEF IdsOf
  <2> QED BY <1>13, <2>1, <2>2, <2>4, <2>5, <2>6, <2>7, <2>8
<1>17. PageCovers'
  <2> SUFFICES ASSUME NEW q \in Proc, (PageRead(q))'
               PROVE  /\ proc'[q].page = Newest(proc'[q].seen, PageSize + 1)
                      /\ proc'[q].seen \subseteq audit'
                      /\ paging'.from \ GotIds' \subseteq (SeenIds(q))'
                      /\ ~paging'.done
                      /\ paging'.before # None => \A i \in (SeenIds(q))' : i < paging'.before
    BY DEF PageCovers
  <2>1. q = p
    BY <1>8 DEF PageRead
  <2> QED BY <1>2, <1>12, <1>13, <1>15, <1>16, <2>1
<1> QED BY <1>7, <1>9, <1>15, <1>16, <1>17 DEF PagingInv

\* What a reader has got, with the items of a page appended.
WithItems(got, page, n) == got \o SubSeq(page, 1, n)
First(s, n) == {s[k] : k \in 1..n}

\* All of both, in order.
LEMMA Appended ==
    ASSUME NEW got \in Seq(Nat), NEW page \in Seq(Nat), NEW n \in Nat, n <= Len(page)
    PROVE  LET new == WithItems(got, page, n) IN
           /\ new \in Seq(Nat) /\ Len(new) = Len(got) + n
           /\ \A k \in 1..Len(got) : new[k] = got[k]
           /\ \A k \in 1..n : new[Len(got) + k] = page[k]
           /\ First(new, Len(new)) = First(got, Len(got)) \cup First(page, n)
<1>0. SUFFICES ASSUME NEW new, new = WithItems(got, page, n)
             PROVE  /\ new \in Seq(Nat) /\ Len(new) = Len(got) + n
                    /\ \A k \in 1..Len(got) : new[k] = got[k]
                    /\ \A k \in 1..n : new[Len(got) + k] = page[k]
                    /\ First(new, Len(new)) = First(got, Len(got)) \cup First(page, n)
  OBVIOUS
<1> DEFINE items == SubSeq(page, 1, n)
<1>1. items \in Seq(Nat) /\ Len(items) = n /\ \A k \in 1..n : items[k] = page[k]
  OBVIOUS
<1> HIDE DEF items
<1>2. new = got \o items
  BY <1>0 DEF items, WithItems
<1>3. /\ new \in Seq(Nat) /\ Len(new) = Len(got) + n
      /\ \A k \in 1..Len(got) : new[k] = got[k]
      /\ \A k \in 1..n : new[Len(got) + k] = page[k]
  <2>0. items \in Seq(Nat) /\ Len(items) = n
    BY <1>1
  <2>a. got \o items \in Seq(Nat)
    BY <2>0
  <2>b. Len(got \o items) = Len(got) + Len(items)
    BY <2>0, ConcatProperties
  <2>1. new \in Seq(Nat) /\ Len(new) = Len(got) + n
    BY <1>2, <2>0, <2>a, <2>b
  <2>2. \A k \in 1..Len(got) : new[k] = got[k]
    BY <1>1, <1>2
  <2>3. ASSUME NEW k \in 1..n PROVE new[Len(got) + k] = page[k]
    <3>1. Len(got) \in Nat /\ Len(got) + k \in 1..(Len(got) + Len(items))
          /\ ~(Len(got) + k <= Len(got)) /\ (Len(got) + k) - Len(got) = k
      BY <1>1
    <3>2. new[Len(got) + k] = items[k]
      BY <1>1, <1>2, <3>1
    <3> QED BY <1>1, <3>2
  <2> QED BY <2>1, <2>2, <2>3
<1>4. ASSUME NEW k \in 1..Len(new)
      PROVE  new[k] \in {got[j] : j \in 1..Len(got)} \cup {page[j] : j \in 1..n}
  <2>1. Len(got) \in Nat
    OBVIOUS
  <2>2. CASE k <= Len(got)
    <3>1. k \in 1..Len(got)
      BY <2>1, <2>2
    <3>2. new[k] = got[k]
      BY <1>3, <3>1
    <3> QED BY <3>1, <3>2
  <2>3. CASE k > Len(got)
    <3>1. k - Len(got) \in 1..n /\ Len(got) + (k - Len(got)) = k
      BY <1>3, <2>1, <2>3
    <3>2. new[k] = page[k - Len(got)]
      BY <1>3, <3>1
    <3> QED BY <3>1, <3>2
  <2> QED BY <2>1, <2>2, <2>3
<1>5. \A j \in 1..Len(got) : got[j] \in {new[k] : k \in 1..Len(new)}
  <2>1. Len(got) \in Nat /\ \A j \in 1..Len(got) : j \in 1..Len(new)
    BY <1>3
  <2> QED BY <1>3, <2>1
<1>6. \A j \in 1..n : page[j] \in {new[k] : k \in 1..Len(new)}
  <2>1. Len(got) \in Nat /\ \A j \in 1..n : Len(got) + j \in 1..Len(new)
    BY <1>3
  <2> QED BY <1>3, <2>1
<1>7. {new[k] : k \in 1..Len(new)} = {got[k] : k \in 1..Len(got)} \cup {page[k] : k \in 1..n}
  <2> DEFINE X == {new[k] : k \in 1..Len(new)}
             Y == {got[k] : k \in 1..Len(got)}
             Z == {page[k] : k \in 1..n}
  <2>1. X \subseteq Y \cup Z
    <3>1. \A x \in X : \E k \in 1..Len(new) : x = new[k]
      OBVIOUS
    <3> HIDE DEF X
    <3> QED BY <1>4, <3>1
  <2>2. Y \subseteq X
    <3>1. \A y \in Y : \E k \in 1..Len(got) : y = got[k]
      OBVIOUS
    <3> HIDE DEF Y
    <3> QED BY <1>5, <3>1
  <2>3. Z \subseteq X
    <3>1. \A z \in Z : \E k \in 1..n : z = page[k]
      OBVIOUS
    <3> HIDE DEF Z
    <3> QED BY <1>6, <3>1
  <2> HIDE DEF X, Y, Z
  <2>4. X = Y \cup Z
    BY <2>1, <2>2, <2>3
  <2> QED BY <2>4 DEF X, Y, Z
<1> QED BY <1>3, <1>7 DEF First

\* The last page, or one more and a cursor at its last item: nothing is lost between
\* two pages and nothing comes twice.
LEMMA PageDelivered ==
    ASSUME TenancyInv, PagingInv, NEW p \in Proc, PageRead(p),
           paging' = Delivered(proc[p].page), audit \subseteq audit'
    PROVE  CursorSplits' /\ PagesDescend' /\ PagesAreComplete'
<1> DEFINE page == proc[p].page
           ids == SeenIds(p)
           n == IF Len(page) > PageSize THEN PageSize ELSE Len(page)
           got == paging.got
           new == paging'.got
           before == IF Len(page) > PageSize THEN page[PageSize] ELSE None
           Got == First(got, Len(got))
           New == First(new, Len(new))
<1>1. CursorSplits /\ PagesDescend
  BY DEF PagingInv
<1>2. /\ page = Newest(proc[p].seen, PageSize + 1) /\ proc[p].seen \subseteq audit
      /\ paging.from \ Got \subseteq ids /\ ~paging.done
      /\ paging.before # None => \A i \in ids : i < paging.before
  BY DEF PagingInv, PageCovers, GotIds, First
<1>3. PageSize \in Nat /\ PageSize >= 1 /\ PageSize + 1 \in Nat
  BY PageAssumption
<1>4. ids \in SUBSET Nat /\ IsPageOf(page, ids, PageSize + 1)
  <2>1. proc[p].seen \in SUBSET AuditRow
    BY <1>2 DEF TenancyInv, Types
  <2>2. IdsOf(proc[p].seen) \in SUBSET Nat /\ IsFiniteSet(IdsOf(proc[p].seen))
    BY <2>1, RecordIds
  <2> QED BY <1>2, <1>3, <2>2, NewestRows DEF SeenIds
<1>5. /\ paging' = [paging EXCEPT !.got = @ \o SubSeq(page, 1, n), !.before = before,
                                  !.done = Len(page) <= PageSize]
  BY DEF Delivered, NextBefore
<1>6. /\ paging.from \in SUBSET Nat /\ got \in Seq(Nat) /\ paging.from \subseteq AuditedIds
      /\ paging.before # None => /\ paging.before \in Nat
                                 /\ \A i \in Got : paging.before <= i
                                 /\ \A i \in paging.from \ Got : i < paging.before
      /\ paging.before = None => got = <<>>
      /\ paging \in [before : Nat \cup {None}, got : Seq(Nat), done : BOOLEAN, from : SUBSET Nat]
  BY <1>1, <1>2 DEF CursorSplits, GotIds, First
<1>7. /\ page \in Seq(Nat) /\ Len(page) \in Nat /\ Len(page) <= PageSize + 1
      /\ \A k \in 1..Len(page) : page[k] \in ids /\ page[k] \in Nat
      /\ \A j, k \in 1..Len(page) : j < k => page[j] > page[k]
      /\ \A i \in ids : (\A k \in 1..Len(page) : page[k] # i)
                           => Len(page) = PageSize + 1 /\ \A k \in 1..Len(page) : i < page[k]
  BY <1>4 DEF IsPageOf
<1> HIDE DEF page, ids
<1>8. n \in Nat /\ n <= Len(page) /\ n <= PageSize /\ (Len(page) > PageSize => n = PageSize)
      /\ (Len(page) <= PageSize => n = Len(page))
  BY <1>3, <1>7
<1>9. before \in Nat \cup {None} /\ (before # None <=> Len(page) > PageSize)
      /\ (before # None => before = page[n] /\ n \in 1..Len(page))
  <2>1. CASE Len(page) > PageSize
    <3>1. n = PageSize /\ n \in 1..Len(page)
      BY <1>3, <1>8, <2>1
    <3>2. page[n] \in Nat /\ page[n] # None
      BY <1>7, <3>1, NoneAssumption
    <3> QED BY <2>1, <3>1, <3>2
  <2>2. CASE ~(Len(page) > PageSize)
    BY <2>2
  <2> QED BY <2>1, <2>2
<1> HIDE DEF n, before
<1>10. /\ new = got \o SubSeq(page, 1, n) /\ paging'.before = before
       /\ paging'.done = (Len(page) <= PageSize) /\ paging'.from = paging.from
  <2> DEFINE r == paging
             q == paging'
  <2>1. r \in [before : Nat \cup {None}, got : Seq(Nat), done : BOOLEAN, from : SUBSET Nat]
        /\ q = [r EXCEPT !.got = @ \o SubSeq(page, 1, n), !.before = before,
                         !.done = Len(page) <= PageSize]
    BY <1>5, <1>6
  <2> HIDE DEF r, q
  <2>2. q.got = r.got \o SubSeq(page, 1, n) /\ q.before = before
        /\ q.done = (Len(page) <= PageSize) /\ q.from = r.from
    BY <2>1
  <2> QED BY <2>2 DEF r, q
<1>11. /\ new \in Seq(Nat) /\ Len(new) = Len(got) + n
       /\ \A k \in 1..Len(got) : new[k] = got[k]
       /\ \A k \in 1..n : new[Len(got) + k] = page[k]
       /\ New = Got \cup First(page, n)
  <2> HIDE DEF new, got
  <2>1. got \in Seq(Nat) /\ page \in Seq(Nat) /\ n \in Nat /\ n <= Len(page)
        /\ new = WithItems(got, page, n)
    BY <1>6, <1>7, <1>8, <1>10 DEF new, got, WithItems
  <2>2. got \in Seq(Nat) /\ page \in Seq(Nat) /\ n \in Nat /\ n <= Len(page)
    BY <2>1
  <2>3. LET w == WithItems(got, page, n) IN
        /\ w \in Seq(Nat) /\ Len(w) = Len(got) + n
        /\ \A k \in 1..Len(got) : w[k] = got[k]
        /\ \A k \in 1..n : w[Len(got) + k] = page[k]
        /\ First(w, Len(w)) = First(got, Len(got)) \cup First(page, n)
    BY ONLY <2>2, Appended
  <2> QED BY <2>1, <2>3
<1>12. paging' \in [before : Nat \cup {None}, got : Seq(Nat), done : BOOLEAN, from : SUBSET Nat]
  <2> DEFINE r == paging
             g == new
             b == paging'.before
             d == paging'.done
  <2>1. paging' = [r EXCEPT !.got = g, !.before = b, !.done = d]
    BY <1>5, <1>6, <1>10
  <2>2. g \in Seq(Nat) /\ b \in Nat \cup {None} /\ d \in BOOLEAN
        /\ r \in [before : Nat \cup {None}, got : Seq(Nat), done : BOOLEAN, from : SUBSET Nat]
    BY <1>6, <1>9, <1>10, <1>11
  <2> HIDE DEF r, g, b, d
  <2> QED BY <2>1, <2>2
<1> HIDE DEF new, got
<1>13. Got \in SUBSET Nat /\ \A k \in 1..Len(got) : got[k] \in Got
  BY <1>6 DEF got, First
<1>14. \A i \in Got, k \in 1..n : i > page[k]
  <2> SUFFICES ASSUME NEW i \in Got, NEW k \in 1..n PROVE i > page[k]
    OBVIOUS
  <2>1. k \in 1..Len(page)
    BY <1>7, <1>8
  <2>2. page[k] \in ids /\ page[k] \in Nat /\ i \in Nat
    BY <1>7, <1>13, <2>1
  <2>3. CASE paging.before = None
    <3>1. got = <<>>
      BY <1>6, <2>3 DEF got
    <3> QED BY <3>1 DEF First
  <2>4. CASE paging.before # None
    <3>1. paging.before \in Nat /\ paging.before <= i /\ page[k] < paging.before
      BY <1>2, <1>6, <2>2, <2>4 DEF got
    <3> QED BY <2>2, <3>1
  <2> QED BY <2>3, <2>4
<1>15. \A i, j \in 1..Len(new) : i < j => new[i] > new[j]
  <2> SUFFICES ASSUME NEW i \in 1..Len(new), NEW j \in 1..Len(new), i < j PROVE new[i] > new[j]
    OBVIOUS
  <2>1. Len(got) \in Nat /\ Len(new) = Len(got) + n
    BY <1>6, <1>11 DEF got
  <2>2. CASE j <= Len(got)
    <3>1. i \in 1..Len(got) /\ j \in 1..Len(got)
      BY <2>1, <2>2
    <3>2. got[i] > got[j]
      BY <1>1, <3>1 DEF PagesDescend, got
    <3> QED BY <1>11, <3>1, <3>2
  <2>3. CASE i <= Len(got) /\ j > Len(got)
    <3>1. i \in 1..Len(got) /\ j - Len(got) \in 1..n /\ Len(got) + (j - Len(got)) = j
      BY <1>8, <2>1, <2>3
    <3>2. new[i] = got[i] /\ got[i] \in Got
      BY <1>11, <1>13, <3>1
    <3>3. new[j] = page[j - Len(got)]
      BY <1>11, <3>1
    <3> QED BY <1>14, <3>1, <3>2, <3>3
  <2>4. CASE i > Len(got)
    <3>1. /\ i - Len(got) \in 1..n /\ Len(got) + (i - Len(got)) = i
          /\ j - Len(got) \in 1..n /\ Len(got) + (j - Len(got)) = j
          /\ i - Len(got) < j - Len(got)
      BY <1>8, <2>1, <2>4
    <3>2. new[i] = page[i - Len(got)]
      BY <1>11, <3>1
    <3>3. new[j] = page[j - Len(got)]
      BY <1>11, <3>1
    <3>4. i - Len(got) \in 1..Len(page) /\ j - Len(got) \in 1..Len(page)
      BY <1>7, <1>8, <3>1
    <3> QED BY <1>7, <3>1, <3>2, <3>3, <3>4
  <2> QED BY <2>1, <2>2, <2>3, <2>4
<1>d. paging'.done <=> Len(page) <= PageSize
  <2> DEFINE d == paging'.done
             few == Len(page) <= PageSize
  <2>1. d = few
    BY <1>10
  <2> HIDE DEF d, few
  <2>2. d <=> few
    BY ONLY <2>1
  <2> QED BY <2>2 DEF d, few
<1>16. PagesDescend'
  BY <1>15 DEF PagesDescend, new
<1>17. \A i \in paging.from \ New : \/ ~(\A k \in 1..Len(page) : page[k] # i)
                                    \/ Len(page) = PageSize + 1 /\ \A k \in 1..Len(page) : i < page[k]
  <2>1. \A i \in paging.from \ New : i \in ids
    BY <1>2, <1>11 DEF got
  <2> QED BY <1>7, <2>1
<1>18. \A i \in paging.from \ New : before # None /\ i < before
  <2> SUFFICES ASSUME NEW i \in paging.from \ New PROVE before # None /\ i < before
    OBVIOUS
  <2>1. \A k \in 1..n : page[k] # i
    BY <1>11 DEF First
  <2>2. CASE \A k \in 1..Len(page) : page[k] # i
    <3>1. Len(page) = PageSize + 1 /\ \A k \in 1..Len(page) : i < page[k]
      BY <1>17, <2>2
    <3>2. before # None
      BY <1>3, <1>9, <3>1
    <3> QED BY <1>9, <3>1, <3>2
  <2>3. CASE \E k \in 1..Len(page) : page[k] = i
    <3>1. PICK k \in 1..Len(page) : page[k] = i
      BY <2>3
    <3>2. k > n
      BY <1>8, <2>1, <3>1
    <3>3. Len(page) > PageSize
      BY <1>3, <1>7, <1>8, <3>2
    <3>4. before # None /\ before = page[n] /\ n \in 1..Len(page)
      BY <1>9, <3>3
    <3>5. page[n] > page[k] /\ page[n] \in Nat /\ page[k] \in Nat
      BY <1>7, <3>1, <3>2, <3>4
    <3> QED BY <3>1, <3>4, <3>5
  <2> QED BY <2>2, <2>3
<1>19. before # None => \A i \in New : before <= i
  <2> SUFFICES ASSUME before # None, NEW i \in New PROVE before <= i
    OBVIOUS
  <2>1. before = page[n] /\ n \in 1..Len(page) /\ n \in 1..n /\ page[n] \in Nat
    BY <1>7, <1>9
  <2>2. CASE i \in Got
    <3>1. i > page[n] /\ i \in Nat
      BY <1>13, <1>14, <2>1, <2>2
    <3> QED BY <2>1, <3>1
  <2>3. CASE \E k \in 1..n : i = page[k]
    <3>1. PICK k \in 1..n : i = page[k]
      BY <2>3
    <3>2. k \in 1..Len(page) /\ (k = n \/ k < n)
      BY <1>7, <1>8, <3>1
    <3>3. page[k] \in Nat /\ (k < n => page[k] > page[n])
      BY <1>7, <2>1, <3>2
    <3> QED BY <2>1, <3>1, <3>2, <3>3
  <2> QED BY <1>11, <2>2, <2>3 DEF First
<1>20. GotIds' = New /\ AuditedIds \subseteq AuditedIds'
  BY DEF GotIds, new, First, AuditedIds, IdsOf
<1>21. CursorSplits'
  <2>1. paging'.from \subseteq AuditedIds'
    BY <1>6, <1>10, <1>20
  <2>2. paging'.before # None =>
           /\ ~paging'.done
           /\ \A i \in GotIds' : paging'.before <= i
           /\ \A i \in paging'.from \ GotIds' : i < paging'.before
    BY <1>3, <1>7, <1>9, <1>d, <1>10, <1>18, <1>19, <1>20
  <2>3. paging'.before = None => paging'.done
    BY <1>3, <1>7, <1>9, <1>d, <1>10
  <2> QED BY <1>12, <2>1, <2>2, <2>3 DEF CursorSplits
<1>22. PagesAreComplete'
  <2>1. paging'.done => before = None
    BY <1>3, <1>7, <1>9, <1>d, <1>10
  <2>2. paging'.done => paging'.from \subseteq GotIds'
    BY <1>10, <1>18, <1>20, <2>1
  <2> QED BY <2>2 DEF PagesAreComplete, GotIds
<1> QED BY <1>16, <1>21, <1>22

\* A section ends: its records are there, and its page is delivered.
LEMMA PagingCommit ==
    ASSUME TenancyInv, PagingInv, NEW p \in Proc, Commit(p)
    PROVE  PagingInv'
<1>1. /\ proc[p].op # None /\ proc[p].next > Len(Section(p)) /\ InTransaction(p)
      /\ \E c \in ConnOf(p) : conn' = Returned(c)
      /\ audit \subseteq audit'
      /\ paging' = IF proc[p].op = "page" /\ InLastSection(p) THEN Delivered(proc[p].page)
                                                               ELSE paging
      /\ proc' = [proc EXCEPT ![p] = IF InLastSection(p) THEN Idle ELSE InNextSection(p)]
  BY DEF Commit, InTransaction
<1>2. Begins(p) /\ \A q \in Proc : q # p => proc'[q] = proc[q]
  BY CommitStep
<1>3. \A q \in Proc, c \in Conn : q # p /\ c \in ConnOf(q) => conn'[c] = conn[c]
  BY <1>1, <1>2, Release DEF TenancyInv, Begins
<1>4. proc'[p].op = "page" => proc[p].op = "page"
  <2>1. "page" # None
    BY NoneAssumption DEF Op
  <2>2. proc'[p] = (IF InLastSection(p) THEN Idle ELSE InNextSection(p)) /\ proc[p] \in RequestType
    BY <1>1 DEF TenancyInv, Types
  <2>3. InNextSection(p).op = proc[p].op
    BY <2>2 DEF InNextSection, RequestType
  <2> QED BY <2>1, <2>2, <2>3, Ended
<1>5. /\ OneReader' /\ TenantIsSet'
      /\ ~(PageRead(p))' /\ \A q \in Proc : q # p => (PageRead(q))' = PageRead(q)
  BY <1>2, <1>3, <1>4, PagingBegin
<1>6. CASE proc[p].op = "page" /\ InLastSection(p)
  <2>1. proc[p].next = Len(Section(p)) + 1
    BY <1>1, Position DEF TenancyInv, FollowsScript
  <2>2. PageRead(p)
    BY <1>1, <1>6, <2>1, Position DEF PageRead, LastWith, TenancyInv
  <2>3. CursorSplits' /\ PagesDescend' /\ PagesAreComplete'
    BY <1>1, <1>6, <2>2, PageDelivered
  <2>4. \A q \in Proc : ~(PageRead(q))'
    BY <1>5, <1>6 DEF PageRead, OneReader, PagingInv
  <2>5. PageCovers'
    BY <2>4 DEF PageCovers
  <2> QED BY <1>5, <2>3, <2>5 DEF PagingInv
<1>7. CASE ~(proc[p].op = "page" /\ InLastSection(p))
  <2>1. \A q \in Proc : (PageRead(q))' => PageRead(q) /\ proc'[q] = proc[q]
    BY <1>2, <1>5
  <2>2. UNCHANGED paging
    BY <1>1, <1>7
  <2>3. CursorSplits' /\ PageCovers' /\ PagesDescend' /\ PagesAreComplete'
    BY <1>1, <2>1, <2>2, PagingKept
  <2> QED BY <1>5, <2>3 DEF PagingInv
<1> QED BY <1>6, <1>7

\* A request that starts or fails leaves the reading where it is.
LEMMA PagingStartFail ==
    ASSUME TenancyInv, PagingInv, NEW p \in Proc, Start(p) \/ Fail(p)
    PROVE  PagingInv'
<1>1. Begins(p) /\ (\A q \in Proc : q # p => proc'[q] = proc[q]) /\ UNCHANGED <<audit, paging>>
  BY StartStep, FailStep DEF Start, Fail
<1>2. \A q \in Proc, c \in Conn : q # p /\ c \in ConnOf(q) => conn'[c] = conn[c]
  <2>1. CASE Start(p)
    BY <2>1 DEF Start
  <2>2. CASE Fail(p)
    BY <1>1, <2>2, Release DEF Fail, TenancyInv, Begins
  <2> QED BY <2>1, <2>2
<1>3. proc'[p].op = "page" => proc[p].op = "page" \/ \A q \in Proc : proc[q].op # "page"
  <2>1. CASE Start(p)
    <3>1. PICK r \in Requests :
             /\ r.op = "page" => \A q \in Proc : proc[q].op # "page"
             /\ \E m \in Membership, v \in IF r.op = "update" THEN BOOLEAN ELSE {None} :
                   /\ m.account = r.account
                   /\ proc' = [proc EXCEPT ![p] = [Idle EXCEPT !.op = r.op, !.account = r.account,
                                                               !.user = m.user, !.input = v]]
      BY <2>1 DEF Start
    <3>2. PICK m \in Membership, v \in IF r.op = "update" THEN BOOLEAN ELSE {None} :
             proc' = [proc EXCEPT ![p] = [Idle EXCEPT !.op = r.op, !.account = r.account,
                                                       !.user = m.user, !.input = v]]
      BY <3>1
    <3>3. proc'[p].op = r.op
      BY <3>2 DEF TenancyInv, Types, Idle
    <3> QED BY <3>1, <3>3
  <2>2. CASE Fail(p)
    <3>1. proc'[p] = Idle /\ "page" # None
      BY <2>2, NoneAssumption DEF Fail, TenancyInv, Types, Op
    <3> QED BY <3>1, Ended
  <2> QED BY <2>1, <2>2
<1>4. /\ OneReader' /\ TenantIsSet'
      /\ ~(PageRead(p))' /\ \A q \in Proc : q # p => (PageRead(q))' = PageRead(q)
  BY <1>1, <1>2, <1>3, PagingBegin
<1>5. \A q \in Proc : (PageRead(q))' => PageRead(q) /\ proc'[q] = proc[q]
  BY <1>1, <1>4
<1>6. CursorSplits' /\ PageCovers' /\ PagesDescend' /\ PagesAreComplete'
  BY <1>1, <1>5, PagingKept
<1> QED BY <1>4, <1>6 DEF PagingInv

\* So does one that takes a connection.
LEMMA PagingAcquire ==
    ASSUME TenancyInv, PagingInv, NEW p \in Proc, Acquire(p)
    PROVE  PagingInv'
<1>1. PICK c \in Conn : conn[c].holder = None /\ conn' = [conn EXCEPT ![c].holder = p]
  BY DEF Acquire
<1>2. /\ UNCHANGED <<audit, paging>>
      /\ \A q \in Proc : q # p => proc'[q] = proc[q]
      /\ proc'[p].op = proc[p].op
      /\ proc'[p].op = "page" => ~(LastWith(p, 0))' /\ ~(LastWith(p, 1))'
  BY AcquireStep DEF Acquire
<1>3. \A d \in Conn : conn[d].holder # None => conn'[d] = conn[d]
  BY <1>1 DEF TenancyInv, Types
<1>4. \A q \in Proc : q # p =>
         (Section(q))' = Section(q) /\ (InLastSection(q))' = InLastSection(q)
  BY <1>2 DEF Section, InLastSection
<1>5. \A q \in Proc : q # p =>
         (LastWith(q, 0))' = LastWith(q, 0) /\ (LastWith(q, 1))' = LastWith(q, 1)
  BY <1>2, <1>4 DEF LastWith
<1>6. \A q \in Proc : (PageRead(q))' => PageRead(q) /\ proc'[q] = proc[q]
  BY <1>2, <1>5 DEF PageRead
<1>7. CursorSplits' /\ PageCovers' /\ PagesDescend' /\ PagesAreComplete'
  BY <1>2, <1>6, PagingKept
<1>8. TenantIsSet'
  <2> SUFFICES ASSUME NEW q \in Proc, proc'[q].op = "page", (LastWith(q, 1))'
               PROVE  \E d \in (ConnOf(q))' : conn'[d].account = Audited
    BY DEF TenantIsSet
  <2>1. q # p /\ proc[q].op = "page" /\ LastWith(q, 1)
    BY <1>2, <1>5
  <2>2. PICK d \in ConnOf(q) : conn[d].account = Audited
    BY <2>1 DEF TenantIsSet, PagingInv
  <2>3. d \in Conn /\ conn[d].holder = q /\ conn'[d] = conn[d]
    BY <1>3, <2>2, NoneAssumption DEF ConnOf
  <2> QED BY <2>2, <2>3 DEF ConnOf
<1>9. OneReader'
  BY <1>2 DEF OneReader, PagingInv
<1> QED BY <1>7, <1>8, <1>9 DEF PagingInv

\* So do the statements other than the page's own.
LEMMA PagingExecute ==
    ASSUME TenancyInv, PagingInv, NEW p \in Proc,
           \/ SetAccount(p) \/ SetUser(p) \/ ReadSession(p) \/ ReadPermissions(p)
           \/ ReadMemberships(p) \/ ReadOwnRole(p) \/ ListMembers(p) \/ RecordAudit(p) \/ Update(p)
    PROVE  PagingInv'
<1>1. Advances(p) /\ UNCHANGED <<paging, audit>>
  <2>1. Advances(p)
    BY SettingStep, ReadingStep, RecordStep, UpdateStep
  <2>2. UNCHANGED <<paging, audit>>
    BY DEF SetAccount, SetUser, ReadSession, ReadPermissions, ReadMemberships, ReadOwnRole,
           ListMembers, RecordAudit, Update, Reads
  <2> QED BY <2>1, <2>2
<1>2. CASE SetAccount(p) \/ SetUser(p)
  <2>1. PICK c \in ConnOf(p) : \/ conn' = [conn EXCEPT ![c].account = proc[p].account]
                               \/ conn' = [conn EXCEPT ![c].user = proc[p].user]
    BY <1>2 DEF SetAccount, SetUser
  <2>2. c \in Conn /\ conn[c].holder = p /\ \A d \in Conn : d # c => conn'[d] = conn[d]
    BY <2>1 DEF ConnOf, TenancyInv, Types
  <2>3. \A q \in Proc, d \in Conn : q # p /\ d \in ConnOf(q) => conn'[d] = conn[d]
    BY <2>2 DEF ConnOf
  <2>4. CASE SetAccount(p)
    <3>1. PICK d \in ConnOf(p) : conn' = [conn EXCEPT ![d].account = proc[p].account]
      BY <2>4 DEF SetAccount
    <3>2. conn'[d].account = proc[p].account
      BY <3>1 DEF ConnOf, TenancyInv, Types, ConnType
    <3>3. At(p, "setAccount")
      BY <2>4 DEF SetAccount
    <3> QED BY <1>1, <2>3, <3>1, <3>2, <3>3, PagingStatement
  <2>5. CASE SetUser(p)
    <3>1. At(p, "setUser")
      BY <2>5 DEF SetUser
    <3> QED BY <1>1, <2>3, <3>1, PagingStatement
  <2> QED BY <1>2, <2>4, <2>5
<1>3. CASE ~(SetAccount(p) \/ SetUser(p))
  <2>1. UNCHANGED conn
    BY <1>3 DEF ReadSession, ReadPermissions, ReadMemberships, ReadOwnRole,
                ListMembers, RecordAudit, Update, Reads
  <2>2. PICK st \in {"session", "permissions", "memberships", "own", "members", "audit", "update"} :
           At(p, st)
    BY <1>3 DEF ReadSession, ReadPermissions, ReadMemberships, ReadOwnRole,
                ListMembers, RecordAudit, Update, Reads
  <2> QED BY <1>1, <2>1, <2>2, PagingStatement
<1> QED BY <1>2, <1>3

\* Time, and the end of the process, leave the reading where it is.
LEMMA PagingServer ==
    ASSUME TenancyInv, PagingInv, Tick \/ Kill \/ UNCHANGED vars
    PROVE  PagingInv'
<1>1. CASE Tick \/ UNCHANGED vars
  <2>1. UNCHANGED <<conn, proc, audit, paging>>
    BY <1>1 DEF Tick, vars
  <2>2. \A q \in Proc : (Section(q))' = Section(q) /\ (InLastSection(q))' = InLastSection(q)
                        /\ (ConnOf(q))' = ConnOf(q)
    BY <2>1 DEF Section, InLastSection, ConnOf
  <2>3. \A q \in Proc : (LastWith(q, 0))' = LastWith(q, 0) /\ (LastWith(q, 1))' = LastWith(q, 1)
    BY <2>1, <2>2 DEF LastWith
  <2>4. \A q \in Proc : (PageRead(q))' => PageRead(q) /\ proc'[q] = proc[q]
    BY <2>1, <2>3 DEF PageRead
  <2>5. CursorSplits' /\ PageCovers' /\ PagesDescend' /\ PagesAreComplete'
    BY <2>1, <2>4, PagingKept
  <2>6. TenantIsSet'
    BY <2>1, <2>2, <2>3 DEF TenantIsSet, PagingInv
  <2>7. OneReader'
    BY <2>1 DEF OneReader, PagingInv
  <2> QED BY <2>5, <2>6, <2>7 DEF PagingInv
<1>2. CASE Kill
  <2>1. (\A q \in Proc : proc'[q] = Idle) /\ UNCHANGED <<audit, paging>> /\ "page" # None
    BY <1>2, NoneAssumption DEF Kill, Op
  <2>2. \A q \in Proc : proc'[q].op # "page"
    BY <2>1, Ended
  <2>3. \A q \in Proc : (PageRead(q))' => PageRead(q) /\ proc'[q] = proc[q]
    BY <2>2 DEF PageRead
  <2>4. CursorSplits' /\ PageCovers' /\ PagesDescend' /\ PagesAreComplete'
    BY <2>1, <2>3, PagingKept
  <2>5. TenantIsSet' /\ OneReader'
    BY <2>2 DEF TenantIsSet, OneReader
  <2> QED BY <2>4, <2>5 DEF PagingInv
<1> QED BY <1>1, <1>2

\* What has been read and what is still owed add up to what was there.
THEOREM PagingInvariant == Spec => []PagingInv
<1>1. Init => PagingInv
  <2> SUFFICES ASSUME Init PROVE PagingInv
    OBVIOUS
  <2>1. /\ \A p \in Proc : proc[p].op # "page"
        /\ paging = [before |-> None, got |-> <<>>, done |-> FALSE, from |-> {}]
    BY Ended, NoneAssumption DEF Init, Op
  <2>2. <<>> \in Seq(Nat) /\ Len(<<>>) = 0
    OBVIOUS
  <2>3. CursorSplits
    BY <2>1, <2>2 DEF CursorSplits
  <2>4. PagesDescend /\ PagesAreComplete
    BY <2>1, <2>2 DEF PagesDescend, PagesAreComplete
  <2>5. OneReader /\ TenantIsSet /\ PageCovers
    BY <2>1 DEF OneReader, TenantIsSet, PageCovers, PageRead
  <2> QED BY <2>3, <2>4, <2>5 DEF PagingInv
<1>2. TenancyInv /\ PagingInv /\ [Next]_vars => PagingInv'
  <2> SUFFICES ASSUME TenancyInv, PagingInv, [Next]_vars PROVE PagingInv'
    OBVIOUS
  <2>1. ASSUME NEW p \in Proc, Execute(p) \/ Update(p) PROVE PagingInv'
    BY <2>1, PagingExecute, PagingRead, PagingCommit DEF Execute
  <2>2. ASSUME NEW p \in Proc, Start(p) \/ Acquire(p) \/ Fail(p) PROVE PagingInv'
    BY <2>2, PagingStartFail, PagingAcquire
  <2> QED BY <2>1, <2>2, PagingServer DEF Next
<1> QED BY <1>1, <1>2, TenancyInvariant, PTL DEF Spec

\* No record comes twice, and they come newest first.
THEOREM PagesComeOnce == Spec => []PagesDescend
<1>1. PagingInv => PagesDescend
  BY DEF PagingInv
<1> QED BY <1>1, PagingInvariant, PTL

\* At the end the reader has every record that was there when the reading began.
THEOREM PagesMissNothing == Spec => []PagesAreComplete
<1>1. PagingInv => PagesAreComplete
  BY DEF PagingInv
<1> QED BY <1>1, PagingInvariant, PTL
=============================================================================
