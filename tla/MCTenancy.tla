------------------------------ MODULE MCTenancy ------------------------------
(* Instances of Tenancy for TLC: user u is in both accounts, v only in b.     *)
EXTENDS Tenancy, TLC

CONSTANTS a, b, u, v

TwoTenants ==
    {[user |-> u, account |-> a], [user |-> u, account |-> b], [user |-> v, account |-> b]}

Mixed ==
    {[op |-> op, account |-> a] : op \in {"update", "page", "members", "me", "login"}}
        \cup {[op |-> op, account |-> b] : op \in {"login", "refused"}}

\* Three ids, of which two are of one millisecond.
TwoAtOnce == <<0, 0, 1>>

Working(ops) == {p \in Proc : proc[p].op \in ops}
Elsewhere(p) == proc[p].account = b
AtWork(p) == proc[p].op # None
HasBegun(p) == AtWork(p) /\ proc[p].next # 0
HasWritten(p) == proc[p].value # None \/ proc[p].row # None

\* The states TLC looks at.  Three requests at once, updates and logins only, and the
\* requests that have nothing to do with the log, meet while the log is empty: for
\* the pool and the row lock that makes no difference.  A record that nobody in
\* account a may see is made beside its readers, and only one.  While a reading goes
\* on one other request is at work, and if that is an update, what it sets makes no
\* difference to the reader; a reading that has come to the end is the last: the
\* next one would begin like the first.  Once there is a log, or somebody who reads it,
\* requests authenticate one after the other, and beside a last section only if that
\* has a lock or an id: nothing else they do there makes a difference to the other.
Small ==
    /\ Cardinality(Working(Op)) = 3 => Working(Op \ {"update", "login"}) = {}
    /\ Cardinality(Working(Op)) = 3 \/ Working({"members", "me"}) # {} =>
          audit = {} /\ clock = 0 /\ paging.got = <<>>
    /\ \A p \in Proc : Elsewhere(p) =>
          /\ proc[p].user = u
          /\ \A q \in Proc \ {p} : proc[q].op \in {"page", None}
    /\ Cardinality({r \in audit : r.account # a}) <= 1
    /\ paging.before # None => Cardinality(Working(Op \ {"page"})) <= 1
    /\ paging.before # None \/ Working({"page"}) # {} => \A p \in Proc : proc[p].input # FALSE
    /\ paging.done => Working(Op) = {}
    /\ audit # {} \/ Working({"page"}) # {} =>
          \A p, q \in Proc : p # q /\ AtWork(p) /\ ~InLastSection(p) /\ AtWork(q) =>
              InLastSection(q) /\ (HasBegun(p) /\ HasBegun(q) => HasWritten(q))

\* Spec, as far as those states go.
SmallSpec == Init /\ [][Next /\ Small']_vars

Symmetry == Permutations(Proc) \cup Permutations(Conn)
=============================================================================
