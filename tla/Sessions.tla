------------------------------- MODULE Sessions -------------------------------
(* packages/core/src/modules/identity/application/sessions.ts and the parts   *)
(* of members.ts and login.ts that write the sessions table.                  *)
(*                                                                            *)
(* Every action is one SQL statement or one commit of PostgreSQL at READ      *)
(* COMMITTED; requests interleave between them.  Two rules of the database    *)
(* matter: a statement works on the rows committed when it starts, and an     *)
(* UPDATE that meets a row locked by an open transaction waits for it and     *)
(* then looks at its WHERE clause again on that row only.                     *)

CONSTANTS
    Proc,       \* requests being served at the same time
    Family,     \* values of sessions.family_id
    Row,        \* rows of sessions; one refresh token each (refresh_hash is unique)
    User,
    Account,
    Factor,     \* subset of BOOLEAN: logins without and with a second factor
    NoFamily,
    NoRow,
    NoOne       \* neither a user nor an account

ASSUME NullAssumption == NoFamily \notin Family /\ NoRow \notin Row
ASSUME FactorAssumption == Factor \subseteq BOOLEAN

VARIABLES
    sessions,   \* the committed rows of table sessions
    members,    \* the pairs <<user, account>> of account_users
    disabled,   \* users with disabled_at set
    expired,    \* rows whose expires_at has passed
    reuseAudit, \* rows audited as session.refresh_reuse_detected
    fate,       \* history: what the revocations of each family have achieved
    proc        \* what each request is doing

vars == <<sessions, members, disabled, expired, reuseAudit, fate, proc>>

-----------------------------------------------------------------------------
(* Data *)

Holder == [user : User, account : Account, mfa : BOOLEAN]
Nobody == [user |-> NoOne, account |-> NoOne, mfa |-> FALSE]

SessionRow ==
    [state : {"absent", "live", "revoked"}, fam : Family \cup {NoFamily},
     holder : Holder \cup {Nobody}, replacedBy : Row \cup {NoRow}]

AbsentRow ==
    [state |-> "absent", fam |-> NoFamily, holder |-> Nobody, replacedBy |-> NoRow]

LiveRow(f, h) ==
    [state |-> "live", fam |-> f, holder |-> h, replacedBy |-> NoRow]

\* A request waits at pc; the other fields are the local variables of the handler.
PC == {"idle", "login", "checked", "member", "permitted", "claimed",
       "active", "authenticated", "revoke", "revoking", "audit"}
Reason == {"none", "reuse", "denied", "logout", "one", "all", "removed"}

Request ==
    [pc : PC, row : Row \cup {NoRow}, next : Row \cup {NoRow},
     fam : Family \cup {NoFamily}, who : Holder \cup {Nobody}, why : Reason,
     scope : SUBSET Family,
     targets : SUBSET Row,      \* live rows the revocation's snapshot found
     locked : SUBSET Row]       \* those of them it has locked so far

Idle ==
    [pc |-> "idle", row |-> NoRow, next |-> NoRow, fam |-> NoFamily, who |-> Nobody,
     why |-> "none", scope |-> {}, targets |-> {}, locked |-> {}]

At(p, label) == proc[p].pc = label
Become(p, request) == proc' = [proc EXCEPT ![p] = request]
Finish(p) == Become(p, Idle)

RowsOf(f) == {r \in Row : sessions[r].state # "absent" /\ sessions[r].fam = f}
LiveRows(f) == {r \in RowsOf(f) : sessions[r].state = "live"}
Opened(f) == RowsOf(f) # {}
IsMember(h) == <<h.user, h.account>> \in members

\* The row locks of open transactions: an uncommitted rotation holds its row, a
\* revocation the rows it has come to.
HoldsRow(q, r) ==
    \/ At(q, "claimed") /\ proc[q].row = r
    \/ At(q, "revoking") /\ r \in proc[q].locked
LockedByNobody(r) == FALSE   \* mutant: the claim is not made in the rotation's transaction
Locked(r) == \E q \in Proc : HoldsRow(q, r)

\* WHERE id = row AND revoked_at IS NULL, evaluated once the row is not locked.
ClaimableWithoutIsNull(r) == ~Locked(r)   \* mutant: the condition is dropped
Claimable(r) == ~Locked(r) /\ sessions[r].state = "live"

\* uuidv7(): an id no committed row and no open transaction has.
UnusedRow(r) ==
    /\ sessions[r].state = "absent"
    /\ \A q \in Proc : At(q, "claimed") => proc[q].next # r

-----------------------------------------------------------------------------
(* Login: credentials accepted, later the session row is inserted *)

\* login / completeMfaLogin: the membership and the user are read here, once.
AcceptLogin(p, h) ==
    /\ At(p, "idle")
    /\ h.mfa \in Factor
    /\ IsMember(h)
    /\ h.user \notin disabled
    /\ Become(p, [Idle EXCEPT !.pc = "login", !.who = h])
    /\ UNCHANGED <<sessions, members, disabled, expired, reuseAudit, fate>>

\* finishLogin -> startSession -> issueSession, its transaction committed.
StartSession(p, f, r) ==
    /\ At(p, "login")
    /\ ~Opened(f)
    /\ UnusedRow(r)
    /\ sessions' = [sessions EXCEPT ![r] = LiveRow(f, proc[p].who)]
    /\ Finish(p)
    /\ UNCHANGED <<members, disabled, expired, reuseAudit, fate>>
-----------------------------------------------------------------------------
(* refreshSession *)

\* SELECT by hash finds a row already exchanged for another one.
PresentRotated(p, t) ==
    /\ At(p, "idle")
    /\ sessions[t].state = "revoked"
    /\ sessions[t].replacedBy # NoRow
    /\ Become(p, [Idle EXCEPT !.pc = "revoke", !.why = "reuse", !.row = t,
                              !.fam = sessions[t].fam])
    /\ UNCHANGED <<sessions, members, disabled, expired, reuseAudit, fate>>

\* SELECT by hash finds a live, unexpired row.  (A row revoked for another
\* reason, or expired, ends the request with nothing changed: no action.)
PresentLive(p, t) ==
    /\ At(p, "idle")
    /\ sessions[t].state = "live"
    /\ t \notin expired
    /\ Become(p, [Idle EXCEPT !.pc = "checked", !.row = t, !.fam = sessions[t].fam,
                              !.who = sessions[t].holder])
    /\ UNCHANGED <<sessions, members, disabled, expired, reuseAudit, fate>>

Deny(p) ==
    Become(p, [Idle EXCEPT !.pc = "revoke", !.why = "denied", !.fam = proc[p].fam])

\* loadPermissions in the rotation's transaction.
LoadPermissions(p) ==
    /\ At(p, "checked")
    /\ IF IsMember(proc[p].who)
       THEN Become(p, [proc[p] EXCEPT !.pc = "member"])
       ELSE Deny(p)
    /\ UNCHANGED <<sessions, members, disabled, expired, reuseAudit, fate>>

\* The SELECT of users.disabled_at that follows.
CheckUser(p) ==
    /\ At(p, "member")
    /\ IF proc[p].who.user \notin disabled
       THEN Become(p, [proc[p] EXCEPT !.pc = "permitted"])
       ELSE Deny(p)
    /\ UNCHANGED <<sessions, members, disabled, expired, reuseAudit, fate>>

\* UPDATE ... WHERE id = row AND revoked_at IS NULL returned the row: it is
\* locked, and the replacement inserted, both unseen until the commit.
Claim(p, n) ==
    /\ At(p, "permitted")
    /\ Claimable(proc[p].row)
    /\ UnusedRow(n)
    /\ Become(p, [proc[p] EXCEPT !.pc = "claimed", !.next = n])
    /\ UNCHANGED <<sessions, members, disabled, expired, reuseAudit, fate>>

\* mutant: the rotation is tried again instead
LoseRaceRetry(p) ==
    /\ At(p, "permitted")
    /\ ~Locked(proc[p].row)
    /\ sessions[proc[p].row].state = "revoked"
    /\ Become(p, [proc[p] EXCEPT !.pc = "checked"])
    /\ UNCHANGED <<sessions, members, disabled, expired, reuseAudit, fate>>

\* The same UPDATE returned no row: "raced", handled as a reuse.
LoseRace(p) ==
    /\ At(p, "permitted")
    /\ ~Locked(proc[p].row)
    /\ sessions[proc[p].row].state = "revoked"
    /\ Become(p, [Idle EXCEPT !.pc = "revoke", !.why = "reuse", !.row = proc[p].row,
                              !.fam = proc[p].fam])
    /\ UNCHANGED <<sessions, members, disabled, expired, reuseAudit, fate>>

\* mutant: issueSession forgets mfaVerifiedAt
ReplacementWithoutFactor(p) == LiveRow(proc[p].fam, [proc[p].who EXCEPT !.mfa = FALSE])
\* The row issueSession inserts for a rotation: same family, same holder.
Replacement(p) == LiveRow(proc[p].fam, proc[p].who)

\* COMMIT: the old row is revoked and points to the new one, which appears.
CommitRotation(p) ==
    /\ At(p, "claimed")
    /\ sessions' = [sessions EXCEPT
                      ![proc[p].row].state = "revoked",
                      ![proc[p].row].replacedBy = proc[p].next,
                      ![proc[p].next] = Replacement(p)]
    /\ Finish(p)
    /\ UNCHANGED <<members, disabled, expired, reuseAudit, fate>>
-----------------------------------------------------------------------------
(* authenticate, and the handlers behind it that revoke sessions *)

\* First statement: the family has a live unexpired row and an enabled user.
AuthenticateFamily(p, f) ==
    /\ At(p, "idle")
    /\ \E r \in LiveRows(f) :
          /\ r \notin expired
          /\ sessions[r].holder.user \notin disabled
          /\ Become(p, [Idle EXCEPT !.pc = "active", !.fam = f,
                                    !.who = sessions[r].holder])
    /\ UNCHANGED <<sessions, members, disabled, expired, reuseAudit, fate>>

\* Second statement: loadPermissions decides whether the user still belongs.
AuthenticateMember(p) ==
    /\ At(p, "active")
    /\ IF IsMember(proc[p].who)
       THEN Become(p, [proc[p] EXCEPT !.pc = "authenticated"])
       ELSE Finish(p)
    /\ UNCHANGED <<sessions, members, disabled, expired, reuseAudit, fate>>

\* A handler that leaves sessions alone.
Respond(p) ==
    /\ At(p, "authenticated")
    /\ Finish(p)
    /\ UNCHANGED <<sessions, members, disabled, expired, reuseAudit, fate>>

Logout(p) ==
    /\ At(p, "authenticated")
    /\ Become(p, [Idle EXCEPT !.pc = "revoke", !.why = "logout", !.fam = proc[p].fam])
    /\ UNCHANGED <<sessions, members, disabled, expired, reuseAudit, fate>>

RevokeOwnSession(p, f) ==
    /\ At(p, "authenticated")
    /\ Become(p, [proc[p] EXCEPT !.pc = "revoke", !.why = "one", !.fam = f])
    /\ UNCHANGED <<sessions, members, disabled, expired, reuseAudit, fate>>

RevokeOwnSessions(p) ==
    /\ At(p, "authenticated")
    /\ Become(p, [proc[p] EXCEPT !.pc = "revoke", !.why = "all",
                                 !.fam = NoFamily])
    /\ UNCHANGED <<sessions, members, disabled, expired, reuseAudit, fate>>

\* removeMember: the DELETE of the membership locks it until the transaction
\* ends; who may call it, and the last Owner, are not this module's concern.
RemoveMember(p, h) ==
    /\ At(p, "idle")
    /\ h.mfa = FALSE
    /\ IsMember(h)
    /\ ~ \E q \in Proc : proc[q].why = "removed" /\ proc[q].who = h
    /\ Become(p, [Idle EXCEPT !.pc = "revoke", !.why = "removed", !.who = h])
    /\ UNCHANGED <<sessions, members, disabled, expired, reuseAudit, fate>>
-----------------------------------------------------------------------------
(* The UPDATE that revokes: revokeFamily, revokeOwnSessions, removeMember *)

\* The WHERE clause on family, user and account, per caller.
Matches(p, r) ==
    /\ sessions[r].state # "absent"
    /\ proc[p].why \in {"reuse", "denied", "logout", "one"} => sessions[r].fam = proc[p].fam
    /\ proc[p].why \in {"one", "all", "removed"} => sessions[r].holder.user = proc[p].who.user
    /\ proc[p].why = "removed" => sessions[r].holder.account = proc[p].who.account

\* The statement takes its snapshot: the live rows committed by now.
BeginRevoke(p) ==
    /\ At(p, "revoke")
    /\ Become(p, [proc[p] EXCEPT
                    !.pc = "revoking",
                    !.scope = {f \in Family : \E r \in RowsOf(f) : Matches(p, r)},
                    !.targets = {r \in Row : Matches(p, r) /\ sessions[r].state = "live"},
                    !.locked = {}])
    /\ UNCHANGED <<sessions, members, disabled, expired, reuseAudit, fate>>

\* It locks the rows it found one by one, in no order SQL would promise, and waits
\* at each for whoever has it; a row no longer live is passed over but stays locked.
LockTarget(p, r) ==
    /\ At(p, "revoking")
    /\ r \in proc[p].targets \ proc[p].locked
    /\ ~Locked(r)
    /\ Become(p, [proc[p] EXCEPT !.locked = @ \cup {r}])
    /\ UNCHANGED <<sessions, members, disabled, expired, reuseAudit, fate>>

\* A rotation committed while the statement ran took a row away from it.
Outrun(p, f) ==
    \E r \in proc[p].targets : sessions[r].fam = f /\ sessions[r].replacedBy # NoRow

\* COMMIT, of removeMember's whole transaction too: the targets that were still
\* live when they were locked are revoked.
FinishRevoke(p) ==
    /\ At(p, "revoking")
    /\ proc[p].targets \subseteq proc[p].locked
    /\ sessions' = [r \in Row |->
                      IF r \in proc[p].targets /\ sessions[r].state = "live"
                      THEN [sessions[r] EXCEPT !.state = "revoked"]
                      ELSE sessions[r]]
    /\ fate' = [f \in Family |->
                  IF f \notin proc[p].scope \/ fate[f] = "closed" THEN fate[f]
                  ELSE IF Outrun(p, f) THEN "outrun" ELSE "closed"]
    /\ members' = IF proc[p].why = "removed"
                  THEN members \ {<<proc[p].who.user, proc[p].who.account>>}
                  ELSE members
    /\ IF proc[p].why = "reuse"
       THEN Become(p, [Idle EXCEPT !.pc = "audit", !.row = proc[p].row])
       ELSE Finish(p)
    /\ UNCHANGED <<disabled, expired, reuseAudit>>

\* mutant: the record names the replacement, which there may not be
AuditReplacement(p) ==
    /\ At(p, "audit")
    /\ reuseAudit' = reuseAudit \cup {sessions[proc[p].row].replacedBy}
    /\ Finish(p)
    /\ UNCHANGED <<sessions, members, disabled, expired, fate>>

\* reuse(): the audit record is a transaction of its own, after the revocation.
AuditReuse(p) ==
    /\ At(p, "audit")
    /\ reuseAudit' = reuseAudit \cup {proc[p].row}
    /\ Finish(p)
    /\ UNCHANGED <<sessions, members, disabled, expired, fate>>
-----------------------------------------------------------------------------
(* Environment *)

\* The process or its connection dies: the open transaction rolls back.
Crash(p) ==
    /\ ~At(p, "idle")
    /\ Finish(p)
    /\ UNCHANGED <<sessions, members, disabled, expired, reuseAudit, fate>>

AddMember(u, a) ==
    /\ <<u, a>> \notin members
    /\ members' = members \cup {<<u, a>>}
    /\ UNCHANGED <<sessions, disabled, expired, reuseAudit, fate, proc>>

\* Nothing in the code sets disabled_at yet: an operator does, on the table.
DisableUser(u) ==
    /\ u \notin disabled
    /\ disabled' = disabled \cup {u}
    /\ UNCHANGED <<sessions, members, expired, reuseAudit, fate, proc>>

Expire(r) ==
    /\ sessions[r].state = "live"
    /\ r \notin expired
    /\ expired' = expired \cup {r}
    /\ UNCHANGED <<sessions, members, disabled, reuseAudit, fate, proc>>
-----------------------------------------------------------------------------
Init ==
    /\ sessions = [r \in Row |-> AbsentRow]
    /\ members = User \X Account
    /\ disabled = {}
    /\ expired = {}
    /\ reuseAudit = {}
    /\ fate = [f \in Family |-> "open"]
    /\ proc = [p \in Proc |-> Idle]

Refresh(p) ==
    \/ \E t \in Row : PresentRotated(p, t) \/ PresentLive(p, t)
    \/ LoadPermissions(p)
    \/ CheckUser(p)
    \/ \E n \in Row : Claim(p, n)
    \/ LoseRace(p)
    \/ CommitRotation(p)

Authenticated(p) ==
    \/ \E f \in Family : AuthenticateFamily(p, f) \/ RevokeOwnSession(p, f)
    \/ AuthenticateMember(p)
    \/ Respond(p)
    \/ Logout(p)
    \/ RevokeOwnSessions(p)

Revocation(p) ==
    \/ BeginRevoke(p)
    \/ \E r \in Row : LockTarget(p, r)
    \/ FinishRevoke(p)
    \/ AuditReuse(p)

Login(p) ==
    \/ \E h \in Holder : AcceptLogin(p, h)
    \/ \E f \in Family, r \in Row : StartSession(p, f, r)

Environment ==
    \/ \E u \in User, a \in Account : AddMember(u, a)
    \/ \E u \in User : DisableUser(u)
    \/ \E r \in Row : Expire(r)

Requests ==
    \/ \E p \in Proc : Login(p) \/ Refresh(p) \/ Authenticated(p) \/ Revocation(p)
    \/ \E p \in Proc, h \in Holder : RemoveMember(p, h)
    \/ \E p \in Proc : Crash(p)

Next == Requests \/ Environment

Spec == Init /\ [][Next]_vars

\* p needs a row that q has locked.
WaitsFor(p, q) ==
    \E r \in Row :
        /\ HoldsRow(q, r)
        /\ \/ At(p, "permitted") /\ proc[p].row = r
           \/ At(p, "revoking") /\ r \in proc[p].targets \ proc[p].locked

\* Requests of which each waits for another one and is waited for.
Circle(S) ==
    /\ S # {}
    /\ \A p \in S : /\ \E q \in S \ {p} : WaitsFor(p, q)
                    /\ \E q \in S \ {p} : WaitsFor(q, p)

\* PostgreSQL aborts a transaction of a deadlock: 40P01, and the request ends in
\* an error with nothing written.
BreakCircle ==
    \E S \in SUBSET Proc : Circle(S) /\ \E p \in S : Crash(p)

\* The server goes on with every request it started; PostgreSQL queues the
\* waiters of a row lock, so one that keeps being freed is obtained.
Waiting(p) ==
    \/ \E n \in Row : Claim(p, n)
    \/ LoseRace(p)
    \/ \E r \in Row : LockTarget(p, r)

Proceed(p) ==
    \/ \E f \in Family, r \in Row : StartSession(p, f, r)
    \/ LoadPermissions(p)
    \/ CheckUser(p)
    \/ CommitRotation(p)
    \/ AuthenticateMember(p)
    \/ Respond(p)
    \/ BeginRevoke(p)
    \/ FinishRevoke(p)
    \/ AuditReuse(p)

Fairness ==
    /\ \A p \in Proc : WF_vars(Proceed(p)) /\ SF_vars(Waiting(p))
    /\ WF_vars(BreakCircle)

FairSpec == Spec /\ Fairness
-----------------------------------------------------------------------------
(* Properties *)

\* Types of the tables and of the requests' local variables.
TypeOK ==
    /\ sessions \in [Row -> SessionRow]
    /\ members \subseteq User \X Account
    /\ disabled \subseteq User
    /\ expired \subseteq Row
    /\ reuseAudit \subseteq Row
    /\ fate \in [Family -> {"open", "closed", "outrun"}]
    /\ proc \in [Proc -> Request]

\* However refreshes, logouts and removals interleave, a family never has two
\* refresh tokens that both work (the conditional UPDATE of refreshSession;
\* listSessions counts on one row per family).
AtMostOneLiveRow ==
    \A f \in Family : \A r, s \in LiveRows(f) : r = s

\* A family stops having a working token exactly when some revocation caught it:
\* a rotation never drops the session on the way, and no refresh that was in
\* flight brings a caught family back.
DeadExactlyWhenClosed ==
    \A f \in Family : Opened(f) => (LiveRows(f) = {} <=> fate[f] = "closed")

\* The rotations of a family form one line: a rotated row points to a row of the
\* same family and holder, and no row is the replacement of two (claim and
\* INSERT share one transaction).
ChainIsLinear ==
    \A r \in Row :
        LET n == sessions[r].replacedBy IN
        n # NoRow =>
            /\ sessions[r].state = "revoked"
            /\ sessions[n].state # "absent"
            /\ sessions[n].fam = sessions[r].fam
            /\ sessions[n].holder = sessions[r].holder
            /\ \A s \in Row \ {r} : sessions[s].replacedBy # n

\* The model's finite supply of ids may stop a request; uuidv7 never does.  One
\* that waits for a row lock is not excused.
OutOfIds(p) ==
    /\ At(p, "login") \/ (At(p, "permitted") /\ Claimable(proc[p].row))
    /\ \/ \A r \in Row : ~UnusedRow(r)
       \/ At(p, "login") /\ \A f \in Family : Opened(f)

\* Every request ends: a refresh waiting for the row another refresh or a
\* revocation has locked, a revocation that needs the rows of several sessions,
\* and two of those in a circle, which the database breaks.
RequestsFinish ==
    \A p \in Proc : ~At(p, "idle") ~> (At(p, "idle") \/ OutOfIds(p))

\* The abstract specification the table implements: one exchangeable token per
\* family, none reborn, the holder fixed when the family is opened.
Abstract == INSTANCE TokenFamily WITH
    Token <- Row,
    NoToken <- NoRow,
    NoHolder <- Nobody,
    current <- [f \in Family |-> IF LiveRows(f) = {} THEN NoRow
                                 ELSE CHOOSE r \in LiveRows(f) : TRUE],
    spent <- {r \in Row : sessions[r].state = "revoked"},
    holder <- [f \in Family |-> IF Opened(f)
                                THEN sessions[CHOOSE r \in RowsOf(f) : TRUE].holder
                                ELSE Nobody]

\* Every statement of the code is a step of the abstract families, or none.
ImplementsTokenFamily == Abstract!Spec

\* What the comments promise of logout and of reuse detection: once the revocation
\* has ended, the family has no token that works (unless its holder left anyway).
RevocationEndsFamily ==
    \A f \in Family : fate[f] # "open" =>
        \A r \in LiveRows(f) : ~IsMember(sessions[r].holder)
=============================================================================
