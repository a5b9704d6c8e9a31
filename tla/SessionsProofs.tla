---------------------------- MODULE SessionsProofs ----------------------------
(* Proofs about Sessions, for any number of requests, families, rows, users   *)
(* and accounts.                                                              *)
EXTENDS Sessions, TLAPS

-----------------------------------------------------------------------------
(* Types *)

\* The null request is a request, and the row a login or a rotation inserts is a row.
LEMMA RecordTypes ==
    /\ Idle \in Request
    /\ AbsentRow \in SessionRow
    /\ \A f \in Family \cup {NoFamily}, h \in Holder \cup {Nobody} : LiveRow(f, h) \in SessionRow
BY DEF Idle, Request, PC, Reason, AbsentRow, LiveRow, SessionRow

\* A request that audits a reuse, or will, knows the row it was presented.
ReuseKnowsRow ==
    \A p \in Proc : At(p, "audit") \/ proc[p].why = "reuse" => proc[p].row \in Row

\* Every statement keeps the tables and the requests' local variables well typed.
LEMMA TypeStep == TypeOK /\ ReuseKnowsRow /\ [Next]_vars => TypeOK'
<1> SUFFICES ASSUME TypeOK, ReuseKnowsRow, [Next]_vars PROVE TypeOK'
  OBVIOUS
<1> USE RecordTypes DEF TypeOK, At, Become, Finish
<1>1. ASSUME NEW p \in Proc, Login(p) PROVE TypeOK'
  <2>1. ASSUME NEW h \in Holder, AcceptLogin(p, h) PROVE TypeOK'
    <3>1. [Idle EXCEPT !.pc = "login", !.who = h] \in Request
      BY DEF Idle, Request, PC, Reason
    <3> QED BY <2>1, <3>1 DEF AcceptLogin
  <2>2. ASSUME NEW f \in Family, NEW r \in Row, StartSession(p, f, r) PROVE TypeOK'
    <3>1. proc[p].who \in Holder \cup {Nobody}
      BY DEF Request
    <3> QED BY <2>2, <3>1 DEF StartSession
  <2> QED BY <1>1, <2>1, <2>2 DEF Login
<1>2. ASSUME NEW p \in Proc, Refresh(p) PROVE TypeOK'
  <2>1. ASSUME NEW t \in Row, PresentRotated(p, t) PROVE TypeOK'
    <3>1. [Idle EXCEPT !.pc = "revoke", !.why = "reuse", !.row = t, !.fam = sessions[t].fam]
            \in Request
      BY DEF Idle, Request, PC, Reason, SessionRow
    <3> QED BY <2>1, <3>1 DEF PresentRotated
  <2>2. ASSUME NEW t \in Row, PresentLive(p, t) PROVE TypeOK'
    <3>1. [Idle EXCEPT !.pc = "checked", !.row = t, !.fam = sessions[t].fam,
                       !.who = sessions[t].holder] \in Request
      BY DEF Idle, Request, PC, Reason, SessionRow
    <3> QED BY <2>2, <3>1 DEF PresentLive
  <2>3. [Idle EXCEPT !.pc = "revoke", !.why = "denied", !.fam = proc[p].fam] \in Request
    BY DEF Idle, Request, PC, Reason
  <2>4. CASE LoadPermissions(p)
    <3>1. [proc[p] EXCEPT !.pc = "member"] \in Request
      BY DEF Request, PC
    <3> QED BY <2>3, <2>4, <3>1 DEF LoadPermissions, Deny
  <2>5. CASE CheckUser(p)
    <3>1. [proc[p] EXCEPT !.pc = "permitted"] \in Request
      BY DEF Request, PC
    <3> QED BY <2>3, <2>5, <3>1 DEF CheckUser, Deny
  <2>6. ASSUME NEW n \in Row, Claim(p, n) PROVE TypeOK'
    <3>1. [proc[p] EXCEPT !.pc = "claimed", !.next = n] \in Request
      BY DEF Request, PC
    <3> QED BY <2>6, <3>1 DEF Claim
  <2>7. CASE LoseRace(p)
    <3>1. [Idle EXCEPT !.pc = "revoke", !.why = "reuse", !.row = proc[p].row,
                       !.fam = proc[p].fam] \in Request
      BY DEF Idle, Request, PC, Reason
    <3> QED BY <2>7, <3>1 DEF LoseRace
  <2>8. CASE CommitRotation(p)
    <3>1. Replacement(p) \in SessionRow
      BY DEF Replacement, Request
    <3>2. proc[p].row \in Row => sessions[proc[p].row] \in SessionRow
      OBVIOUS
    <3>3. proc[p].next \in Row \cup {NoRow}
      BY DEF Request
    <3>4. sessions' \in [Row -> SessionRow]
      BY <2>8, <3>1, <3>2, <3>3 DEF CommitRotation, SessionRow
    <3> QED BY <2>8, <3>4 DEF CommitRotation
  <2> QED BY <1>2, <2>1, <2>2, <2>4, <2>5, <2>6, <2>7, <2>8 DEF Refresh
<1>3. ASSUME NEW p \in Proc, Authenticated(p) PROVE TypeOK'
  <2>1. ASSUME NEW f \in Family, AuthenticateFamily(p, f) PROVE TypeOK'
    <3>1. PICK r \in LiveRows(f) :
            Become(p, [Idle EXCEPT !.pc = "active", !.fam = f, !.who = sessions[r].holder])
      BY <2>1 DEF AuthenticateFamily
    <3>2. [Idle EXCEPT !.pc = "active", !.fam = f, !.who = sessions[r].holder] \in Request
      BY DEF Idle, Request, PC, Reason, SessionRow, LiveRows, RowsOf
    <3> QED BY <2>1, <3>1, <3>2 DEF AuthenticateFamily
  <2>2. ASSUME NEW f \in Family, RevokeOwnSession(p, f) PROVE TypeOK'
    <3>1. [proc[p] EXCEPT !.pc = "revoke", !.why = "one", !.fam = f] \in Request
      BY DEF Request, PC, Reason
    <3> QED BY <2>2, <3>1 DEF RevokeOwnSession
  <2>3. CASE AuthenticateMember(p)
    <3>1. [proc[p] EXCEPT !.pc = "authenticated"] \in Request
      BY DEF Request, PC
    <3> QED BY <2>3, <3>1 DEF AuthenticateMember
  <2>4. CASE Respond(p)
    BY <2>4 DEF Respond
  <2>5. CASE Logout(p)
    <3>1. [Idle EXCEPT !.pc = "revoke", !.why = "logout", !.fam = proc[p].fam] \in Request
      BY DEF Idle, Request, PC, Reason
    <3> QED BY <2>5, <3>1 DEF Logout
  <2>6. CASE RevokeOwnSessions(p)
    <3>1. [proc[p] EXCEPT !.pc = "revoke", !.why = "all", !.fam = NoFamily] \in Request
      BY DEF Request, PC, Reason
    <3> QED BY <2>6, <3>1 DEF RevokeOwnSessions
  <2> QED BY <1>3, <2>1, <2>2, <2>3, <2>4, <2>5, <2>6 DEF Authenticated
<1>4. ASSUME NEW p \in Proc, Revocation(p) PROVE TypeOK'
  <2>1. CASE BeginRevoke(p)
    <3>1. [proc[p] EXCEPT
             !.pc = "revoking",
             !.scope = {f \in Family : \E r \in RowsOf(f) : Matches(p, r)},
             !.targets = {r \in Row : Matches(p, r) /\ sessions[r].state = "live"},
             !.locked = {}] \in Request
      BY DEF Request, PC
    <3> QED BY <2>1, <3>1 DEF BeginRevoke
  <2>4. ASSUME NEW r \in Row, LockTarget(p, r) PROVE TypeOK'
    <3>1. [proc[p] EXCEPT !.locked = @ \cup {r}] \in Request
      BY DEF Request
    <3> QED BY <2>4, <3>1 DEF LockTarget
  <2>2. CASE FinishRevoke(p)
    <3>1. [Idle EXCEPT !.pc = "audit", !.row = proc[p].row] \in Request
      BY DEF Idle, Request, PC, Reason
    <3>2. proc' \in [Proc -> Request]
      BY <2>2, <3>1 DEF FinishRevoke
    <3>3. sessions' \in [Row -> SessionRow]
      BY <2>2 DEF FinishRevoke, SessionRow
    <3>4. fate' \in [Family -> {"open", "closed", "outrun"}]
      BY <2>2 DEF FinishRevoke
    <3> QED BY <2>2, <3>2, <3>3, <3>4 DEF FinishRevoke
  <2>3. CASE AuditReuse(p)
    <3>1. proc[p].row \in Row
      BY <2>3 DEF AuditReuse, ReuseKnowsRow
    <3> QED BY <2>3, <3>1 DEF AuditReuse
  <2> QED BY <1>4, <2>1, <2>2, <2>3, <2>4 DEF Revocation
<1>5. ASSUME NEW p \in Proc, NEW h \in Holder, RemoveMember(p, h) PROVE TypeOK'
  <2>1. [Idle EXCEPT !.pc = "revoke", !.why = "removed", !.who = h] \in Request
    BY DEF Idle, Request, PC, Reason
  <2> QED BY <1>5, <2>1 DEF RemoveMember
<1>6. ASSUME NEW p \in Proc, Crash(p) PROVE TypeOK'
  BY <1>6 DEF Crash
<1>7. CASE Environment
  <2>1. ASSUME NEW u \in User, NEW a \in Account, AddMember(u, a) PROVE TypeOK'
    BY <2>1 DEF AddMember
  <2>2. ASSUME NEW u \in User, DisableUser(u) PROVE TypeOK'
    BY <2>2 DEF DisableUser
  <2>3. ASSUME NEW r \in Row, Expire(r) PROVE TypeOK'
    BY <2>3 DEF Expire
  <2> QED BY <1>7, <2>1, <2>2, <2>3 DEF Environment
<1>8. CASE UNCHANGED vars
  BY <1>8 DEF vars
<1> QED BY <1>1, <1>2, <1>3, <1>4, <1>5, <1>6, <1>7, <1>8 DEF Next, Requests
-----------------------------------------------------------------------------
(* At most one live row per family *)

Rotating == {"checked", "member", "permitted", "claimed"}

\* A refresh works on a committed row, whose family and holder it remembers.
RefreshKnowsRow(request) ==
    request.pc \in Rotating =>
        /\ request.row \in Row
        /\ sessions[request.row].state # "absent"
        /\ sessions[request.row].fam = request.fam
        /\ sessions[request.row].holder = request.who
RefreshesKnowRow == \A p \in Proc : RefreshKnowsRow(proc[p])

\* An open rotation holds a live row and an unused id, both for itself.
Holds(p) ==
    /\ proc[p].next \in Row
    /\ sessions[proc[p].row].state = "live"
    /\ sessions[proc[p].next].state = "absent"
Apart(p, q) == proc[p].row # proc[q].row /\ proc[p].next # proc[q].next
ClaimsAreExclusive ==
    \A p \in Proc : At(p, "claimed") =>
        Holds(p) /\ \A q \in Proc \ {p} : At(q, "claimed") => Apart(p, q)

\* A row is not locked by a revocation and by an open rotation at once.
LocksApart ==
    \A p, q \in Proc :
        At(p, "revoking") /\ At(q, "claimed") => proc[q].row \notin proc[p].locked

\* The inductive invariant.  AtMostOneLiveRow alone is not inductive: a commit
\* must know that the row it replaces is live and nobody else is replacing it.
RotationInv ==
    /\ TypeOK
    /\ ReuseKnowsRow
    /\ RefreshesKnowRow
    /\ ClaimsAreExclusive
    /\ LocksApart
    /\ AtMostOneLiveRow

\* A step that writes no session row and leaves its request outside a rotation's
\* commit keeps the invariant, if the request knows its row.
LEMMA RequestStep ==
    ASSUME RotationInv, TypeOK', NEW p \in Proc, NEW request \in Request,
           Become(p, request), UNCHANGED sessions,
           request.pc # "claimed",
           request.pc = "revoking" =>
              \A q \in Proc \ {p} : At(q, "claimed") => proc[q].row \notin request.locked,
           RefreshKnowsRow(request),
           request.pc = "audit" \/ request.why = "reuse" => request.row \in Row
    PROVE  RotationInv'
<1>1. \A q \in Proc : proc'[q] = IF q = p THEN request ELSE proc[q]
  BY DEF Become, RotationInv, TypeOK
<1>2. ReuseKnowsRow'
  BY <1>1 DEF RotationInv, ReuseKnowsRow, At
<1>3. RefreshesKnowRow'
  BY <1>1 DEF RotationInv, RefreshesKnowRow, RefreshKnowsRow
<1>4. ClaimsAreExclusive'
  BY <1>1 DEF RotationInv, ClaimsAreExclusive, Holds, Apart, At
<1>5. AtMostOneLiveRow'
  BY DEF RotationInv, AtMostOneLiveRow, LiveRows, RowsOf
<1>6. LocksApart'
  BY <1>1 DEF RotationInv, LocksApart, At
<1> QED BY <1>2, <1>3, <1>4, <1>5, <1>6 DEF RotationInv

\* Ending a request is such a step.
LEMMA FinishStep ==
    ASSUME RotationInv, TypeOK', NEW p \in Proc, Finish(p), UNCHANGED sessions
    PROVE  RotationInv'
<1>1. /\ Idle \in Request /\ Idle.pc = "idle" /\ Idle.why = "none"
      /\ Idle.pc # "claimed" /\ Idle.pc # "revoking" /\ Idle.pc # "audit" /\ Idle.why # "reuse"
  BY RecordTypes DEF Idle
<1>2. RefreshKnowsRow(Idle)
  BY <1>1 DEF RefreshKnowsRow, Rotating
<1> QED BY <1>1, <1>2, RequestStep DEF Finish

\* Every statement keeps the invariant.
LEMMA RotationStep == RotationInv /\ [Next]_vars => RotationInv'
<1> SUFFICES ASSUME RotationInv, [Next]_vars PROVE RotationInv'
  OBVIOUS
<1>0. TypeOK /\ TypeOK'
  BY TypeStep DEF RotationInv
<1>1. ASSUME NEW p \in Proc, Login(p) PROVE RotationInv'
  <2>1. ASSUME NEW h \in Holder, AcceptLogin(p, h) PROVE RotationInv'
    <3> DEFINE request == [Idle EXCEPT !.pc = "login", !.who = h]
    <3>1. request \in Request /\ request.pc = "login" /\ request.why = "none"
      BY DEF Idle, Request, PC, Reason
    <3>2. RefreshKnowsRow(request)
      BY <3>1 DEF RefreshKnowsRow, Rotating
    <3>3. Become(p, request) /\ UNCHANGED sessions
      BY <2>1 DEF AcceptLogin
    <3> HIDE DEF request
    <3> QED BY <1>0, <3>1, <3>2, <3>3, RequestStep
  <2>2. ASSUME NEW f \in Family, NEW r \in Row, StartSession(p, f, r) PROVE RotationInv'
    <3>1. /\ ~Opened(f) /\ UnusedRow(r)
          /\ sessions' = [sessions EXCEPT ![r] = LiveRow(f, proc[p].who)]
          /\ proc' = [proc EXCEPT ![p] = Idle]
      BY <2>2 DEF StartSession, Finish, Become
    <3>2. \A s \in Row : sessions'[s] = IF s = r THEN LiveRow(f, proc[p].who) ELSE sessions[s]
      BY <1>0, <3>1 DEF TypeOK
    <3>3. \A q \in Proc : proc'[q] = IF q = p THEN Idle ELSE proc[q]
      BY <1>0, <3>1 DEF TypeOK
    <3>4. sessions[r].state = "absent"
      BY <3>1 DEF UnusedRow
    <3>5. ReuseKnowsRow'
      BY <3>3 DEF RotationInv, ReuseKnowsRow, At, Idle
    <3>6. RefreshesKnowRow'
      BY <3>2, <3>3, <3>4 DEF RotationInv, RefreshesKnowRow, RefreshKnowsRow, Rotating, Idle
    <3>7. ClaimsAreExclusive'
      <4> SUFFICES ASSUME NEW q \in Proc, At(q, "claimed")'
                   PROVE  Holds(q)' /\ \A x \in Proc \ {q} : At(x, "claimed")' => Apart(q, x)'
        BY DEF ClaimsAreExclusive
      <4>1. q # p /\ At(q, "claimed") /\ proc'[q] = proc[q]
        BY <3>3 DEF At, Idle
      <4>2. Holds(q) /\ proc[q].next # r /\ proc[q].row # r
        BY <3>1, <3>4, <4>1 DEF RotationInv, ClaimsAreExclusive, UnusedRow, Holds
      <4>3. proc[q].row \in Row
        BY <4>1 DEF RotationInv, RefreshesKnowRow, RefreshKnowsRow, Rotating, At
      <4>4. Holds(q)'
        BY <3>2, <4>1, <4>2, <4>3 DEF Holds
      <4>5. ASSUME NEW x \in Proc \ {q}, At(x, "claimed")' PROVE Apart(q, x)'
        BY <3>3, <4>1, <4>5 DEF RotationInv, ClaimsAreExclusive, Apart, At, Idle
      <4> QED BY <4>4, <4>5
    <3>8. AtMostOneLiveRow'
      <4>1. LiveRow(f, proc[p].who).state = "live" /\ LiveRow(f, proc[p].who).fam = f
        BY DEF LiveRow
      <4>2. \A s \in Row : ~(sessions[s].state = "live" /\ sessions[s].fam = f)
        BY <3>1 DEF Opened, RowsOf
      <4> QED BY <3>2, <4>1, <4>2 DEF RotationInv, AtMostOneLiveRow, LiveRows, RowsOf
    <3>9. LocksApart'
      BY <3>3 DEF RotationInv, LocksApart, At, Idle
    <3> QED BY <1>0, <3>5, <3>6, <3>7, <3>8, <3>9 DEF RotationInv
  <2> QED BY <1>1, <2>1, <2>2 DEF Login
<1>2. ASSUME NEW p \in Proc, Refresh(p) PROVE RotationInv'
  <2>0. proc[p] \in Request
    BY <1>0 DEF TypeOK
  <2>1. ASSUME NEW t \in Row, PresentRotated(p, t) PROVE RotationInv'
    <3> DEFINE request == [Idle EXCEPT !.pc = "revoke", !.why = "reuse", !.row = t,
                                       !.fam = sessions[t].fam]
    <3>1. request \in Request /\ request.pc = "revoke" /\ request.row = t
      BY <1>0 DEF TypeOK, SessionRow, Idle, Request, PC, Reason
    <3>2. RefreshKnowsRow(request)
      BY <3>1 DEF RefreshKnowsRow, Rotating
    <3>3. Become(p, request) /\ UNCHANGED sessions
      BY <2>1 DEF PresentRotated
    <3> HIDE DEF request
    <3> QED BY <1>0, <3>1, <3>2, <3>3, RequestStep
  <2>2. ASSUME NEW t \in Row, PresentLive(p, t) PROVE RotationInv'
    <3> DEFINE request == [Idle EXCEPT !.pc = "checked", !.row = t, !.fam = sessions[t].fam,
                                       !.who = sessions[t].holder]
    <3>1. /\ request \in Request /\ request.pc = "checked" /\ request.row = t
          /\ request.fam = sessions[t].fam /\ request.who = sessions[t].holder
      BY <1>0 DEF TypeOK, SessionRow, Idle, Request, PC, Reason
    <3>2. Become(p, request) /\ UNCHANGED sessions /\ sessions[t].state = "live"
      BY <2>2 DEF PresentLive
    <3>3. RefreshKnowsRow(request)
      BY <3>1, <3>2 DEF RefreshKnowsRow
    <3> HIDE DEF request
    <3> QED BY <1>0, <3>1, <3>2, <3>3, RequestStep
  <2>3. ASSUME Deny(p), UNCHANGED sessions PROVE RotationInv'
    <3> DEFINE request == [Idle EXCEPT !.pc = "revoke", !.why = "denied", !.fam = proc[p].fam]
    <3>1. request \in Request /\ request.pc = "revoke" /\ request.why = "denied"
      BY <2>0 DEF Idle, Request, PC, Reason
    <3>2. RefreshKnowsRow(request)
      BY <3>1 DEF RefreshKnowsRow, Rotating
    <3>3. Become(p, request)
      BY <2>3 DEF Deny
    <3> HIDE DEF request
    <3> QED BY <1>0, <2>3, <3>1, <3>2, <3>3, RequestStep
  <2>4. ASSUME NEW label \in Rotating \ {"claimed"}, At(p, "checked") \/ At(p, "member"),
               Become(p, [proc[p] EXCEPT !.pc = label]), UNCHANGED sessions
        PROVE  RotationInv'
    <3> DEFINE request == [proc[p] EXCEPT !.pc = label]
    <3>1. /\ request \in Request /\ request.pc = label /\ request.row = proc[p].row
          /\ request.fam = proc[p].fam /\ request.who = proc[p].who
          /\ request.why = proc[p].why
      BY <2>0 DEF Request, PC, Rotating
    <3>2. RefreshKnowsRow(request)
      BY <2>4, <3>1 DEF RotationInv, RefreshesKnowRow, RefreshKnowsRow, Rotating, At
    <3>3. request.pc # "claimed" /\ request.pc # "audit" /\ request.pc # "revoking"
      BY <2>4, <3>1 DEF Rotating
    <3>4. request.why = "reuse" => request.row \in Row
      BY <3>1 DEF RotationInv, ReuseKnowsRow
    <3>5. Become(p, request)
      BY <2>4
    <3> HIDE DEF request
    <3> QED BY <1>0, <2>4, <3>1, <3>2, <3>3, <3>4, <3>5, RequestStep
  <2>5. CASE LoadPermissions(p)
    <3>1. Deny(p) \/ Become(p, [proc[p] EXCEPT !.pc = "member"])
      BY <2>5 DEF LoadPermissions
    <3>2. At(p, "checked") /\ UNCHANGED sessions
      BY <2>5 DEF LoadPermissions
    <3> QED BY <2>3, <2>4, <3>1, <3>2 DEF Rotating
  <2>6. CASE CheckUser(p)
    <3>1. Deny(p) \/ Become(p, [proc[p] EXCEPT !.pc = "permitted"])
      BY <2>6 DEF CheckUser
    <3>2. At(p, "member") /\ UNCHANGED sessions
      BY <2>6 DEF CheckUser
    <3> QED BY <2>3, <2>4, <3>1, <3>2 DEF Rotating
  <2>7. CASE LoseRace(p)
    <3> DEFINE request == [Idle EXCEPT !.pc = "revoke", !.why = "reuse",
                                       !.row = proc[p].row, !.fam = proc[p].fam]
    <3>1. /\ request \in Request /\ request.pc = "revoke" /\ request.row = proc[p].row
      BY <2>0 DEF Idle, Request, PC, Reason
    <3>2. RefreshKnowsRow(request)
      BY <3>1 DEF RefreshKnowsRow, Rotating
    <3>3. Become(p, request) /\ UNCHANGED sessions
      BY <2>7 DEF LoseRace
    <3>4. proc[p].row \in Row
      BY <2>7 DEF LoseRace, At, RotationInv, RefreshesKnowRow, RefreshKnowsRow, Rotating
    <3> HIDE DEF request
    <3> QED BY <1>0, <3>1, <3>2, <3>3, <3>4, RequestStep
  <2>8. ASSUME NEW n \in Row, Claim(p, n) PROVE RotationInv'
    <3>1. /\ At(p, "permitted") /\ Claimable(proc[p].row) /\ UnusedRow(n)
          /\ UNCHANGED sessions
      BY <2>8 DEF Claim
    <3>2. /\ \A q \in Proc \ {p} : proc'[q] = proc[q]
          /\ proc'[p] = [proc[p] EXCEPT !.pc = "claimed", !.next = n]
      BY <1>0, <2>8 DEF Claim, Become, TypeOK
    <3>3. /\ proc'[p].pc = "claimed" /\ proc'[p].next = n /\ proc'[p].row = proc[p].row
          /\ proc'[p].fam = proc[p].fam /\ proc'[p].who = proc[p].who
          /\ proc'[p].why = proc[p].why
      BY <2>0, <3>2 DEF Request
    <3>4. RefreshKnowsRow(proc[p]) /\ proc[p].row \in Row
      BY <3>1 DEF RotationInv, RefreshesKnowRow, RefreshKnowsRow, Rotating, At
    <3>5. ReuseKnowsRow'
      BY <3>2, <3>3, <3>4 DEF RotationInv, ReuseKnowsRow, At
    <3>6. RefreshesKnowRow'
      <4>1. ASSUME NEW q \in Proc \ {p} PROVE RefreshKnowsRow(proc[q])'
        BY <3>1, <3>2 DEF RotationInv, RefreshesKnowRow, RefreshKnowsRow
      <4>2. RefreshKnowsRow(proc[p])'
        BY <3>1, <3>3, <3>4 DEF RefreshKnowsRow, Rotating, At
      <4> QED BY <4>1, <4>2 DEF RefreshesKnowRow
    <3>7. ClaimsAreExclusive'
      <4>1. Holds(p)'
        BY <3>1, <3>3 DEF Holds, Claimable, UnusedRow
      <4>2. ASSUME NEW q \in Proc \ {p}, At(q, "claimed")'
            PROVE  Holds(q)' /\ Apart(p, q)' /\ Apart(q, p)'
        <5>1. At(q, "claimed") /\ proc'[q] = proc[q]
          BY <3>2, <4>2 DEF At
        <5>2. proc[q].row # proc[p].row /\ proc[q].next # n
          BY <3>1, <5>1 DEF Claimable, Locked, HoldsRow, UnusedRow
        <5> QED BY <3>1, <3>3, <5>1, <5>2 DEF RotationInv, ClaimsAreExclusive, Holds, Apart
      <4>3. ASSUME NEW q \in Proc \ {p}, NEW x \in Proc \ {p, q},
                   At(q, "claimed")', At(x, "claimed")'
            PROVE  Apart(q, x)'
        BY <3>2, <4>3 DEF RotationInv, ClaimsAreExclusive, Apart, At
      <4> QED BY <4>1, <4>2, <4>3 DEF ClaimsAreExclusive
    <3>8. AtMostOneLiveRow'
      BY <3>1 DEF RotationInv, AtMostOneLiveRow, LiveRows, RowsOf
    <3>9. LocksApart'
      <4>1. \A q \in Proc : At(q, "revoking") => proc[p].row \notin proc[q].locked
        BY <3>1 DEF Claimable, Locked, HoldsRow
      <4> QED BY <3>2, <3>3, <4>1 DEF RotationInv, LocksApart, At
    <3> QED BY <1>0, <3>5, <3>6, <3>7, <3>8, <3>9 DEF RotationInv
  <2>9. CASE CommitRotation(p)
    <3> DEFINE old == proc[p].row
               new == proc[p].next
    <3>1. At(p, "claimed")
      BY <2>9 DEF CommitRotation
    <3>2. /\ old \in Row /\ sessions[old].fam = proc[p].fam
          /\ sessions[old].state = "live"
          /\ new \in Row /\ sessions[new].state = "absent" /\ old # new
      BY <3>1 DEF RotationInv, RefreshesKnowRow, RefreshKnowsRow, Rotating, At,
                  ClaimsAreExclusive, Holds
    <3>3. \A q \in Proc : proc'[q] = IF q = p THEN Idle ELSE proc[q]
      BY <1>0, <2>9 DEF CommitRotation, Finish, Become, TypeOK
    <3>4. /\ \A s \in Row \ {old, new} : sessions'[s] = sessions[s]
          /\ sessions'[old] = [sessions[old] EXCEPT !.state = "revoked", !.replacedBy = new]
          /\ sessions'[new] = Replacement(p)
      BY <1>0, <2>9, <3>2 DEF CommitRotation, TypeOK
    <3>5. /\ sessions'[old].state = "revoked" /\ sessions'[old].fam = sessions[old].fam
          /\ sessions'[old].holder = sessions[old].holder
      BY <1>0, <3>2, <3>4 DEF TypeOK, SessionRow
    <3>6. sessions'[new].state = "live" /\ sessions'[new].fam = proc[p].fam
      BY <3>4 DEF Replacement, LiveRow
    <3>7. ReuseKnowsRow'
      BY <3>3 DEF RotationInv, ReuseKnowsRow, At, Idle
    <3>8. RefreshesKnowRow'
      <4>1. ASSUME NEW q \in Proc, q # p, proc[q].pc \in Rotating
            PROVE  RefreshKnowsRow(proc[q])'
        <5>1. RefreshKnowsRow(proc[q]) /\ proc[q].row # new
          BY <3>2, <4>1 DEF RotationInv, RefreshesKnowRow, RefreshKnowsRow
        <5>2. proc[q].row \in Row /\ proc'[q] = proc[q]
          BY <3>3, <4>1, <5>1 DEF RefreshKnowsRow
        <5>3. /\ sessions'[proc[q].row].state # "absent"
              /\ sessions'[proc[q].row].fam = sessions[proc[q].row].fam
              /\ sessions'[proc[q].row].holder = sessions[proc[q].row].holder
          <6>1. CASE proc[q].row = old
            BY <3>5, <6>1
          <6>2. CASE proc[q].row # old
            BY <3>4, <4>1, <5>1, <5>2, <6>2 DEF RefreshKnowsRow
          <6> QED BY <6>1, <6>2
        <5> QED BY <4>1, <5>1, <5>2, <5>3 DEF RefreshKnowsRow
      <4> QED BY <3>3, <4>1 DEF RefreshesKnowRow, RefreshKnowsRow, Rotating, Idle
    <3>9. ClaimsAreExclusive'
      <4> SUFFICES ASSUME NEW q \in Proc, At(q, "claimed")'
                   PROVE  Holds(q)' /\ \A x \in Proc \ {q} : At(x, "claimed")' => Apart(q, x)'
        BY DEF ClaimsAreExclusive
      <4>1. q # p /\ At(q, "claimed") /\ proc'[q] = proc[q]
        BY <3>3 DEF At, Idle
      <4>2. Holds(q) /\ Apart(q, p) /\ proc[q].row \in Row
        BY <3>1, <4>1 DEF RotationInv, ClaimsAreExclusive, RefreshesKnowRow,
                          RefreshKnowsRow, Rotating, At
      <4>3. Holds(q)'
        BY <3>2, <3>4, <4>1, <4>2 DEF Holds, Apart
      <4>4. ASSUME NEW x \in Proc \ {q}, At(x, "claimed")' PROVE Apart(q, x)'
        BY <3>3, <4>1, <4>4 DEF RotationInv, ClaimsAreExclusive, Apart, At, Idle
      <4> QED BY <4>3, <4>4
    <3>10. AtMostOneLiveRow'
      <4> SUFFICES ASSUME NEW f \in Family, NEW r \in LiveRows(f)', NEW s \in LiveRows(f)'
                   PROVE  r = s
        BY DEF AtMostOneLiveRow
      <4>1. ASSUME NEW x \in LiveRows(f)', x # new PROVE x # old /\ x \in LiveRows(f)
        BY <3>4, <3>5, <4>1 DEF LiveRows, RowsOf
      <4>2. new \in LiveRows(f)' => old \in LiveRows(f)
        BY <3>2, <3>6 DEF LiveRows, RowsOf
      <4> QED BY <4>1, <4>2 DEF RotationInv, AtMostOneLiveRow
    <3>11. LocksApart'
      BY <3>3 DEF RotationInv, LocksApart, At, Idle
    <3> QED BY <1>0, <3>7, <3>8, <3>9, <3>10, <3>11 DEF RotationInv
  <2> QED BY <1>2, <2>1, <2>2, <2>5, <2>6, <2>7, <2>8, <2>9 DEF Refresh
<1>3. ASSUME NEW p \in Proc, Authenticated(p) PROVE RotationInv'
  <2>0. proc[p] \in Request
    BY <1>0 DEF TypeOK
  <2>1. ASSUME NEW request \in Request, request.pc \in {"active", "authenticated", "revoke"},
               request.why \in {"none", "logout", "one", "all"} \/ request.why = proc[p].why,
               request.row = NoRow \/ request.row = proc[p].row,
               request.why = "reuse" => request.row = proc[p].row,
               Become(p, request), UNCHANGED sessions
        PROVE  RotationInv'
    <3>1. /\ request.pc \notin Rotating /\ request.pc # "claimed" /\ request.pc # "audit"
          /\ request.pc # "revoking"
      BY <2>1 DEF Rotating
    <3>2. request.why = "reuse" => request.row \in Row
      BY <2>1 DEF RotationInv, ReuseKnowsRow
    <3>3. RefreshKnowsRow(request)
      BY <3>1 DEF RefreshKnowsRow
    <3> QED BY <1>0, <2>1, <3>1, <3>2, <3>3, RequestStep
  <2>2. ASSUME NEW f \in Family, AuthenticateFamily(p, f) PROVE RotationInv'
    <3>1. PICK r \in LiveRows(f) :
            Become(p, [Idle EXCEPT !.pc = "active", !.fam = f, !.who = sessions[r].holder])
      BY <2>2 DEF AuthenticateFamily
    <3> DEFINE request == [Idle EXCEPT !.pc = "active", !.fam = f, !.who = sessions[r].holder]
    <3>2. request \in Request /\ request.pc = "active" /\ request.why = "none"
          /\ request.row = NoRow
      BY <1>0 DEF TypeOK, Idle, Request, PC, Reason, SessionRow, LiveRows, RowsOf
    <3>3. UNCHANGED sessions
      BY <2>2 DEF AuthenticateFamily
    <3> HIDE DEF request
    <3>4. Become(p, request)
      BY <3>1 DEF request
    <3> QED BY <2>1, <3>2, <3>3, <3>4
  <2>3. ASSUME NEW f \in Family, RevokeOwnSession(p, f) PROVE RotationInv'
    <3> DEFINE request == [proc[p] EXCEPT !.pc = "revoke", !.why = "one", !.fam = f]
    <3>1. request \in Request /\ request.pc = "revoke" /\ request.why = "one"
          /\ request.row = proc[p].row
      BY <2>0 DEF Request, PC, Reason
    <3>2. Become(p, request) /\ UNCHANGED sessions
      BY <2>3 DEF RevokeOwnSession
    <3> HIDE DEF request
    <3> QED BY <2>1, <3>1, <3>2
  <2>4. CASE AuthenticateMember(p)
    <3> DEFINE request == [proc[p] EXCEPT !.pc = "authenticated"]
    <3>1. request \in Request /\ request.pc = "authenticated" /\ request.why = proc[p].why
          /\ request.row = proc[p].row
      BY <2>0 DEF Request, PC
    <3>2. UNCHANGED sessions /\ (Finish(p) \/ Become(p, request))
      BY <2>4 DEF AuthenticateMember
    <3> HIDE DEF request
    <3> QED BY <1>0, <2>1, <3>1, <3>2, FinishStep
  <2>5. CASE Respond(p)
    BY <1>0, <2>5, FinishStep DEF Respond
  <2>6. CASE Logout(p)
    <3> DEFINE request == [Idle EXCEPT !.pc = "revoke", !.why = "logout", !.fam = proc[p].fam]
    <3>1. request \in Request /\ request.pc = "revoke" /\ request.why = "logout"
          /\ request.row = NoRow
      BY <2>0 DEF Idle, Request, PC, Reason
    <3>2. Become(p, request) /\ UNCHANGED sessions
      BY <2>6 DEF Logout
    <3> HIDE DEF request
    <3> QED BY <2>1, <3>1, <3>2
  <2>7. CASE RevokeOwnSessions(p)
    <3> DEFINE request == [proc[p] EXCEPT !.pc = "revoke", !.why = "all", !.fam = NoFamily]
    <3>1. request \in Request /\ request.pc = "revoke" /\ request.why = "all"
          /\ request.row = proc[p].row
      BY <2>0 DEF Request, PC, Reason
    <3>2. Become(p, request) /\ UNCHANGED sessions
      BY <2>7 DEF RevokeOwnSessions
    <3> HIDE DEF request
    <3> QED BY <2>1, <3>1, <3>2
  <2> QED BY <1>3, <2>2, <2>3, <2>4, <2>5, <2>6, <2>7 DEF Authenticated
<1>4. ASSUME NEW p \in Proc, Revocation(p) PROVE RotationInv'
  <2>0. proc[p] \in Request
    BY <1>0 DEF TypeOK
  <2>1. CASE BeginRevoke(p)
    <3> DEFINE request == [proc[p] EXCEPT
             !.pc = "revoking",
             !.scope = {f \in Family : \E r \in RowsOf(f) : Matches(p, r)},
             !.targets = {r \in Row : Matches(p, r) /\ sessions[r].state = "live"},
             !.locked = {}]
    <3>1. request \in Request /\ request.pc = "revoking" /\ request.why = proc[p].why
          /\ request.row = proc[p].row /\ request.locked = {}
      BY <2>0 DEF Request, PC
    <3>2. Become(p, request) /\ UNCHANGED sessions
      BY <2>1 DEF BeginRevoke
    <3>3. RefreshKnowsRow(request)
      BY <3>1 DEF RefreshKnowsRow, Rotating
    <3>4. request.why = "reuse" => request.row \in Row
      BY <3>1 DEF RotationInv, ReuseKnowsRow
    <3> HIDE DEF request
    <3> QED BY <1>0, <3>1, <3>2, <3>3, <3>4, RequestStep
  <2>2. CASE FinishRevoke(p)
    <3>1. At(p, "revoking") /\ proc[p].targets \subseteq proc[p].locked
      BY <2>2 DEF FinishRevoke
    <3>2. \A r \in Row :
             /\ sessions'[r].fam = sessions[r].fam
             /\ sessions'[r].holder = sessions[r].holder
             /\ r \notin proc[p].targets => sessions'[r] = sessions[r]
             /\ sessions[r].state # "live" => sessions'[r] = sessions[r]
             /\ sessions'[r].state = "live" => sessions[r].state = "live"
             /\ sessions'[r].state = "absent" <=> sessions[r].state = "absent"
      BY <1>0, <2>2 DEF FinishRevoke, TypeOK, SessionRow
    <3>4. /\ \A q \in Proc \ {p} : proc'[q] = proc[q]
          /\ proc'[p].pc \notin Rotating /\ proc'[p].pc # "revoking" /\ proc'[p].why = "none"
          /\ proc'[p].pc = "audit" => proc[p].why = "reuse" /\ proc'[p].row = proc[p].row
      <4>1. PICK after : /\ proc' = [proc EXCEPT ![p] = after]
                         /\ after.pc \notin Rotating /\ after.pc # "revoking"
                         /\ after.why = "none"
                         /\ after.pc = "audit" => proc[p].why = "reuse"
                                                  /\ after.row = proc[p].row
        <5> DEFINE audit == [Idle EXCEPT !.pc = "audit", !.row = proc[p].row]
        <5>1. /\ audit.pc = "audit" /\ audit.why = "none" /\ audit.row = proc[p].row
              /\ Idle.pc = "idle" /\ Idle.why = "none"
          BY DEF Idle
        <5>2. \/ proc' = [proc EXCEPT ![p] = Idle]
              \/ proc' = [proc EXCEPT ![p] = audit] /\ proc[p].why = "reuse"
          BY <2>2 DEF FinishRevoke, Become, Finish
        <5> HIDE DEF audit
        <5> QED BY <5>1, <5>2 DEF Rotating
      <4> QED BY <1>0, <4>1 DEF TypeOK
    <3>5. ReuseKnowsRow'
      BY <3>4 DEF RotationInv, ReuseKnowsRow, At
    <3>6. RefreshesKnowRow'
      BY <3>2, <3>4 DEF RotationInv, RefreshesKnowRow, RefreshKnowsRow
    <3>7. ClaimsAreExclusive'
      <4> SUFFICES ASSUME NEW q \in Proc, At(q, "claimed")'
                   PROVE  Holds(q)' /\ \A x \in Proc \ {q} : At(x, "claimed")' => Apart(q, x)'
        BY DEF ClaimsAreExclusive
      <4>1. q # p /\ At(q, "claimed") /\ proc'[q] = proc[q]
        BY <3>4 DEF At, Rotating
      <4>2. Holds(q) /\ proc[q].row \in Row /\ proc[q].row \notin proc[p].targets
        BY <3>1, <4>1 DEF RotationInv, ClaimsAreExclusive, RefreshesKnowRow,
                          RefreshKnowsRow, Rotating, At, LocksApart
      <4>3. Holds(q)'
        BY <3>2, <4>1, <4>2 DEF Holds
      <4>4. ASSUME NEW x \in Proc \ {q}, At(x, "claimed")' PROVE Apart(q, x)'
        BY <3>4, <4>1, <4>4 DEF RotationInv, ClaimsAreExclusive, Apart, At, Rotating
      <4> QED BY <4>3, <4>4
    <3>8. AtMostOneLiveRow'
      BY <3>2 DEF RotationInv, AtMostOneLiveRow, LiveRows, RowsOf
    <3>9. LocksApart'
      BY <3>4 DEF RotationInv, LocksApart, At, Rotating
    <3> QED BY <1>0, <3>5, <3>6, <3>7, <3>8, <3>9 DEF RotationInv
  <2>3. CASE AuditReuse(p)
    BY <1>0, <2>3, FinishStep DEF AuditReuse
  <2>4. ASSUME NEW r \in Row, LockTarget(p, r) PROVE RotationInv'
    <3> DEFINE request == [proc[p] EXCEPT !.locked = @ \cup {r}]
    <3>1. /\ request \in Request /\ request.pc = "revoking" /\ request.why = proc[p].why
          /\ request.row = proc[p].row /\ request.locked = proc[p].locked \cup {r}
      BY <2>0, <2>4 DEF LockTarget, At, Request
    <3>2. Become(p, request) /\ UNCHANGED sessions /\ At(p, "revoking") /\ ~Locked(r)
      BY <2>4 DEF LockTarget
    <3>3. RefreshKnowsRow(request)
      BY <3>1 DEF RefreshKnowsRow, Rotating
    <3>4. request.why = "reuse" => request.row \in Row
      BY <3>1 DEF RotationInv, ReuseKnowsRow
    <3>5. \A q \in Proc \ {p} : At(q, "claimed") => proc[q].row \notin request.locked
      BY <3>1, <3>2 DEF RotationInv, LocksApart, Locked, HoldsRow
    <3> HIDE DEF request
    <3> QED BY <1>0, <3>1, <3>2, <3>3, <3>4, <3>5, RequestStep
  <2> QED BY <1>4, <2>1, <2>2, <2>3, <2>4 DEF Revocation
<1>5. ASSUME NEW p \in Proc, NEW h \in Holder, RemoveMember(p, h) PROVE RotationInv'
  <2> DEFINE request == [Idle EXCEPT !.pc = "revoke", !.why = "removed", !.who = h]
  <2>1. request \in Request /\ request.pc = "revoke" /\ request.why = "removed"
    BY DEF Idle, Request, PC, Reason
  <2>2. RefreshKnowsRow(request)
    BY <2>1 DEF RefreshKnowsRow, Rotating
  <2>3. Become(p, request) /\ UNCHANGED sessions
    BY <1>5 DEF RemoveMember
  <2> HIDE DEF request
  <2> QED BY <1>0, <2>1, <2>2, <2>3, RequestStep
<1>6. ASSUME NEW p \in Proc, Crash(p) PROVE RotationInv'
  BY <1>0, <1>6, FinishStep DEF Crash
<1>7. ASSUME UNCHANGED <<sessions, proc>> PROVE RotationInv'
  BY <1>0, <1>7 DEF RotationInv, ReuseKnowsRow, RefreshesKnowRow, RefreshKnowsRow,
                    ClaimsAreExclusive, Holds, Apart, LocksApart, AtMostOneLiveRow,
                    LiveRows, RowsOf, At
<1>8. CASE Environment
  BY <1>7, <1>8 DEF Environment, AddMember, DisableUser, Expire
<1>9. CASE UNCHANGED vars
  BY <1>7, <1>9 DEF vars
<1> QED BY <1>1, <1>2, <1>3, <1>4, <1>5, <1>6, <1>8, <1>9 DEF Next, Requests

\* Before the first request there is no row.
LEMMA RotationInit == Init => RotationInv
<1> SUFFICES ASSUME Init PROVE RotationInv
  OBVIOUS
<1>1. TypeOK
  BY RecordTypes DEF Init, TypeOK
<1>2. \A p \in Proc : proc[p].pc = "idle" /\ proc[p].why = "none"
  BY DEF Init, Idle
<1>3. \A r \in Row : sessions[r].state = "absent"
  BY DEF Init, AbsentRow
<1> QED BY <1>1, <1>2, <1>3
    DEF RotationInv, ReuseKnowsRow, RefreshesKnowRow, RefreshKnowsRow, Rotating,
        ClaimsAreExclusive, LocksApart, AtMostOneLiveRow, LiveRows, RowsOf, At

\* The inductive invariant holds in every reachable state.
THEOREM RotationInvariant == Spec => []RotationInv
BY RotationInit, RotationStep, PTL DEF Spec

\* The tables and the requests' local variables are always well typed.
THEOREM TypeCorrect == Spec => []TypeOK
<1>1. RotationInv => TypeOK
  BY DEF RotationInv
<1> QED BY <1>1, RotationInvariant, PTL

\* However many requests refresh, revoke and crash at once, a family never has
\* two refresh tokens that work.
THEOREM OneLiveRow == Spec => []AtMostOneLiveRow
<1>1. RotationInv => AtMostOneLiveRow
  BY DEF RotationInv
<1> QED BY <1>1, RotationInvariant, PTL
=============================================================================
