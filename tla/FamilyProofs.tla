------------------------------ MODULE FamilyProofs ------------------------------
(* More about Sessions: when a family dies, the line its rotations form, and   *)
(* that the table implements TokenFamily.  All of it rests on the invariant of *)
(* SessionsProofs, that a family has at most one live row.                     *)
EXTENDS SessionsProofs

-----------------------------------------------------------------------------
(* The inductive invariant *)

\* A row belongs to a family and a holder, the same holder for all the family's.
RowsWellFormed ==
    /\ \A r \in Row :
         LET s == sessions[r] IN
         /\ s.state = "absent" => s.replacedBy = NoRow
         /\ s.state # "absent" => s.fam \in Family /\ s.holder \in Holder
         /\ s.state = "live" => s.replacedBy = NoRow
    /\ \A r, s \in Row :
         /\ sessions[r].state # "absent"
         /\ sessions[s].state # "absent"
         /\ sessions[r].fam = sessions[s].fam
         => sessions[r].holder = sessions[s].holder

LoginsKnowHolder == \A p \in Proc : At(p, "login") => proc[p].who \in Holder

\* A target of the family is still live, or was rotated.
Caught(p, f) ==
    \E t \in proc[p].targets :
        /\ sessions[t].fam = f
        /\ sessions[t].state = "live" \/ sessions[t].replacedBy # NoRow

\* What a revocation found, while rotations and other revocations commit: of every
\* family it means to end, one row, that only another revocation can have ended.
Knows(p) ==
    /\ \A f \in proc[p].scope : Opened(f) /\ (fate[f] = "closed" \/ Caught(p, f))
    /\ \A t \in proc[p].targets :
         sessions[t].state # "absent" /\ sessions[t].fam \in proc[p].scope
    /\ \A t, x \in proc[p].targets : sessions[t].fam = sessions[x].fam => t = x
RevocationsKnowRows == \A p \in Proc : At(p, "revoking") => Knows(p)

UnopenedIsOpen == \A f \in Family : ~Opened(f) => fate[f] = "open"

FamilyInv ==
    /\ RotationInv
    /\ RowsWellFormed
    /\ ChainIsLinear
    /\ LoginsKnowHolder
    /\ RevocationsKnowRows
    /\ UnopenedIsOpen
    /\ DeadExactlyWhenClosed

\* What depends on the table and on the revocations' fate alone.
TableInv == RowsWellFormed /\ ChainIsLinear /\ UnopenedIsOpen /\ DeadExactlyWhenClosed

-----------------------------------------------------------------------------
(* What a step does to the table *)

\* A request that was and stays a revocation of the rows it found.
SameSnapshot(p) ==
    /\ At(p, "revoking")
    /\ proc'[p].scope = proc[p].scope
    /\ proc'[p].targets = proc[p].targets

\* A step that is none of the four below leaves the table alone; its request
\* neither begins a revocation nor, unless it knows its holder, a login.
Elsewhere ==
    /\ UNCHANGED <<sessions, fate>>
    /\ \E p \in Proc :
         /\ \A q \in Proc \ {p} : proc'[q] = proc[q]
         /\ proc'[p].pc # "revoking" \/ SameSnapshot(p)
         /\ proc'[p] = proc[p] \/ proc'[p].pc # "login" \/ proc'[p].who \in Holder

\* Three kinds of step write the table or judge a family, one takes a snapshot.
LEMMA StepKinds ==
    ASSUME TypeOK, [Next]_vars
    PROVE  \/ UNCHANGED <<sessions, fate, proc>>
           \/ Elsewhere
           \/ \E p \in Proc :
                \/ \E f \in Family, r \in Row : StartSession(p, f, r)
                \/ CommitRotation(p)
                \/ BeginRevoke(p)
                \/ FinishRevoke(p)
<1>1. ASSUME NEW p \in Proc, UNCHANGED <<sessions, fate>>,
             NEW request, Become(p, request),
             request.pc # "revoking", request.pc # "login" \/ request.who \in Holder
      PROVE  Elsewhere
  BY <1>1 DEF Elsewhere, Become, TypeOK
<1>2. ASSUME NEW p \in Proc, UNCHANGED <<sessions, fate>>, Finish(p)
      PROVE  Elsewhere
  <2>1. Idle.pc # "revoking" /\ Idle.pc # "login"
    BY DEF Idle
  <2> QED BY <1>1, <1>2, <2>1 DEF Finish
<1>3. ASSUME NEW p \in Proc, UNCHANGED <<sessions, fate>>,
             NEW label \in PC \ {"revoking", "login"},
             NEW request \in {[proc[p] EXCEPT !.pc = label]}, Become(p, request)
      PROVE  Elsewhere
  <2>1. request.pc = label
    BY <1>3 DEF TypeOK, Request
  <2> QED BY <1>1, <1>3, <2>1
<1>4. ASSUME NEW p \in Proc, Login(p)
      PROVE  Elsewhere \/ \E f \in Family, r \in Row : StartSession(p, f, r)
  <2>1. ASSUME NEW h \in Holder, AcceptLogin(p, h) PROVE Elsewhere
    <3> DEFINE request == [Idle EXCEPT !.pc = "login", !.who = h]
    <3>1. request.pc = "login" /\ request.who \in Holder
      BY DEF Idle
    <3>2. Become(p, request) /\ UNCHANGED <<sessions, fate>>
      BY <2>1 DEF AcceptLogin
    <3> HIDE DEF request
    <3> QED BY <1>1, <3>1, <3>2
  <2> QED BY <1>4, <2>1 DEF Login
<1>5. ASSUME NEW p \in Proc, Refresh(p)
      PROVE  Elsewhere \/ CommitRotation(p)
  <2>0. proc[p] \in Request
    BY DEF TypeOK
  <2>1. ASSUME NEW t \in Row, PresentRotated(p, t) PROVE Elsewhere
    <3> DEFINE request == [Idle EXCEPT !.pc = "revoke", !.why = "reuse", !.row = t,
                                       !.fam = sessions[t].fam]
    <3>1. request.pc = "revoke"
      BY DEF Idle
    <3>2. Become(p, request) /\ UNCHANGED <<sessions, fate>>
      BY <2>1 DEF PresentRotated
    <3> HIDE DEF request
    <3> QED BY <1>1, <3>1, <3>2
  <2>2. ASSUME NEW t \in Row, PresentLive(p, t) PROVE Elsewhere
    <3> DEFINE request == [Idle EXCEPT !.pc = "checked", !.row = t, !.fam = sessions[t].fam,
                                       !.who = sessions[t].holder]
    <3>1. request.pc = "checked"
      BY DEF Idle
    <3>2. Become(p, request) /\ UNCHANGED <<sessions, fate>>
      BY <2>2 DEF PresentLive
    <3> HIDE DEF request
    <3> QED BY <1>1, <3>1, <3>2
  <2>3. ASSUME Deny(p), UNCHANGED <<sessions, fate>> PROVE Elsewhere
    <3> DEFINE request == [Idle EXCEPT !.pc = "revoke", !.why = "denied", !.fam = proc[p].fam]
    <3>1. request.pc = "revoke"
      BY DEF Idle
    <3>2. Become(p, request)
      BY <2>3 DEF Deny
    <3> HIDE DEF request
    <3> QED BY <1>1, <2>3, <3>1, <3>2
  <2>4. CASE LoadPermissions(p)
    <3>1. UNCHANGED <<sessions, fate>>
          /\ (Deny(p) \/ Become(p, [proc[p] EXCEPT !.pc = "member"]))
      BY <2>4 DEF LoadPermissions
    <3> QED BY <1>3, <2>3, <3>1 DEF PC
  <2>5. CASE CheckUser(p)
    <3>1. UNCHANGED <<sessions, fate>>
          /\ (Deny(p) \/ Become(p, [proc[p] EXCEPT !.pc = "permitted"]))
      BY <2>5 DEF CheckUser
    <3> QED BY <1>3, <2>3, <3>1 DEF PC
  <2>6. ASSUME NEW n \in Row, Claim(p, n) PROVE Elsewhere
    <3> DEFINE request == [proc[p] EXCEPT !.pc = "claimed", !.next = n]
    <3>1. request.pc = "claimed"
      BY <2>0 DEF Request
    <3>2. Become(p, request) /\ UNCHANGED <<sessions, fate>>
      BY <2>6 DEF Claim
    <3> HIDE DEF request
    <3> QED BY <1>1, <3>1, <3>2
  <2>7. CASE LoseRace(p)
    <3> DEFINE request == [Idle EXCEPT !.pc = "revoke", !.why = "reuse",
                                       !.row = proc[p].row, !.fam = proc[p].fam]
    <3>1. request.pc = "revoke"
      BY DEF Idle
    <3>2. Become(p, request) /\ UNCHANGED <<sessions, fate>>
      BY <2>7 DEF LoseRace
    <3> HIDE DEF request
    <3> QED BY <1>1, <3>1, <3>2
  <2> QED BY <1>5, <2>1, <2>2, <2>4, <2>5, <2>6, <2>7 DEF Refresh
<1>6. ASSUME NEW p \in Proc, Authenticated(p)
      PROVE  Elsewhere
  <2>0. proc[p] \in Request
    BY DEF TypeOK
  <2>1. ASSUME NEW f \in Family, AuthenticateFamily(p, f) PROVE Elsewhere
    <3>1. PICK r \in LiveRows(f) :
            Become(p, [Idle EXCEPT !.pc = "active", !.fam = f, !.who = sessions[r].holder])
      BY <2>1 DEF AuthenticateFamily
    <3> DEFINE request == [Idle EXCEPT !.pc = "active", !.fam = f, !.who = sessions[r].holder]
    <3>2. request.pc = "active"
      BY DEF Idle
    <3>3. UNCHANGED <<sessions, fate>>
      BY <2>1 DEF AuthenticateFamily
    <3> HIDE DEF request
    <3>4. Become(p, request)
      BY <3>1 DEF request
    <3> QED BY <1>1, <3>2, <3>3, <3>4
  <2>2. ASSUME NEW f \in Family, RevokeOwnSession(p, f) PROVE Elsewhere
    <3> DEFINE request == [proc[p] EXCEPT !.pc = "revoke", !.why = "one", !.fam = f]
    <3>1. request.pc = "revoke"
      BY <2>0 DEF Request
    <3>2. Become(p, request) /\ UNCHANGED <<sessions, fate>>
      BY <2>2 DEF RevokeOwnSession
    <3> HIDE DEF request
    <3> QED BY <1>1, <3>1, <3>2
  <2>3. CASE AuthenticateMember(p)
    <3>1. UNCHANGED <<sessions, fate>>
          /\ (Finish(p) \/ Become(p, [proc[p] EXCEPT !.pc = "authenticated"]))
      BY <2>3 DEF AuthenticateMember
    <3> QED BY <1>2, <1>3, <3>1 DEF PC
  <2>4. CASE Respond(p)
    BY <1>2, <2>4 DEF Respond
  <2>5. CASE Logout(p)
    <3> DEFINE request == [Idle EXCEPT !.pc = "revoke", !.why = "logout", !.fam = proc[p].fam]
    <3>1. request.pc = "revoke"
      BY DEF Idle
    <3>2. Become(p, request) /\ UNCHANGED <<sessions, fate>>
      BY <2>5 DEF Logout
    <3> HIDE DEF request
    <3> QED BY <1>1, <3>1, <3>2
  <2>6. CASE RevokeOwnSessions(p)
    <3> DEFINE request == [proc[p] EXCEPT !.pc = "revoke", !.why = "all", !.fam = NoFamily]
    <3>1. request.pc = "revoke"
      BY <2>0 DEF Request
    <3>2. Become(p, request) /\ UNCHANGED <<sessions, fate>>
      BY <2>6 DEF RevokeOwnSessions
    <3> HIDE DEF request
    <3> QED BY <1>1, <3>1, <3>2
  <2> QED BY <1>6, <2>1, <2>2, <2>3, <2>4, <2>5, <2>6 DEF Authenticated
<1>7. ASSUME NEW p \in Proc, Revocation(p)
      PROVE  Elsewhere \/ BeginRevoke(p) \/ FinishRevoke(p)
  <2>1. ASSUME NEW r \in Row, LockTarget(p, r) PROVE Elsewhere
    <3> DEFINE request == [proc[p] EXCEPT !.locked = @ \cup {r}]
    <3>1. /\ request.pc = "revoking" /\ request.scope = proc[p].scope
          /\ request.targets = proc[p].targets
      BY <2>1 DEF LockTarget, At, TypeOK, Request
    <3>2. /\ Become(p, request) /\ UNCHANGED <<sessions, fate>>
          /\ At(p, "revoking")
      BY <2>1 DEF LockTarget
    <3> HIDE DEF request
    <3>3. proc'[p] = request /\ \A q \in Proc \ {p} : proc'[q] = proc[q]
      BY <3>2 DEF Become, TypeOK
    <3> QED BY <3>1, <3>2, <3>3 DEF Elsewhere, SameSnapshot
  <2> QED BY <1>2, <1>7, <2>1 DEF Revocation, AuditReuse
<1>8. ASSUME NEW p \in Proc, NEW h \in Holder, RemoveMember(p, h)
      PROVE  Elsewhere
  <2> DEFINE request == [Idle EXCEPT !.pc = "revoke", !.why = "removed", !.who = h]
  <2>1. request.pc = "revoke"
    BY DEF Idle
  <2>2. Become(p, request) /\ UNCHANGED <<sessions, fate>>
    BY <1>8 DEF RemoveMember
  <2> HIDE DEF request
  <2> QED BY <1>1, <2>1, <2>2
<1>9. ASSUME NEW p \in Proc, Crash(p)
      PROVE  Elsewhere
  BY <1>2, <1>9 DEF Crash
<1>10. CASE Environment \/ UNCHANGED vars
  BY <1>10 DEF Environment, AddMember, DisableUser, Expire, vars
<1> QED
  BY <1>4, <1>5, <1>6, <1>7, <1>8, <1>9, <1>10 DEF Next, Requests

-----------------------------------------------------------------------------
(* Each kind of step keeps the invariant *)

\* The table's part of the invariant is a matter of the table and the fate.
LEMMA TableUnchanged ==
    ASSUME TableInv, UNCHANGED <<sessions, fate>>
    PROVE  TableInv'
BY DEF TableInv, RowsWellFormed, ChainIsLinear, UnopenedIsOpen, DeadExactlyWhenClosed,
       Opened, LiveRows, RowsOf

\* So is what a revocation knows, as long as its snapshot is the same.
LEMMA KnowledgeUnchanged ==
    ASSUME UNCHANGED <<sessions, fate>>, NEW p \in Proc, Knows(p),
           proc'[p].scope = proc[p].scope, proc'[p].targets = proc[p].targets
    PROVE  Knows(p)'
BY DEF Knows, Caught, Opened, RowsOf

\* A step elsewhere.
LEMMA ElsewhereKeeps ==
    ASSUME FamilyInv, Elsewhere \/ UNCHANGED <<sessions, fate, proc>>, RotationInv'
    PROVE  FamilyInv'
<1>1. TableInv'
  <2>1. TableInv
    BY DEF FamilyInv, TableInv
  <2>2. UNCHANGED <<sessions, fate>>
    BY DEF Elsewhere
  <2> QED BY <2>1, <2>2, TableUnchanged
<1>2. LoginsKnowHolder'
  BY DEF FamilyInv, LoginsKnowHolder, Elsewhere, At
<1>3. RevocationsKnowRows'
  <2> SUFFICES ASSUME NEW p \in Proc, At(p, "revoking")' PROVE Knows(p)'
    BY DEF RevocationsKnowRows
  <2>1. /\ At(p, "revoking") /\ UNCHANGED <<sessions, fate>>
        /\ proc'[p].scope = proc[p].scope /\ proc'[p].targets = proc[p].targets
    BY DEF Elsewhere, SameSnapshot, At
  <2>2. Knows(p)
    BY <2>1 DEF FamilyInv, RevocationsKnowRows, At
  <2> QED BY <2>1, <2>2, KnowledgeUnchanged
<1> QED BY <1>1, <1>2, <1>3 DEF FamilyInv, TableInv

\* Login inserts the first row of an unopened family, for a holder it knows.
LEMMA StartEffect ==
    ASSUME FamilyInv, NEW p \in Proc, NEW f \in Family, NEW r \in Row, StartSession(p, f, r)
    PROVE  /\ sessions[r].state = "absent" /\ ~Opened(f)
           /\ sessions' = [sessions EXCEPT ![r] = LiveRow(f, proc[p].who)]
           /\ sessions'[r].state = "live" /\ sessions'[r].fam = f
           /\ sessions'[r].holder = proc[p].who /\ sessions'[r].replacedBy = NoRow
           /\ proc[p].who \in Holder
           /\ \A s \in Row \ {r} : sessions'[s] = sessions[s]
           /\ UNCHANGED fate
           /\ proc' = [proc EXCEPT ![p] = Idle]
           /\ \A q \in Proc \ {p} : proc'[q] = proc[q]
           /\ proc'[p].pc = "idle"
<1>1. sessions \in [Row -> SessionRow] /\ proc \in [Proc -> Request]
  BY DEF FamilyInv, RotationInv, TypeOK
<1>2. /\ At(p, "login") /\ ~Opened(f) /\ UnusedRow(r)
      /\ sessions' = [sessions EXCEPT ![r] = LiveRow(f, proc[p].who)]
      /\ UNCHANGED fate
      /\ proc' = [proc EXCEPT ![p] = Idle]
  BY DEF StartSession, Finish, Become
<1>3. proc[p].who \in Holder
  BY <1>2 DEF FamilyInv, LoginsKnowHolder
<1> QED BY <1>1, <1>2, <1>3 DEF UnusedRow, LiveRow, Idle

\* A rotation's commit exchanges the one live row of a family for an unused one.
LEMMA RotationEffect ==
    ASSUME FamilyInv, NEW p \in Proc, CommitRotation(p)
    PROVE  \E old, new \in Row :
             /\ old # new
             /\ sessions[old].state = "live" /\ sessions[new].state = "absent"
             /\ sessions'[old].state = "revoked" /\ sessions'[old].replacedBy = new
             /\ sessions'[old].fam = sessions[old].fam
             /\ sessions'[old].holder = sessions[old].holder
             /\ sessions'[new].state = "live" /\ sessions'[new].replacedBy = NoRow
             /\ sessions'[new].fam = sessions[old].fam
             /\ sessions'[new].holder = sessions[old].holder
             /\ \A s \in Row \ {old, new} : sessions'[s] = sessions[s]
             /\ UNCHANGED fate
             /\ \A q \in Proc \ {p} : proc'[q] = proc[q]
             /\ proc'[p].pc = "idle"
<1> DEFINE old == proc[p].row
           new == proc[p].next
<1>1. sessions \in [Row -> SessionRow] /\ proc \in [Proc -> Request] /\ RotationInv
  BY DEF FamilyInv, RotationInv, TypeOK
<1>2. /\ At(p, "claimed")
      /\ sessions' = [sessions EXCEPT ![old].state = "revoked", ![old].replacedBy = new,
                                      ![new] = Replacement(p)]
      /\ UNCHANGED fate
      /\ proc' = [proc EXCEPT ![p] = Idle]
  BY DEF CommitRotation, Finish, Become
<1>3. /\ old \in Row /\ sessions[old].fam = proc[p].fam /\ sessions[old].holder = proc[p].who
      /\ sessions[old].state = "live"
      /\ new \in Row /\ sessions[new].state = "absent" /\ old # new
  BY <1>1, <1>2 DEF RotationInv, RefreshesKnowRow, RefreshKnowsRow, Rotating, At,
                    ClaimsAreExclusive, Holds
<1>4. /\ \A s \in Row \ {old, new} : sessions'[s] = sessions[s]
      /\ sessions'[old] = [sessions[old] EXCEPT !.state = "revoked", !.replacedBy = new]
      /\ sessions'[new] = Replacement(p)
  BY <1>1, <1>2, <1>3
<1>5. /\ sessions'[old].state = "revoked" /\ sessions'[old].replacedBy = new
      /\ sessions'[old].fam = sessions[old].fam
      /\ sessions'[old].holder = sessions[old].holder
  <2> DEFINE s == sessions[old]
             t == sessions'[old]
  <2>1. s \in SessionRow /\ t = [s EXCEPT !.state = "revoked", !.replacedBy = new]
    BY <1>1, <1>3, <1>4
  <2> HIDE DEF s, t
  <2>2. t.state = "revoked" /\ t.replacedBy = new /\ t.fam = s.fam /\ t.holder = s.holder
    BY <2>1 DEF SessionRow
  <2> QED BY <2>2 DEF s, t
<1>6. /\ sessions'[new].state = "live" /\ sessions'[new].fam = proc[p].fam
      /\ sessions'[new].holder = proc[p].who /\ sessions'[new].replacedBy = NoRow
  BY <1>4 DEF Replacement, LiveRow
<1>7. /\ \A q \in Proc \ {p} : proc'[q] = proc[q]
      /\ proc'[p].pc = "idle"
  BY <1>1, <1>2 DEF Idle
<1>8. /\ \A s \in Row \ {old, new} : sessions'[s] = sessions[s]
      /\ sessions'[new].fam = sessions[old].fam
      /\ sessions'[new].holder = sessions[old].holder
      /\ UNCHANGED fate
  BY <1>2, <1>3, <1>4, <1>6
<1>9. /\ old \in Row /\ new \in Row /\ old # new
      /\ sessions[old].state = "live" /\ sessions[new].state = "absent"
      /\ sessions'[new].state = "live" /\ sessions'[new].replacedBy = NoRow
  BY <1>3, <1>6
<1> HIDE DEF old, new
<1> QED BY ONLY <1>5, <1>7, <1>8, <1>9

\* The end of a revocation revokes its targets that are live, and nothing else.
LEMMA FinishEffect ==
    ASSUME FamilyInv, NEW p \in Proc, FinishRevoke(p)
    PROVE  /\ At(p, "revoking")
           /\ \A r \in Row :
                /\ sessions'[r].fam = sessions[r].fam
                /\ sessions'[r].holder = sessions[r].holder
                /\ sessions'[r].replacedBy = sessions[r].replacedBy
                /\ r \in proc[p].targets /\ sessions[r].state = "live"
                     => sessions'[r].state = "revoked"
                /\ r \notin proc[p].targets \/ sessions[r].state # "live"
                     => sessions'[r] = sessions[r]
           /\ \A f \in Family :
                /\ f \notin proc[p].scope \/ fate[f] = "closed" => fate'[f] = fate[f]
                /\ f \in proc[p].scope /\ fate[f] # "closed" /\ Outrun(p, f)
                     => fate'[f] = "outrun"
                /\ f \in proc[p].scope /\ fate[f] # "closed" /\ ~Outrun(p, f)
                     => fate'[f] = "closed"
           /\ \A q \in Proc \ {p} : proc'[q] = proc[q]
           /\ proc'[p].pc \in {"idle", "audit"}
<1>1. sessions \in [Row -> SessionRow] /\ proc \in [Proc -> Request]
  BY DEF FamilyInv, RotationInv, TypeOK
<1>2. \A r \in Row :
         /\ r \in proc[p].targets /\ sessions[r].state = "live"
              => sessions'[r] = [sessions[r] EXCEPT !.state = "revoked"]
         /\ r \notin proc[p].targets \/ sessions[r].state # "live"
              => sessions'[r] = sessions[r]
  BY DEF FinishRevoke
<1>3. ASSUME NEW r \in Row, r \in proc[p].targets, sessions[r].state = "live"
      PROVE  /\ sessions'[r].state = "revoked"
             /\ sessions'[r].fam = sessions[r].fam
             /\ sessions'[r].holder = sessions[r].holder
             /\ sessions'[r].replacedBy = sessions[r].replacedBy
  <2> DEFINE s == sessions[r]
             t == sessions'[r]
  <2>1. s \in SessionRow /\ t = [s EXCEPT !.state = "revoked"]
    BY <1>1, <1>2, <1>3
  <2> HIDE DEF s, t
  <2>2. /\ t.state = "revoked" /\ t.fam = s.fam /\ t.holder = s.holder
        /\ t.replacedBy = s.replacedBy
    BY <2>1 DEF SessionRow
  <2> QED BY <2>2 DEF s, t
<1>4. \A f \in Family :
         /\ f \notin proc[p].scope \/ fate[f] = "closed" => fate'[f] = fate[f]
         /\ f \in proc[p].scope /\ fate[f] # "closed" /\ Outrun(p, f)
              => fate'[f] = "outrun"
         /\ f \in proc[p].scope /\ fate[f] # "closed" /\ ~Outrun(p, f)
              => fate'[f] = "closed"
  <2>1. fate' = [f \in Family |->
                   IF f \notin proc[p].scope \/ fate[f] = "closed" THEN fate[f]
                   ELSE IF Outrun(p, f) THEN "outrun" ELSE "closed"]
    BY DEF FinishRevoke
  <2> QED BY ONLY <2>1
<1>5. \E after : /\ proc' = [proc EXCEPT ![p] = after]
                 /\ after.pc \in {"idle", "audit"}
  <2>1. /\ Idle.pc = "idle"
        /\ [Idle EXCEPT !.pc = "audit", !.row = proc[p].row].pc = "audit"
    BY DEF Idle
  <2> QED BY <2>1 DEF FinishRevoke, Finish, Become
<1>6. /\ \A q \in Proc \ {p} : proc'[q] = proc[q]
      /\ proc'[p].pc \in {"idle", "audit"}
  BY <1>1, <1>5
<1>7. At(p, "revoking")
  BY DEF FinishRevoke
<1> QED BY <1>2, <1>3, <1>4, <1>6, <1>7

\* What another revocation knows outlasts a commit that changes no row's family and
\* ends no live row unless it rotates it or closes the family.
LEMMA KnowledgeKept ==
    ASSUME NEW p \in Proc, Knows(p), TypeOK, proc'[p] = proc[p],
           \A r \in Row : sessions[r].state # "absent" =>
             /\ sessions'[r].state # "absent"
             /\ sessions'[r].fam = sessions[r].fam
             /\ sessions[r].replacedBy # NoRow => sessions'[r].replacedBy # NoRow
             /\ sessions[r].state = "live" =>
                  \/ sessions'[r].state = "live"
                  \/ sessions'[r].replacedBy # NoRow
                  \/ fate'[sessions[r].fam] = "closed",
           \A f \in Family : fate[f] = "closed" => fate'[f] = "closed"
    PROVE  Knows(p)'
<1>0. proc[p].scope \subseteq Family /\ proc[p].targets \subseteq Row
  BY DEF TypeOK, Request
<1>1. ASSUME NEW t \in proc[p].targets
      PROVE  /\ sessions'[t].state # "absent"
             /\ sessions'[t].fam = sessions[t].fam
             /\ sessions[t].fam \in proc[p].scope
  BY <1>0 DEF Knows
<1>2. ASSUME NEW f \in proc[p].scope
      PROVE  Opened(f)' /\ (fate'[f] = "closed" \/ Caught(p, f)')
  <2>1. Opened(f) /\ (fate[f] = "closed" \/ Caught(p, f))
    BY DEF Knows
  <2>2. Opened(f)'
    BY <2>1 DEF Opened, RowsOf
  <2>3. CASE fate[f] = "closed"
    BY <1>0, <2>2, <2>3
  <2>4. CASE Caught(p, f)
    <3>1. PICK t \in proc[p].targets :
            sessions[t].fam = f /\ (sessions[t].state = "live" \/ sessions[t].replacedBy # NoRow)
      BY <2>4 DEF Caught
    <3>2. t \in Row /\ sessions[t].state # "absent" /\ sessions'[t].fam = f
      BY <1>0, <1>1, <3>1 DEF Knows
    <3>3. \/ sessions'[t].state = "live"
          \/ sessions'[t].replacedBy # NoRow
          \/ fate'[f] = "closed"
      BY <3>1, <3>2
    <3> QED BY <2>2, <3>2, <3>3 DEF Caught
  <2> QED BY <2>1, <2>3, <2>4
<1>3. ASSUME NEW t \in proc[p].targets, NEW x \in proc[p].targets,
             sessions'[t].fam = sessions'[x].fam
      PROVE  t = x
  BY <1>1, <1>3 DEF Knows
<1> QED BY <1>1, <1>2, <1>3 DEF Knows

\* A login.
LEMMA StartKeeps ==
    ASSUME FamilyInv, NEW p \in Proc, NEW f \in Family, NEW r \in Row,
           StartSession(p, f, r), RotationInv'
    PROVE  FamilyInv'
<1>0. /\ sessions[r].state = "absent" /\ ~Opened(f)
      /\ sessions'[r].state = "live" /\ sessions'[r].fam = f
      /\ sessions'[r].holder \in Holder /\ sessions'[r].replacedBy = NoRow
      /\ \A s \in Row \ {r} : sessions'[s] = sessions[s]
      /\ UNCHANGED fate
      /\ \A q \in Proc \ {p} : proc'[q] = proc[q]
      /\ proc'[p].pc = "idle"
  BY StartEffect
<1>a. TypeOK /\ RowsWellFormed /\ ChainIsLinear /\ UnopenedIsOpen /\ DeadExactlyWhenClosed
  BY DEF FamilyInv, RotationInv
<1>b. \A s \in Row : sessions[s].state # "absent" => sessions[s].fam # f
  BY <1>0 DEF Opened, RowsOf
<1>1. RowsWellFormed'
  <2>1. \A x \in Row :
          LET s == sessions'[x] IN
          /\ s.state = "absent" => s.replacedBy = NoRow
          /\ s.state # "absent" => s.fam \in Family /\ s.holder \in Holder
          /\ s.state = "live" => s.replacedBy = NoRow
    BY <1>0, <1>a DEF RowsWellFormed
  <2>2. ASSUME NEW x \in Row, NEW y \in Row,
               sessions'[x].state # "absent", sessions'[y].state # "absent",
               sessions'[x].fam = sessions'[y].fam
        PROVE  sessions'[x].holder = sessions'[y].holder
    <3>1. CASE x = r \/ y = r
      BY <1>0, <1>b, <2>2, <3>1
    <3>2. CASE x # r /\ y # r
      BY <1>0, <1>a, <2>2, <3>2 DEF RowsWellFormed
    <3> QED BY <3>1, <3>2
  <2> QED BY <2>1, <2>2 DEF RowsWellFormed
<1>2. ChainIsLinear'
  <2> SUFFICES ASSUME NEW x \in Row, sessions'[x].replacedBy # NoRow
               PROVE  LET n == sessions'[x].replacedBy IN
                      /\ sessions'[x].state = "revoked"
                      /\ sessions'[n].state # "absent"
                      /\ sessions'[n].fam = sessions'[x].fam
                      /\ sessions'[n].holder = sessions'[x].holder
                      /\ \A s \in Row \ {x} : sessions'[s].replacedBy # n
    BY DEF ChainIsLinear
  <2>1. x # r /\ sessions'[x] = sessions[x]
    BY <1>0
  <2> DEFINE n == sessions[x].replacedBy
  <2>2. /\ sessions[x].state = "revoked"
        /\ sessions[n].state # "absent"
        /\ sessions[n].fam = sessions[x].fam
        /\ sessions[n].holder = sessions[x].holder
        /\ \A s \in Row \ {x} : sessions[s].replacedBy # n
    BY <1>a, <2>1 DEF ChainIsLinear
  <2>3. n \in Row /\ n # NoRow
    BY <1>a, <2>1 DEF TypeOK, SessionRow
  <2>4. sessions'[n] = sessions[n]
    BY <1>0, <2>2, <2>3
  <2>5. \A s \in Row \ {x} : sessions'[s].replacedBy # n
    BY <1>0, <2>2, <2>3
  <2> QED BY <2>1, <2>2, <2>4, <2>5
<1>3. LoginsKnowHolder'
  BY <1>0 DEF FamilyInv, LoginsKnowHolder, At
<1>4. RevocationsKnowRows'
  <2> SUFFICES ASSUME NEW q \in Proc, At(q, "revoking")' PROVE Knows(q)'
    BY DEF RevocationsKnowRows
  <2>1. proc'[q] = proc[q] /\ Knows(q)
    BY <1>0 DEF FamilyInv, RevocationsKnowRows, At
  <2> QED BY <1>0, <1>a, <2>1, KnowledgeKept
<1>5. ASSUME NEW g \in Family \ {f}
      PROVE  (Opened(g)' <=> Opened(g)) /\ LiveRows(g)' = LiveRows(g)
  BY <1>0 DEF Opened, LiveRows, RowsOf
<1>6. Opened(f)' /\ LiveRows(f)' # {} /\ fate'[f] # "closed"
  BY <1>0, <1>a DEF Opened, LiveRows, RowsOf, UnopenedIsOpen
<1>7. UnopenedIsOpen'
  BY <1>0, <1>a, <1>5, <1>6 DEF UnopenedIsOpen
<1>8. DeadExactlyWhenClosed'
  <2> SUFFICES ASSUME NEW g \in Family, Opened(g)'
               PROVE  LiveRows(g)' = {} <=> fate'[g] = "closed"
    BY DEF DeadExactlyWhenClosed
  <2>1. CASE g = f
    BY <1>6, <2>1
  <2>2. CASE g # f
    BY <1>0, <1>a, <1>5, <2>2 DEF DeadExactlyWhenClosed
  <2> QED BY <2>1, <2>2
<1> QED BY <1>1, <1>2, <1>3, <1>4, <1>7, <1>8 DEF FamilyInv

\* A rotation's commit.
LEMMA RotationKeeps ==
    ASSUME FamilyInv, NEW p \in Proc, CommitRotation(p), RotationInv'
    PROVE  FamilyInv'
<1>0. PICK old \in Row, new \in Row :
        /\ old # new
        /\ sessions[old].state = "live" /\ sessions[new].state = "absent"
        /\ sessions'[old].state = "revoked" /\ sessions'[old].replacedBy = new
        /\ sessions'[old].fam = sessions[old].fam
        /\ sessions'[old].holder = sessions[old].holder
        /\ sessions'[new].state = "live" /\ sessions'[new].replacedBy = NoRow
        /\ sessions'[new].fam = sessions[old].fam
        /\ sessions'[new].holder = sessions[old].holder
        /\ \A s \in Row \ {old, new} : sessions'[s] = sessions[s]
        /\ UNCHANGED fate
        /\ \A q \in Proc \ {p} : proc'[q] = proc[q]
        /\ proc'[p].pc = "idle"
  BY RotationEffect
<1>a. TypeOK /\ RowsWellFormed /\ ChainIsLinear /\ UnopenedIsOpen /\ DeadExactlyWhenClosed
  BY DEF FamilyInv, RotationInv
<1>b. /\ sessions[old].fam \in Family /\ sessions[old].holder \in Holder
      /\ sessions[old].replacedBy = NoRow /\ sessions[new].replacedBy = NoRow
      /\ new # NoRow
  BY <1>0, <1>a, NullAssumption DEF RowsWellFormed
\* The row a row of after the commit has its family and holder from.
<1> DEFINE Source(x) == IF x = new THEN old ELSE x
<1>c. ASSUME NEW x \in Row, sessions'[x].state # "absent"
      PROVE  /\ Source(x) \in Row /\ sessions[Source(x)].state # "absent"
             /\ sessions'[x].fam = sessions[Source(x)].fam
             /\ sessions'[x].holder = sessions[Source(x)].holder
  BY <1>0, <1>c
<1>1. RowsWellFormed'
  <2>1. \A x \in Row :
          LET s == sessions'[x] IN
          /\ s.state = "absent" => s.replacedBy = NoRow
          /\ s.state # "absent" => s.fam \in Family /\ s.holder \in Holder
          /\ s.state = "live" => s.replacedBy = NoRow
    BY <1>0, <1>a, <1>b DEF RowsWellFormed
  <2>2. ASSUME NEW x \in Row, NEW y \in Row,
               sessions'[x].state # "absent", sessions'[y].state # "absent",
               sessions'[x].fam = sessions'[y].fam
        PROVE  sessions'[x].holder = sessions'[y].holder
    <3> HIDE DEF Source
    <3> QED BY <1>a, <1>c, <2>2 DEF RowsWellFormed
  <2> QED BY <2>1, <2>2 DEF RowsWellFormed
<1>2. ChainIsLinear'
  <2> SUFFICES ASSUME NEW x \in Row, NEW n, n = sessions'[x].replacedBy, n # NoRow
               PROVE  /\ sessions'[x].state = "revoked"
                      /\ sessions'[n].state # "absent"
                      /\ sessions'[n].fam = sessions'[x].fam
                      /\ sessions'[n].holder = sessions'[x].holder
                      /\ \A s \in Row \ {x} : sessions'[s].replacedBy # n
    BY DEF ChainIsLinear
  <2>1. CASE x = old
    <3>1. n = new
      BY <1>0, <2>1
    <3>2. \A s \in Row \ {old} : sessions'[s].replacedBy # new
      <4> SUFFICES ASSUME NEW s \in Row \ {old}, sessions'[s].replacedBy = new
                   PROVE  FALSE
        OBVIOUS
      <4>1. s # new /\ sessions[s].replacedBy = new
        BY <1>0, <1>b
      <4> QED BY <1>0, <1>a, <1>b, <4>1 DEF ChainIsLinear
    <3> QED BY <1>0, <2>1, <3>1, <3>2
  <2>2. CASE x # old
    <3>1. x # new /\ sessions'[x] = sessions[x]
      BY <1>0, <2>2
    <3>2. /\ sessions[x].state = "revoked"
          /\ sessions[n].state # "absent"
          /\ sessions[n].fam = sessions[x].fam
          /\ sessions[n].holder = sessions[x].holder
          /\ \A s \in Row \ {x} : sessions[s].replacedBy # n
      BY <1>a, <3>1 DEF ChainIsLinear
    <3>3. n \in Row
      BY <1>a, <3>1 DEF TypeOK, SessionRow
    <3>4. n # new
      BY <1>0, <3>2
    <3>5. /\ sessions'[n].state # "absent"
          /\ sessions'[n].fam = sessions[n].fam
          /\ sessions'[n].holder = sessions[n].holder
      BY <1>0, <3>2, <3>3, <3>4
    <3>6. \A s \in Row \ {x} : sessions'[s].replacedBy # n
      BY <1>0, <3>2, <3>3, <3>4, NullAssumption
    <3> QED BY <3>1, <3>2, <3>5, <3>6
  <2> QED BY <2>1, <2>2
<1>3. LoginsKnowHolder'
  BY <1>0 DEF FamilyInv, LoginsKnowHolder, At
<1>4. RevocationsKnowRows'
  <2> SUFFICES ASSUME NEW q \in Proc, At(q, "revoking")' PROVE Knows(q)'
    BY DEF RevocationsKnowRows
  <2>1. proc'[q] = proc[q] /\ Knows(q)
    BY <1>0 DEF FamilyInv, RevocationsKnowRows, At
  <2>2. \A r \in Row : sessions[r].state # "absent" =>
             /\ sessions'[r].state # "absent"
             /\ sessions'[r].fam = sessions[r].fam
             /\ sessions[r].replacedBy # NoRow => sessions'[r].replacedBy # NoRow
             /\ sessions[r].state = "live" =>
                  sessions'[r].state = "live" \/ sessions'[r].replacedBy # NoRow
    BY <1>0, <1>b
  <2> QED BY <1>0, <1>a, <2>1, <2>2, KnowledgeKept
<1>5. ASSUME NEW g \in Family
      PROVE  /\ Opened(g)' <=> Opened(g)
             /\ LiveRows(g)' = {} <=> LiveRows(g) = {}
  <2>1. CASE g = sessions[old].fam
    <3>1. old \in RowsOf(g) /\ old \in LiveRows(g) /\ new \in RowsOf(g)' /\ new \in LiveRows(g)'
      BY <1>0, <2>1 DEF LiveRows, RowsOf
    <3> QED BY <3>1 DEF Opened
  <2>2. CASE g # sessions[old].fam
    BY <1>0, <2>2 DEF Opened, LiveRows, RowsOf
  <2> QED BY <2>1, <2>2
<1>6. UnopenedIsOpen'
  BY <1>0, <1>a, <1>5 DEF UnopenedIsOpen
<1>7. DeadExactlyWhenClosed'
  BY <1>0, <1>a, <1>5 DEF DeadExactlyWhenClosed
<1> QED BY <1>1, <1>2, <1>3, <1>4, <1>6, <1>7 DEF FamilyInv

\* A revocation's snapshot holds the live row of every family it means to end.
LEMMA BeginKeeps ==
    ASSUME FamilyInv, NEW p \in Proc, BeginRevoke(p), RotationInv'
    PROVE  FamilyInv'
<1> DEFINE found == {f \in Family : \E r \in RowsOf(f) : Matches(p, r)}
           live == {r \in Row : Matches(p, r) /\ sessions[r].state = "live"}
<1>0. proc \in [Proc -> Request] /\ AtMostOneLiveRow
  BY DEF FamilyInv, RotationInv, TypeOK
<1>1. UNCHANGED <<sessions, fate>>
      /\ proc' = [proc EXCEPT ![p] = [proc[p] EXCEPT !.pc = "revoking", !.scope = found,
                                                     !.targets = live, !.locked = {}]]
  BY DEF BeginRevoke, Become
<1> DEFINE s == proc[p]
           t == proc'[p]
<1>2. /\ s \in Request
      /\ t = [s EXCEPT !.pc = "revoking", !.scope = found, !.targets = live, !.locked = {}]
  BY <1>0, <1>1
<1>3. t.pc = "revoking" /\ t.scope = found /\ t.targets = live
  <2> HIDE DEF s, t, found, live
  <2> QED BY <1>2 DEF Request
<1>4. \A q \in Proc \ {p} : proc'[q] = proc[q]
  BY <1>0, <1>1
<1>5. ASSUME NEW f \in found
      PROVE  Opened(f) /\ (fate[f] = "closed" \/ \E r \in live : sessions[r].fam = f)
  <2>1. PICK r \in RowsOf(f) : Matches(p, r)
    OBVIOUS
  <2>2. Opened(f)
    BY <2>1 DEF Opened
  <2>3. ASSUME NEW x \in LiveRows(f) PROVE x \in live /\ sessions[x].fam = f
    <3>1. /\ r \in Row /\ x \in Row
          /\ sessions[r].state # "absent" /\ sessions[x].state = "live"
          /\ sessions[r].fam = f /\ sessions[x].fam = f
      BY DEF LiveRows, RowsOf
    <3>2. sessions[x].holder = sessions[r].holder
      BY <3>1 DEF FamilyInv, RowsWellFormed
    <3>3. Matches(p, x)
      BY <2>1, <3>1, <3>2 DEF Matches
    <3> QED BY <3>1, <3>3
  <2>4. fate[f] = "closed" \/ LiveRows(f) # {}
    BY <2>2 DEF FamilyInv, DeadExactlyWhenClosed
  <2> QED BY <2>2, <2>3, <2>4
<1>6. ASSUME NEW x \in live
      PROVE  /\ x \in Row /\ sessions[x].state = "live" /\ sessions[x].fam \in found
             /\ x \in LiveRows(sessions[x].fam)
  <2>1. x \in Row /\ Matches(p, x) /\ sessions[x].state = "live"
    OBVIOUS
  <2>2. sessions[x].fam \in Family
    BY <2>1 DEF FamilyInv, RowsWellFormed
  <2>3. x \in RowsOf(sessions[x].fam)
    BY <2>1 DEF RowsOf
  <2> QED BY <2>1, <2>2, <2>3 DEF LiveRows
<1> HIDE DEF s, found, live
<1>7. Knows(p)'
  <2>1. ASSUME NEW f \in found
        PROVE  Opened(f)' /\ (fate'[f] = "closed" \/ Caught(p, f)')
    <3>1. Opened(f)'
      BY <1>1, <1>5 DEF Opened, RowsOf
    <3>2. CASE fate[f] = "closed"
      BY <1>1, <3>1, <3>2
    <3>3. CASE \E r \in live : sessions[r].fam = f
      BY <1>1, <1>3, <1>6, <3>1, <3>3 DEF Caught
    <3> QED BY <1>5, <3>2, <3>3
  <2>2. ASSUME NEW x \in live
        PROVE  sessions'[x].state # "absent" /\ sessions'[x].fam \in found
    BY <1>1, <1>6
  <2>3. ASSUME NEW x \in live, NEW y \in live, sessions'[x].fam = sessions'[y].fam
        PROVE  x = y
    <3>1. sessions[x].fam \in Family
      BY <1>6 DEF found
    <3> QED BY <1>0, <1>1, <1>6, <2>3, <3>1 DEF AtMostOneLiveRow
  <2> QED BY <1>3, <2>1, <2>2, <2>3 DEF Knows
<1>8. RevocationsKnowRows'
  <2> SUFFICES ASSUME NEW q \in Proc, q # p, At(q, "revoking")' PROVE Knows(q)'
    BY <1>7 DEF RevocationsKnowRows
  <2>1. proc'[q] = proc[q] /\ Knows(q)
    BY <1>4 DEF FamilyInv, RevocationsKnowRows, At
  <2> QED BY <1>1, <2>1, KnowledgeUnchanged
<1>9. LoginsKnowHolder'
  BY <1>3, <1>4 DEF FamilyInv, LoginsKnowHolder, At
<1>10. TableInv'
  <2>1. TableInv
    BY DEF FamilyInv, TableInv
  <2> QED BY <1>1, <2>1, TableUnchanged
<1> QED BY <1>8, <1>9, <1>10 DEF FamilyInv, TableInv

\* The end of a revocation.
LEMMA FinishKeeps ==
    ASSUME FamilyInv, NEW p \in Proc, FinishRevoke(p), RotationInv'
    PROVE  FamilyInv'
<1>0. /\ At(p, "revoking")
      /\ \A r \in Row :
           /\ sessions'[r].fam = sessions[r].fam
           /\ sessions'[r].holder = sessions[r].holder
           /\ sessions'[r].replacedBy = sessions[r].replacedBy
           /\ r \in proc[p].targets /\ sessions[r].state = "live"
                => sessions'[r].state = "revoked"
           /\ r \notin proc[p].targets \/ sessions[r].state # "live"
                => sessions'[r] = sessions[r]
      /\ \A f \in Family :
           /\ f \notin proc[p].scope \/ fate[f] = "closed" => fate'[f] = fate[f]
           /\ f \in proc[p].scope /\ fate[f] # "closed" /\ Outrun(p, f)
                => fate'[f] = "outrun"
           /\ f \in proc[p].scope /\ fate[f] # "closed" /\ ~Outrun(p, f)
                => fate'[f] = "closed"
      /\ \A q \in Proc \ {p} : proc'[q] = proc[q]
      /\ proc'[p].pc \in {"idle", "audit"}
  BY FinishEffect
<1>a. /\ TypeOK /\ RowsWellFormed /\ ChainIsLinear /\ UnopenedIsOpen
      /\ DeadExactlyWhenClosed /\ AtMostOneLiveRow
  BY DEF FamilyInv, RotationInv
<1>b. Knows(p) /\ proc[p].targets \subseteq Row /\ proc[p].scope \subseteq Family
  BY <1>0, <1>a DEF FamilyInv, RevocationsKnowRows, TypeOK, Request
<1>c. \A r \in Row :
        /\ sessions'[r].state = "absent" <=> sessions[r].state = "absent"
        /\ sessions'[r].state = "live" <=> sessions[r].state = "live" /\ r \notin proc[p].targets
        /\ sessions[r].state = "revoked" => sessions'[r].state = "revoked"
  BY <1>0
<1>d. \A f \in Family :
        /\ Opened(f)' <=> Opened(f)
        /\ LiveRows(f)' = LiveRows(f) \ proc[p].targets
  BY <1>0, <1>c DEF Opened, LiveRows, RowsOf
\* A live target is the only target of its family, so the family was not outrun.
<1>e. ASSUME NEW t \in proc[p].targets, sessions[t].state = "live"
      PROVE  /\ sessions[t].fam \in proc[p].scope
             /\ fate[sessions[t].fam] # "closed"
             /\ ~Outrun(p, sessions[t].fam)
  <2>1. sessions[t].fam \in proc[p].scope /\ sessions[t].replacedBy = NoRow /\ t \in Row
    BY <1>a, <1>b, <1>e DEF Knows, RowsWellFormed
  <2>2. t \in LiveRows(sessions[t].fam) /\ t \in RowsOf(sessions[t].fam)
    BY <1>e, <2>1 DEF LiveRows, RowsOf
  <2>3. fate[sessions[t].fam] # "closed"
    BY <1>a, <1>b, <2>1, <2>2 DEF DeadExactlyWhenClosed, Opened
  <2>4. ~Outrun(p, sessions[t].fam)
    BY <1>b, <2>1 DEF Outrun, Knows
  <2> QED BY <2>1, <2>3, <2>4
<1>1. RowsWellFormed'
  <2>1. ASSUME NEW x \in Row
        PROVE  /\ sessions'[x].state = "absent" => sessions'[x].replacedBy = NoRow
               /\ sessions'[x].state # "absent" =>
                    sessions'[x].fam \in Family /\ sessions'[x].holder \in Holder
               /\ sessions'[x].state = "live" => sessions'[x].replacedBy = NoRow
    BY <1>0, <1>a, <1>c DEF RowsWellFormed
  <2>2. ASSUME NEW x \in Row, NEW y \in Row,
               sessions'[x].state # "absent", sessions'[y].state # "absent",
               sessions'[x].fam = sessions'[y].fam
        PROVE  sessions'[x].holder = sessions'[y].holder
    BY <1>0, <1>a, <1>c, <2>2 DEF RowsWellFormed
  <2> QED BY <2>1, <2>2 DEF RowsWellFormed
<1>2. ChainIsLinear'
  <2> SUFFICES ASSUME NEW x \in Row, NEW n, n = sessions'[x].replacedBy, n # NoRow
               PROVE  /\ sessions'[x].state = "revoked"
                      /\ sessions'[n].state # "absent"
                      /\ sessions'[n].fam = sessions'[x].fam
                      /\ sessions'[n].holder = sessions'[x].holder
                      /\ \A s \in Row \ {x} : sessions'[s].replacedBy # n
    BY DEF ChainIsLinear
  <2>1. n = sessions[x].replacedBy
    BY <1>0
  <2>2. /\ sessions[x].state = "revoked"
        /\ sessions[n].state # "absent"
        /\ sessions[n].fam = sessions[x].fam
        /\ sessions[n].holder = sessions[x].holder
        /\ \A s \in Row \ {x} : sessions[s].replacedBy # n
    BY <1>a, <2>1 DEF ChainIsLinear
  <2>3. n \in Row
    BY <1>a, <2>1 DEF TypeOK, SessionRow
  <2> QED BY <1>0, <1>c, <2>2, <2>3
<1>3. LoginsKnowHolder'
  BY <1>0 DEF FamilyInv, LoginsKnowHolder, At
<1>4. \A f \in Family : fate[f] = "closed" => fate'[f] = "closed"
  BY <1>0
<1>5. RevocationsKnowRows'
  <2> SUFFICES ASSUME NEW q \in Proc, At(q, "revoking")' PROVE Knows(q)'
    BY DEF RevocationsKnowRows
  <2>1. q # p /\ proc'[q] = proc[q] /\ Knows(q)
    BY <1>0 DEF FamilyInv, RevocationsKnowRows, At
  <2>2. \A r \in Row : sessions[r].state # "absent" =>
             /\ sessions'[r].state # "absent"
             /\ sessions'[r].fam = sessions[r].fam
             /\ sessions[r].replacedBy # NoRow => sessions'[r].replacedBy # NoRow
             /\ sessions[r].state = "live" =>
                  sessions'[r].state = "live" \/ fate'[sessions[r].fam] = "closed"
    <3>1. ASSUME NEW r \in Row, sessions[r].state = "live", sessions'[r].state # "live"
          PROVE  fate'[sessions[r].fam] = "closed"
      BY <1>0, <1>b, <1>c, <1>e, <3>1
    <3> QED BY <1>0, <1>c, <3>1
  <2> QED BY <1>4, <1>a, <2>1, <2>2, KnowledgeKept
<1>6. UnopenedIsOpen'
  <2> SUFFICES ASSUME NEW f \in Family, ~Opened(f) PROVE fate'[f] = "open"
    BY <1>d DEF UnopenedIsOpen
  <2>1. f \notin proc[p].scope
    BY <1>b DEF Knows
  <2> QED BY <1>0, <1>a, <2>1 DEF UnopenedIsOpen
<1>7. DeadExactlyWhenClosed'
  <2> SUFFICES ASSUME NEW f \in Family, Opened(f)
               PROVE  LiveRows(f) \ proc[p].targets = {} <=> fate'[f] = "closed"
    BY <1>d DEF DeadExactlyWhenClosed
  <2>0. LiveRows(f) = {} <=> fate[f] = "closed"
    BY <1>a DEF DeadExactlyWhenClosed
  <2>1. CASE fate[f] = "closed"
    BY <1>4, <2>0, <2>1
  <2>2. CASE fate[f] # "closed" /\ f \notin proc[p].scope
    <3>1. \A x \in LiveRows(f) : x \notin proc[p].targets
      BY <1>b, <2>2 DEF Knows, LiveRows, RowsOf
    <3>2. fate'[f] = fate[f]
      BY <1>0, <2>2
    <3> QED BY <2>0, <2>2, <3>1, <3>2
  <2>3. CASE fate[f] # "closed" /\ f \in proc[p].scope /\ Outrun(p, f)
    <3>1. \A x \in LiveRows(f) : x \notin proc[p].targets
      BY <1>e, <2>3 DEF LiveRows, RowsOf
    <3>2. fate'[f] = "outrun"
      BY <1>0, <2>3
    <3> QED BY <2>0, <2>3, <3>1, <3>2
  <2>4. CASE fate[f] # "closed" /\ f \in proc[p].scope /\ ~Outrun(p, f)
    <3>1. PICK t \in proc[p].targets :
            sessions[t].fam = f /\ (sessions[t].state = "live" \/ sessions[t].replacedBy # NoRow)
      BY <1>b, <2>4 DEF Knows, Caught
    <3>2. sessions[t].state = "live" /\ t \in Row
      BY <1>b, <2>4, <3>1 DEF Outrun
    <3>3. t \in LiveRows(f)
      BY <3>1, <3>2 DEF LiveRows, RowsOf
    <3>4. \A x \in LiveRows(f) : x = t
      BY <1>a, <3>3 DEF AtMostOneLiveRow
    <3>5. fate'[f] = "closed"
      BY <1>0, <2>4
    <3> QED BY <3>1, <3>4, <3>5
  <2> QED BY <2>1, <2>2, <2>3, <2>4
<1> QED BY <1>1, <1>2, <1>3, <1>5, <1>6, <1>7 DEF FamilyInv

-----------------------------------------------------------------------------
(* Theorems *)

\* The invariant holds in every reachable state.
THEOREM FamilyInvariant == Spec => []FamilyInv
<1>1. Init /\ RotationInv => FamilyInv
  <2> SUFFICES ASSUME Init, RotationInv PROVE FamilyInv
    OBVIOUS
  <2>1. \A r \in Row : sessions[r].state = "absent" /\ sessions[r].replacedBy = NoRow
    BY DEF Init, AbsentRow
  <2>2. \A f \in Family : ~Opened(f) /\ fate[f] = "open"
    BY <2>1 DEF Init, Opened, RowsOf
  <2>3. \A p \in Proc : proc[p].pc = "idle"
    BY DEF Init, Idle
  <2> QED BY <2>1, <2>2, <2>3
      DEF FamilyInv, RowsWellFormed, ChainIsLinear, LoginsKnowHolder, RevocationsKnowRows,
          UnopenedIsOpen, DeadExactlyWhenClosed, At
<1>2. FamilyInv /\ RotationInv' /\ [Next]_vars => FamilyInv'
  <2> SUFFICES ASSUME FamilyInv, RotationInv', [Next]_vars PROVE FamilyInv'
    OBVIOUS
  <2>1. TypeOK
    BY DEF FamilyInv, RotationInv
  <2> QED BY <2>1, StepKinds, ElsewhereKeeps, StartKeeps, RotationKeeps, BeginKeeps, FinishKeeps
<1> QED BY <1>1, <1>2, RotationInvariant, PTL DEF Spec

\* A family has no working token exactly when a revocation caught it: no rotation
\* drops the session, and nothing in flight brings a caught family back.
THEOREM DiesWhenCaught == Spec => []DeadExactlyWhenClosed
<1>1. FamilyInv => DeadExactlyWhenClosed
  BY DEF FamilyInv
<1> QED BY <1>1, FamilyInvariant, PTL

\* The rotations of a family form one line, for its one holder.
THEOREM RotationsFormLine == Spec => []ChainIsLinear
<1>1. FamilyInv => ChainIsLinear
  BY DEF FamilyInv
<1> QED BY <1>1, FamilyInvariant, PTL

-----------------------------------------------------------------------------
(* The table implements TokenFamily *)

\* The token of a family that is worth something, and whom the family is for.
CurrentOf(f) == IF LiveRows(f) = {} THEN NoRow ELSE CHOOSE r \in LiveRows(f) : TRUE
HolderOf(f) ==
    IF Opened(f) THEN sessions[CHOOSE r \in RowsOf(f) : TRUE].holder ELSE Nobody
Spent == {r \in Row : sessions[r].state = "revoked"}

\* Any live row of a family is its current token, any row tells its holder.
OfFamily(f) ==
    /\ LiveRows(f) = {} => CurrentOf(f) = NoRow
    /\ \A r \in LiveRows(f) : CurrentOf(f) = r
    /\ ~Opened(f) => HolderOf(f) = Nobody
    /\ \A r \in RowsOf(f) : Opened(f) /\ HolderOf(f) = sessions[r].holder
    /\ CurrentOf(f) # NoRow => CurrentOf(f) \in LiveRows(f)
FamiliesTell == \A f \in Family : OfFamily(f)

\* The invariant says so: one live row at most, one holder for all the rows.
LEMMA Telling == FamilyInv => FamiliesTell
<1> SUFFICES ASSUME FamilyInv, NEW f \in Family PROVE OfFamily(f)
  BY DEF FamiliesTell
<1>1. \A r \in LiveRows(f) : CurrentOf(f) = r
  BY DEF CurrentOf, FamilyInv, RotationInv, AtMostOneLiveRow
<1>2. ASSUME NEW r \in RowsOf(f)
      PROVE  Opened(f) /\ HolderOf(f) = sessions[r].holder
  <2> DEFINE x == CHOOSE x \in RowsOf(f) : TRUE
  <2>1. Opened(f) /\ x \in RowsOf(f)
    BY DEF Opened
  <2>2. HolderOf(f) = sessions[x].holder
    BY <2>1 DEF HolderOf
  <2> HIDE DEF x
  <2>3. /\ r \in Row /\ sessions[r].state # "absent" /\ sessions[r].fam = f
        /\ x \in Row /\ sessions[x].state # "absent" /\ sessions[x].fam = f
    BY <2>1 DEF RowsOf
  <2>4. sessions[x].holder = sessions[r].holder
    BY <2>3 DEF FamilyInv, RowsWellFormed
  <2> QED BY <2>1, <2>2, <2>4
<1>3. LiveRows(f) = {} => CurrentOf(f) = NoRow
  BY DEF CurrentOf
<1>4. ~Opened(f) => HolderOf(f) = Nobody
  BY DEF HolderOf
<1>5. CurrentOf(f) # NoRow => CurrentOf(f) \in LiveRows(f)
  BY <1>1, <1>3
<1> QED BY <1>1, <1>2, <1>3, <1>4, <1>5 DEF OfFamily

\* And once the step is taken it says so again.
LEMMA TellingNext == FamilyInv' => FamiliesTell'
BY Telling, PTL

\* TokenFamily's state, read off the table.
LEMMA AbstractState ==
    /\ Abstract!vars = << [f \in Family |-> CurrentOf(f)], Spent,
                          [f \in Family |-> HolderOf(f)] >>
    /\ Abstract!vars' = << [f \in Family |-> CurrentOf(f)'], Spent',
                           [f \in Family |-> HolderOf(f)'] >>
BY DEF Abstract!vars, CurrentOf, HolderOf, Spent

\* Opening a family, as TokenFamily has it, read off the table.
LEMMA OpenIs ==
    ASSUME NEW f \in Family, NEW t \in Row, NEW h \in Holder,
           HolderOf(f) = Nobody, t \notin Spent, \A g \in Family : CurrentOf(g) # t,
           \A g \in Family : HolderOf(g)' = IF g = f THEN h ELSE HolderOf(g),
           \A g \in Family : CurrentOf(g)' = IF g = f THEN t ELSE CurrentOf(g),
           Spent' = Spent
    PROVE  Abstract!Next
<1> DEFINE current == [g \in Family |-> CurrentOf(g)]
           holder == [g \in Family |-> HolderOf(g)]
<1>1. current' = [current EXCEPT ![f] = t] /\ holder' = [holder EXCEPT ![f] = h]
  OBVIOUS
<1>2. holder[f] = Nobody /\ \A g \in Family : current[g] # t
  OBVIOUS
<1>3. Abstract!Open(f, t, h)
  BY <1>1, <1>2 DEF Abstract!Open, Abstract!Fresh, CurrentOf, HolderOf, Spent
<1> QED BY <1>3 DEF Abstract!Next

\* Exchanging the token of a family for another one.
LEMMA RotateIs ==
    ASSUME NEW f \in Family, NEW t \in Row,
           CurrentOf(f) # NoRow, t \notin Spent, \A g \in Family : CurrentOf(g) # t,
           \A g \in Family : HolderOf(g)' = HolderOf(g),
           \A g \in Family : CurrentOf(g)' = IF g = f THEN t ELSE CurrentOf(g),
           Spent' = Spent \cup {CurrentOf(f)}
    PROVE  Abstract!Next
<1> DEFINE current == [g \in Family |-> CurrentOf(g)]
           holder == [g \in Family |-> HolderOf(g)]
<1>1. current' = [current EXCEPT ![f] = t] /\ holder' = holder
  OBVIOUS
<1>2. /\ current[f] # NoRow /\ \A g \in Family : current[g] # t
      /\ Spent' = Spent \cup {current[f]}
  OBVIOUS
<1>3. Abstract!Rotate(f, t)
  BY <1>1, <1>2 DEF Abstract!Rotate, Abstract!Fresh, CurrentOf, HolderOf, Spent
<1> QED BY <1>3 DEF Abstract!Next

\* Closing families.
LEMMA CloseIs ==
    ASSUME NEW F \in SUBSET Family,
           \A g \in F : CurrentOf(g) # NoRow,
           \A g \in Family : HolderOf(g)' = HolderOf(g),
           \A g \in Family : CurrentOf(g)' = IF g \in F THEN NoRow ELSE CurrentOf(g),
           Spent' = Spent \cup {CurrentOf(g) : g \in F}
    PROVE  Abstract!Next
<1> DEFINE current == [g \in Family |-> CurrentOf(g)]
           holder == [g \in Family |-> HolderOf(g)]
<1>1. current' = [g \in Family |-> IF g \in F THEN NoRow ELSE current[g]] /\ holder' = holder
  OBVIOUS
<1>2. {current[g] : g \in F} = {CurrentOf(g) : g \in F}
  OBVIOUS
<1>3. (\A g \in F : current[g] # NoRow) /\ Spent' = Spent \cup {current[g] : g \in F}
  BY <1>2
<1>4. Abstract!Close(F)
  BY <1>1, <1>3 DEF Abstract!Close, CurrentOf, HolderOf, Spent
<1> QED BY <1>4 DEF Abstract!Next

\* Every step of the code is a step of the abstract families, or none: a login opens
\* one, a rotation's commit exchanges its token, the end of a revocation closes those
\* whose live row was still there.
LEMMA FamilyStep ==
    ASSUME FamilyInv, FamilyInv', [Next]_vars
    PROVE  [Abstract!Next]_(Abstract!vars)
<1>0. /\ TypeOK /\ RowsWellFormed /\ FamiliesTell /\ FamiliesTell'
      /\ LoginsKnowHolder /\ AtMostOneLiveRow
  BY Telling, TellingNext DEF FamilyInv, RotationInv
<1>1. CASE UNCHANGED sessions
  <2>1. /\ \A f \in Family : CurrentOf(f)' = CurrentOf(f) /\ HolderOf(f)' = HolderOf(f)
        /\ Spent' = Spent
    BY <1>1 DEF CurrentOf, HolderOf, Spent, LiveRows, RowsOf, Opened
  <2>2. /\ [f \in Family |-> CurrentOf(f)'] = [f \in Family |-> CurrentOf(f)]
        /\ [f \in Family |-> HolderOf(f)'] = [f \in Family |-> HolderOf(f)]
    BY <2>1
  <2> QED BY <2>1, <2>2, AbstractState
<1>2. ASSUME NEW p \in Proc, NEW f \in Family, NEW r \in Row, StartSession(p, f, r)
      PROVE  Abstract!Next
  <2> DEFINE h == proc[p].who
  <2>0. /\ sessions[r].state = "absent" /\ ~Opened(f)
        /\ sessions'[r].state = "live" /\ sessions'[r].fam = f
        /\ sessions'[r].holder = h /\ h \in Holder
        /\ \A s \in Row \ {r} : sessions'[s] = sessions[s]
    BY <1>2, StartEffect
  <2> HIDE DEF h
  <2>1. HolderOf(f) = Nobody /\ r \notin Spent
    BY <1>0, <2>0 DEF FamiliesTell, OfFamily, Spent
  <2>2. ASSUME NEW g \in Family PROVE CurrentOf(g) # r
    BY <1>0, <2>0, NullAssumption DEF FamiliesTell, OfFamily, LiveRows
  <2>3. r \in LiveRows(f)' /\ r \in RowsOf(f)'
    BY <2>0 DEF LiveRows, RowsOf
  <2>4. CurrentOf(f)' = r /\ HolderOf(f)' = h
    BY <1>0, <2>0, <2>3 DEF FamiliesTell, OfFamily
  <2>5. ASSUME NEW g \in Family, g # f
        PROVE  CurrentOf(g)' = CurrentOf(g) /\ HolderOf(g)' = HolderOf(g)
    <3>1. LiveRows(g)' = LiveRows(g) /\ RowsOf(g)' = RowsOf(g)
      BY <2>0, <2>5 DEF LiveRows, RowsOf
    <3>2. Opened(g)' = Opened(g)
      BY <3>1 DEF Opened
    <3>3. CurrentOf(g)' = CurrentOf(g)
      BY <3>1 DEF CurrentOf
    <3>4. CASE Opened(g)
      <4>1. PICK x \in RowsOf(g) : TRUE
        BY <3>4 DEF Opened
      <4>2. HolderOf(g) = sessions[x].holder /\ HolderOf(g)' = sessions'[x].holder
        BY <1>0, <3>1, <4>1 DEF FamiliesTell, OfFamily
      <4>3. x \in Row /\ x # r
        BY <2>0, <4>1 DEF RowsOf
      <4> QED BY <2>0, <3>3, <4>2, <4>3
    <3>5. CASE ~Opened(g)
      BY <1>0, <3>2, <3>3, <3>5 DEF FamiliesTell, OfFamily
    <3> QED BY <3>4, <3>5
  <2>6. Spent' = Spent
    BY <2>0 DEF Spent
  <2>7. /\ \A g \in Family : HolderOf(g)' = IF g = f THEN h ELSE HolderOf(g)
        /\ \A g \in Family : CurrentOf(g)' = IF g = f THEN r ELSE CurrentOf(g)
    BY <2>4, <2>5
  <2>8. h \in Holder
    BY <2>0
  <2> QED BY ONLY <2>1, <2>2, <2>6, <2>7, <2>8, f \in Family, r \in Row, OpenIs
<1>3. ASSUME NEW p \in Proc, CommitRotation(p)
      PROVE  Abstract!Next
  <2>0. PICK old \in Row, new \in Row :
          /\ old # new
          /\ sessions[old].state = "live" /\ sessions[new].state = "absent"
          /\ sessions'[old].state = "revoked"
          /\ sessions'[old].fam = sessions[old].fam
          /\ sessions'[old].holder = sessions[old].holder
          /\ sessions'[new].state = "live"
          /\ sessions'[new].fam = sessions[old].fam
          /\ \A s \in Row \ {old, new} : sessions'[s] = sessions[s]
    BY <1>3, RotationEffect
  <2>1. PICK f \in Family : f = sessions[old].fam
    BY <1>0, <2>0 DEF RowsWellFormed
  <2>2. old \in LiveRows(f) /\ new \in LiveRows(f)'
    BY <2>0, <2>1 DEF LiveRows, RowsOf
  <2>3. CurrentOf(f) = old /\ CurrentOf(f)' = new /\ new \notin Spent
    BY <1>0, <2>0, <2>1, <2>2 DEF FamiliesTell, OfFamily, Spent
  <2>4. ASSUME NEW g \in Family PROVE CurrentOf(g) # new
    BY <1>0, <2>0, NullAssumption DEF FamiliesTell, OfFamily, LiveRows
  <2>5. ASSUME NEW g \in Family, g # f PROVE CurrentOf(g)' = CurrentOf(g)
    <3>1. LiveRows(g)' = LiveRows(g)
      BY <2>0, <2>1, <2>5 DEF LiveRows, RowsOf
    <3> QED BY <3>1 DEF CurrentOf
  <2>6. ASSUME NEW g \in Family PROVE HolderOf(g)' = HolderOf(g)
    <3>1. CASE Opened(g)
      <4>1. PICK x \in RowsOf(g) : TRUE
        BY <3>1 DEF Opened
      <4>2. x \in Row /\ x # new
        BY <2>0, <4>1 DEF RowsOf
      <4>3. x \in RowsOf(g)' /\ sessions'[x].holder = sessions[x].holder
        BY <2>0, <4>1, <4>2 DEF RowsOf
      <4> QED BY <1>0, <4>1, <4>3 DEF FamiliesTell, OfFamily
    <3>2. CASE ~Opened(g)
      <4>1. g # f
        BY <2>0, <2>1, <3>2 DEF Opened, RowsOf
      <4>2. ~Opened(g)'
        BY <2>0, <2>1, <3>2, <4>1 DEF Opened, RowsOf
      <4> QED BY <1>0, <3>2, <4>2 DEF FamiliesTell, OfFamily
    <3> QED BY <3>1, <3>2
  <2>7. Spent' = Spent \cup {old}
    BY <2>0 DEF Spent
  <2>8. CurrentOf(f) # NoRow
    BY <2>3, NullAssumption
  <2>9. \A g \in Family : CurrentOf(g)' = IF g = f THEN new ELSE CurrentOf(g)
    BY <2>3, <2>5
  <2>10. new \in Row /\ Spent' = Spent \cup {CurrentOf(f)}
    BY <2>3, <2>7
  <2> QED BY ONLY <2>1, <2>3, <2>4, <2>6, <2>8, <2>9, <2>10, RotateIs
<1>4. ASSUME NEW p \in Proc, FinishRevoke(p)
      PROVE  Abstract!Next
  <2>0. \A r \in Row :
          /\ sessions'[r].fam = sessions[r].fam
          /\ sessions'[r].holder = sessions[r].holder
          /\ r \in proc[p].targets /\ sessions[r].state = "live"
               => sessions'[r].state = "revoked"
          /\ r \notin proc[p].targets \/ sessions[r].state # "live"
               => sessions'[r] = sessions[r]
    BY <1>4, FinishEffect
  <2> DEFINE F == {f \in Family : \E t \in LiveRows(f) : t \in proc[p].targets}
  <2>1. ASSUME NEW f \in F
        PROVE  /\ CurrentOf(f) \in LiveRows(f) /\ CurrentOf(f) \in proc[p].targets
               /\ CurrentOf(f) # NoRow
    BY <1>0, NullAssumption DEF FamiliesTell, OfFamily, LiveRows, RowsOf
  <2>2. ASSUME NEW g \in Family
        PROVE  /\ RowsOf(g)' = RowsOf(g)
               /\ LiveRows(g)' = LiveRows(g) \ proc[p].targets
    BY <2>0 DEF LiveRows, RowsOf
  <2>3. ASSUME NEW g \in Family
        PROVE  CurrentOf(g)' = IF g \in F THEN NoRow ELSE CurrentOf(g)
    <3>1. CASE g \in F
      <4>1. \A x \in LiveRows(g) : x = CurrentOf(g)
        BY <1>0 DEF FamiliesTell, OfFamily
      <4>2. LiveRows(g)' = {}
        BY <2>1, <2>2, <3>1, <4>1
      <4> QED BY <1>0, <3>1, <4>2 DEF FamiliesTell, OfFamily
    <3>2. CASE g \notin F
      <4>1. LiveRows(g)' = LiveRows(g)
        BY <2>2, <3>2
      <4> QED BY <3>2, <4>1 DEF CurrentOf
    <3> QED BY <3>1, <3>2
  <2>4. ASSUME NEW g \in Family PROVE HolderOf(g)' = HolderOf(g)
    <3>1. CASE Opened(g)
      <4>1. PICK x \in RowsOf(g) : TRUE
        BY <3>1 DEF Opened
      <4>2. x \in Row /\ x \in RowsOf(g)'
        BY <2>2, <4>1 DEF RowsOf
      <4> QED BY <1>0, <2>0, <4>1, <4>2 DEF FamiliesTell, OfFamily
    <3>2. CASE ~Opened(g)
      BY <1>0, <2>2, <3>2 DEF FamiliesTell, OfFamily, Opened
    <3> QED BY <3>1, <3>2
  <2>5. Spent' = Spent \cup {CurrentOf(f) : f \in F}
    <3>1. ASSUME NEW r \in Spent' PROVE r \in Spent \cup {CurrentOf(f) : f \in F}
      <4>1. r \in Row /\ sessions'[r].state = "revoked"
        BY DEF Spent
      <4>2. CASE r \in proc[p].targets /\ sessions[r].state = "live"
        <5>1. sessions[r].fam \in Family /\ r \in LiveRows(sessions[r].fam)
          BY <1>0, <4>1, <4>2 DEF RowsWellFormed, LiveRows, RowsOf
        <5>2. r = CurrentOf(sessions[r].fam) /\ sessions[r].fam \in F
          BY <1>0, <4>2, <5>1 DEF FamiliesTell, OfFamily
        <5> HIDE DEF F
        <5> QED BY <5>2
      <4>3. CASE ~(r \in proc[p].targets /\ sessions[r].state = "live")
        BY <2>0, <4>1, <4>3 DEF Spent
      <4> QED BY <4>2, <4>3
    <3>2. ASSUME NEW f \in F PROVE CurrentOf(f) \in Spent'
      <4>1. /\ CurrentOf(f) \in Row /\ sessions[CurrentOf(f)].state = "live"
            /\ CurrentOf(f) \in proc[p].targets
        BY <2>1 DEF LiveRows, RowsOf
      <4> QED BY <2>0, <4>1 DEF Spent
    <3>3. ASSUME NEW r \in Spent PROVE r \in Spent'
      BY <2>0 DEF Spent
    <3> HIDE DEF F
    <3> QED BY <3>1, <3>2, <3>3
  <2>6. F \in SUBSET Family
    OBVIOUS
  <2> HIDE DEF F
  <2> QED BY ONLY <2>1, <2>3, <2>4, <2>5, <2>6, CloseIs
<1>5. \/ UNCHANGED sessions
      \/ \E p \in Proc :
           \/ \E f \in Family, r \in Row : StartSession(p, f, r)
           \/ CommitRotation(p)
           \/ FinishRevoke(p)
  BY <1>0, StepKinds DEF Elsewhere, BeginRevoke
<1> QED BY <1>1, <1>2, <1>3, <1>4, <1>5

\* Logins, refreshes and revocations, in whatever order their statements and commits
\* come, do to the sessions only what TokenFamily allows: one exchangeable token per
\* family, none reborn, the holder fixed when the family is opened.
THEOREM TableIsTokenFamily == Spec => ImplementsTokenFamily
<1>1. Init => Abstract!Init
  <2> SUFFICES ASSUME Init PROVE Abstract!Init
    OBVIOUS
  <2>1. \A r \in Row : sessions[r].state = "absent"
    BY DEF Init, AbsentRow
  <2>2. \A f \in Family : LiveRows(f) = {} /\ ~Opened(f)
    BY <2>1 DEF LiveRows, RowsOf, Opened
  <2>3. {r \in Row : sessions[r].state = "revoked"} = {}
    BY <2>1
  <2> QED BY <2>2, <2>3 DEF Abstract!Init
<1>2. FamilyInv /\ FamilyInv' /\ [Next]_vars => [Abstract!Next]_(Abstract!vars)
  BY FamilyStep
<1> QED BY <1>1, <1>2, FamilyInvariant, PTL DEF Spec, ImplementsTokenFamily, Abstract!Spec
=============================================================================
