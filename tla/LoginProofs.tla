----------------------------- MODULE LoginProofs -----------------------------
(* Login keeps its invariants for every number of requests, every threshold,  *)
(* every limit of the lock and every bound.                                   *)
(*                                                                            *)
(* What the requests carry (LoginInv) is proved first; on top of it and apart *)
(* from each other the lock (ThresholdLocks is inductive there), the guesses  *)
(* under it (GuessInv), the recovery codes (RecoveryInv) and the TOTP codes   *)
(* (CodeInv).                                                                 *)
EXTENDS Login, FiniteSetTheorems, TLAPS

-----------------------------------------------------------------------------
(* The inductive invariants *)

\* What a request carries: a code where one was typed, a code of the
\* authenticator where it was checked against a secret, the failures a lock is
\* owed for.
Carried(r) ==
    /\ r.pc = "verify" => r.code \in Code
    /\ r.pc \in {"advance", "confirm", "confirming"} => r.code \in TotpCode
    /\ r.pc = "lock" => r.lock >= LockAfter

Carries == \A p \in Proc : Carried(proc[p])

LoginInv == TypeOK /\ Carries

\* The requests that may still count a failure though the user is locked: those
\* that read an older lock, and those past the check of the lock.
Past ==
    {p \in Proc :
        \/ At(p, "password") /\ proc[p].lock < lockedUntil
        \/ proc[p].pc \in {"failed", "verify", "advance", "confirm"}}

\* The guesses counted under a lock and those still to come are fewer than the
\* requests, for the request that wrote the lock is not one of them.
GuessInv ==
    /\ late < Cardinality(Proc)
    /\ Locked => late + Cardinality(Past) < Cardinality(Proc)

\* The recovery codes accepted are of confirmations that were replaced, or are
\* marked as used.
RecoveryInv ==
    /\ RecoveryCodeOnce
    /\ \A c \in accepted : c.kind = "recovery" =>
          c.of <= recovery.of /\ (c.of = recovery.of => ~recovery.unused)

\* Until two confirmations overlap there is one confirmed secret: nothing was
\* accepted before it, nothing accepted since is later than the step that is
\* kept, and the requests about to advance that step have a code of that secret.
OneSecret ==
    /\ repeated \cap TotpCode = {}
    /\ ~factor.confirmed => accepted \cap TotpCode = {}
    /\ \A c \in accepted \cap TotpCode : c.of = factor.secret => c.step <= factor.lastUsedStep
    /\ \A p \in Proc : At(p, "advance") => factor.confirmed /\ proc[p].code.of = factor.secret

CodeInv == ~overlapped => OneSecret
-----------------------------------------------------------------------------
(* The operators                                                              *)

\* A power of two is a natural number and not 0: so many subsets a set has.
LEMMA PowersOfTwo == ASSUME NEW n \in Nat PROVE 2 ^ n \in Nat \ {0}
<1>1. IsFiniteSet(1..n) /\ Cardinality(1..n) = n
  BY FS_Interval, SMT
<1>2. IsFiniteSet(SUBSET (1..n)) /\ Cardinality(SUBSET (1..n)) = 2 ^ n
  BY <1>1, FS_SUBSET
<1>3. Cardinality(SUBSET (1..n)) \in Nat
  BY <1>2, FS_CardinalityType
<1>4. Cardinality(SUBSET (1..n)) # 0
  BY <1>2, FS_EmptySet
<1> QED BY <1>2, <1>3, <1>4

\* lockSeconds: nothing below the threshold, a lock from there on, and never
\* more than the limit.
LEMMA LockIsBounded ==
    ASSUME NEW n \in Nat
    PROVE  /\ LockPeriods(n) \in 0..LockMax
           /\ LockPeriods(n) > 0 <=> n >= LockAfter
<1> USE LockAssumption
<1>1. CASE n < LockAfter
  BY <1>1 DEF LockPeriods
<1>2. CASE n >= LockAfter
  <2> DEFINE doubled == 2 ^ (n - LockAfter)
  <2>1. n - LockAfter \in Nat
    BY <1>2
  <2>2. doubled \in Nat \ {0}
    BY <2>1, PowersOfTwo
  <2>3. LockPeriods(n) = IF doubled < LockMax THEN doubled ELSE LockMax
    BY <1>2 DEF LockPeriods
  <2> HIDE DEF doubled
  <2> QED BY <1>2, <2>2, <2>3
<1> QED BY <1>1, <1>2

\* The requests are finitely many and at least one.
LEMMA ProcFinite ==
    IsFiniteSet(Proc) /\ Cardinality(Proc) \in Nat /\ Cardinality(Proc) > 0
BY ProcAssumption, FS_CardinalityType, FS_EmptySet, SMT

\* A request that starts over, or goes on with nothing but the user.
LEMMA FreshRequest ==
    /\ Idle \in Request /\ Carried(Idle)
    /\ \A label \in {"known", "failed", "finish", "enrol"} :
          LET r == [Idle EXCEPT !.pc = label] IN
          r \in Request /\ Carried(r) /\ r.pc = label
BY LockAssumption DEF Idle, Request, PC, Carried, NoCode

\* A step of a request touches no other request.
LEMMA OneRequestMoves ==
    ASSUME LoginInv, NEW p \in Proc, NEW r \in Request, Carried(r), Become(p, r)
    PROVE  /\ proc' \in [Proc -> Request]
           /\ Carries'
           /\ proc'[p] = r
           /\ \A q \in Proc \ {p} : proc'[q] = proc[q]
<1>1. proc \in [Proc -> Request] /\ proc' = [proc EXCEPT ![p] = r]
  BY DEF LoginInv, TypeOK, Become
<1>2. proc' \in [Proc -> Request] /\ \A q \in Proc : proc'[q] = IF q = p THEN r ELSE proc[q]
  BY <1>1
<1>3. \A q \in Proc : Carried(proc[q])
  BY DEF LoginInv, Carries
<1>4. \A q \in Proc : Carried(proc'[q])
  BY <1>2, <1>3
<1>5. Carries'
  BY <1>4 DEF Carries, Carried
<1> QED BY <1>2, <1>5
-----------------------------------------------------------------------------
(* What the requests carry                                                    *)

\* The first state has no request under way and nothing stored.
LEMMA LoginInit == Init => LoginInv
<1> SUFFICES ASSUME Init PROVE LoginInv
  OBVIOUS
<1>1. \A p \in Proc : proc[p] = Idle
  BY DEF Init
<1>2. Carries
  BY <1>1, FreshRequest DEF Carries
<1>3. TypeOK
  <2>1. now \in Time /\ 0 \in 0..MaxTime + LockMax /\ 0 \in 0..MaxFailures
    BY BoundAssumption, LockAssumption DEF Init, Time
  <2>2. factor \in Factor /\ recovery \in [of : 0..MaxConfirms, unused : BOOLEAN]
    BY BoundAssumption DEF Init, Factor, NoFactor
  <2>3. proc \in [Proc -> Request]
    BY FreshRequest DEF Init
  <2> QED BY <2>1, <2>2, <2>3 DEF Init, TypeOK
<1> QED BY <1>2, <1>3 DEF LoginInv

\* A request that keeps what it carries and goes on with it.
LEMMA KeptRequest ==
    ASSUME LoginInv, NEW p \in Proc, proc[p].code \in TotpCode,
           NEW label \in {"advance", "confirming"}
    PROVE  LET r == [proc[p] EXCEPT !.pc = label] IN
           /\ r \in Request /\ Carried(r)
           /\ r.pc = label /\ r.code = proc[p].code /\ r.ok = proc[p].ok
<1> DEFINE s == proc[p]
           r == [s EXCEPT !.pc = label]
<1>1. s \in Request /\ s.code \in TotpCode
  BY DEF LoginInv, TypeOK
<1> HIDE DEF s
<1>2. r \in Request /\ r.pc = label /\ r.code = s.code /\ r.ok = s.ok
  BY <1>1 DEF Request, PC
<1>3. Carried(r)
  BY <1>1, <1>2 DEF Carried
<1> QED BY <1>2, <1>3 DEF s

\* The password and what follows it.
LEMMA PasswordStep ==
    ASSUME LoginInv, NEW p \in Proc, Password(p) PROVE LoginInv'
<1> USE DEF LoginInv
<1>1. ASSUME NEW ok \in BOOLEAN, ReadUser(p, ok) PROVE LoginInv'
  <2> DEFINE r == [Idle EXCEPT !.pc = "password", !.lock = lockedUntil, !.ok = ok]
  <2>0. lockedUntil \in Nat
    BY LockAssumption, BoundAssumption DEF TypeOK
  <2>1. r \in Request /\ Carried(r)
    <3>1. Idle \in Request
      BY FreshRequest
    <3>2. r \in Request /\ r.pc = "password"
      BY <2>0, <3>1 DEF Request, PC
    <3> QED BY <3>2 DEF Carried
  <2>2. Become(p, r)
    BY <1>1 DEF ReadUser
  <2>3. proc' \in [Proc -> Request] /\ Carries'
    BY <2>1, <2>2, OneRequestMoves
  <2> QED BY <1>1, <2>3 DEF ReadUser, TypeOK, userVars, factorVars, usedVars, Time
<1>2. ASSUME CheckPassword(p) PROVE LoginInv'
  <2>1. \E r \in Request : Carried(r) /\ Become(p, r)
    BY <1>2, FreshRequest DEF CheckPassword, Finish, Goto
  <2>2. proc' \in [Proc -> Request] /\ Carries'
    BY <2>1, OneRequestMoves
  <2> QED BY <1>2, <2>2 DEF CheckPassword, TypeOK, userVars, factorVars, usedVars, Time
<1>3. ASSUME ChooseStep(p) PROVE LoginInv'
  <2>1. \E r \in Request : Carried(r) /\ Become(p, r)
    BY <1>3, FreshRequest DEF ChooseStep, Finish, Goto
  <2>2. proc' \in [Proc -> Request] /\ Carries'
    BY <2>1, OneRequestMoves
  <2>3. challenges' \subseteq {"mfa", "enroll"}
    BY <1>3 DEF ChooseStep, Challenge, TypeOK
  <2> QED BY <1>3, <2>2, <2>3 DEF ChooseStep, TypeOK, userVars, factorVars, usedVars, Time
<1>4. ASSUME FinishLogin(p) PROVE LoginInv'
  <2>1. proc' \in [Proc -> Request] /\ Carries'
    BY <1>4, FreshRequest, OneRequestMoves DEF FinishLogin, Finish
  <2>2. failures' \in 0..MaxFailures /\ lockedUntil' \in 0..MaxTime + LockMax
    BY <1>4, LockAssumption, BoundAssumption DEF FinishLogin
  <2> QED BY <1>4, <2>1, <2>2 DEF FinishLogin, TypeOK, userVars, factorVars, usedVars, Time
<1> QED BY <1>1, <1>2, <1>3, <1>4 DEF Password

\* The two statements of a failure.
LEMMA FailureStep ==
    ASSUME LoginInv, NEW p \in Proc, Failure(p) PROVE LoginInv'
<1> USE DEF LoginInv
<1>1. ASSUME CountFailure(p) PROVE LoginInv'
  <2> DEFINE n == failures + 1
             r == [Idle EXCEPT !.pc = "lock", !.lock = n]
  <2>1. n \in Nat /\ n \in 0..MaxFailures /\ late' \in Nat
    BY <1>1, BoundAssumption DEF TypeOK, CountFailure
  <2>2. LockPeriods(n) > 0 <=> n >= LockAfter
    BY <2>1, LockIsBounded
  <2>3. r \in Request
    BY <2>1 DEF Request, PC, Idle, NoCode
  <2>4. LockPeriods(n) > 0 => Carried(r)
    BY <2>1, <2>2 DEF Carried, Idle
  <2>5. \E q \in Request : Carried(q) /\ Become(p, q)
    <3>1. CASE LockPeriods(n) > 0
      BY <1>1, <3>1, <2>3, <2>4 DEF CountFailure
    <3>2. CASE ~(LockPeriods(n) > 0)
      BY <1>1, <3>2, FreshRequest DEF CountFailure, Finish
    <3> QED BY <3>1, <3>2
  <2>6. proc' \in [Proc -> Request] /\ Carries'
    BY <2>5, OneRequestMoves
  <2> QED BY <1>1, <2>1, <2>6 DEF CountFailure, TypeOK, factorVars, usedVars, Time
<1>2. ASSUME LockUser(p) PROVE LoginInv'
  <2>1. proc' \in [Proc -> Request] /\ Carries'
    BY <1>2, FreshRequest, OneRequestMoves DEF LockUser, Finish
  <2>2. proc[p].lock \in Nat
    BY DEF TypeOK, Request
  <2>3. LockPeriods(proc[p].lock) \in 0..LockMax
    BY <2>2, LockIsBounded
  <2>4. now \in 1..MaxTime /\ LockMax \in Nat /\ MaxTime \in Nat
    BY LockAssumption, BoundAssumption DEF TypeOK, Time
  <2>5. lockedUntil' \in 0..MaxTime + LockMax
    <3> DEFINE k == LockPeriods(proc[p].lock)
    <3>1. lockedUntil' = now + k /\ k \in 0..LockMax
      BY <1>2, <2>3 DEF LockUser
    <3> HIDE DEF k
    <3> QED BY <2>4, <3>1
  <2> QED BY <1>2, <2>1, <2>5 DEF LockUser, TypeOK, factorVars, usedVars, Time
<1> QED BY <1>1, <1>2 DEF Failure

\* The second step of a login.
LEMMA SecondFactorStep ==
    ASSUME LoginInv, NEW p \in Proc, SecondFactor(p) PROVE LoginInv'
<1> USE DEF LoginInv
<1>0. proc[p] \in Request /\ Carried(proc[p])
  BY DEF TypeOK, Carries
<1>1. ASSUME NEW code \in Code, CompleteMfaLogin(p, code) PROVE LoginInv'
  <2> DEFINE r == [Idle EXCEPT !.pc = "verify", !.code = code]
  <2>1. Idle \in Request /\ code \in Code
    BY FreshRequest DEF Code
  <2>2. r \in Request /\ r.pc = "verify" /\ r.code = code
    BY <2>1 DEF Request, PC
  <2>3. Carried(r)
    BY <2>1, <2>2 DEF Carried
  <2>4. Become(p, r)
    BY <1>1 DEF CompleteMfaLogin
  <2>5. proc' \in [Proc -> Request] /\ Carries'
    BY <2>2, <2>3, <2>4, OneRequestMoves
  <2> QED BY <1>1, <2>5 DEF CompleteMfaLogin, TypeOK, userVars, factorVars, usedVars, Time
<1>2. ASSUME UseRecoveryCode(p) PROVE LoginInv'
  <2>1. \E r \in Request : Carried(r) /\ Become(p, r)
    BY <1>2, FreshRequest DEF UseRecoveryCode, Goto
  <2>2. proc' \in [Proc -> Request] /\ Carries'
    BY <2>1, OneRequestMoves
  <2>3. proc[p].code \in Code
    BY <1>0, <1>2 DEF UseRecoveryCode, At, Carried
  <2>4. recovery' \in [of : 0..MaxConfirms, unused : BOOLEAN]
    BY <1>2 DEF UseRecoveryCode, TypeOK
  <2>5. repeated' \subseteq accepted' /\ accepted' \subseteq Code
    BY <1>2, <2>3 DEF UseRecoveryCode, TypeOK, Accept, usedVars
  <2> QED BY <1>2, <2>2, <2>4, <2>5 DEF UseRecoveryCode, TypeOK, userVars, Time
<1>3. ASSUME CheckCode(p) PROVE LoginInv'
  <2>1. proc[p].code \in TotpCode
    BY <1>0, <1>3 DEF CheckCode, At, Carried, Code, RecoveryCode
  <2>2. \E r \in Request : Carried(r) /\ Become(p, r)
    <3>1. CASE factor.confirmed /\ Valid(proc[p].code, factor.secret)
      BY <1>3, <2>1, <3>1, KeptRequest DEF CheckCode, Keep
    <3>2. CASE ~(factor.confirmed /\ Valid(proc[p].code, factor.secret))
      BY <1>3, <3>2, FreshRequest DEF CheckCode, Goto
    <3> QED BY <3>1, <3>2
  <2>3. proc' \in [Proc -> Request] /\ Carries'
    BY <2>2, OneRequestMoves
  <2> QED BY <1>3, <2>3 DEF CheckCode, TypeOK, userVars, factorVars, usedVars, Time
<1>4. ASSUME AdvanceStep(p) PROVE LoginInv'
  <2>1. proc[p].code \in TotpCode
    BY <1>0, <1>4 DEF AdvanceStep, At, Carried
  <2>2. \E r \in Request : Carried(r) /\ Become(p, r)
    BY <1>4, FreshRequest DEF AdvanceStep, Goto
  <2>3. proc' \in [Proc -> Request] /\ Carries'
    BY <2>2, OneRequestMoves
  <2>4. factor' \in Factor
    <3>1. proc[p].code.step \in 0..MaxTime
      BY <2>1, BoundAssumption DEF TotpCode, Time
    <3>2. factor \in Factor
      BY DEF TypeOK
    <3> QED BY <1>4, <3>1, <3>2 DEF AdvanceStep, Factor
  <2>5. repeated' \subseteq accepted' /\ accepted' \subseteq Code
    BY <1>4, <2>1 DEF AdvanceStep, TypeOK, Accept, usedVars, Code
  <2> QED BY <1>4, <2>3, <2>4, <2>5 DEF AdvanceStep, TypeOK, userVars, Time
<1> QED BY <1>1, <1>2, <1>3, <1>4 DEF SecondFactor

\* Enrolment and confirmation.
LEMMA EnrolmentStep ==
    ASSUME LoginInv, NEW p \in Proc, Enrolment(p) PROVE LoginInv'
<1> USE DEF LoginInv
<1>0. proc[p] \in Request /\ Carried(proc[p])
  BY DEF TypeOK, Carries
<1>1. ASSUME BeginTotpEnrollment(p) PROVE LoginInv'
  <2>1. proc' \in [Proc -> Request] /\ Carries'
    BY <1>1, FreshRequest, OneRequestMoves DEF BeginTotpEnrollment
  <2> QED BY <1>1, <2>1 DEF BeginTotpEnrollment, TypeOK, userVars, factorVars, usedVars, Time
<1>2. ASSUME UpsertFactor(p) PROVE LoginInv'
  <2>1. proc' \in [Proc -> Request] /\ Carries'
    BY <1>2, FreshRequest, OneRequestMoves DEF UpsertFactor, Finish
  <2>2. factor' \in Factor /\ overlapped' \in BOOLEAN
    BY <1>2, BoundAssumption DEF UpsertFactor, TypeOK, Factor
  <2> QED BY <1>2, <2>1, <2>2 DEF UpsertFactor, TypeOK, userVars, usedVars, Time
<1>3. ASSUME NEW code \in TotpCode, CompleteEnrollmentLogin(p, code) PROVE LoginInv'
  <2> DEFINE r == [Idle EXCEPT !.pc = "confirm", !.code = code, !.ok = TRUE]
  <2>1. Idle \in Request /\ code \in Code
    BY FreshRequest DEF Code
  <2>2. r \in Request /\ r.pc = "confirm" /\ r.code = code
    BY <2>1 DEF Request, PC
  <2>3. Carried(r)
    BY <2>1, <2>2 DEF Carried
  <2>4. Become(p, r)
    BY <1>3 DEF CompleteEnrollmentLogin
  <2>5. proc' \in [Proc -> Request] /\ Carries'
    BY <2>2, <2>3, <2>4, OneRequestMoves
  <2> QED BY <1>3, <2>5
          DEF CompleteEnrollmentLogin, TypeOK, userVars, factorVars, usedVars, Time
<1>4. ASSUME NEW code \in TotpCode, ConfirmOwn(p, code) PROVE LoginInv'
  <2> DEFINE r == [Idle EXCEPT !.pc = "confirming", !.code = code]
  <2>1. Idle \in Request /\ code \in Code
    BY FreshRequest DEF Code
  <2>2. r \in Request /\ r.pc = "confirming" /\ r.code = code
    BY <2>1 DEF Request, PC
  <2>3. Carried(r)
    BY <2>1, <2>2 DEF Carried
  <2>4. Become(p, r)
    BY <1>4 DEF ConfirmOwn
  <2>5. proc' \in [Proc -> Request] /\ Carries'
    BY <2>2, <2>3, <2>4, OneRequestMoves
  <2> QED BY <1>4, <2>5 DEF ConfirmOwn, TypeOK, userVars, factorVars, usedVars, Time
<1>5. ASSUME CheckEnrolment(p) PROVE LoginInv'
  <2>1. proc[p].code \in TotpCode
    BY <1>0, <1>5 DEF CheckEnrolment, At, Carried
  <2>2. \E r \in Request : Carried(r) /\ Become(p, r)
    <3>1. CASE Confirmable(proc[p].code)
      BY <1>5, <2>1, <3>1, KeptRequest DEF CheckEnrolment, Keep
    <3>2. CASE ~Confirmable(proc[p].code) /\ ~factor.confirmed /\ factor.secret # 0
      BY <1>5, <3>2, FreshRequest DEF CheckEnrolment, Goto
    <3>3. CASE ~Confirmable(proc[p].code) /\ ~(~factor.confirmed /\ factor.secret # 0)
      BY <1>5, <3>3, FreshRequest DEF CheckEnrolment, Finish
    <3> QED BY <3>1, <3>2, <3>3
  <2>3. proc' \in [Proc -> Request] /\ Carries'
    BY <2>2, OneRequestMoves
  <2> QED BY <1>5, <2>3 DEF CheckEnrolment, TypeOK, userVars, factorVars, usedVars, Time
<1>6. ASSUME CommitConfirm(p) PROVE LoginInv'
  <2>1. proc[p].code \in TotpCode
    BY <1>0, <1>6 DEF CommitConfirm, At, Carried
  <2>2. \E r \in Request : Carried(r) /\ Become(p, r)
    BY <1>6, FreshRequest DEF CommitConfirm, Goto, Finish
  <2>3. proc' \in [Proc -> Request] /\ Carries'
    BY <2>2, OneRequestMoves
  <2>4. factor' \in Factor
    <3>1. proc[p].code.step \in 0..MaxTime
      BY <2>1, BoundAssumption DEF TotpCode, Time
    <3>2. factor \in Factor
      BY DEF TypeOK
    <3> QED BY <1>6, <3>1, <3>2 DEF CommitConfirm, ConfirmedFactor, Factor
  <2>5. recovery' \in [of : 0..MaxConfirms, unused : BOOLEAN]
    BY <1>6, BoundAssumption DEF CommitConfirm, TypeOK
  <2>6. proved' \subseteq Secret /\ overlapped' \in BOOLEAN
    <3>1. proc[p].code.of \in Secret
      BY <2>1 DEF TotpCode
    <3>2. factor.confirmed \in BOOLEAN
      BY DEF TypeOK, Factor
    <3> QED BY <1>6, <3>1, <3>2 DEF CommitConfirm, TypeOK
  <2>7. repeated' \subseteq accepted' /\ accepted' \subseteq Code
    BY <1>6, <2>1 DEF CommitConfirm, TypeOK, Accept, Code
  <2> QED BY <1>6, <2>3, <2>4, <2>5, <2>6, <2>7 DEF CommitConfirm, TypeOK, userVars, Time
<1> QED BY <1>1, <1>2, <1>3, <1>4, <1>5, <1>6 DEF Enrolment

\* A request dies.
LEMMA CrashStep ==
    ASSUME LoginInv, NEW p \in Proc, Crash(p) PROVE LoginInv'
<1> USE DEF LoginInv
<1>1. proc' \in [Proc -> Request] /\ Carries'
  BY FreshRequest, OneRequestMoves DEF Crash, Finish
<1>2. lockLost' \in BOOLEAN
  BY DEF Crash, TypeOK, At
<1> QED BY <1>1, <1>2 DEF Crash, TypeOK, factorVars, usedVars, Time

\* Every step keeps what the requests carry.
LEMMA LoginNext == LoginInv /\ [Next]_vars => LoginInv'
<1> SUFFICES ASSUME LoginInv, [Next]_vars PROVE LoginInv'
  OBVIOUS
<1>1. CASE Tick
  <2>1. now' \in Time
    BY <1>1, BoundAssumption DEF Tick, LoginInv, TypeOK, Time
  <2>2. TypeOK'
    BY <1>1, <2>1 DEF Tick, LoginInv, TypeOK, userVars, factorVars, usedVars
  <2>3. Carries'
    BY <1>1 DEF Tick, LoginInv, Carries, Carried
  <2> QED BY <2>2, <2>3 DEF LoginInv
<1>2. CASE UNCHANGED vars
  <2>1. TypeOK'
    BY <1>2 DEF LoginInv, TypeOK, vars, userVars, factorVars, usedVars, Time
  <2>2. Carries'
    BY <1>2 DEF vars, LoginInv, Carries, Carried
  <2> QED BY <2>1, <2>2 DEF LoginInv
<1>3. ASSUME NEW p \in Proc,
             Password(p) \/ Failure(p) \/ SecondFactor(p) \/ Enrolment(p) \/ Crash(p)
      PROVE  LoginInv'
  BY <1>3, PasswordStep, FailureStep, SecondFactorStep, EnrolmentStep, CrashStep
<1> QED BY <1>1, <1>2, <1>3 DEF Next

\* What the requests carry is an invariant of the specification.
THEOREM LoginInvariant == Spec => []LoginInv
<1>1. LoginInv /\ [Next]_vars => LoginInv'
  BY LoginNext
<1> QED BY LoginInit, <1>1, PTL DEF Spec

\* Type correctness: among the rest the lock is never longer than its limit
\* allows, however often the failures double it.
THEOREM LoginTypeCorrect == Spec => []TypeOK
<1>1. LoginInv => TypeOK
  BY DEF LoginInv
<1> QED BY <1>1, LoginInvariant, PTL
-----------------------------------------------------------------------------
(* The lock                                                                   *)

\* Some request takes a step.
Moves(p) == Password(p) \/ Failure(p) \/ SecondFactor(p) \/ Enrolment(p) \/ Crash(p)

\* The steps that leave the count and the lock alone.
Quiet(p) ==
    \/ \E ok \in BOOLEAN : ReadUser(p, ok)
    \/ CheckPassword(p) \/ ChooseStep(p) \/ SecondFactor(p) \/ Enrolment(p)

\* A step of a request touches no other request.
LEMMA OthersStay ==
    ASSUME LoginInv, NEW p \in Proc, Moves(p)
    PROVE  \A q \in Proc \ {p} : proc'[q] = proc[q]
<1>1. \E r : Become(p, r)
  <2>1. CASE Password(p)
    BY <2>1 DEF Password, ReadUser, CheckPassword, ChooseStep, FinishLogin, Finish, Goto
  <2>2. CASE Failure(p)
    BY <2>2 DEF Failure, CountFailure, LockUser, Finish
  <2>3. CASE SecondFactor(p)
    BY <2>3 DEF SecondFactor, CompleteMfaLogin, UseRecoveryCode, CheckCode, AdvanceStep,
                Keep, Goto
  <2>4. CASE Enrolment(p)
    BY <2>4 DEF Enrolment, BeginTotpEnrollment, UpsertFactor, CompleteEnrollmentLogin,
                ConfirmOwn, CheckEnrolment, CommitConfirm, Keep, Finish, Goto
  <2>5. CASE Crash(p)
    BY <2>5 DEF Crash, Finish
  <2> QED BY <2>1, <2>2, <2>3, <2>4, <2>5 DEF Moves
<1>2. proc \in [Proc -> Request]
  BY DEF LoginInv, TypeOK
<1> QED BY <1>1, <1>2 DEF Become

\* A quiet step is not one of a request that owes a lock.
LEMMA QuietStep ==
    ASSUME NEW p \in Proc, Quiet(p)
    PROVE  UNCHANGED <<now, failures, lockedUntil, late, lockLost>> /\ ~At(p, "lock")
<1>1. CASE (\E ok \in BOOLEAN : ReadUser(p, ok)) \/ CheckPassword(p) \/ ChooseStep(p)
  BY <1>1 DEF ReadUser, CheckPassword, ChooseStep, At, userVars
<1>2. CASE SecondFactor(p)
  BY <1>2 DEF SecondFactor, CompleteMfaLogin, UseRecoveryCode, CheckCode, AdvanceStep,
              At, userVars
<1>3. CASE Enrolment(p)
  BY <1>3 DEF Enrolment, BeginTotpEnrollment, UpsertFactor, CompleteEnrollmentLogin,
              ConfirmOwn, CheckEnrolment, CommitConfirm, At, userVars
<1> QED BY <1>1, <1>2, <1>3 DEF Quiet

\* The count and its lock: a failure that reaches the threshold owes a lock until
\* the lock is written, and whoever takes the lock away resets the count with it.
LEMMA ThresholdNext ==
    ASSUME LoginInv, ThresholdLocks, [Next]_vars PROVE ThresholdLocks'
<1> DEFINE Owed == \E p \in Proc : At(p, "lock")
<1>1. ASSUME NEW p \in Proc, Quiet(p) PROVE ThresholdLocks'
  <2>1. UNCHANGED <<failures, lockedUntil, lockLost>> /\ ~At(p, "lock")
    BY <1>1, QuietStep
  <2>2. \A q \in Proc \ {p} : proc'[q] = proc[q]
    BY <1>1, OthersStay DEF Quiet, Moves, Password
  <2>3. Owed => Owed'
    BY <2>1, <2>2 DEF At
  <2> QED BY <2>1, <2>3 DEF ThresholdLocks
<1>2. ASSUME NEW p \in Proc, FinishLogin(p) PROVE ThresholdLocks'
  <2>1. failures' = 0
    BY <1>2 DEF FinishLogin
  <2> QED BY <2>1, LockAssumption DEF ThresholdLocks
<1>3. ASSUME NEW p \in Proc, CountFailure(p) PROVE ThresholdLocks'
  <2>1. failures \in Nat
    BY BoundAssumption DEF LoginInv, TypeOK
  <2>2. LockPeriods(failures + 1) > 0 <=> failures + 1 >= LockAfter
    BY <2>1, LockIsBounded
  <2>3. proc \in [Proc -> Request]
    BY DEF LoginInv, TypeOK
  <2>4. CASE failures + 1 >= LockAfter
    <3>1. proc'[p] = [Idle EXCEPT !.pc = "lock", !.lock = failures + 1]
      BY <1>3, <2>2, <2>3, <2>4 DEF CountFailure, Become
    <3>2. Owed'
      BY <3>1 DEF At, Idle
    <3> QED BY <3>2 DEF ThresholdLocks
  <2>5. CASE ~(failures + 1 >= LockAfter)
    <3>1. failures' = failures + 1
      BY <1>3 DEF CountFailure
    <3> QED BY <2>5, <3>1 DEF ThresholdLocks
  <2> QED BY <2>4, <2>5
<1>4. ASSUME NEW p \in Proc, LockUser(p) PROVE ThresholdLocks'
  <2>1. proc[p] \in Request /\ Carried(proc[p]) /\ proc[p].pc = "lock"
    BY <1>4 DEF LockUser, At, LoginInv, TypeOK, Carries
  <2>2. proc[p].lock \in Nat /\ proc[p].lock >= LockAfter
    BY <2>1 DEF Request, Carried
  <2> DEFINE k == LockPeriods(proc[p].lock)
  <2>3. k \in Nat /\ k > 0
    BY <2>2, LockIsBounded
  <2>4. lockedUntil' = now + k /\ now \in Nat
    BY <1>4, BoundAssumption DEF LockUser, LoginInv, TypeOK, Time
  <2> HIDE DEF k
  <2>5. lockedUntil' # 0
    BY <2>3, <2>4
  <2> QED BY <2>5 DEF ThresholdLocks
<1>5. ASSUME NEW p \in Proc, Crash(p) PROVE ThresholdLocks'
  <2>1. CASE At(p, "lock")
    BY <1>5, <2>1 DEF Crash, ThresholdLocks
  <2>2. CASE ~At(p, "lock")
    <3>1. UNCHANGED <<failures, lockedUntil, lockLost>>
      BY <1>5, <2>2 DEF Crash, LoginInv, TypeOK
    <3>2. \A q \in Proc \ {p} : proc'[q] = proc[q]
      BY <1>5, OthersStay DEF Moves
    <3>3. Owed => Owed'
      BY <2>2, <3>2 DEF At
    <3> QED BY <3>1, <3>3 DEF ThresholdLocks
  <2> QED BY <2>1, <2>2
<1>6. CASE Tick \/ UNCHANGED vars
  <2>1. UNCHANGED <<failures, lockedUntil, lockLost, proc>>
    BY <1>6 DEF Tick, vars, userVars
  <2> QED BY <2>1 DEF ThresholdLocks, At
<1> QED
  BY <1>1, <1>2, <1>3, <1>4, <1>5, <1>6 DEF Next, Password, Failure, Quiet

\* A user whose failures in a row reached the threshold is locked, or the request
\* that is about to lock it is alive: registerFailure and finishLogin, in whatever
\* order their statements meet.
THEOREM CountsLeadToLocks == Spec => []ThresholdLocks
<1>1. Init => ThresholdLocks
  BY LockAssumption DEF Init, ThresholdLocks
<1>2. LoginInv /\ ThresholdLocks /\ [Next]_vars => ThresholdLocks'
  BY ThresholdNext
<1> QED BY <1>1, <1>2, LoginInvariant, PTL DEF Spec
-----------------------------------------------------------------------------
(* The guesses under a lock                                                   *)

\* How many they are.
PastFacts ==
    /\ IsFiniteSet(Past) /\ Cardinality(Past) \in Nat
    /\ \A S \in SUBSET Past : Cardinality(S) \in Nat /\ Cardinality(S) <= Cardinality(Past)
    /\ \A p \in Proc : p \notin Past => Cardinality(Past) < Cardinality(Proc)
    /\ \A p \in Past : Cardinality(Past \ {p}) = Cardinality(Past) - 1

\* The requests that may still count a failure are finitely many.
LEMMA PastFinite == PastFacts
<1>1. Past \subseteq Proc
  BY DEF Past
<1>2. IsFiniteSet(Past) /\ Cardinality(Past) \in Nat
  BY <1>1, ProcFinite, FS_Subset, FS_CardinalityType
<1>3. ASSUME NEW S \in SUBSET Past
      PROVE  Cardinality(S) \in Nat /\ Cardinality(S) <= Cardinality(Past)
  BY <1>2, FS_Subset, FS_CardinalityType
<1>4. ASSUME NEW p \in Proc, p \notin Past PROVE Cardinality(Past) < Cardinality(Proc)
  <2>1. Past \subseteq Proc \ {p}
    BY <1>1, <1>4
  <2>2. IsFiniteSet(Proc \ {p}) /\ Cardinality(Proc \ {p}) = Cardinality(Proc) - 1
    BY ProcFinite, FS_RemoveElement
  <2>3. Cardinality(Past) <= Cardinality(Proc \ {p})
    BY <2>1, <2>2, FS_Subset
  <2> QED BY <1>2, <2>2, <2>3, ProcFinite
<1>5. ASSUME NEW p \in Past PROVE Cardinality(Past \ {p}) = Cardinality(Past) - 1
  BY <1>2, FS_RemoveElement
<1> QED BY <1>2, <1>3, <1>4, <1>5 DEF PastFacts

\* A step that counts nothing and lets nobody new past the check of the lock.
LEMMA NobodyNewPast ==
    ASSUME LoginInv, GuessInv, UNCHANGED late, Locked' => Locked, Past' \subseteq Past
    PROVE  GuessInv'
<1>1. Cardinality(Past) \in Nat /\ Cardinality(Past') \in Nat
      /\ Cardinality(Past') <= Cardinality(Past)
  BY PastFinite DEF PastFacts
<1>2. ASSUME Locked' PROVE (late + Cardinality(Past) < Cardinality(Proc))'
  <2>1. late + Cardinality(Past) < Cardinality(Proc)
    BY <1>2 DEF GuessInv
  <2>2. late \in Nat
    BY DEF LoginInv, TypeOK
  <2> QED BY <1>1, <2>1, <2>2, ProcFinite
<1> QED BY <1>2 DEF GuessInv

\* Among the quiet steps only one that sees no lock brings somebody past its
\* check: the others leave where they were all who may still fail.
LEMMA QuietGuess ==
    ASSUME LoginInv, GuessInv, NEW p \in Proc, Quiet(p) PROVE GuessInv'
<1>1. UNCHANGED <<now, lockedUntil, late>> /\ (Locked' => Locked)
  BY QuietStep DEF Locked
<1>2. \A q \in Proc \ {p} : proc'[q] = proc[q]
  BY OthersStay DEF Quiet, Moves, Password
<1>3. proc \in [Proc -> Request]
  BY DEF LoginInv, TypeOK
<1>4. ASSUME ~(p \in Past') \/ p \in Past PROVE GuessInv'
  <2>1. Past' \subseteq Past
    BY <1>1, <1>2, <1>4 DEF Past, At
  <2> QED BY <1>1, <2>1, NobodyNewPast
<1>5. ASSUME ~Locked PROVE GuessInv'
  BY <1>1, <1>5 DEF GuessInv
<1>6. ASSUME proc'[p].pc \in {"idle", "known", "finish", "enrol", "confirming"} PROVE GuessInv'
  BY <1>4, <1>6 DEF Past, At
<1>7. ASSUME proc[p].pc \in {"verify", "advance", "confirm"} PROVE GuessInv'
  BY <1>4, <1>7 DEF Past, At
<1>8. ASSUME NEW ok \in BOOLEAN, ReadUser(p, ok) PROVE GuessInv'
  <2>1. lockedUntil \in Nat
    BY LockAssumption, BoundAssumption DEF LoginInv, TypeOK
  <2>2. proc'[p] = [Idle EXCEPT !.pc = "password", !.lock = lockedUntil, !.ok = ok]
    BY <1>3, <1>8 DEF ReadUser, Become
  <2>3. proc'[p].pc = "password" /\ proc'[p].lock = lockedUntil
    BY <2>2 DEF Idle
  <2>4. ~(proc'[p].lock < lockedUntil')
    BY <1>1, <2>1, <2>3
  <2>5. p \notin Past'
    BY <2>3, <2>4 DEF Past, At
  <2> QED BY <1>4, <2>5
<1>9. ASSUME CheckPassword(p) PROVE GuessInv'
  <2>0. proc[p].lock \in Nat /\ now \in Nat
    BY <1>3, BoundAssumption DEF LoginInv, TypeOK, Request, Time
  <2>1. CASE proc[p].lock > now
    <3>1. ~(proc[p].lock <= now)
      BY <2>0, <2>1
    <3>2. Finish(p)
      BY <1>9, <2>1, <3>1 DEF CheckPassword
    <3> QED BY <1>3, <1>6, <3>2 DEF Finish, Become, Idle
  <2>2. CASE proc[p].lock <= now /\ ~proc[p].ok
    <3>1. proc[p].lock \in Nat /\ now \in Nat /\ lockedUntil \in Nat
      BY <1>3, LockAssumption, BoundAssumption DEF LoginInv, TypeOK, Request, Time
    <3>2. CASE Locked
      <4>1. proc[p].lock < lockedUntil
        BY <2>2, <3>1, <3>2 DEF Locked
      <4> QED BY <1>4, <1>9, <4>1 DEF CheckPassword, Past
    <3> QED BY <1>5, <3>2
  <2>3. CASE ~(proc[p].lock > now) /\ ~(proc[p].lock <= now /\ ~proc[p].ok)
    BY <1>3, <1>6, <1>9, <2>3 DEF CheckPassword, Goto, Become, Idle
  <2> QED BY <2>1, <2>2, <2>3
<1>10. ASSUME ChooseStep(p) PROVE GuessInv'
  BY <1>3, <1>6, <1>10 DEF ChooseStep, Finish, Goto, Become, Idle
<1>11. ASSUME SecondFactor(p) PROVE GuessInv'
  <2>1. CASE \E code \in Code : CompleteMfaLogin(p, code)
    BY <1>5, <2>1 DEF CompleteMfaLogin
  <2>2. CASE UseRecoveryCode(p) \/ CheckCode(p) \/ AdvanceStep(p)
    BY <1>7, <2>2 DEF UseRecoveryCode, CheckCode, AdvanceStep, At
  <2> QED BY <1>11, <2>1, <2>2 DEF SecondFactor
<1>12. ASSUME Enrolment(p) PROVE GuessInv'
  <2>1. CASE BeginTotpEnrollment(p) \/ UpsertFactor(p) \/ CommitConfirm(p)
    BY <1>3, <1>6, <2>1
       DEF BeginTotpEnrollment, UpsertFactor, CommitConfirm, Finish, Goto, Become, Idle
  <2>2. CASE \E code \in TotpCode : CompleteEnrollmentLogin(p, code)
    BY <1>5, <2>2 DEF CompleteEnrollmentLogin
  <2>3. CASE \E code \in TotpCode : ConfirmOwn(p, code)
    BY <1>3, <1>6, <2>3 DEF ConfirmOwn, Become, Idle
  <2>4. CASE CheckEnrolment(p)
    BY <1>7, <2>4 DEF CheckEnrolment, At
  <2> QED BY <1>12, <2>1, <2>2, <2>3, <2>4 DEF Enrolment
<1> QED BY <1>8, <1>9, <1>10, <1>11, <1>12 DEF Quiet

\* Every step keeps the guesses fewer than the requests.
LEMMA GuessNext == ASSUME LoginInv, GuessInv, [Next]_vars PROVE GuessInv'
<1>0. late \in Nat /\ now \in Nat /\ lockedUntil \in Nat /\ proc \in [Proc -> Request]
  BY LockAssumption, BoundAssumption DEF LoginInv, TypeOK, Time
<1>1. ASSUME NEW p \in Proc, Quiet(p) PROVE GuessInv'
  BY <1>1, QuietGuess
<1>2. ASSUME NEW p \in Proc, FinishLogin(p) PROVE GuessInv'
  <2>1. late' = late /\ ~Locked'
    BY <1>0, <1>2 DEF FinishLogin, Locked
  <2> QED BY <2>1 DEF GuessInv
<1>3. ASSUME NEW p \in Proc, CountFailure(p) PROVE GuessInv'
  <2>1. UNCHANGED <<now, lockedUntil>>
    BY <1>3 DEF CountFailure
  <2>2. CASE ~Locked
    <3>1. late' = late /\ ~Locked'
      BY <1>3, <2>1, <2>2 DEF CountFailure, Locked
    <3> QED BY <3>1 DEF GuessInv
  <2>3. CASE Locked
    <3>1. p \in Past /\ late' = late + 1
      BY <1>3, <2>3 DEF CountFailure, Past, At
    <3>2. \A q \in Proc \ {p} : proc'[q] = proc[q]
      BY <1>3, OthersStay DEF Moves, Failure
    <3>3. proc'[p].pc \in {"idle", "lock"}
      <4>1. CASE LockPeriods(failures + 1) > 0
        BY <1>0, <1>3, <4>1 DEF CountFailure, Become, Idle
      <4>2. CASE ~(LockPeriods(failures + 1) > 0)
        BY <1>0, <1>3, <4>2 DEF CountFailure, Finish, Become, Idle
      <4> QED BY <4>1, <4>2
    <3>4. Past' \subseteq Past \ {p}
      BY <2>1, <3>2, <3>3 DEF Past, At
    <3>5. Cardinality(Past \ {p}) = Cardinality(Past) - 1
          /\ Cardinality(Past) \in Nat /\ IsFiniteSet(Past \ {p})
      BY <3>1, PastFinite, FS_Subset DEF PastFacts
    <3>6. Cardinality(Past') \in Nat /\ Cardinality(Past') <= Cardinality(Past) - 1
      BY <3>4, <3>5, FS_Subset, FS_CardinalityType
    <3>7. late + Cardinality(Past) < Cardinality(Proc)
      BY <2>3 DEF GuessInv
    <3>8. late' + Cardinality(Past') < Cardinality(Proc)
      BY <1>0, <3>1, <3>5, <3>6, <3>7, ProcFinite
    <3>9. late' < Cardinality(Proc)
      BY <1>0, <3>1, <3>6, <3>8, ProcFinite
    <3> QED BY <3>8, <3>9 DEF GuessInv
  <2> QED BY <2>2, <2>3
<1>4. ASSUME NEW p \in Proc, LockUser(p) PROVE GuessInv'
  <2>1. late' = 0 /\ proc'[p].pc = "idle"
    BY <1>0, <1>4 DEF LockUser, Finish, Become, Idle
  <2>2. p \notin Past'
    BY <2>1 DEF Past, At
  <2>3. PastFacts'
    BY PastFinite, PTL
  <2>4. Cardinality(Past') < Cardinality(Proc) /\ Cardinality(Past') \in Nat
    BY <2>2, <2>3 DEF PastFacts
  <2>5. late' < Cardinality(Proc) /\ late' + Cardinality(Past') < Cardinality(Proc)
    BY <2>1, <2>4, ProcFinite
  <2> QED BY <2>5 DEF GuessInv
<1>5. ASSUME NEW p \in Proc, Crash(p) PROVE GuessInv'
  <2>1. UNCHANGED <<now, lockedUntil, late>> /\ (Locked' => Locked)
    BY <1>5 DEF Crash, Locked
  <2>2. \A q \in Proc \ {p} : proc'[q] = proc[q]
    BY <1>5, OthersStay DEF Moves
  <2>3. proc'[p].pc = "idle"
    BY <1>0, <1>5 DEF Crash, Finish, Become, Idle
  <2>4. Past' \subseteq Past
    BY <2>1, <2>2, <2>3 DEF Past, At
  <2> QED BY <2>1, <2>4, NobodyNewPast
<1>6. CASE Tick \/ UNCHANGED vars
  <2>1. UNCHANGED <<lockedUntil, late, proc>> /\ (now' = now + 1 \/ now' = now)
    BY <1>6 DEF Tick, vars, userVars
  <2>2. Locked' => Locked
    BY <1>0, <2>1 DEF Locked
  <2>3. Past' \subseteq Past
    BY <2>1 DEF Past, At
  <2> QED BY <2>1, <2>2, <2>3, NobodyNewPast
<1> QED
  BY <1>1, <1>2, <1>3, <1>4, <1>5, <1>6 DEF Next, Password, Failure, Quiet

\* Nobody but the requests already past the check of the lock guesses under it.
THEOREM LocksStopGuessing == Spec => []FewGuessesPerLock
<1>1. Init => GuessInv
  <2> SUFFICES ASSUME Init PROVE GuessInv
    OBVIOUS
  <2>1. late = 0 /\ ~Locked
    BY DEF Init, Locked
  <2> QED BY <2>1, ProcFinite DEF GuessInv
<1>2. LoginInv /\ GuessInv /\ [Next]_vars => GuessInv'
  BY GuessNext
<1>3. GuessInv => FewGuessesPerLock
  BY DEF GuessInv, FewGuessesPerLock
<1> QED BY <1>1, <1>2, <1>3, LoginInvariant, PTL DEF Spec
-----------------------------------------------------------------------------
(* The recovery codes                                                         *)

\* The steps that neither accept a code nor touch the factor.
Plain(p) ==
    \/ Password(p) \/ Failure(p) \/ Crash(p)
    \/ \E code \in Code : CompleteMfaLogin(p, code)
    \/ BeginTotpEnrollment(p) \/ CheckEnrolment(p)
    \/ \E code \in TotpCode : CompleteEnrollmentLogin(p, code) \/ ConfirmOwn(p, code)

\* A plain step leaves the codes alone and brings nobody to advance a step.
LEMMA PlainStep ==
    ASSUME LoginInv, NEW p \in Proc, Plain(p)
    PROVE  /\ UNCHANGED <<factor, recovery, overlapped, accepted, repeated>>
           /\ \A q \in Proc : proc'[q].pc = "advance" => proc'[q] = proc[q]
<1>0. proc \in [Proc -> Request]
  BY DEF LoginInv, TypeOK
<1>1. \A q \in Proc \ {p} : proc'[q] = proc[q]
  BY OthersStay DEF Plain, Moves, SecondFactor, Enrolment
<1>2. CASE Password(p)
  <2>1. UNCHANGED <<factor, recovery, overlapped, accepted, repeated>>
    BY <1>2 DEF Password, ReadUser, CheckPassword, ChooseStep, FinishLogin,
                factorVars, usedVars
  <2>2. ASSUME NEW ok \in BOOLEAN, ReadUser(p, ok) PROVE proc'[p].pc # "advance"
    BY <1>0, <2>2 DEF ReadUser, Become, Idle
  <2>3. ASSUME CheckPassword(p) PROVE proc'[p].pc # "advance"
    BY <1>0, <2>3 DEF CheckPassword, Finish, Goto, Become, Idle
  <2>4. ASSUME ChooseStep(p) \/ FinishLogin(p) PROVE proc'[p].pc # "advance"
    BY <1>0, <2>4 DEF ChooseStep, FinishLogin, Finish, Goto, Become, Idle
  <2>5. proc'[p].pc # "advance"
    BY <1>2, <2>2, <2>3, <2>4 DEF Password
  <2> QED BY <1>1, <2>1, <2>5
<1>3. CASE Failure(p)
  <2>1. UNCHANGED <<factor, recovery, overlapped, accepted, repeated>>
    BY <1>3 DEF Failure, CountFailure, LockUser, factorVars, usedVars
  <2>2. proc'[p].pc # "advance"
    <3>1. CASE CountFailure(p) /\ LockPeriods(failures + 1) > 0
      BY <1>0, <3>1 DEF CountFailure, Become, Idle
    <3>2. CASE CountFailure(p) /\ ~(LockPeriods(failures + 1) > 0)
      BY <1>0, <3>2 DEF CountFailure, Finish, Become, Idle
    <3>3. CASE LockUser(p)
      BY <1>0, <3>3 DEF LockUser, Finish, Become, Idle
    <3> QED BY <1>3, <3>1, <3>2, <3>3 DEF Failure
  <2> QED BY <1>1, <2>1, <2>2
<1>4. CASE Crash(p) \/ BeginTotpEnrollment(p)
  <2>1. UNCHANGED <<factor, recovery, overlapped, accepted, repeated>>
    BY <1>4 DEF Crash, BeginTotpEnrollment, factorVars, usedVars
  <2>2. proc'[p].pc # "advance"
    BY <1>0, <1>4 DEF Crash, BeginTotpEnrollment, Finish, Become, Idle
  <2> QED BY <1>1, <2>1, <2>2
<1>5. CASE \E code \in Code : CompleteMfaLogin(p, code)
  <2>1. UNCHANGED <<factor, recovery, overlapped, accepted, repeated>>
    BY <1>5 DEF CompleteMfaLogin, factorVars, usedVars
  <2>2. proc'[p].pc # "advance"
    BY <1>0, <1>5 DEF CompleteMfaLogin, Become, Idle
  <2> QED BY <1>1, <2>1, <2>2
<1>6. CASE \E code \in TotpCode : CompleteEnrollmentLogin(p, code) \/ ConfirmOwn(p, code)
  <2>1. UNCHANGED <<factor, recovery, overlapped, accepted, repeated>>
    BY <1>6 DEF CompleteEnrollmentLogin, ConfirmOwn, factorVars, usedVars
  <2>2. proc'[p].pc # "advance"
    BY <1>0, <1>6 DEF CompleteEnrollmentLogin, ConfirmOwn, Become, Idle
  <2> QED BY <1>1, <2>1, <2>2
<1>7. CASE CheckEnrolment(p)
  <2>1. UNCHANGED <<factor, recovery, overlapped, accepted, repeated>>
    BY <1>7 DEF CheckEnrolment, factorVars, usedVars
  <2>2. proc'[p].pc # "advance"
    <3>1. CASE Confirmable(proc[p].code)
      <4>1. proc' = [proc EXCEPT ![p] = [proc[p] EXCEPT !.pc = "confirming"]]
        BY <1>7, <3>1 DEF CheckEnrolment, Keep, Become
      <4>2. proc[p] \in Request /\ proc'[p] = [proc[p] EXCEPT !.pc = "confirming"]
        BY <1>0, <4>1
      <4> QED BY <4>2 DEF Request
    <3>2. CASE ~Confirmable(proc[p].code) /\ ~factor.confirmed /\ factor.secret # 0
      BY <1>0, <1>7, <3>2 DEF CheckEnrolment, Goto, Become, Idle
    <3>3. CASE ~Confirmable(proc[p].code) /\ ~(~factor.confirmed /\ factor.secret # 0)
      BY <1>0, <1>7, <3>3 DEF CheckEnrolment, Finish, Become, Idle
    <3> QED BY <3>1, <3>2, <3>3
  <2> QED BY <1>1, <2>1, <2>2
<1> QED BY <1>2, <1>3, <1>4, <1>5, <1>6, <1>7 DEF Plain

\* Every step keeps the recovery codes accepted among the used ones.
LEMMA RecoveryNext == ASSUME LoginInv, RecoveryInv, [Next]_vars PROVE RecoveryInv'
<1>0. recovery \in [of : 0..MaxConfirms, unused : BOOLEAN] /\ accepted \subseteq Code
  BY DEF LoginInv, TypeOK
<1>1. ASSUME UNCHANGED <<recovery, accepted, repeated>> PROVE RecoveryInv'
  BY <1>1 DEF RecoveryInv, RecoveryCodeOnce
<1>2. ASSUME NEW p \in Proc, UseRecoveryCode(p) PROVE RecoveryInv'
  <2>1. CASE UnusedRecovery(proc[p].code)
    <3> DEFINE code == proc[p].code
    <3>1. /\ recovery' = [recovery EXCEPT !.unused = FALSE]
          /\ accepted' = accepted \cup {code}
          /\ repeated' = IF code \in accepted THEN repeated \cup {code} ELSE repeated
          /\ recovery.of = code.of /\ recovery.unused /\ code.kind = "recovery"
      BY <1>2, <2>1 DEF UseRecoveryCode, UnusedRecovery, Accept
    <3> HIDE DEF code
    <3>2. recovery'.of = recovery.of /\ recovery'.unused = FALSE
      BY <1>0, <3>1
    <3>3. code \notin accepted
      BY <3>1 DEF RecoveryInv
    <3>4. repeated' = repeated
      BY <3>1, <3>3
    <3>5. \A c \in accepted' : c.kind = "recovery" =>
             c.of <= recovery'.of /\ (c.of = recovery'.of => ~recovery'.unused)
      <4>1. code.of <= recovery'.of
        BY <1>0, <3>1, <3>2
      <4> QED BY <3>1, <3>2, <4>1 DEF RecoveryInv
    <3> QED BY <3>4, <3>5 DEF RecoveryInv, RecoveryCodeOnce
  <2>2. CASE ~UnusedRecovery(proc[p].code)
    BY <1>1, <1>2, <2>2 DEF UseRecoveryCode, usedVars
  <2> QED BY <2>1, <2>2
<1>3. ASSUME NEW code \in TotpCode, Accept(code),
             \/ UNCHANGED recovery
             \/ recovery' = [of |-> recovery.of + 1, unused |-> TRUE]
      PROVE  RecoveryInv'
  <2>1. accepted' = accepted \cup {code} /\ code.kind # "recovery"
    BY <1>3 DEF Accept, TotpCode
  <2>2. repeated' \cap RecoveryCode = {}
    BY <1>3 DEF Accept, TotpCode, RecoveryCode, RecoveryInv, RecoveryCodeOnce
  <2>3. \A c \in accepted : c.kind = "recovery" =>
           c.of \in Int /\ c.of <= recovery.of /\ (c.of = recovery.of => ~recovery.unused)
    BY <1>0 DEF RecoveryInv, Code, TotpCode, RecoveryCode
  <2>4. \A c \in accepted : c.kind = "recovery" =>
           c.of <= recovery'.of /\ (c.of = recovery'.of => ~recovery'.unused)
    <3>1. CASE UNCHANGED recovery
      BY <2>3, <3>1
    <3>2. CASE recovery' = [of |-> recovery.of + 1, unused |-> TRUE]
      <4>1. recovery'.of = recovery.of + 1 /\ recovery.of \in Nat
        BY <1>0, <3>2, BoundAssumption
      <4> QED BY <2>3, <4>1
    <3> QED BY <1>3, <3>1, <3>2
  <2> QED BY <2>1, <2>2, <2>4 DEF RecoveryInv, RecoveryCodeOnce
<1>4. ASSUME NEW p \in Proc, AdvanceStep(p) PROVE RecoveryInv'
  <2>1. proc[p].code \in TotpCode
    BY <1>4 DEF AdvanceStep, At, LoginInv, Carries, Carried
  <2>2. CASE Later(proc[p].code.step)
    BY <1>3, <1>4, <2>1, <2>2 DEF AdvanceStep
  <2>3. CASE ~Later(proc[p].code.step)
    BY <1>1, <1>4, <2>3 DEF AdvanceStep, usedVars
  <2> QED BY <2>2, <2>3
<1>5. ASSUME NEW p \in Proc, CommitConfirm(p) PROVE RecoveryInv'
  <2>1. proc[p].code \in TotpCode
    BY <1>5 DEF CommitConfirm, At, LoginInv, Carries, Carried
  <2> QED BY <1>3, <1>5, <2>1 DEF CommitConfirm
<1>6. ASSUME NEW p \in Proc, CheckCode(p) \/ UpsertFactor(p) PROVE RecoveryInv'
  BY <1>1, <1>6 DEF CheckCode, UpsertFactor, factorVars, usedVars
<1>7. ASSUME NEW p \in Proc, Plain(p) PROVE RecoveryInv'
  BY <1>1, <1>7, PlainStep
<1>8. CASE Tick \/ UNCHANGED vars
  BY <1>1, <1>8 DEF Tick, vars, factorVars, usedVars
<1> QED
  BY <1>2, <1>4, <1>5, <1>6, <1>7, <1>8 DEF Next, Plain, SecondFactor, Enrolment

\* A recovery code is good for one login, however many requests present it and
\* whenever the codes are replaced.
THEOREM RecoveryCodesWorkOnce == Spec => []RecoveryCodeOnce
<1>1. Init => RecoveryInv
  BY DEF Init, RecoveryInv, RecoveryCodeOnce
<1>2. LoginInv /\ RecoveryInv /\ [Next]_vars => RecoveryInv'
  BY RecoveryNext
<1>3. RecoveryInv => RecoveryCodeOnce
  BY DEF RecoveryInv
<1> QED BY <1>1, <1>2, <1>3, LoginInvariant, PTL DEF Spec
-----------------------------------------------------------------------------
(* The TOTP codes                                                             *)

\* Every step keeps the one confirmed secret and the step used last, until two
\* confirmations overlap.
LEMMA CodeNext == ASSUME LoginInv, CodeInv, [Next]_vars PROVE CodeInv'
<1>0. /\ factor \in Factor /\ accepted \subseteq Code /\ overlapped \in BOOLEAN
      /\ proc \in [Proc -> Request]
  BY DEF LoginInv, TypeOK
<1>1. ASSUME UNCHANGED <<factor, overlapped, accepted, repeated>>,
             \A q \in Proc : proc'[q].pc = "advance" => proc'[q] = proc[q]
      PROVE  CodeInv'
  <2>1. OneSecret => OneSecret'
    BY <1>1 DEF OneSecret, At
  <2> QED BY <1>1, <2>1 DEF CodeInv
<1>2. ASSUME NEW p \in Proc, UseRecoveryCode(p) PROVE CodeInv'
  <2>1. UNCHANGED <<factor, overlapped>>
    BY <1>2 DEF UseRecoveryCode
  <2>2. \A q \in Proc \ {p} : proc'[q] = proc[q]
    BY <1>2, OthersStay DEF Moves, SecondFactor
  <2>3. proc'[p].pc # "advance"
    BY <1>0, <1>2 DEF UseRecoveryCode, Goto, Become, Idle
  <2>4. accepted' \cap TotpCode = accepted \cap TotpCode
        /\ repeated' \cap TotpCode = repeated \cap TotpCode
    <3>1. proc[p].code \notin TotpCode
      BY <1>2 DEF UseRecoveryCode, TotpCode
    <3> QED BY <1>2, <3>1 DEF UseRecoveryCode, Accept, usedVars
  <2>5. OneSecret => OneSecret'
    BY <2>1, <2>2, <2>3, <2>4 DEF OneSecret, At
  <2> QED BY <2>1, <2>5 DEF CodeInv
<1>3. ASSUME NEW p \in Proc, CheckCode(p) PROVE CodeInv'
  <2>1. UNCHANGED <<factor, overlapped, accepted, repeated>>
    BY <1>3 DEF CheckCode, factorVars, usedVars
  <2>2. \A q \in Proc \ {p} : proc'[q] = proc[q]
    BY <1>3, OthersStay DEF Moves, SecondFactor
  <2>3. proc'[p].pc = "advance" => factor.confirmed /\ proc'[p].code.of = factor.secret
    <3>1. CASE factor.confirmed /\ Valid(proc[p].code, factor.secret)
      <4>1. proc[p] \in Request /\ proc'[p] = [proc[p] EXCEPT !.pc = "advance"]
        BY <1>0, <1>3, <3>1 DEF CheckCode, Keep, Become
      <4>2. proc'[p].code = proc[p].code
        BY <4>1 DEF Request
      <4> QED BY <3>1, <4>2 DEF Valid
    <3>2. CASE ~(factor.confirmed /\ Valid(proc[p].code, factor.secret))
      BY <1>0, <1>3, <3>2 DEF CheckCode, Goto, Become, Idle
    <3> QED BY <3>1, <3>2
  <2>4. OneSecret => OneSecret'
    BY <2>1, <2>2, <2>3 DEF OneSecret, At
  <2> QED BY <2>1, <2>4 DEF CodeInv
<1>4. ASSUME NEW p \in Proc, AdvanceStep(p) PROVE CodeInv'
  <2> DEFINE code == proc[p].code
             step == proc[p].code.step
  <2>1. code \in TotpCode /\ At(p, "advance")
    BY <1>4 DEF AdvanceStep, At, LoginInv, Carries, Carried
  <2>2. \A q \in Proc \ {p} : proc'[q] = proc[q]
    BY <1>4, OthersStay DEF Moves, SecondFactor
  <2>3. proc'[p].pc # "advance"
    BY <1>0, <1>4 DEF AdvanceStep, Goto, Become, Idle
  <2>4. overlapped' = overlapped
    BY <1>4 DEF AdvanceStep
  <2>5. CASE Later(code.step)
    <3>1. /\ factor' = [factor EXCEPT !.lastUsedStep = code.step]
          /\ accepted' = accepted \cup {code}
          /\ repeated' = IF code \in accepted THEN repeated \cup {code} ELSE repeated
      BY <1>4, <2>5 DEF AdvanceStep, Accept
    <3>2. /\ factor'.secret = factor.secret /\ factor'.confirmed = factor.confirmed
          /\ factor'.lastUsedStep = code.step
      BY <1>0, <3>1 DEF Factor
    <3>3. factor.lastUsedStep < code.step /\ code.step \in Nat /\ factor.lastUsedStep \in Nat
      BY <1>0, <2>1, <2>5, BoundAssumption DEF Later, TotpCode, Factor, Time
    <3>4. ASSUME OneSecret PROVE OneSecret'
      <4>1. factor.confirmed /\ code.of = factor.secret
        BY <2>1, <3>4 DEF OneSecret
      <4>2. code \notin accepted
        BY <2>1, <3>3, <3>4, <4>1 DEF OneSecret
      <4>3. repeated' \cap TotpCode = {}
        BY <3>1, <3>4, <4>2 DEF OneSecret
      <4>4. ASSUME NEW c \in accepted' \cap TotpCode, c.of = factor'.secret
            PROVE  c.step <= factor'.lastUsedStep
        <5>1. CASE c = code
          BY <3>2, <3>3, <5>1
        <5>2. CASE c \in accepted
          <6>1. c.step <= factor.lastUsedStep
            BY <3>2, <3>4, <4>4, <5>2 DEF OneSecret
          <6>2. c.step \in Nat
            BY <4>4, BoundAssumption DEF TotpCode, Time
          <6> QED BY <3>2, <3>3, <6>1, <6>2
        <5> QED BY <3>1, <4>4, <5>1, <5>2
      <4>5. \A q \in Proc :
               proc'[q].pc = "advance" => factor'.confirmed /\ proc'[q].code.of = factor'.secret
        BY <2>2, <2>3, <3>2, <3>4 DEF OneSecret, At
      <4> QED BY <3>2, <4>1, <4>3, <4>4, <4>5 DEF OneSecret, At
    <3> QED BY <2>4, <3>4 DEF CodeInv
  <2>6. CASE ~Later(code.step)
    <3>1. UNCHANGED <<factor, accepted, repeated>>
      BY <1>4, <2>6 DEF AdvanceStep, usedVars
    <3>2. OneSecret => OneSecret'
      BY <2>2, <2>3, <3>1 DEF OneSecret, At
    <3> QED BY <2>4, <3>2 DEF CodeInv
  <2> QED BY <2>5, <2>6
<1>5. ASSUME NEW p \in Proc, UpsertFactor(p) PROVE CodeInv'
  <2>1. UNCHANGED <<accepted, repeated>> /\ overlapped' = (overlapped \/ factor.confirmed)
    BY <1>5 DEF UpsertFactor, usedVars
  <2>2. factor' = [secret |-> factor.secret + 1, confirmed |-> FALSE, lastUsedStep |-> 0]
    BY <1>5 DEF UpsertFactor
  <2>3. \A q \in Proc \ {p} : proc'[q] = proc[q]
    BY <1>5, OthersStay DEF Moves, Enrolment
  <2>4. proc'[p].pc # "advance"
    BY <1>0, <1>5 DEF UpsertFactor, Finish, Become, Idle
  <2>5. ASSUME ~overlapped' PROVE OneSecret'
    <3>1. OneSecret /\ ~factor.confirmed
      BY <2>1, <2>5 DEF CodeInv
    <3>2. accepted \cap TotpCode = {} /\ \A q \in Proc : ~At(q, "advance")
      BY <3>1 DEF OneSecret
    <3> QED BY <2>1, <2>2, <2>3, <2>4, <3>1, <3>2 DEF OneSecret, At
  <2> QED BY <2>5 DEF CodeInv
<1>6. ASSUME NEW p \in Proc, CommitConfirm(p) PROVE CodeInv'
  <2> DEFINE code == proc[p].code
  <2>1. code \in TotpCode
    BY <1>6 DEF CommitConfirm, At, LoginInv, Carries, Carried
  <2>2. \A q \in Proc \ {p} : proc'[q] = proc[q]
    BY <1>6, OthersStay DEF Moves, Enrolment
  <2>3. proc'[p].pc # "advance"
    BY <1>0, <1>6 DEF CommitConfirm, Finish, Goto, Become, Idle
  <2>4. /\ overlapped' = (overlapped \/ factor.confirmed)
        /\ factor' = [factor EXCEPT !.confirmed = TRUE, !.lastUsedStep = code.step]
        /\ accepted' = accepted \cup {code}
        /\ repeated' = IF code \in accepted THEN repeated \cup {code} ELSE repeated
    BY <1>6 DEF CommitConfirm, ConfirmedFactor, Accept
  <2>5. factor'.confirmed /\ factor'.lastUsedStep = code.step
    BY <1>0, <2>4 DEF Factor
  <2>6. code.step \in Nat
    BY <2>1, BoundAssumption DEF TotpCode, Time
  <2>7. ASSUME ~overlapped' PROVE OneSecret'
    <3>1. OneSecret /\ ~factor.confirmed
      BY <2>4, <2>7 DEF CodeInv
    <3>2. accepted \cap TotpCode = {} /\ \A q \in Proc : ~At(q, "advance")
      BY <3>1 DEF OneSecret
    <3>3. repeated' \cap TotpCode = {}
      BY <2>1, <2>4, <3>1, <3>2 DEF OneSecret
    <3>4. \A c \in accepted' \cap TotpCode : c.step <= factor'.lastUsedStep
      BY <2>4, <2>5, <2>6, <3>2
    <3> QED BY <2>2, <2>3, <2>5, <3>2, <3>3, <3>4 DEF OneSecret, At
  <2> QED BY <2>7 DEF CodeInv
<1>7. ASSUME NEW p \in Proc, Plain(p) PROVE CodeInv'
  BY <1>1, <1>7, PlainStep
<1>8. CASE Tick \/ UNCHANGED vars
  BY <1>1, <1>8 DEF Tick, vars, factorVars, usedVars
<1> QED
  BY <1>2, <1>3, <1>4, <1>5, <1>6, <1>7, <1>8 DEF Next, Plain, SecondFactor, Enrolment

\* No TOTP code is accepted twice, to confirm, to log in or both, as long as no
\* enrolment or confirmation overlaps another confirmation.
THEOREM CodesWorkOnce == Spec => []CodeOnceUnlessOverlapped
<1>1. Init => CodeInv
  BY DEF Init, CodeInv, OneSecret, NoFactor, At, Idle
<1>2. LoginInv /\ CodeInv /\ [Next]_vars => CodeInv'
  BY CodeNext
<1>3. CodeInv => CodeOnceUnlessOverlapped
  BY DEF CodeInv, OneSecret, CodeOnceUnlessOverlapped
<1> QED BY <1>1, <1>2, <1>3, LoginInvariant, PTL DEF Spec
=============================================================================
