--------------------------------- MODULE Login ---------------------------------
(* The two steps of a login, its progressive lock and the second factor of one *)
(* user: packages/core/src/modules/identity/application/{login,mfa}.ts.        *)
(*                                                                             *)
(* An action is one SQL statement or one transaction that nothing can divide.  *)
(* Time is counted in periods of 30 s, the TOTP step and the first lock alike. *)
(* A user disabled or without an account is refused in the same places as a    *)
(* locked one; Sessions and Members follow those.                              *)
EXTENDS Naturals, FiniteSets

CONSTANTS
    Proc,           \* requests being served at the same time
    LockAfter,      \* LOCK_AFTER_FAILURES
    LockMax,        \* LOCK_MAX_SECONDS, in periods
    MaxTime,        \* bound: periods that pass
    MaxFailures,    \* bound: failures in a row
    MaxSecrets,     \* bound: secrets generated for the user
    MaxConfirms     \* bound: confirmations of a secret

ASSUME ProcAssumption == IsFiniteSet(Proc) /\ Proc # {}
ASSUME LockAssumption == LockAfter \in Nat \ {0} /\ LockMax \in Nat \ {0}
ASSUME BoundAssumption ==
    {MaxTime, MaxFailures, MaxSecrets, MaxConfirms} \subseteq Nat \ {0}

VARIABLES
    now,            \* the clock
    failures,       \* users.failed_login_count
    lockedUntil,    \* users.locked_until; 0 is NULL
    factor,         \* the row of user_mfa_factors; secret 0 while there is none
    recovery,       \* user_recovery_codes: the confirmation they belong to, and if unused
    challenges,     \* purposes of the challenges signed so far
    proc,           \* what each request is doing
    accepted,       \* history: codes that were accepted
    repeated,       \* history: codes that were accepted more than once
    proved,         \* history: secrets a valid code was shown for
    overlapped,     \* history: an enrolment or confirmation met a confirmed factor
    late,           \* history: failures counted under the lock last written
    lockLost        \* history: a request died owing a lock

userVars == <<failures, lockedUntil, late, lockLost>>
factorVars == <<factor, recovery, proved, overlapped>>
usedVars == <<accepted, repeated>>
vars == <<now, userVars, factorVars, usedVars, challenges, proc>>

-----------------------------------------------------------------------------
(* Data *)

Time == 1..MaxTime
Secret == 1..MaxSecrets

\* What a user may type: a code of a secret at a time step, or a recovery code.
\* The ten codes of a confirmation differ in nothing and are one here.
TotpCode == [kind : {"totp"}, of : Secret, step : Time]
RecoveryCode == [kind : {"recovery"}, of : 1..MaxConfirms, step : {0}]
Code == TotpCode \cup RecoveryCode
NoCode == [kind |-> "none", of |-> 0, step |-> 0]

Factor == [secret : 0..MaxSecrets, confirmed : BOOLEAN, lastUsedStep : 0..MaxTime]
NoFactor == [secret |-> 0, confirmed |-> FALSE, lastUsedStep |-> 0]

PC == {"idle", "password", "failed", "lock", "known", "finish",
       "verify", "advance", "enrol", "confirm", "confirming"}

\* lock: the locked_until a login read, or the failures a lock is owed for.
Request == [pc : PC, code : Code \cup {NoCode}, lock : Nat, ok : BOOLEAN]
Idle == [pc |-> "idle", code |-> NoCode, lock |-> 0, ok |-> FALSE]

At(p, label) == proc[p].pc = label
Become(p, request) == proc' = [proc EXCEPT ![p] = request]
Finish(p) == Become(p, Idle)

\* Go on with the code that was typed, or with nothing but the user.
Keep(p, label) == Become(p, [proc[p] EXCEPT !.pc = label])
Goto(p, label) == Become(p, [Idle EXCEPT !.pc = label])

Locked == lockedUntil > now

\* mutant: no upper limit
LockPeriodsUncapped(n) == IF n < LockAfter THEN 0 ELSE 2 ^ (n - LockAfter)
\* lockSeconds: nothing below the threshold, then one period doubling up to LockMax.
LockPeriods(n) ==
    IF n < LockAfter THEN 0
    ELSE LET doubled == 2 ^ (n - LockAfter) IN IF doubled < LockMax THEN doubled ELSE LockMax

\* verifySync with epochTolerance of one period to each side.
Valid(code, secret) ==
    code.kind = "totp" /\ code.of = secret /\ code.step \in {now - 1, now, now + 1}

Accept(code) ==
    /\ accepted' = accepted \cup {code}
    /\ repeated' = IF code \in accepted THEN repeated \cup {code} ELSE repeated

\* signChallenge and verifyChallenge: a signed challenge is kept nowhere, and until
\* it expires is good as often as it is shown, for the purpose it was issued for.
\* (One that expires is one that is not shown any more.)
Challenge(purpose) == challenges' = challenges \cup {purpose}
Challenged(purpose) == purpose \in challenges

-----------------------------------------------------------------------------
(* login *)

\* The SELECT of the user, before the password is hashed.
ReadUser(p, ok) ==
    /\ At(p, "idle")
    /\ Become(p, [Idle EXCEPT !.pc = "password", !.lock = lockedUntil, !.ok = ok])
    /\ UNCHANGED <<now, userVars, factorVars, usedVars, challenges>>

\* Once it is: the lock read before, against the clock of now.
CheckPassword(p) ==
    /\ At(p, "password")
    /\ CASE proc[p].lock > now -> Finish(p)
         [] proc[p].lock <= now /\ ~proc[p].ok -> Goto(p, "failed")
         [] OTHER -> Goto(p, "known")
    /\ UNCHANGED <<now, userVars, factorVars, usedVars, challenges>>

\* hasConfirmedTotp, and for a user without a factor accounts.require_2fa.
ChooseStep(p) ==
    /\ At(p, "known")
    /\ \E require2fa \in BOOLEAN :
          CASE factor.confirmed -> Challenge("mfa") /\ Finish(p)
            [] ~factor.confirmed /\ require2fa ->
                 Challenge("enroll") /\ Finish(p)
            [] OTHER -> Goto(p, "finish") /\ UNCHANGED challenges
    /\ UNCHANGED <<now, userVars, factorVars, usedVars>>

\* mutant: the count is not reset with the lock
FinishLoginKeepsCount(p) ==
    /\ At(p, "finish")
    /\ lockedUntil' = 0
    /\ Finish(p)
    /\ UNCHANGED <<now, failures, late, lockLost, factorVars, usedVars, challenges>>

\* finishLogin; its session is Sessions!StartSession.
FinishLogin(p) ==
    /\ At(p, "finish")
    /\ failures' = 0
    /\ lockedUntil' = 0
    /\ Finish(p)
    /\ UNCHANGED <<now, late, lockLost, factorVars, usedVars, challenges>>
-----------------------------------------------------------------------------
(* registerFailure: two statements *)

CountFailure(p) ==
    LET n == failures + 1 IN
    /\ At(p, "failed")
    /\ n <= MaxFailures
    /\ failures' = n
    /\ late' = IF Locked THEN late + 1 ELSE late
    /\ IF LockPeriods(n) > 0
       THEN Become(p, [Idle EXCEPT !.pc = "lock", !.lock = n])
       ELSE Finish(p)
    /\ UNCHANGED <<now, lockedUntil, lockLost, factorVars, usedVars, challenges>>

LockUser(p) ==
    /\ At(p, "lock")
    /\ lockedUntil' = now + LockPeriods(proc[p].lock)
    /\ late' = 0
    /\ Finish(p)
    /\ UNCHANGED <<now, failures, lockLost, factorVars, usedVars, challenges>>
-----------------------------------------------------------------------------
(* completeMfaLogin and verifySecondFactor *)

\* mutant: the lock is left to the first step of the login
CompleteMfaUnchecked(p, code) ==
    /\ At(p, "idle")
    /\ Challenged("mfa")
    /\ Become(p, [Idle EXCEPT !.pc = "verify", !.code = code])
    /\ UNCHANGED <<now, userVars, factorVars, usedVars, challenges>>

\* verifyChallenge and assertNotLocked.  (When they refuse, nothing changes.)
CompleteMfaLogin(p, code) ==
    /\ At(p, "idle")
    /\ Challenged("mfa")
    /\ ~Locked
    /\ Become(p, [Idle EXCEPT !.pc = "verify", !.code = code])
    /\ UNCHANGED <<now, userVars, factorVars, usedVars, challenges>>

\* mutant: AND used_at IS NULL left out
KnownRecovery(code) == recovery.of = code.of
\* WHERE code_hash = code AND used_at IS NULL
UnusedRecovery(code) == recovery.of = code.of /\ recovery.unused

UseRecoveryCode(p) ==
    /\ At(p, "verify")
    /\ proc[p].code.kind = "recovery"
    /\ IF UnusedRecovery(proc[p].code)
       THEN /\ recovery' = [recovery EXCEPT !.unused = FALSE]
            /\ Accept(proc[p].code)
            /\ Goto(p, "finish")
       ELSE Goto(p, "failed") /\ UNCHANGED <<recovery, usedVars>>
    /\ UNCHANGED <<now, userVars, factor, proved, overlapped, challenges>>

\* The SELECT of the confirmed factor and the check of the code against its secret.
CheckCode(p) ==
    /\ At(p, "verify")
    /\ proc[p].code.kind = "totp"
    /\ IF factor.confirmed /\ Valid(proc[p].code, factor.secret)
       THEN Keep(p, "advance")
       ELSE Goto(p, "failed")
    /\ UNCHANGED <<now, userVars, factorVars, usedVars, challenges>>

\* mutant: the step may be the one used last
NotBehind(step) == factor.lastUsedStep <= step
\* WHERE last_used_step IS NULL OR last_used_step < step
Later(step) == factor.lastUsedStep < step

AdvanceStep(p) ==
    /\ At(p, "advance")
    /\ IF Later(proc[p].code.step)
       THEN /\ factor' = [factor EXCEPT !.lastUsedStep = proc[p].code.step]
            /\ Accept(proc[p].code)
            /\ Goto(p, "finish")
       ELSE Goto(p, "failed") /\ UNCHANGED <<factor, usedVars>>
    /\ UNCHANGED <<now, userVars, recovery, proved, overlapped, challenges>>
-----------------------------------------------------------------------------
(* Enrolment *)

\* beginTotpEnrollment: hasConfirmedTotp says no,
BeginTotpEnrollment(p) ==
    /\ At(p, "idle")
    /\ ~factor.confirmed
    /\ Become(p, [Idle EXCEPT !.pc = "enrol"])
    /\ UNCHANGED <<now, userVars, factorVars, usedVars, challenges>>

\* ... and later a new secret is upserted, unconfirmed, with no step used.
UpsertFactor(p) ==
    /\ At(p, "enrol")
    /\ factor.secret < MaxSecrets
    /\ factor' = [secret |-> factor.secret + 1, confirmed |-> FALSE, lastUsedStep |-> 0]
    /\ overlapped' = (overlapped \/ factor.confirmed)
    /\ Finish(p)
    /\ UNCHANGED <<now, userVars, recovery, proved, usedVars, challenges>>

\* completeEnrollmentLogin: verifyChallenge and assertNotLocked.
CompleteEnrollmentLogin(p, code) ==
    /\ At(p, "idle")
    /\ Challenged("enroll")
    /\ ~Locked
    /\ Become(p, [Idle EXCEPT !.pc = "confirm", !.code = code, !.ok = TRUE])
    /\ UNCHANGED <<now, userVars, factorVars, usedVars, challenges>>

\* confirmTotpEnrollment: the SELECT of the unconfirmed factor and the check of
\* the code.
Confirmable(code) == ~factor.confirmed /\ Valid(code, factor.secret)

\* In a login only a wrong code counts as a failure, a missing factor does not.
CheckEnrolment(p) ==
    /\ At(p, "confirm")
    /\ CASE Confirmable(proc[p].code) -> Keep(p, "confirming")
         [] ~Confirmable(proc[p].code) /\ ~factor.confirmed /\ factor.secret # 0 ->
              Goto(p, "failed")
         [] OTHER -> Finish(p)
    /\ UNCHANGED <<now, userVars, factorVars, usedVars, challenges>>

\* The route of a user who is logged in.  (When it refuses, nothing changes.)
ConfirmOwn(p, code) ==
    /\ At(p, "idle")
    /\ Confirmable(code)
    /\ Become(p, [Idle EXCEPT !.pc = "confirming", !.code = code])
    /\ UNCHANGED <<now, userVars, factorVars, usedVars, challenges>>

\* mutant: the step of the code is not kept
ConfirmedForgetful(step) == [factor EXCEPT !.confirmed = TRUE]
\* confirmed_at and last_used_step, WHERE id = the row and nothing else
ConfirmedFactor(step) == [factor EXCEPT !.confirmed = TRUE, !.lastUsedStep = step]

\* The transaction: the factor is confirmed, the recovery codes are replaced.
CommitConfirm(p) ==
    /\ At(p, "confirming")
    /\ recovery.of < MaxConfirms
    /\ factor' = ConfirmedFactor(proc[p].code.step)
    /\ recovery' = [of |-> recovery.of + 1, unused |-> TRUE]
    /\ proved' = proved \cup {proc[p].code.of}
    /\ overlapped' = (overlapped \/ factor.confirmed)
    /\ Accept(proc[p].code)
    /\ IF proc[p].ok THEN Goto(p, "finish") ELSE Finish(p)
    /\ UNCHANGED <<now, userVars, challenges>>
-----------------------------------------------------------------------------
\* The request dies where it stands.
Crash(p) ==
    /\ ~At(p, "idle")
    /\ lockLost' = (lockLost \/ At(p, "lock"))
    /\ Finish(p)
    /\ UNCHANGED <<now, failures, lockedUntil, late, factorVars, usedVars, challenges>>

Tick ==
    /\ now < MaxTime
    /\ now' = now + 1
    /\ UNCHANGED <<userVars, factorVars, usedVars, challenges, proc>>

\* A user who registered and never logged in since.
Init ==
    /\ now = 1
    /\ failures = 0
    /\ lockedUntil = 0
    /\ factor = NoFactor
    /\ recovery = [of |-> 0, unused |-> FALSE]
    /\ challenges = {}
    /\ proc = [p \in Proc |-> Idle]
    /\ accepted = {}
    /\ repeated = {}
    /\ proved = {}
    /\ overlapped = FALSE
    /\ late = 0
    /\ lockLost = FALSE

Password(p) ==
    \/ \E ok \in BOOLEAN : ReadUser(p, ok)
    \/ CheckPassword(p)
    \/ ChooseStep(p)
    \/ FinishLogin(p)

Failure(p) == CountFailure(p) \/ LockUser(p)

SecondFactor(p) ==
    \/ \E code \in Code : CompleteMfaLogin(p, code)
    \/ UseRecoveryCode(p)
    \/ CheckCode(p)
    \/ AdvanceStep(p)

Enrolment(p) ==
    \/ BeginTotpEnrollment(p)
    \/ UpsertFactor(p)
    \/ \E code \in TotpCode : CompleteEnrollmentLogin(p, code) \/ ConfirmOwn(p, code)
    \/ CheckEnrolment(p)
    \/ CommitConfirm(p)

Next ==
    \/ \E p \in Proc : Password(p) \/ Failure(p) \/ SecondFactor(p) \/ Enrolment(p) \/ Crash(p)
    \/ Tick

Spec == Init /\ [][Next]_vars
-----------------------------------------------------------------------------
(* Properties *)

TypeOK ==
    /\ now \in Time
    /\ failures \in 0..MaxFailures
    /\ lockedUntil \in 0..MaxTime + LockMax
    /\ factor \in Factor
    /\ recovery \in [of : 0..MaxConfirms, unused : BOOLEAN]
    /\ challenges \subseteq {"mfa", "enroll"}
    /\ proc \in [Proc -> Request]
    /\ repeated \subseteq accepted /\ accepted \subseteq Code
    /\ proved \subseteq Secret
    /\ overlapped \in BOOLEAN /\ lockLost \in BOOLEAN
    /\ late \in Nat

\* A user whose failures in a row reached the threshold has a lock, or a request
\* is about to write it: the two statements of registerFailure, crossed with
\* those of other failures and of a login that succeeds, never leave the count
\* without its lock, unless a request dies between them.
ThresholdLocks ==
    failures >= LockAfter /\ ~lockLost =>
        lockedUntil # 0 \/ \E p \in Proc : At(p, "lock")

\* Under a lock no more guesses are counted than requests were already past their
\* check when it was written: passwords and codes count for the same lock.
FewGuessesPerLock == late < Cardinality(Proc)

\* A recovery code is good for one login, also when two present it at once or the
\* codes are replaced meanwhile.
RecoveryCodeOnce == repeated \cap RecoveryCode = {}

\* "o mesmo código nunca vale duas vezes": no TOTP code is accepted twice, be it to
\* confirm and to log in or by two requests at once, as long as no enrolment or
\* confirmation overlaps another confirmation.
CodeOnceUnlessOverlapped == repeated \cap TotpCode # {} => overlapped

\* "O fator só vale depois de confirmado": the secret of a confirmed factor is one
\* for which the user showed a valid code.
ConfirmedSecretWasProved == factor.confirmed => factor.secret \in proved
=============================================================================
