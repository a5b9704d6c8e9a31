# Formal models of waychat

TLA+ models of the parts of waychat where requests, transactions, workers and
crashes meet: refresh-token sessions, login and second factor, members and
roles, tenants on a shared pool of connections, and the transactional outbox with
its queue and the worker processes that serve it. TLC checks them on small
instances; TLAPS proves theorems about them for instances of any size: every safety
invariant that a passing run checks, and the safety half of each refinement.

    tlc -config MCSessions.cfg MCSessions      # any run listed below
    tlapm SessionsProofs.tla                   # any module named *Proofs

## 1. Inventory

waychat is a monorepo: `apps/api` (Fastify), `apps/worker` (relay and queue
consumers), `packages/core` (the domain), `packages/db` (Drizzle schema,
row-level security), `packages/shared`, `packages/ui`.

| Component | State | Operations | Talks to | Correct when |
|---|---|---|---|---|
| Sessions (`core/.../identity/application/sessions.ts`) | table `sessions`: family, holder, hash, `revoked_at`, `replaced_by` | `issueSession`, `startSession`, `refreshSession`, `authenticate`, `logout`, `revokeOwnSessions` | PostgreSQL; `members.ts` revokes, `login.ts` opens | one working token per family, rotation is a line, a revocation ends the family |
| Login (`login.ts`) | `users.failed_login_count`, `locked_until` | `login`, `completeMfaLogin`, `completeEnrollmentLogin`, `registerFailure`, `finishLogin` | Sessions, second factor | the threshold locks, few guesses per lock |
| Second factor (`mfa.ts`) | `user_mfa_factors`, `user_recovery_codes` | `beginTotpEnrollment`, `confirmTotpEnrollment`, `verifySecondFactor` | Login | a code is good once, a factor is active once it was shown to work |
| Members and roles (`core/.../authz`) | `account_users`, `roles`, `role_permissions` | `addMember`, `changeMemberRole`, `removeMember`, `createRole`, `updateRole`, `deleteRole` | Sessions, outbox, audit | an Owner always, nobody gains what nobody could give, no dangling role |
| Outbox (`core/.../events/enqueue.ts`, `worker/relay.ts`, `queues.ts`) | table `outbox`, the BullMQ queues | `enqueueEvent`, `relayOnce`, `startRelay`, `createPublisher`, `startEventsWorker` | PostgreSQL, Valkey | no event lost, invented or doubled; dead letters final |
| Worker lifecycle (`worker/main.ts`) | `stopping`, `closing`, timers | `stop`, `shutdown` | relay, queues | a shutdown ends in time and loses nothing |
| Tenancy (`db/src/tenant.ts`, `client.ts`, migrations 0001 and 0003) | pool of connections, their settings `app.account_id` and `app.user_id` | `withTenant`, `withUser`, the policies | every request | no request reads another tenant's rows, nobody waits in a circle |
| Account settings (`core/.../account`) | table `accounts` | `updateAccount`, `getMe` | audit log | the newest records tell the setting, as far as clocks go |
| Audit log (`core/.../audit`) | table `audit_logs`, append-only | `recordAudit`, `listAuditLogs` | every handler | pages without repetition or gap |
| API lifecycle (`api/src/server.ts`) | `closing`, a timer | `shutdown` | all requests, the pool | nothing is left half written; a clean exit cuts off no request (Fastify's part, section 7) |
| Account registration, access control, JWT and keys | rows, hooks | one transaction or pure functions | all of the above | see section 7 |

What is hard in this code is not any single handler but that each one is several
SQL statements at READ COMMITTED, in or out of a transaction, that other
requests run between; that the worker's calls fail with or without effect; and
that a process may end between any two steps. `PROJECT.json` lists these hazards
one by one, at the line where each bites.

## 2. Modules

| Module | What it is |
|---|---|
| `TokenFamily` | abstract specification of session families: `Open`, `Rotate`, `Close` |
| `Sessions` | the statements behind them; `ImplementsTokenFamily` is the refinement |
| `SessionsProofs` | proves type correctness and `AtMostOneLiveRow` |
| `FamilyProofs` | extends it: `DeadExactlyWhenClosed`, `ChainIsLinear`, the refinement of `TokenFamily` |
| `Login`, `LoginProofs` | password, lock, second factor and enrolment of one user |
| `Members`, `MembersProofs` | members and roles of one account |
| `EventDelivery` | abstract specification of the outbox: `Record`, `Deliver`, with fairness |
| `Outbox`, `OutboxProofs` | requests, relays, queue, handlers, dead letters, faults; `ImplementsDelivery` is the refinement |
| `Worker`, `WorkerProofs` | the worker processes over `Outbox` (`O == INSTANCE Outbox`): loop, sleeps, consumer, shutdown, crash, restart |
| `Tenancy`, `TenancyProofs` | requests of several tenants on one pool: settings, policies, account settings, audit log |
| `MCSessions`, `MCLogin`, `MCMembers`, `MCOutbox`, `MCWorker`, `MCTenancy` | instances for TLC |

In each of them **an action is one SQL statement, one commit, or one external
call**; a request (`proc[p]`) is at a program counter `pc` between two of them and
carries the local variables its handler still needs. A refusal that changes
nothing is not an action. Definitions preceded by a comment `mutant:` are not
part of the specification: each is the form a plausible bug would give to the
definition below it, and is there to show that a property notices.

### Sessions

`sessions` is the committed table. A rotation in progress is not in it: from
`Claim` to `CommitRotation` the row lock and the two uncommitted writes are the
request's (`HoldsRow`, `UnusedRow`). Two rules of PostgreSQL are explicit: a
statement works on the rows committed when it starts (`BeginRevoke` collects its
`targets`), and an UPDATE that meets a locked row waits and then looks at its
WHERE clause again on that row only. A revocation locks its targets one by one, in
any order, and keeps each lock until it commits (`LockTarget`); `FinishRevoke` revokes
those that were still live. Two revocations of several sessions, or one and a rotation
behind it, may so wait in a circle, of which PostgreSQL aborts one transaction
(`BreakCircle`, a `Crash` of a request in the circle). `Claim`/`LoseRace` are the two outcomes of the
conditional UPDATE. `fate` is history: what the revocations of a family achieved,
`"outrun"` by a rotation that committed under them, or else `"closed"`, which it stays.
`removeMember` is here only as the deletion of a membership and its revocation;
`Members` has its other half.

### Login

One user, time in periods of 30 s (a TOTP step, and the first lock). `login` reads
the user, hashes, and decides on what it read (`ReadUser`, `CheckPassword`).
`registerFailure` is two statements (`CountFailure`, `LockUser`), and the second
factor is a SELECT and a conditional UPDATE (`CheckCode`, `AdvanceStep`).
Enrolment checks and upserts (`BeginTotpEnrollment`, `UpsertFactor`) and confirms
(`CheckEnrolment`/`ConfirmOwn`, `CommitConfirm`). A code is a pair of secret and
step; secrets are numbered in the order they are generated. The ten recovery
codes of a confirmation are independent of each other and are one here.

### Members

One account. The permissions of the acting user are loaded at the start and kept
(`LoadRole`, `LoadPermissions`). `assertNotLastOwner` is its snapshot
(`FindOwners`), the locks of the rows it found, one by one and in any order
(`LockOwner`), and the test (`AssertNotLastOwner`). A row that changed while its lock
was waited for is looked at again (`StillOwner`): no longer an Owner's, it is not counted,
but its lock is kept. Foreign keys refuse a role that was deleted
(`InsertMember`, `WriteMember`) and the deletion of a role in use (`Deletable`);
the roles users start with exist for the same reason (`InitialAssumption`).
`WriteMember` with `NoRole` is the DELETE of `removeMember`: the row is gone, so a
request that waits for it does not get it (it leaves the `owners` of those still locking).
`updateRole` is its DELETE and its INSERT: of two at once neither sees what the
other inserts. `Abandon` ends a request anywhere, with its transaction rolled back: a
refusal, a crash, or the deadlock that section 3 describes.

### Outbox

An event's row goes from inserted to committed or rolled back, and is published
by a relay that holds it locked in its batch (`SelectBatch`, `AddBulk`, `FanOut`,
`CommitBatch`). BullMQ is external: jobs are known by `jobId`, retried up to
`MaxAttempts`, and finished ones are forgotten at any time (`Prune`). `created`
counts the jobs of an event the queue made and has not forgotten. A job whose worker died
is given out again once; stalled a second time it fails, whatever attempts it has left
(`StallJob`, BullMQ's `maxStalledCount` of 1), and then the listener adds no dead letter,
since the attempts are not used up. Faults (`RelayFails`,
`AddBulkReplyLost`, `FanOutLost`, `Stall`, `DeadLetterLost`) are counted up to
`MaxFaults`.

### Worker

A process `k` has a `loop` (`cycle` in `relayOnce`, `pause` in a sleep, `ended`) and a
`stage` of its life: `up`, `stop` (awaiting `relay.stop()`), `drain` (awaiting
`worker.close()`), then `exited` or `killed`. The rows and jobs are those of `Outbox`,
whose actions the steps here are built from: `FindRows` is `SelectBatch`, `Mark` is
`CommitBatch` and the choice between a sleep and the next cycle, `CycleFails` is the catch
of the loop, for a SELECT that fails as well (`SelectFails`), `Handle` is the
handler with the process that runs it (`runner`). `Signal` is `stop()`: a process
asleep is woken, one in a cycle is not, because `wake` belongs to an earlier sleep.
`Exit` is the clean one: `worker.close()` has waited for the handlers of this process, and
what it left is left as it is (`runner` keeps saying whose a job was, so that a job in
progress would be seen). `ForcedExit` is the 30 s timer or an `await` that throws. A killed process leaves its
transaction to PostgreSQL, and the statement it had sent may still take effect
(`LastWords`); its jobs are given out again (`GiveAgain`), its dead letters are sent or
not (`DeadLetter`, `NoticeDies`). To keep the product small three things are coarser
than in `Outbox`, which has them in full: a request's transaction is one step, `addBulk`
and the pub/sub messages are one step, and finished jobs are not forgotten. The cursors are
drawn before (`Drawn`) and the transactions commit in any order, so a row appears to the
relays below cursors they have published.

### Tenancy

A request is a list of sections, each a transaction (or a single statement) on a
connection taken from the pool, and a section is a list of statements (`Script`); a
request's `section` and `next` say where in it the handler is.
`SetAccount` and `SetUser` are `set_config(..., true)`; `Returned` is what COMMIT and
ROLLBACK make of a connection. `VisibleAudit`, `VisibleMembers` and `MayInsert` are the
policies, with `NULL` equal to nothing, and the reads that lean on them are those whose
WHERE clause has no account: `listMembers`, `getMe`, `listAuditLogs`, and the
memberships that `login` looks for. `Update` waits for the row of the account
(`RowLocked`). `Acquire` is how any section begins: a request that is not within one asks
for a connection, and would ask whatever it already had. The mutant `CommitKeeps` is the
request that has one.

The id of an audit record is a UUID v7, made when the INSERT is sent: milliseconds of the
host's clock, then random bits. The model has a `clock`, hosts that are ahead of it by up to
`Skew` milliseconds, and ids of which several may be of one millisecond (`Millisecond`),
drawn in any order within it (`FreshId`). `NewestRecordTellsSetting` therefore says what the
code gives: the value an account has was recorded, and no change is recorded more than `Skew`
milliseconds later. Two changes that meet within that may be listed the wrong way round.
`paging` follows one reader of one account's log through its pages, while updates
and logins add records to it that commit in another order than their ids.

## 3. Runs

| Run | Instance | States | Shows |
|---|---|---|---|
| `sessions` | 2 requests, 2 families, 3 rows, one user with a second factor | 472 332 | `AtMostOneLiveRow`, `DeadExactlyWhenClosed`, `ChainIsLinear`, refinement of `TokenFamily` |
| `sessions_finish` | 2 requests, 2 families, 3 rows, fair | 141 384 | `RequestsFinish` |
| `sessions_outrun` | 2 requests, 1 family, 3 rows | – | violated: `RevocationEndsFamily` |
| `login` | 2 requests, 2 periods, 2 secrets, 2 confirmations, lock after 1 failure | 2 494 510 | `ThresholdLocks`, `FewGuessesPerLock`, `RecoveryCodeOnce`, `CodeOnceUnlessOverlapped` |
| `login_confirm` | the same | – | violated: `ConfirmedSecretWasProved` |
| `members` | 2 requests, 2 Owners, a manager who acts, 2 roles, 3 permissions | 1 307 961 | `AccountHasOwner`, `NoEscalation`, `MembersHaveRoles` |
| `members_promotion` | 2 requests of the only Owner, a manager | – | violated: `AccountHasOwner` |
| `outbox` | 3 events, 2 relays, batches of 2, 2 attempts, 2 faults | 2 756 506 | `DisjointBatches`, `NothingBeforeCommit`, `PublishedHasJob`, `OneJobPerEvent`, `DeadLetteredUnlessFault`, `DeadLetterIsFinal` |
| `outbox_dead_letter` | as `outbox` | – | violated: `ExhaustedIsDeadLettered` |
| `worker` | 2 events, 2 processes, batches of 1, 2 attempts, 1 fault, 1 signal, fair | 162 520 | `StopWaitsForBatch`, `JobsOutliveNoCleanExit`, `ShutdownEnds`, `EventuallyPublished`, `EventuallySettled`, refinement of `EventDelivery` |
| `worker_stop` | as `worker`, no fault | – | violated: `StopWaitsOnlyForBatch` |
| `tenancy` | 3 requests, 2 connections, 2 accounts, a user of both and a user of one, pages of 1, 3 audit records, two of one millisecond, no skew | 327 840 | `IdleConnectionsAreClean`, `ReadsStayInTenant`, `NewestRecordTellsSetting`, `PagesDescend`, `PagesAreComplete`, `SomebodyGoesOn` |

Each passing run but `sessions_finish` also checks the type invariant of its module.

Why the bounds are enough to be worth something: every property of a pair of
requests needs two of them at once, and a request that ended makes room for the
next, so longer stories with more actors in turn are in the state space. Three
rows let a family rotate twice, or be rotated while a second family exists, and in
`sessions_finish` they leave a refresh an id to take while it waits for a row that another
rotation holds, and let two revocations hold a row of a family each. Its specification,
`StillSpec`, leaves out the environment, which nobody waits for, and which of the unused
ids is taken. Three
events with batches of two let a batch be full and a row stay behind; two faults
let a retry fail as well. In `login` one failure is the threshold, so that the
counter passes it, and the upper limit of the lock cuts the second lock. In
`worker` one process is asked to stop and the other is not, and the one fault is a
failed cycle, a crash or the forced exit of either; the first event draws the smaller
cursor, and either commits first. In `tenancy` three requests meet a pool of two connections, so that one finds it exhausted
while others hold a row and wait for one; three records make
two pages and a record that comes in between, and the user of both accounts is the
one whose rows a leak would show. What the three requests do together is bounded
(`SmallSpec`: `Spec` within the states `Small`): updates and logins meet three at a time
while the log is empty, beside a reading that goes on there is one other request, and once
there is a log requests authenticate one after the other, except beside one that has a row
lock or an id already. An id that appears behind a cursor that passed it, a pool exhausted
with a row lock waited for, and two changes listed the wrong way round are all among them.
The smaller instances of the liveness runs are the
largest that finish quickly without symmetry, which is unsound there. Deadlock is not checked: every one of
these systems may stop when nobody asks anything, and the finite supplies of
rows, secrets and events end.

### What the violated runs show

1. **A revocation can be outrun** (`sessions_outrun`). The UPDATE of `revokeFamily`
   (or of `removeMember`) that starts while a rotation of the family is
   uncommitted does not see the new row; when it gets the lock the old row is
   revoked already and it ends having revoked nothing. After a logout the family
   still has a working token. What does hold is `DeadExactlyWhenClosed`: only a
   rotation committed under the statement does this, and a family that a
   revocation did catch never comes back.
2. **A confirmation may activate another secret** (`login_confirm`). Two
   enrolments of one user overlap, and the confirmation of the first writes the
   row of the second. For the same reason `CodeOnceUnlessOverlapped` has its
   condition: a late confirmation sets `last_used_step` back, a late enrolment
   clears it.
3. **The last Owner may go** (`members_promotion`). `changeMemberRole` skips the check
   when the role it read, without a lock, is the role asked for.
   `members` has a manager who cannot give the Owner's role, and there two
   removals and demotions never leave the account without one: the condition
   is that the acting users lack some permission between them
   (`OwnerOutOfReach`), and under it `AccountHasOwner` is proved for any instance.
4. **A dead letter may be dropped** (`outbox_dead_letter`). Only by a fault between
   the last failure and the addition (`DeadLetteredUnlessFault`), where a process that ends
   is a fault, also when it exits cleanly.
5. **A stop may sleep** (`worker_stop`). `stop()` called during a cycle wakes nothing;
   the loop sleeps its pause first, 500 ms or a backoff of up to 30 s, which is the
   limit of the whole shutdown. `ShutdownEnds` in `worker` shows that the sleep is all
   it costs while the timer does not fire.

Three things the models have and no property forbids. Two removals can deadlock. Let an
Owner be demoted while removals wait: p found both Owners, locks the demoted one's row,
keeps that lock, and waits for the other Owner's; q, which came later, found and holds the
other Owner alone, and its DELETE waits for the demoted user's row. A manager's requests
are enough for it: in the instance of `members` it is 20 steps away. PostgreSQL aborts one of
them (40P01), which the API answers with 500,
and no document promises otherwise. A refresh that loses its race to a
logout is handled and audited as a reuse (`LoseRace` leads to the same revocation),
though nobody rotated its token. And `jobId` protects an event from a second job only
while the queue remembers the first: `OneJobPerEvent` says so, a relay that comes back
after `removeOnComplete` makes another.

## 4. Fairness

- `Sessions!FairSpec`: the server goes on with each request it started (WF of
  `Proceed(p)`, every step that never waits). A step that waits for a row lock
  has SF: PostgreSQL queues the waiters of a lock, so a lock freed again and again is
  obtained. PostgreSQL finds a circle of waits and breaks it (WF of `BreakCircle`). New
  requests and other crashes have none. `RequestsFinish` excuses a request for which the
  instance has no free id (`OutOfIds`), but none that waits for a row.
- `Worker!FairSpec`: of each process, whatever state it is in, something goes on: its
  loop polls for ever whatever fails, its sleeps end, a shutdown reaches its next
  `await`, PostgreSQL ends the transaction of a dead connection, and a process that
  ended is started again (WF of `ProcessStep(k)`; the restart is the container
  runtime's). Of each job, too: a consumer takes it, its handler ends one way or the
  other, and BullMQ gives a stalled one out again (WF of `JobStep(e)`). No fairness is
  given to signals, faults, the timer, dead letters and requests.
- `Outbox` and `Tenancy` are checked for safety only.
- `EventDelivery!Spec`: every recorded event is handed over some time.

## 5. Proofs

Every safety invariant that a passing run checks is a theorem, `Spec => []Inv`, for any
sets of requests, processes, users, rows and events and any bounds. So are the
refinements, that of `EventDelivery` without its fairness. Each inductive
invariant was checked by TLC on the instance of its module before it was proved.

### Assumptions

The constants are constrained by named assumptions in the module that declares them,
and TLC evaluates them in the runs: null values are not ids (`NullAssumption`,
`NobodyAssumption`, `NoneAssumption`), numbers are numbers and thresholds and sizes are
not 0 (`LockAssumption`, `BoundAssumption`, `BatchAssumption`, `AttemptsAssumption`,
`FaultsAssumption`, `SignalsAssumption`, `PageAssumption`, `RecordsAssumption`), sets of
inputs are of the right kind (`FactorAssumption`, `SignalledAssumption`,
`MembershipAssumption`, `RequestsAssumption`, `AuditedAssumption`, `AssignableAssumption`,
`ActorAssumption`), and

- `Login`: the requests are finitely many (`ProcAssumption`), for `FewGuessesPerLock` counts them;
- `Members`: Owner is a role of its own, and there is an Owner at first (`RoleAssumption`,
  `PermissionAssumption`, `InitialAssumption`);
- `Tenancy`: the pool is not empty (`PoolAssumption`), and ids are in the order of their
  milliseconds (`ClockAssumption`), which is how a UUID v7 is laid out.

Connections, accounts, rows and events may be infinitely many. `Worker` repeats three
assumptions of `Outbox`, which `INSTANCE` does not bring along.

One theorem has a hypothesis more. `AccountKeepsOwner` says that `Spec` keeps
`AccountHasOwner` if `OwnerOutOfReach`: the acting users, between them, lack some
permission, so none of them can assign the Owner's role. It is a condition on the
account, true of the instance of `members` and false of that of `members_promotion`,
where the code breaks the property.

### Sessions (`SessionsProofs`, `FamilyProofs`)

`TypeOK` needs that a request which will audit a reuse holds a row (`ReuseKnowsRow`).
`AtMostOneLiveRow` is not preserved by `CommitRotation` unless the row it replaces
is live, is of the family of the new one, and is nobody else's: `RotationInv` adds that
a refresh remembers its row's family and holder (`RefreshesKnowRow`) and that open
rotations hold a live row and an unused id each, different from those of the others
(`ClaimsAreExclusive`). The first comes from reading the row once and never
changing family or holder; the second from the row lock with the condition
`revoked_at IS NULL`, and from a revocation waiting for the lock: no row is locked by a
revocation and by a rotation at once (`LocksApart`), and a revocation that commits has
all of its targets locked.

`DeadExactlyWhenClosed` is about a statement that starts in one state and ends in
another, so the invariant says what it found remains worth: every family it
means to end is closed by now or still has a target that is live or was rotated
(`Caught`, `Knows`). When it ends, a target that is live dies, and a family
whose target was rotated is dead or was outrun. `FamilyInv` adds the
table's line of rows (`RowsWellFormed`, `ChainIsLinear`) and that a family without rows
was never closed. `TableIsTokenFamily` maps every step: a login opens, a rotation's
commit rotates, a revocation's end closes a set of families, everything else stutters.
`OfFamily` is what makes the mapping's CHOOSE harmless: any live row is the
current token, any row tells the holder.

### Login (`LoginProofs`)

On the base of what requests carry (`LoginInv`) there are four arguments. `ThresholdLocks`
is inductive on that base: the count is over the threshold only while a lock is written or a
request owes it. For `FewGuessesPerLock`, `GuessInv` counts the requests that may still
guess under a lock (`Past`: already past the check, or with a lock read before) with the
guesses made; each guess moves a request out of `Past`, and the one that wrote the
lock is not in it. `RecoveryInv` says that an accepted recovery code belongs to a
replaced set or is marked. `CodeInv` says that until a confirmation is overlapped only
one secret was ever confirmed and `lastUsedStep` bounds the steps accepted
(`OneSecret`). The upper limit of the lock, 2^n seconds cut off at `LockMax`, is
in the types; 2^n is a natural number because it is the number of subsets of a set.

### Members (`MembersProofs`)

`MembersHaveRoles` is inductive with the types, by the foreign keys. `EscalationInv` adds that
what a request holds, asks for and is about to hand out is below what the acting users
could do at first between them (`RequestsBelow`), and that roles can only
be edited within it: a role edited between the check and the assignment stays
below too. `NoEscalation` speaks of every user, acting or not: each has no more than
what they started with and what the acting users had. `OwnerInv` is the argument of
`assertNotLastOwner` (`OwnerLocks`): while a request locks the rows it found one by one,
what it found contains every Owner of now (Owners only become fewer, since nobody can make
one), and what it has locked and kept is an Owner's; when it writes it holds every Owner
of now, and they are not only its target, or its target is no Owner.

### Outbox and Worker (`OutboxProofs`, `WorkerProofs`)

`TablesInv` says what holds however processes end: rows in a batch are pending
(`BatchesArePending`), a relay past `addBulk` gave its whole batch (`BatchesAreGiven`,
needed for `PublishedHasJob` at the commit), a job counts once while it is remembered
(`JobsAreCounted`, the one `jobId`), and jobs that may run have attempts left
(`AttemptsAreCounted`). `FinitelyNumbered` is the identity column: without it a batch
of the oldest rows might have no oldest. `OutboxInv` adds `DeadLetteredUnlessFault`.

`WorkerProofs` takes `OutboxProofs` as `P == INSTANCE OutboxProofs`. The steps that
`Worker` has from `Outbox` are steps of it (`TakenFromOutbox`); for those it makes coarser
or adds (`Publish`, `LastWords`, `GiveAgain`, a request's transaction in one step)
`OutboxProofs` has lemmas on what a step does to the tables. `LifeInv` adds that a live process outside
`relayOnce` holds no rows (`LoopHoldsRows`), from which `StopWaitsForBatch` follows.
`JobsOutliveNoCleanExit` is inductive beside it: a process that is past its exit takes no
job, and `Exit` waits until its handlers have ended, which is all that makes it true.
`WorkersKeepOutboxSafe` carries the promises of `Outbox` over to the processes that are
signalled, killed and restarted. `DeadLetteredUnlessFault` is not among them, and is
not true there: a clean exit does not await `deadLetter.add`, so a notice may die
without any fault (`NoticeDies`).

### Tenancy (`TenancyProofs`)

`TenancyInv` follows connections and scripts. A request has one connection at most, and just
while it is within a section (`OneConnection`), a connection has no account but its
request's (`SettingsAreOwn`), and a request is somewhere in its script (`FollowsScript`):
from these the isolation of reads and the clean pool. What is uncommitted is tied to the
place in the script (`WritesAreHeld`), the row of an account is locked by one transaction
(`LocksExclude`), no id is more than `Skew` ahead of the clock (`RecordsAreKnown`), and that
of a change is at most `Skew` behind every committed change of the locked account
(`RecordsAreOwn`): from these `NewestRecordTellsSetting`. `SomebodyGoesOn` follows from both: if
nobody could go on, whoever waits for a connection finds the pool in use by requests that
wait for a row, whose holder has a connection and waits for nothing.
`PagingInv` is apart from it: records owed to the reader are delivered or
below the cursor (`CursorSplits`), and a page that was read is the newest of rows
which contain all that is owed (`PageCovers`).

### Left to TLC

Liveness under fairness (`RequestsFinish`, `ShutdownEnds`, `EventuallyPublished`,
`EventuallySettled`, and the fairness of `EventDelivery` in `ImplementsDelivery`), which needs
ENABLED. The five properties that are violated are not theorems, of course.

## 6. Plan

Done: the inventory, the models of the components with concurrent state, the two
refinements, the composition of worker and outbox, and the proofs of all their safety. Next:

1. Model e-mail addresses and registration: two requests that create one user, and
   `addMember`, which looks for the address before its transaction.
2. The lengths of locks in `Login`: two failures may write theirs in the opposite order
   of their counts.
3. A weaker hypothesis than `OwnerOutOfReach` for `AccountHasOwner`: perhaps that nobody
   asks to change a role to what it is already.

## 7. Not modelled

- The policies of `roles`, `role_permissions`, `api_keys`, `inbound_events` and `outbox` have the
  form of the one on `account_users` and are not repeated; the append-only triggers of
  `audit_logs` are the absence of an action that changes a record.
- Cryptography (JWT, envelope encryption, hashes, argon2, TOTP arithmetic): taken as
  exact. A challenge's and an access token's expiry only takes behaviours away.
- Cookies, CSRF, Origin, schemas and rate limits of the API: checks on a single
  request without shared state.
- Account registration: one transaction, the initial state of `Members`.
- The shutdown of the API: that `app.close()` waits for the requests in progress is decided
  in Fastify. `Tenancy` has only how a process ends without it (`Kill`): by a crash or
  by the 15 s timer, with every open transaction rolled back.
- The text of audit records and the filter by action.
- The length of sleeps, backoffs and timers: `Worker` has them end, or be cut off, in any
  order.
- Telemetry, metrics, health checks, UI, migrations, tooling.
- In the models: `updateRole` that also changes the name (its UPDATE of the role's
  row makes two of them wait, which leaves fewer interleavings than modelled);
  retries' backoff times; listings other than the members and the audit log.
