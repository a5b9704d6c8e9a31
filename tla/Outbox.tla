-------------------------------- MODULE Outbox --------------------------------
(* The transactional outbox from the INSERT to the dead-letter queue:         *)
(* packages/core/src/modules/events/application/enqueue.ts, apps/worker/src/  *)
(* relay.ts and queues.ts.                                                    *)
(*                                                                            *)
(* Requests record events, several relays publish them in batches, the queue  *)
(* (BullMQ, external) runs a handler per job and retries it.  A process may   *)
(* die and a call may fail, with or without its effect, between any two steps. *)
EXTENDS Naturals, FiniteSets

CONSTANTS
    Event,
    Relay,          \* loops of startRelay, in one or several worker processes
    BatchSize,      \* relayOnce's batchSize
    MaxAttempts,    \* attempts of a job
    MaxFaults       \* bound: crashes and failed calls in a behaviour

ASSUME BatchAssumption == BatchSize \in Nat \ {0}
ASSUME AttemptsAssumption == MaxAttempts \in Nat \ {0}
ASSUME FaultsAssumption == MaxFaults \in Nat

VARIABLES
    outbox,     \* state of each event's row in table outbox
    cursor,     \* the identity column; 0 while the row was never inserted
    relay,      \* each relay's transaction: where it is and the rows it locked
    job,        \* the queue's job with jobId = event_id; has it been stalled?
    created,    \* jobs the queue made for each event and has not removed since
    announced,  \* events sent over pub/sub
    notices,    \* 'failed' notifications the worker's listener has yet to handle
    deadLetter, \* events in domain-events-dlq
    faults      \* faults so far

vars == <<outbox, cursor, relay, job, created, announced, notices, deadLetter, faults>>
queueVars == <<job, created, notices, deadLetter>>

RowState == {"none", "inserted", "rolledback", "pending", "published"}
JobState == {"none", "waiting", "active", "completed", "failed", "pruned"}

Committed(e) == outbox[e] \in {"pending", "published"}

NewJob(state) == [state |-> state, attempts |-> 0, stalled |-> FALSE]
Resting == [pc |-> "idle", batch |-> {}]
Rest(k) == relay' = [relay EXCEPT ![k] = Resting]
Fault == faults < MaxFaults /\ faults' = faults + 1

-----------------------------------------------------------------------------
(* enqueueEvent, inside the transaction that changes the state *)

\* The sequence behind the identity column never goes back, not even on ROLLBACK.
NextCursor == Cardinality({e \in Event : cursor[e] # 0}) + 1

EnqueueEvent(e) ==
    /\ outbox[e] = "none"
    /\ outbox' = [outbox EXCEPT ![e] = "inserted"]
    /\ cursor' = [cursor EXCEPT ![e] = NextCursor]
    /\ UNCHANGED <<relay, queueVars, announced, faults>>

CommitRequest(e) ==
    /\ outbox[e] = "inserted"
    /\ outbox' = [outbox EXCEPT ![e] = "pending"]
    /\ UNCHANGED <<cursor, relay, queueVars, announced, faults>>

RollbackRequest(e) ==
    /\ outbox[e] = "inserted"
    /\ outbox' = [outbox EXCEPT ![e] = "rolledback"]
    /\ UNCHANGED <<cursor, relay, queueVars, announced, faults>>
-----------------------------------------------------------------------------
(* relayOnce *)

LockedRows == UNION {relay[k].batch : k \in Relay}

\* mutant: FOR UPDATE left out
PendingUnlocked == {e \in Event : outbox[e] = "pending"}
\* mutant: reads what is not committed yet
UncommittedToo == {e \in Event : outbox[e] \in {"inserted", "pending"}} \ LockedRows
\* WHERE published_at IS NULL ... FOR UPDATE SKIP LOCKED
Eligible == {e \in Event : outbox[e] = "pending"} \ LockedRows

\* ORDER BY cursor LIMIT batchSize
IsHead(batch, rows) ==
    /\ batch \subseteq rows
    /\ Cardinality(batch) = IF Cardinality(rows) < BatchSize THEN Cardinality(rows)
                                                            ELSE BatchSize
    /\ \A e \in batch, f \in rows \ batch : cursor[e] < cursor[f]

\* With no row, relayOnce returns 0 and nothing changes: no action.
SelectBatch(k) ==
    /\ relay[k].pc = "idle"
    /\ \E batch \in SUBSET Eligible :
          /\ batch # {}
          /\ IsHead(batch, Eligible)
          /\ relay' = [relay EXCEPT ![k] = [pc |-> "selected", batch |-> batch]]
    /\ UNCHANGED <<outbox, cursor, queueVars, announced, faults>>

\* mutant: no jobId, every publication makes a job
NewInAnyCase(batch) == batch
\* jobId = event_id: a job the queue still knows is not made again.
NewJobs(batch) == {e \in batch : job[e].state \in {"none", "pruned"}}

\* queue.addBulk, one MULTI.
EnqueueJobs(batch) ==
    /\ job' = [e \in Event |-> IF e \in NewJobs(batch)
                               THEN NewJob("waiting")
                               ELSE job[e]]
    /\ created' = [e \in Event |-> IF e \in NewJobs(batch) THEN created[e] + 1
                                                          ELSE created[e]]
    /\ UNCHANGED <<notices, deadLetter>>

AddBulk(k) ==
    /\ relay[k].pc = "selected"
    /\ EnqueueJobs(relay[k].batch)
    /\ relay' = [relay EXCEPT ![k].pc = "queued"]
    /\ UNCHANGED <<outbox, cursor, announced, faults>>

\* The reply of addBulk is lost: the jobs exist, publish() throws, ROLLBACK.
AddBulkReplyLost(k) ==
    /\ relay[k].pc = "selected"
    /\ Fault
    /\ EnqueueJobs(relay[k].batch)
    /\ Rest(k)
    /\ UNCHANGED <<outbox, cursor, announced>>

\* pipeline.exec(): one PUBLISH per event; one that fails is not noticed.
FanOut(k) ==
    /\ relay[k].pc = "queued"
    /\ announced' = announced \cup relay[k].batch
    /\ relay' = [relay EXCEPT ![k].pc = "announced"]
    /\ UNCHANGED <<outbox, cursor, queueVars, faults>>

FanOutLost(k) ==
    /\ relay[k].pc = "queued"
    /\ Fault
    /\ relay' = [relay EXCEPT ![k].pc = "announced"]
    /\ UNCHANGED <<outbox, cursor, queueVars, announced>>

\* mutant: only the rows whose job is still to be handled are marked
MarkUnhandled(batch) == {e \in batch : job[e].state # "completed"}
\* mutant: the WHERE clause is on published_at IS NULL
MarkAllPending(batch) == {e \in Event : outbox[e] = "pending"}
\* UPDATE outbox SET published_at WHERE id IN (the batch)
Marked(batch) == batch

CommitBatch(k) ==
    /\ relay[k].pc = "announced"
    /\ outbox' = [e \in Event |-> IF e \in Marked(relay[k].batch) THEN "published"
                                                                 ELSE outbox[e]]
    /\ Rest(k)
    /\ UNCHANGED <<cursor, queueVars, announced, faults>>

\* publish() throws, the UPDATE or COMMIT fails, or the process dies: ROLLBACK
\* frees the rows and marks nothing.  The loop of startRelay comes back.
RelayFails(k) ==
    /\ relay[k].pc # "idle"
    /\ Fault
    /\ Rest(k)
    /\ UNCHANGED <<outbox, cursor, queueVars, announced>>
-----------------------------------------------------------------------------
(* startEventsWorker on BullMQ *)

SetJob(e, state) == job' = [job EXCEPT ![e].state = state]

TakeJob(e) ==
    /\ job[e].state = "waiting"
    /\ SetJob(e, "active")
    /\ UNCHANGED <<outbox, cursor, relay, created, announced, notices, deadLetter, faults>>

HandlerSucceeds(e) ==
    /\ job[e].state = "active"
    /\ SetJob(e, "completed")
    /\ UNCHANGED <<outbox, cursor, relay, created, announced, notices, deadLetter, faults>>

\* mutant: > for >=
ExhaustedLate(n) == n > MaxAttempts
\* mutant: counts from the next attempt
ExhaustedEarly(n) == n + 1 >= MaxAttempts
\* job.attemptsMade >= job.opts.attempts
Exhausted(n) == n >= MaxAttempts

\* mutant: an attempt that failed is not counted
HandlerFailsUncounted(e) ==
    /\ job[e].state = "active"
    /\ SetJob(e, "waiting")
    /\ UNCHANGED <<outbox, cursor, relay, created, announced, notices, deadLetter, faults>>

\* mutant: one attempt too many
HandlerFailsOnceMore(e) ==
    LET n == job[e].attempts + 1 IN
    /\ job[e].state = "active"
    /\ job' = [job EXCEPT ![e].state = IF n <= MaxAttempts THEN "waiting" ELSE "failed",
                          ![e].attempts = n]
    /\ notices' = IF Exhausted(n) THEN notices \cup {e} ELSE notices
    /\ UNCHANGED <<outbox, cursor, relay, created, announced, deadLetter, faults>>

\* The handler throws: the queue keeps the job for another attempt, or parks it
\* as failed (removeOnFail is false) and the 'failed' listener acts on it.
HandlerFails(e) ==
    LET n == job[e].attempts + 1 IN
    /\ job[e].state = "active"
    /\ job' = [job EXCEPT ![e].state = IF n < MaxAttempts THEN "waiting" ELSE "failed",
                          ![e].attempts = n]
    /\ notices' = IF Exhausted(n) THEN notices \cup {e} ELSE notices
    /\ UNCHANGED <<outbox, cursor, relay, created, announced, deadLetter, faults>>

\* deadLetter.add, not awaited by anybody.
DeadLetter(e) ==
    /\ e \in notices
    /\ notices' = notices \ {e}
    /\ deadLetter' = deadLetter \cup {e}
    /\ UNCHANGED <<outbox, cursor, relay, job, created, announced, faults>>

\* It fails and is only logged, or the process ends before it is done.
DeadLetterLost(e) ==
    /\ e \in notices
    /\ Fault
    /\ notices' = notices \ {e}
    /\ UNCHANGED <<outbox, cursor, relay, job, created, announced, deadLetter>>

\* External: the queue gives a stalled job again once (maxStalledCount).  The second
\* time it fails the job, and the listener leaves it: its attempts are not used up.
StallJob(e) ==
    /\ job[e].state = "active"
    /\ job' = [job EXCEPT ![e] = [state |-> IF job[e].stalled THEN "failed" ELSE "waiting",
                                  attempts |-> job[e].attempts, stalled |-> TRUE]]

\* The worker that ran the job died.
Stall(e) ==
    /\ Fault
    /\ StallJob(e)
    /\ UNCHANGED <<outbox, cursor, relay, created, announced, notices, deadLetter>>

\* removeOnComplete { age: 3600, count: 10_000 }
Prune(e) ==
    /\ job[e].state = "completed"
    /\ SetJob(e, "pruned")
    /\ created' = [created EXCEPT ![e] = 0]
    /\ UNCHANGED <<outbox, cursor, relay, announced, notices, deadLetter, faults>>
-----------------------------------------------------------------------------
Init ==
    /\ outbox = [e \in Event |-> "none"]
    /\ cursor = [e \in Event |-> 0]
    /\ relay = [k \in Relay |-> Resting]
    /\ job = [e \in Event |-> NewJob("none")]
    /\ created = [e \in Event |-> 0]
    /\ announced = {}
    /\ notices = {}
    /\ deadLetter = {}
    /\ faults = 0

Request(e) == EnqueueEvent(e) \/ CommitRequest(e) \/ RollbackRequest(e)
RelayStep(k) == SelectBatch(k) \/ AddBulk(k) \/ FanOut(k) \/ CommitBatch(k)
RelayFault(k) == AddBulkReplyLost(k) \/ FanOutLost(k) \/ RelayFails(k)
Handle(e) == HandlerSucceeds(e) \/ HandlerFails(e)
WorkerFault(e) == DeadLetterLost(e) \/ Stall(e)

Next ==
    \/ \E e \in Event : Request(e) \/ TakeJob(e) \/ Handle(e) \/ DeadLetter(e)
                            \/ WorkerFault(e) \/ Prune(e)
    \/ \E k \in Relay : RelayStep(k) \/ RelayFault(k)

Spec == Init /\ [][Next]_vars
-----------------------------------------------------------------------------
(* Properties *)

TypeOK ==
    /\ outbox \in [Event -> RowState]
    /\ cursor \in [Event -> Nat]
    /\ relay \in [Relay -> [pc : {"idle", "selected", "queued", "announced"},
                            batch : SUBSET Event]]
    /\ job \in [Event -> [state : JobState, attempts : 0..MaxAttempts, stalled : BOOLEAN]]
    /\ created \in [Event -> Nat]
    /\ announced \subseteq Event
    /\ notices \subseteq Event
    /\ deadLetter \subseteq Event
    /\ faults \in 0..MaxFaults

\* FOR UPDATE SKIP LOCKED: two relays never hold the same event.
DisjointBatches ==
    \A k, l \in Relay : k # l => relay[k].batch \cap relay[l].batch = {}

\* The queue was given e.
Given(e) == created[e] > 0 \/ job[e].state = "pruned"

\* Nothing leaves the database before it is committed: no job, no pub/sub message
\* and no dead letter exists for an event whose transaction rolled back or is open.
NothingBeforeCommit ==
    \A e \in Event : Given(e) \/ e \in announced \/ e \in deadLetter => Committed(e)

\* published_at is a promise kept: the queue was given the event before it was
\* marked, so no crash of a relay loses an event.
PublishedHasJob ==
    \A e \in Event : outbox[e] = "published" => Given(e)

\* Republishing after a crash, a lost answer or a rollback is harmless: the queue
\* makes no second job of an event while it remembers the first.
OneJobPerEvent == \A e \in Event : created[e] <= 1

\* An event whose attempts are used up is in the dead-letter queue, or the
\* listener is about to put it there: it is never dropped without a trace.
ExhaustedIsDeadLettered ==
    \A e \in Event : job[e].state = "failed" /\ job[e].attempts = MaxAttempts =>
        e \in notices \cup deadLetter

\* Only a failed call or a process that ends before deadLetter.add is done can make it
\* miss the dead-letter queue (a clean exit is a fault here: main.ts does not wait for
\* the call), or a job that stalls twice.
DeadLetteredUnlessFault ==
    faults = 0 => \A e \in Event : job[e].state = "failed" => e \in notices \cup deadLetter

\* The dead-letter queue holds nothing the queue may still handle: an operator who
\* reprocesses from there never competes with a retry.
DeadLetterIsFinal ==
    \A e \in notices \cup deadLetter :
        job[e].state = "failed" /\ job[e].attempts = MaxAttempts

\* Every event of a committed transaction is marked published in the end.
EventuallyPublished ==
    \A e \in Event : outbox[e] = "pending" ~> outbox[e] = "published"

\* Every event of a committed transaction comes to rest: handled, or failed for
\* good after its last attempt.
EventuallySettled ==
    \A e \in Event : Committed(e) ~> job[e].state \in {"completed", "failed", "pruned"}

\* Outbox and queue together implement the promise of EventDelivery.
Promise == INSTANCE EventDelivery WITH
    recorded <- {e \in Event : Committed(e)},
    delivered <- {e \in Event : Given(e)}

ImplementsDelivery == Promise!Spec
=============================================================================
