----------------------------- MODULE OutboxProofs -----------------------------
(* Proofs about Outbox, for any set of events, any number of relays, any      *)
(* batch size, any number of attempts and any number of faults.               *)
EXTENDS Outbox, FiniteSetTheorems, TLAPS

-----------------------------------------------------------------------------
(* The inductive invariant *)

\* The identity column has numbered finitely many rows.
Numbered == {e \in Event : cursor[e] # 0}
FinitelyNumbered == IsFiniteSet(Numbered)

\* A relay holds the locks of rows that wait to be published, and nobody else
\* marks them meanwhile.
BatchesArePending == \A k \in Relay : \A e \in relay[k].batch : outbox[e] = "pending"

\* A relay past addBulk has given its whole batch to the queue.
BatchesAreGiven ==
    \A k \in Relay : relay[k].pc \in {"queued", "announced"} =>
        \A e \in relay[k].batch : Given(e)

\* The queue remembers one job for each event it has one for.
JobsAreCounted ==
    \A e \in Event : created[e] = IF job[e].state \in {"none", "pruned"} THEN 0 ELSE 1

\* A job that may still run has an attempt left, one that failed has none or stalled.
AttemptsAreCounted ==
    \A e \in Event :
        /\ job[e].state \in {"waiting", "active"} => job[e].attempts < MaxAttempts
        /\ job[e].state = "failed" => job[e].attempts = MaxAttempts \/ job[e].stalled

\* What holds of the tables, the relays and the queue however processes end.
TablesInv ==
    /\ TypeOK
    /\ FinitelyNumbered
    /\ BatchesArePending
    /\ BatchesAreGiven
    /\ JobsAreCounted
    /\ AttemptsAreCounted
    /\ DisjointBatches
    /\ NothingBeforeCommit
    /\ PublishedHasJob
    /\ DeadLetterIsFinal

OutboxInv == TablesInv /\ DeadLetteredUnlessFault

-----------------------------------------------------------------------------
(* Types *)

\* Numbering a row keeps the set of numbered rows finite, whatever else happens.
LEMMA NumberedStep == TypeOK /\ FinitelyNumbered /\ [Next]_vars => FinitelyNumbered'
<1> SUFFICES ASSUME TypeOK, FinitelyNumbered, [Next]_vars PROVE FinitelyNumbered'
  OBVIOUS
<1>1. ASSUME NEW e \in Event, EnqueueEvent(e) PROVE FinitelyNumbered'
  <2>1. \A x \in Event : x # e => cursor'[x] = cursor[x]
    BY <1>1 DEF EnqueueEvent, TypeOK
  <2>2. CASE cursor'[e] = 0
    <3>1. Numbered' = Numbered \ {e}
      BY <2>1, <2>2 DEF Numbered
    <3> QED BY <3>1, FS_RemoveElement DEF FinitelyNumbered
  <2>3. CASE cursor'[e] # 0
    <3>1. Numbered' = Numbered \cup {e}
      BY <2>1, <2>3 DEF Numbered
    <3> QED BY <3>1, FS_AddElement DEF FinitelyNumbered
  <2> QED BY <2>2, <2>3
<1>2. CASE UNCHANGED cursor
  BY <1>2 DEF FinitelyNumbered, Numbered
<1> QED
  BY <1>1, <1>2 DEF Next, vars, queueVars, Request, CommitRequest, RollbackRequest, RelayStep,
       RelayFault, Handle, WorkerFault, SelectBatch, AddBulk, AddBulkReplyLost, EnqueueJobs,
       FanOut, FanOutLost, CommitBatch, RelayFails, TakeJob, HandlerSucceeds, HandlerFails,
       DeadLetter, DeadLetterLost, Stall, Prune

\* addBulk adds well typed jobs and counts them.
LEMMA EnqueueTypes ==
    ASSUME TypeOK, NEW batch, EnqueueJobs(batch)
    PROVE  /\ job' \in [Event -> [state : JobState, attempts : 0..MaxAttempts, stalled : BOOLEAN]]
           /\ created' \in [Event -> Nat]
           /\ UNCHANGED <<notices, deadLetter>>
BY AttemptsAssumption DEF EnqueueJobs, NewJob, TypeOK, JobState

\* A stalled job is a job.
LEMMA StallTypes ==
    ASSUME TypeOK, NEW e \in Event, StallJob(e)
    PROVE  job' \in [Event -> [state : JobState, attempts : 0..MaxAttempts, stalled : BOOLEAN]]
<1> DEFINE stalled == [state |-> IF job[e].stalled THEN "failed" ELSE "waiting",
                       attempts |-> job[e].attempts, stalled |-> TRUE]
<1>1. (IF job[e].stalled THEN "failed" ELSE "waiting") \in JobState
  BY DEF JobState
<1>2. job[e].attempts \in 0..MaxAttempts /\ TRUE \in BOOLEAN
  BY DEF TypeOK
<1>3. stalled \in [state : JobState, attempts : 0..MaxAttempts, stalled : BOOLEAN]
  BY <1>1, <1>2
<1>4. job' = [job EXCEPT ![e] = stalled]
  BY DEF StallJob
<1> HIDE DEF stalled
<1> QED BY <1>3, <1>4 DEF TypeOK

\* Every step of a request, a relay or a worker keeps the tables, the relays and
\* the queue well typed.
LEMMA TypeStep ==
    TypeOK /\ FinitelyNumbered /\ AttemptsAreCounted /\ [Next]_vars => TypeOK'
<1> SUFFICES ASSUME TypeOK, FinitelyNumbered, AttemptsAreCounted, [Next]_vars PROVE TypeOK'
  OBVIOUS
<1> USE AttemptsAssumption, FaultsAssumption DEF TypeOK, queueVars
<1>1. ASSUME NEW e \in Event, Request(e) PROVE TypeOK'
  <2>1. NextCursor \in Nat
    BY FS_CardinalityType DEF NextCursor, FinitelyNumbered, Numbered
  <2>2. CASE EnqueueEvent(e)
    BY <2>1, <2>2 DEF EnqueueEvent, RowState
  <2>3. CASE CommitRequest(e) \/ RollbackRequest(e)
    BY <2>3 DEF CommitRequest, RollbackRequest, RowState
  <2> QED BY <1>1, <2>2, <2>3 DEF Request
<1>2. ASSUME NEW k \in Relay, RelayStep(k) PROVE TypeOK'
  <2>1. CASE SelectBatch(k)
    BY <2>1 DEF SelectBatch, Eligible
  <2>2. CASE AddBulk(k)
    BY <2>2, EnqueueTypes DEF AddBulk
  <2>3. CASE FanOut(k)
    BY <2>3 DEF FanOut
  <2>4. CASE CommitBatch(k)
    BY <2>4 DEF CommitBatch, Rest, Resting, RowState
  <2> QED BY <1>2, <2>1, <2>2, <2>3, <2>4 DEF RelayStep
<1>3. ASSUME NEW k \in Relay, RelayFault(k) PROVE TypeOK'
  <2>1. faults' \in 0..MaxFaults
    BY <1>3 DEF RelayFault, AddBulkReplyLost, FanOutLost, RelayFails, Fault
  <2>2. relay' \in [Relay -> [pc : {"idle", "selected", "queued", "announced"},
                              batch : SUBSET Event]]
    BY <1>3 DEF RelayFault, AddBulkReplyLost, FanOutLost, RelayFails, Rest, Resting
  <2> QED BY <1>3, <2>1, <2>2, EnqueueTypes
          DEF RelayFault, AddBulkReplyLost, FanOutLost, RelayFails
<1>4. ASSUME NEW e \in Event, TakeJob(e) \/ Handle(e) \/ Prune(e) PROVE TypeOK'
  <2>1. CASE HandlerFails(e)
    <3>1. job[e].attempts + 1 \in 0..MaxAttempts
      BY <2>1 DEF HandlerFails, AttemptsAreCounted
    <3> QED BY <2>1, <3>1 DEF HandlerFails, JobState
  <2>2. CASE TakeJob(e) \/ HandlerSucceeds(e)
    BY <2>2 DEF TakeJob, HandlerSucceeds, SetJob, JobState
  <2>3. CASE Prune(e)
    BY <2>3 DEF Prune, SetJob, JobState
  <2> QED BY <1>4, <2>1, <2>2, <2>3 DEF Handle
<1>5. ASSUME NEW e \in Event, DeadLetter(e) \/ WorkerFault(e) PROVE TypeOK'
  <2>1. CASE Stall(e)
    BY <2>1, StallTypes DEF Stall, Fault
  <2> QED BY <1>5, <2>1 DEF DeadLetter, WorkerFault, DeadLetterLost, Fault
<1>6. CASE UNCHANGED vars
  BY <1>6 DEF vars
<1> QED BY <1>1, <1>2, <1>3, <1>4, <1>5, <1>6 DEF Next

-----------------------------------------------------------------------------
(* The steps *)

\* A request's statements touch one row that no relay holds and the queue does
\* not know.
LEMMA RequestStep ==
    ASSUME TablesInv, NEW e \in Event, Request(e)
    PROVE  /\ BatchesArePending' /\ BatchesAreGiven' /\ JobsAreCounted'
           /\ AttemptsAreCounted' /\ DisjointBatches' /\ NothingBeforeCommit'
           /\ PublishedHasJob' /\ DeadLetterIsFinal'
           /\ DeadLetteredUnlessFault => DeadLetteredUnlessFault'
<1> USE DEF TablesInv, TypeOK
<1>1. /\ outbox[e] \in {"none", "inserted"}
      /\ outbox'[e] \in {"inserted", "pending", "rolledback"}
      /\ \A x \in Event : x # e => outbox'[x] = outbox[x]
      /\ UNCHANGED <<relay, job, created, announced, notices, deadLetter, faults>>
  BY DEF Request, EnqueueEvent, CommitRequest, RollbackRequest, queueVars
<1>2. ~Given(e) /\ e \notin announced \cup deadLetter
  BY <1>1 DEF NothingBeforeCommit, Committed
<1>3. \A x \in Event : Given(x)' = Given(x)
  BY <1>1 DEF Given
<1>4. BatchesArePending'
  BY <1>1 DEF BatchesArePending
<1>5. BatchesAreGiven'
  BY <1>1, <1>3 DEF BatchesAreGiven
<1>6. JobsAreCounted' /\ AttemptsAreCounted' /\ DisjointBatches' /\ DeadLetterIsFinal'
  BY <1>1 DEF JobsAreCounted, AttemptsAreCounted, DisjointBatches, DeadLetterIsFinal
<1>7. NothingBeforeCommit' /\ PublishedHasJob'
  BY <1>1, <1>2, <1>3 DEF NothingBeforeCommit, PublishedHasJob, Committed
<1>8. DeadLetteredUnlessFault => DeadLetteredUnlessFault'
  BY <1>1 DEF DeadLetteredUnlessFault
<1> QED BY <1>4, <1>5, <1>6, <1>7, <1>8

\* addBulk gives the queue every event of the batch and disturbs no job that the
\* queue still knows.
LEMMA EnqueueJobsStep ==
    ASSUME TypeOK, JobsAreCounted, AttemptsAreCounted,
           NEW batch \in SUBSET Event, EnqueueJobs(batch)
    PROVE  /\ \A x \in Event : Given(x)' <=> Given(x) \/ x \in batch
           /\ \A x \in Event : job[x].state \notin {"none", "pruned"} => job'[x] = job[x]
           /\ \A x \in Event : job'[x].state = "failed" <=> job[x].state = "failed"
           /\ JobsAreCounted'
           /\ AttemptsAreCounted'
           /\ UNCHANGED <<notices, deadLetter>>
<1> USE DEF TypeOK
<1>1. \A x \in Event :
        /\ job'[x] = IF x \in NewJobs(batch) THEN NewJob("waiting") ELSE job[x]
        /\ created'[x] = IF x \in NewJobs(batch) THEN created[x] + 1 ELSE created[x]
  BY DEF EnqueueJobs
<1>2. \A x \in Event : x \in NewJobs(batch) <=> x \in batch /\ job[x].state \in {"none", "pruned"}
  BY DEF NewJobs
<1>3. JobsAreCounted'
  BY <1>1, <1>2 DEF JobsAreCounted, NewJob
<1>4. AttemptsAreCounted'
  BY <1>1, <1>2, AttemptsAssumption DEF AttemptsAreCounted, NewJob
<1>5. \A x \in Event : Given(x)' <=> Given(x) \/ x \in batch
  BY <1>1, <1>2 DEF Given, JobsAreCounted, NewJob
<1>6. \A x \in Event : job'[x].state = "failed" <=> job[x].state = "failed"
  BY <1>1, <1>2 DEF NewJob
<1> QED BY <1>1, <1>2, <1>3, <1>4, <1>5, <1>6 DEF EnqueueJobs

\* Selecting a batch locks rows nobody holds; the later statements of relayOnce
\* act on the rows the relay holds.
LEMMA RelayInvStep ==
    ASSUME TablesInv, NEW k \in Relay, RelayStep(k) \/ RelayFault(k)
    PROVE  /\ BatchesArePending' /\ BatchesAreGiven' /\ JobsAreCounted'
           /\ AttemptsAreCounted' /\ DisjointBatches' /\ NothingBeforeCommit'
           /\ PublishedHasJob' /\ DeadLetterIsFinal'
           /\ DeadLetteredUnlessFault => DeadLetteredUnlessFault'
<1> USE DEF TablesInv, TypeOK
<1>1. CASE SelectBatch(k)
  <2>1. PICK batch \in SUBSET Eligible :
          relay' = [relay EXCEPT ![k] = [pc |-> "selected", batch |-> batch]]
    BY <1>1 DEF SelectBatch
  <2>2. /\ \A l \in Relay : relay'[l] = IF l = k THEN [pc |-> "selected", batch |-> batch]
                                               ELSE relay[l]
        /\ UNCHANGED <<outbox, job, created, announced, notices, deadLetter, faults>>
    BY <1>1, <2>1 DEF SelectBatch, queueVars
  <2>3. \A e \in batch : outbox[e] = "pending" /\ \A l \in Relay : e \notin relay[l].batch
    BY DEF Eligible, LockedRows
  <2>4. BatchesArePending'
    BY <2>2, <2>3 DEF BatchesArePending
  <2>5. BatchesAreGiven'
    BY <2>2 DEF BatchesAreGiven, Given
  <2>6. DisjointBatches'
    BY <2>2, <2>3 DEF DisjointBatches
  <2> QED BY <2>2, <2>4, <2>5, <2>6
          DEF JobsAreCounted, AttemptsAreCounted, NothingBeforeCommit, PublishedHasJob, Given,
              Committed, DeadLetteredUnlessFault, DeadLetterIsFinal
<1>2. CASE AddBulk(k) \/ AddBulkReplyLost(k)
  <2>1. /\ relay[k].batch \in SUBSET Event
        /\ EnqueueJobs(relay[k].batch)
        /\ UNCHANGED <<outbox, announced>>
        /\ relay[k].pc = "selected"
        /\ faults' = 0 => faults = 0
    BY <1>2, FaultsAssumption DEF AddBulk, AddBulkReplyLost, Fault
  <2>2. \A l \in Relay : IF l = k
            THEN \/ relay'[l].pc = "queued" /\ relay'[l].batch = relay[l].batch
                 \/ relay'[l].pc = "idle" /\ relay'[l].batch = {}
            ELSE relay'[l] = relay[l]
    BY <1>2 DEF AddBulk, AddBulkReplyLost, Rest, Resting
  <2>3. /\ \A x \in Event : Given(x)' <=> Given(x) \/ x \in relay[k].batch
        /\ \A x \in Event : job[x].state \notin {"none", "pruned"} => job'[x] = job[x]
        /\ \A x \in Event : job'[x].state = "failed" <=> job[x].state = "failed"
        /\ JobsAreCounted'
        /\ AttemptsAreCounted'
        /\ UNCHANGED <<notices, deadLetter>>
    BY <2>1, EnqueueJobsStep
  <2>4. BatchesArePending' /\ DisjointBatches'
    BY <2>1, <2>2 DEF BatchesArePending, DisjointBatches
  <2>5. BatchesAreGiven'
    BY <2>2, <2>3 DEF BatchesAreGiven
  <2>6. NothingBeforeCommit' /\ PublishedHasJob'
    BY <2>1, <2>3 DEF NothingBeforeCommit, PublishedHasJob, Committed, BatchesArePending
  <2>7. (DeadLetteredUnlessFault => DeadLetteredUnlessFault') /\ DeadLetterIsFinal'
    BY <2>1, <2>3 DEF DeadLetteredUnlessFault, DeadLetterIsFinal
  <2> QED BY <2>3, <2>4, <2>5, <2>6, <2>7
<1>3. CASE FanOut(k) \/ FanOutLost(k) \/ RelayFails(k)
  <2>1. /\ UNCHANGED <<outbox, job, created, notices, deadLetter>>
        /\ faults' = 0 => faults = 0
        /\ announced' \subseteq announced \cup relay[k].batch
    BY <1>3, FaultsAssumption DEF FanOut, FanOutLost, RelayFails, Fault, queueVars
  <2>2. \A l \in Relay : IF l = k
            THEN \/ relay[l].pc = "queued" /\ relay'[l].batch = relay[l].batch
                 \/ relay'[l].pc = "idle" /\ relay'[l].batch = {}
            ELSE relay'[l] = relay[l]
    BY <1>3 DEF FanOut, FanOutLost, RelayFails, Rest, Resting
  <2>3. BatchesArePending' /\ DisjointBatches'
    BY <2>1, <2>2 DEF BatchesArePending, DisjointBatches
  <2>4. BatchesAreGiven'
    BY <2>1, <2>2 DEF BatchesAreGiven, Given
  <2>5. NothingBeforeCommit' /\ PublishedHasJob'
    BY <2>1 DEF NothingBeforeCommit, PublishedHasJob, Committed, BatchesArePending, Given
  <2> QED BY <2>1, <2>3, <2>4, <2>5
          DEF JobsAreCounted, AttemptsAreCounted, DeadLetteredUnlessFault, DeadLetterIsFinal
<1>4. CASE CommitBatch(k)
  <2>1. /\ \A x \in Event : outbox'[x] = IF x \in relay[k].batch THEN "published" ELSE outbox[x]
        /\ \A l \in Relay : relay'[l] = IF l = k THEN Resting ELSE relay[l]
        /\ relay[k].pc = "announced"
        /\ UNCHANGED <<job, created, announced, notices, deadLetter, faults>>
    BY <1>4 DEF CommitBatch, Marked, Rest, queueVars
  <2>2. \A x \in Event : Committed(x)' = Committed(x) /\ Given(x)' = Given(x)
    BY <2>1 DEF Committed, Given, BatchesArePending
  <2>3. \A l \in Relay : l # k => \A x \in relay[l].batch : x \notin relay[k].batch
    BY DEF DisjointBatches
  <2>4. BatchesArePending'
    BY <2>1, <2>3 DEF BatchesArePending, Resting
  <2>5. DisjointBatches'
    BY <2>1 DEF DisjointBatches, Resting
  <2>6. BatchesAreGiven'
    BY <2>1, <2>2 DEF BatchesAreGiven, Resting
  <2>7. NothingBeforeCommit'
    BY <2>1, <2>2 DEF NothingBeforeCommit
  <2>8. PublishedHasJob'
    BY <2>1, <2>2 DEF PublishedHasJob, BatchesAreGiven
  <2> QED BY <2>1, <2>4, <2>5, <2>6, <2>7, <2>8
          DEF JobsAreCounted, AttemptsAreCounted, DeadLetteredUnlessFault, DeadLetterIsFinal
<1> QED BY <1>1, <1>2, <1>3, <1>4 DEF RelayStep, RelayFault

\* A worker's step moves one job the queue still knows, or the notification that
\* it failed; the queue goes on remembering that it was given the event.
LEMMA JobStep ==
    ASSUME TablesInv, NEW e \in Event,
           TakeJob(e) \/ Handle(e) \/ Prune(e) \/ DeadLetter(e) \/ WorkerFault(e)
    PROVE  /\ UNCHANGED <<outbox, relay, announced>>
           /\ \A x \in Event : Given(x)' = Given(x)
           /\ JobsAreCounted' /\ AttemptsAreCounted'
           /\ deadLetter' \subseteq deadLetter \cup notices
           /\ DeadLetterIsFinal'
           /\ DeadLetteredUnlessFault => DeadLetteredUnlessFault'
<1> USE DEF TablesInv, TypeOK
<1>0. CASE Stall(e)
  <2>1. /\ UNCHANGED <<outbox, relay, announced, created, notices, deadLetter>>
        /\ job[e].state = "active"
        /\ job'[e].state \in {"waiting", "failed"}
        /\ job'[e].attempts = job[e].attempts /\ job'[e].stalled
        /\ \A x \in Event : x # e => job'[x] = job[x]
        /\ faults' # 0
    BY <1>0, FaultsAssumption DEF Stall, StallJob, Fault
  <2>2. JobsAreCounted' /\ AttemptsAreCounted'
    BY <2>1 DEF JobsAreCounted, AttemptsAreCounted
  <2>3. \A x \in Event : Given(x)' = Given(x)
    BY <2>1 DEF Given
  <2>4. DeadLetteredUnlessFault' /\ DeadLetterIsFinal'
    BY <2>1 DEF DeadLetteredUnlessFault, DeadLetterIsFinal
  <2> QED BY <2>1, <2>2, <2>3, <2>4
<1>1. CASE TakeJob(e) \/ HandlerSucceeds(e) \/ Prune(e)
  <2>1. /\ UNCHANGED <<outbox, relay, announced, notices, deadLetter>>
        /\ job[e].state \in {"waiting", "active", "completed"}
        /\ job'[e].state \in {"waiting", "active", "completed", "pruned"}
        /\ job'[e].attempts = job[e].attempts
        /\ job'[e].stalled = job[e].stalled
        /\ job'[e].state \in {"waiting", "active"} => job[e].state \in {"waiting", "active"}
        /\ created'[e] = IF job'[e].state = "pruned" THEN 0 ELSE created[e]
        /\ \A x \in Event : x # e => job'[x] = job[x] /\ created'[x] = created[x]
        /\ faults' = 0 => faults = 0
    BY <1>1, FaultsAssumption DEF TakeJob, HandlerSucceeds, Prune, SetJob
  <2>2. JobsAreCounted' /\ AttemptsAreCounted'
    BY <2>1 DEF JobsAreCounted, AttemptsAreCounted
  <2>3. \A x \in Event : Given(x)' = Given(x)
    BY <2>1 DEF Given, JobsAreCounted
  <2>4. (DeadLetteredUnlessFault => DeadLetteredUnlessFault') /\ DeadLetterIsFinal'
    BY <2>1 DEF DeadLetteredUnlessFault, DeadLetterIsFinal
  <2> QED BY <2>1, <2>2, <2>3, <2>4
<1>2. CASE HandlerFails(e)
  <2> DEFINE n == job[e].attempts + 1
  <2>1. /\ job[e].state = "active"
        /\ n \in 1..MaxAttempts
        /\ job'[e].state = (IF n < MaxAttempts THEN "waiting" ELSE "failed")
        /\ job'[e].attempts = n
        /\ \A x \in Event : x # e => job'[x] = job[x]
        /\ notices' = IF n >= MaxAttempts THEN notices \cup {e} ELSE notices
        /\ UNCHANGED <<outbox, relay, created, announced, deadLetter, faults>>
    BY <1>2, AttemptsAssumption DEF HandlerFails, Exhausted, AttemptsAreCounted
  <2> HIDE DEF n
  <2>2. \/ /\ n < MaxAttempts /\ notices' = notices
           /\ job'[e].state = "waiting" /\ job'[e].attempts = n
        \/ /\ n = MaxAttempts /\ notices' = notices \cup {e}
           /\ job'[e].state = "failed" /\ job'[e].attempts = n
    <3>1. CASE n < MaxAttempts
      BY <2>1, <3>1, AttemptsAssumption
    <3>2. CASE ~(n < MaxAttempts)
      <4>1. n = MaxAttempts
        BY <2>1, <3>2, AttemptsAssumption
      <4> QED BY <2>1, <3>2, <4>1, AttemptsAssumption
    <3> QED BY <3>1, <3>2
  <2>3. JobsAreCounted'
    BY <2>1, <2>2 DEF JobsAreCounted
  <2>4. AttemptsAreCounted'
    BY <2>1, <2>2 DEF AttemptsAreCounted
  <2>5. \A x \in Event : Given(x)' = Given(x)
    BY <2>1, <2>2 DEF Given
  <2>6. DeadLetteredUnlessFault => DeadLetteredUnlessFault'
    BY <2>1, <2>2 DEF DeadLetteredUnlessFault
  <2>7. e \notin notices \cup deadLetter
    BY <2>1 DEF DeadLetterIsFinal
  <2>8. DeadLetterIsFinal'
    BY <2>1, <2>2, <2>7 DEF DeadLetterIsFinal
  <2> QED BY <2>1, <2>3, <2>4, <2>5, <2>6, <2>8
<1>3. CASE DeadLetter(e) \/ DeadLetterLost(e)
  <2>1. /\ UNCHANGED <<outbox, relay, job, created, announced>>
        /\ notices' \cup deadLetter' \subseteq notices \cup deadLetter
        /\ deadLetter' \subseteq deadLetter \cup notices
        /\ faults' = 0 => faults = 0 /\ notices' \cup deadLetter' = notices \cup deadLetter
    BY <1>3, FaultsAssumption DEF DeadLetter, DeadLetterLost, Fault
  <2>2. (DeadLetteredUnlessFault => DeadLetteredUnlessFault') /\ DeadLetterIsFinal'
    BY <2>1 DEF DeadLetteredUnlessFault, DeadLetterIsFinal
  <2> QED BY <2>1, <2>2 DEF JobsAreCounted, AttemptsAreCounted, Given
<1> QED BY <1>0, <1>1, <1>2, <1>3 DEF Handle, WorkerFault

\* With nothing recorded, nothing is locked, given, announced or dead-lettered.
LEMMA OutboxInit == Init => OutboxInv
<1> SUFFICES ASSUME Init PROVE OutboxInv
  OBVIOUS
<1>1. TypeOK
  BY AttemptsAssumption, FaultsAssumption DEF Init, TypeOK, RowState, JobState, Resting, NewJob
<1>2. FinitelyNumbered
  <2>1. Numbered = {}
    BY DEF Init, Numbered
  <2> QED BY <2>1, FS_EmptySet DEF FinitelyNumbered
<1>3. /\ BatchesArePending /\ BatchesAreGiven /\ JobsAreCounted /\ AttemptsAreCounted
      /\ DisjointBatches /\ NothingBeforeCommit /\ PublishedHasJob
      /\ DeadLetteredUnlessFault /\ DeadLetterIsFinal
  BY DEF Init, Resting, NewJob, BatchesArePending, BatchesAreGiven, JobsAreCounted, AttemptsAreCounted,
         DisjointBatches, NothingBeforeCommit, PublishedHasJob, Given, DeadLetteredUnlessFault,
         DeadLetterIsFinal
<1> QED BY <1>1, <1>2, <1>3 DEF OutboxInv, TablesInv

\* Every step keeps the tables, the relays and the queue right, and no step but a
\* fault drops an exhausted event.
LEMMA TablesStep ==
    TablesInv /\ [Next]_vars =>
        TablesInv' /\ (DeadLetteredUnlessFault => DeadLetteredUnlessFault')
<1> DEFINE Goal == TablesInv' /\ (DeadLetteredUnlessFault => DeadLetteredUnlessFault')
<1> SUFFICES ASSUME TablesInv, [Next]_vars PROVE Goal
  OBVIOUS
<1>1. TypeOK' /\ FinitelyNumbered'
  BY TypeStep, NumberedStep DEF TablesInv
<1>2. ASSUME NEW e \in Event, Request(e) PROVE Goal
  BY <1>1, <1>2, RequestStep DEF TablesInv
<1>3. ASSUME NEW k \in Relay, RelayStep(k) \/ RelayFault(k) PROVE Goal
  BY <1>1, <1>3, RelayInvStep DEF TablesInv
<1>4. ASSUME NEW e \in Event,
             TakeJob(e) \/ Handle(e) \/ Prune(e) \/ DeadLetter(e) \/ WorkerFault(e)
      PROVE Goal
  <2>1. /\ UNCHANGED <<outbox, relay, announced>>
        /\ \A x \in Event : Given(x)' = Given(x)
        /\ JobsAreCounted' /\ AttemptsAreCounted'
        /\ deadLetter' \subseteq deadLetter \cup notices
        /\ DeadLetterIsFinal'
        /\ DeadLetteredUnlessFault => DeadLetteredUnlessFault'
    BY <1>4, JobStep
  <2>2. BatchesArePending' /\ BatchesAreGiven' /\ DisjointBatches'
    BY <2>1 DEF TablesInv, TypeOK, BatchesArePending, BatchesAreGiven, DisjointBatches
  <2>3. \A x \in notices : Given(x)
    BY DEF TablesInv, TypeOK, DeadLetterIsFinal, JobsAreCounted, Given
  <2>4. NothingBeforeCommit' /\ PublishedHasJob'
    BY <2>1, <2>3 DEF TablesInv, NothingBeforeCommit, PublishedHasJob, Committed
  <2> QED BY <1>1, <2>1, <2>2, <2>4 DEF TablesInv
<1>5. CASE UNCHANGED vars
  <2>1. /\ BatchesArePending' /\ BatchesAreGiven' /\ JobsAreCounted' /\ AttemptsAreCounted'
        /\ DisjointBatches'
    BY <1>5 DEF vars, TablesInv, BatchesArePending, BatchesAreGiven, Given, JobsAreCounted,
         AttemptsAreCounted, DisjointBatches
  <2>2. NothingBeforeCommit' /\ PublishedHasJob' /\ DeadLetterIsFinal'
    BY <1>5 DEF vars, TablesInv, NothingBeforeCommit, PublishedHasJob, Given, Committed,
         DeadLetterIsFinal
  <2>3. DeadLetteredUnlessFault => DeadLetteredUnlessFault'
    BY <1>5 DEF vars, DeadLetteredUnlessFault
  <2> QED BY <1>1, <2>1, <2>2, <2>3 DEF TablesInv
<1> QED BY <1>2, <1>3, <1>4, <1>5 DEF Next

\* Every step keeps the invariant.
LEMMA OutboxStep == OutboxInv /\ [Next]_vars => OutboxInv'
BY TablesStep DEF OutboxInv

-----------------------------------------------------------------------------
(* Steps of Worker that are not steps of Outbox                               *)

\* A transaction that records an event and commits at once.
LEMMA RecordAtOnce ==
    ASSUME TablesInv, NEW e \in Event, outbox[e] = "none",
           outbox' = [outbox EXCEPT ![e] = "pending"],
           NEW n \in Nat \ {0}, cursor' = [cursor EXCEPT ![e] = n],
           UNCHANGED <<relay, queueVars, announced, faults>>
    PROVE  TablesInv'
<1> USE DEF TablesInv, TypeOK, queueVars
<1>2. TypeOK'
  BY DEF RowState
<1>3. Numbered' = Numbered \cup {e}
  BY DEF Numbered
<1>4. FinitelyNumbered'
  BY <1>3, FS_AddElement DEF FinitelyNumbered
<1>5. /\ \A x \in Event : outbox'[x] = IF x = e THEN "pending" ELSE outbox[x]
      /\ \A x \in Event : Given(x)' = Given(x)
      /\ \A x \in Event : Committed(x) => Committed(x)'
      /\ UNCHANGED <<relay, job, created, announced, notices, deadLetter>>
  BY DEF Given, Committed
<1>6. ~Given(e)
  BY DEF NothingBeforeCommit, Committed
<1>7. BatchesArePending' /\ BatchesAreGiven' /\ DisjointBatches'
  BY <1>5 DEF BatchesArePending, BatchesAreGiven, DisjointBatches
<1>8. JobsAreCounted' /\ AttemptsAreCounted' /\ DeadLetterIsFinal'
  BY <1>5 DEF JobsAreCounted, AttemptsAreCounted, DeadLetterIsFinal
<1>9. NothingBeforeCommit' /\ PublishedHasJob'
  BY <1>5, <1>6 DEF NothingBeforeCommit, PublishedHasJob
<1> HIDE DEF TablesInv
<1> QED BY <1>2, <1>4, <1>7, <1>8, <1>9 DEF TablesInv

\* addBulk alone, after which the relay is past its announcement or its
\* transaction is gone.
LEMMA EnqueueAtOnce ==
    ASSUME TablesInv, NEW k \in Relay, EnqueueJobs(relay[k].batch),
           relay' = [relay EXCEPT ![k].pc = "announced"] \/ Rest(k),
           UNCHANGED <<outbox, cursor, announced, faults>>
    PROVE  TablesInv'
<1> USE DEF TablesInv, TypeOK
<1>1. relay[k].batch \in SUBSET Event
  OBVIOUS
<1>2. /\ \A x \in Event : Given(x)' <=> Given(x) \/ x \in relay[k].batch
      /\ \A x \in Event : job[x].state \notin {"none", "pruned"} => job'[x] = job[x]
      /\ JobsAreCounted'
      /\ AttemptsAreCounted'
      /\ UNCHANGED <<notices, deadLetter>>
  BY <1>1, EnqueueJobsStep
<1>3. \A l \in Relay : IF l = k
          THEN \/ relay'[l].pc = "announced" /\ relay'[l].batch = relay[l].batch
               \/ relay'[l].pc = "idle" /\ relay'[l].batch = {}
          ELSE relay'[l] = relay[l]
  BY DEF Rest, Resting
<1>4. relay' \in [Relay -> [pc : {"idle", "selected", "queued", "announced"},
                            batch : SUBSET Event]]
  BY DEF Rest, Resting
<1>5. TypeOK' /\ FinitelyNumbered'
  BY <1>2, <1>4, EnqueueTypes DEF FinitelyNumbered, Numbered
<1>6. BatchesArePending' /\ DisjointBatches'
  BY <1>3 DEF BatchesArePending, DisjointBatches
<1>7. BatchesAreGiven'
  BY <1>2, <1>3 DEF BatchesAreGiven
<1>8. NothingBeforeCommit' /\ PublishedHasJob'
  BY <1>2 DEF NothingBeforeCommit, PublishedHasJob, Committed, BatchesArePending
<1>9. DeadLetterIsFinal'
  BY <1>2 DEF DeadLetterIsFinal
<1> HIDE DEF TablesInv
<1> QED BY <1>2, <1>5, <1>6, <1>7, <1>8, <1>9 DEF TablesInv

\* What a process that ended leaves behind is taken away: a transaction, a job in
\* progress, a notification nobody handled.
LEMMA LeftBehind ==
    ASSUME TablesInv, UNCHANGED <<outbox, cursor, created, announced, deadLetter>>,
           UNCHANGED relay \/ \E k \in Relay : Rest(k),
           UNCHANGED job \/ \E e \in Event : StallJob(e),
           notices' \subseteq notices, faults' \in 0..MaxFaults
    PROVE  TablesInv'
<1> USE DEF TablesInv, TypeOK
<1>1. relay' \in [Relay -> [pc : {"idle", "selected", "queued", "announced"},
                            batch : SUBSET Event]]
  BY DEF Rest, Resting
<1>2. \A l \in Relay : relay'[l] = relay[l] \/ (relay'[l].pc = "idle" /\ relay'[l].batch = {})
  BY DEF Rest, Resting
<1>3. job' \in [Event -> [state : JobState, attempts : 0..MaxAttempts, stalled : BOOLEAN]]
  BY StallTypes
<1>4. \A x \in Event :
        \/ job'[x] = job[x]
        \/ /\ job[x].state = "active" /\ job'[x].state \in {"waiting", "failed"}
           /\ job'[x].attempts = job[x].attempts /\ job'[x].stalled
  BY DEF StallJob
<1>5. TypeOK' /\ FinitelyNumbered'
  BY <1>1, <1>3 DEF FinitelyNumbered, Numbered
<1>6. \A x \in Event : Given(x)' = Given(x)
  BY <1>4 DEF Given
<1>7. BatchesArePending' /\ DisjointBatches'
  BY <1>2 DEF BatchesArePending, DisjointBatches
<1>8. BatchesAreGiven'
  BY <1>2, <1>6 DEF BatchesAreGiven
<1>9. JobsAreCounted' /\ AttemptsAreCounted'
  BY <1>4 DEF JobsAreCounted, AttemptsAreCounted
<1>10. NothingBeforeCommit' /\ PublishedHasJob'
  BY <1>6 DEF NothingBeforeCommit, PublishedHasJob, Committed
<1>11. DeadLetterIsFinal'
  BY <1>4 DEF DeadLetterIsFinal
<1> HIDE DEF TablesInv
<1> QED BY <1>5, <1>7, <1>8, <1>9, <1>10, <1>11 DEF TablesInv

-----------------------------------------------------------------------------
(* What the outbox guarantees *)

\* The inductive invariant holds in every behaviour of requests, relays, queue and
\* worker, with any crash or failed call between two steps.
THEOREM OutboxInvariant == Spec => []OutboxInv
BY OutboxInit, OutboxStep, PTL DEF Spec

\* The rows, the relays and the queue stay well typed.
THEOREM OutboxTypeCorrect == Spec => []TypeOK
<1>1. OutboxInv => TypeOK
  BY DEF OutboxInv, TablesInv
<1> QED BY <1>1, OutboxInvariant, PTL

\* FOR UPDATE SKIP LOCKED: two relays never hold the same event.
THEOREM BatchesDisjoint == Spec => []DisjointBatches
<1>1. OutboxInv => DisjointBatches
  BY DEF OutboxInv, TablesInv
<1> QED BY <1>1, OutboxInvariant, PTL

\* No job, pub/sub message or dead letter exists for an event whose transaction
\* is open or rolled back.
THEOREM CommittedFirst == Spec => []NothingBeforeCommit
<1>1. OutboxInv => NothingBeforeCommit
  BY DEF OutboxInv, TablesInv
<1> QED BY <1>1, OutboxInvariant, PTL

\* A row is marked published only once the queue was given its event.
THEOREM NoEventLost == Spec => []PublishedHasJob
<1>1. OutboxInv => PublishedHasJob
  BY DEF OutboxInv, TablesInv
<1> QED BY <1>1, OutboxInvariant, PTL

\* However often relays crash and publish again, the queue holds one job of an event.
THEOREM NoSecondJob == Spec => []OneJobPerEvent
<1>1. OutboxInv => OneJobPerEvent
  BY DEF OutboxInv, TablesInv, TypeOK, JobsAreCounted, OneJobPerEvent
<1> QED BY <1>1, OutboxInvariant, PTL

\* Without a crash or a failed call, an event that used up its attempts is in the
\* dead-letter queue or about to be.
THEOREM NoExhaustedEventDropped == Spec => []DeadLetteredUnlessFault
<1>1. OutboxInv => DeadLetteredUnlessFault
  BY DEF OutboxInv, TablesInv
<1> QED BY <1>1, OutboxInvariant, PTL

\* What is dead-lettered has failed for good, after its last attempt.
THEOREM DeadLettersAreFinal == Spec => []DeadLetterIsFinal
<1>1. OutboxInv => DeadLetterIsFinal
  BY DEF OutboxInv, TablesInv
<1> QED BY <1>1, OutboxInvariant, PTL

-----------------------------------------------------------------------------
(* The outbox implements the promise of EventDelivery *)

\* Each step commits the events of one transaction, hands a batch of committed
\* events to the queue, or changes nothing that the promise speaks of.
LEMMA PromiseStep == TablesInv /\ [Next]_vars => [Promise!Next]_(Promise!vars)
<1> SUFFICES ASSUME TablesInv, [Next]_vars PROVE [Promise!Next]_(Promise!vars)
  OBVIOUS
<1> DEFINE recorded == {e \in Event : Committed(e)}
           delivered == {e \in Event : Given(e)}
<1> USE DEF TablesInv, TypeOK
<1>0. ASSUME recorded' = recorded, delivered' = delivered PROVE UNCHANGED Promise!vars
  BY <1>0 DEF Promise!vars
<1>1. ASSUME NEW e \in Event, Request(e) PROVE [Promise!Next]_(Promise!vars)
  <2>1. /\ outbox[e] \in {"none", "inserted"}
        /\ \A x \in Event : x # e => outbox'[x] = outbox[x]
        /\ UNCHANGED <<job, created>>
    BY <1>1 DEF Request, EnqueueEvent, CommitRequest, RollbackRequest, queueVars
  <2>2. delivered' = delivered
    BY <2>1 DEF Given
  <2>3. CASE Committed(e)'
    <3>1. e \notin recorded /\ recorded' = recorded \cup {e}
      BY <2>1, <2>3 DEF Committed
    <3>2. Promise!Record(e)
      BY <2>2, <3>1 DEF Promise!Record
    <3> QED BY <3>2 DEF Promise!Next
  <2>4. CASE ~Committed(e)'
    <3>1. recorded' = recorded
      BY <2>1, <2>4 DEF Committed
    <3> QED BY <1>0, <2>2, <3>1
  <2> QED BY <2>3, <2>4
<1>2. ASSUME NEW k \in Relay, RelayStep(k) \/ RelayFault(k) PROVE [Promise!Next]_(Promise!vars)
  <2>1. CASE AddBulk(k) \/ AddBulkReplyLost(k)
    <3>1. relay[k].batch \in SUBSET Event /\ EnqueueJobs(relay[k].batch) /\ UNCHANGED outbox
      BY <2>1 DEF AddBulk, AddBulkReplyLost
    <3>2. \A x \in Event : Given(x)' <=> Given(x) \/ x \in relay[k].batch
      BY <3>1, EnqueueJobsStep
    <3>3. delivered' = delivered \cup relay[k].batch
      BY <3>1, <3>2
    <3>4. relay[k].batch \subseteq recorded /\ recorded' = recorded
      BY <3>1 DEF BatchesArePending, Committed
    <3>5. Promise!Deliver(relay[k].batch)
      BY <3>3, <3>4 DEF Promise!Deliver
    <3> QED BY <3>1, <3>5 DEF Promise!Next
  <2>2. CASE SelectBatch(k) \/ FanOut(k) \/ FanOutLost(k) \/ RelayFails(k)
    <3>1. UNCHANGED <<outbox, job, created>>
      BY <2>2 DEF SelectBatch, FanOut, FanOutLost, RelayFails, queueVars
    <3>2. recorded' = recorded /\ delivered' = delivered
      BY <3>1 DEF Committed, Given
    <3> QED BY <1>0, <3>2
  <2>3. CASE CommitBatch(k)
    <3>1. /\ \A x \in Event : outbox'[x] = IF x \in relay[k].batch THEN "published"
                                                                   ELSE outbox[x]
          /\ UNCHANGED <<job, created>>
      BY <2>3 DEF CommitBatch, Marked, queueVars
    <3>2. \A x \in Event : Committed(x)' = Committed(x) /\ Given(x)' = Given(x)
      BY <3>1 DEF Committed, Given, BatchesArePending
    <3>3. recorded' = recorded /\ delivered' = delivered
      BY <3>2
    <3> QED BY <1>0, <3>3
  <2> QED BY <1>2, <2>1, <2>2, <2>3 DEF RelayStep, RelayFault
<1>3. ASSUME NEW e \in Event,
             TakeJob(e) \/ Handle(e) \/ Prune(e) \/ DeadLetter(e) \/ WorkerFault(e)
      PROVE [Promise!Next]_(Promise!vars)
  <2>1. UNCHANGED outbox /\ \A x \in Event : Given(x)' = Given(x)
    BY <1>3, JobStep
  <2>2. recorded' = recorded /\ delivered' = delivered
    BY <2>1 DEF Committed
  <2> QED BY <1>0, <2>2
<1>4. CASE UNCHANGED vars
  <2>1. recorded' = recorded /\ delivered' = delivered
    BY <1>4 DEF vars, Committed, Given
  <2> QED BY <1>0, <2>1
<1> QED BY <1>1, <1>2, <1>3, <1>4 DEF Next

\* The same for the steps of Worker that are not steps of Outbox.
LEMMA PromiseOfRecord ==
    ASSUME TablesInv, NEW e \in Event, outbox[e] = "none",
           outbox' = [outbox EXCEPT ![e] = "pending"], UNCHANGED <<job, created>>
    PROVE  Promise!Next
<1> DEFINE recorded == {x \in Event : Committed(x)}
           delivered == {x \in Event : Given(x)}
<1>1. \A x \in Event : outbox'[x] = IF x = e THEN "pending" ELSE outbox[x]
  BY DEF TablesInv, TypeOK
<1>2. e \notin recorded /\ recorded' = recorded \cup {e}
  BY <1>1 DEF Committed
<1>3. delivered' = delivered
  BY DEF Given
<1>4. Promise!Record(e)
  BY <1>2, <1>3 DEF Promise!Record
<1> QED BY <1>4 DEF Promise!Next

\* The queue is given a batch of committed events.
LEMMA PromiseOfEnqueue ==
    ASSUME TablesInv, NEW k \in Relay, EnqueueJobs(relay[k].batch), UNCHANGED outbox
    PROVE  Promise!Next
<1> DEFINE recorded == {x \in Event : Committed(x)}
           delivered == {x \in Event : Given(x)}
<1> USE DEF TablesInv, TypeOK
<1>1. relay[k].batch \in SUBSET Event
  OBVIOUS
<1>2. \A x \in Event : Given(x)' <=> Given(x) \/ x \in relay[k].batch
  BY <1>1, EnqueueJobsStep
<1>3. delivered' = delivered \cup relay[k].batch
  BY <1>1, <1>2
<1>4. relay[k].batch \subseteq recorded /\ recorded' = recorded
  BY <1>1 DEF BatchesArePending, Committed
<1>5. Promise!Deliver(relay[k].batch)
  BY <1>3, <1>4 DEF Promise!Deliver
<1> QED BY <1>1, <1>5 DEF Promise!Next

\* What is left behind concerns no event that was recorded or given.
LEMMA PromiseOfLeftBehind ==
    ASSUME TablesInv, UNCHANGED <<outbox, created>>,
           UNCHANGED job \/ \E e \in Event : StallJob(e)
    PROVE  UNCHANGED Promise!vars
<1> DEFINE recorded == {x \in Event : Committed(x)}
           delivered == {x \in Event : Given(x)}
<1>1. \A x \in Event : job'[x].state = "pruned" <=> job[x].state = "pruned"
  BY DEF StallJob, TablesInv, TypeOK
<1>2. recorded' = recorded /\ delivered' = delivered
  BY <1>1 DEF Committed, Given
<1> QED BY <1>2 DEF Promise!vars

\* Outbox and queue together do only what EventDelivery allows: an event is
\* recorded exactly by its commit, and only recorded events are handed over.
THEOREM DeliversOnlyWhatIsRecorded ==
    Spec => Promise!Init /\ [][Promise!Next]_(Promise!vars)
<1>1. Init => Promise!Init
  BY DEF Init, NewJob, Promise!Init, Committed, Given
<1>2. OutboxInv => TablesInv
  BY DEF OutboxInv
<1> QED BY <1>1, <1>2, PromiseStep, OutboxInvariant, PTL DEF Spec
=============================================================================
