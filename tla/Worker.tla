-------------------------------- MODULE Worker --------------------------------
(* The life of the worker processes: apps/worker/src/main.ts with the loop of  *)
(* startRelay (relay.ts) and the consumers of startEventsWorker (queues.ts),    *)
(* composed with the tables and queues of Outbox.                               *)
(*                                                                              *)
(* A process k holds one relay loop and one consumer.  A signal starts its      *)
(* shutdown; a crash or the 30 s timer ends it at once, and what it was doing   *)
(* is left to PostgreSQL (the open transaction) and BullMQ (the jobs).          *)
EXTENDS Naturals, FiniteSets

CONSTANTS
    Event, Relay, BatchSize, MaxAttempts, MaxFaults,    \* of Outbox
    Signalled,      \* processes that may be asked to shut down
    MaxSignals,     \* bound: shutdowns asked for in a behaviour
    Drawn,          \* the cursor each event's row draws from the sequence
    Nobody          \* not in Relay

ASSUME BatchAssumption == BatchSize \in Nat \ {0}
ASSUME AttemptsAssumption == MaxAttempts \in Nat \ {0}
ASSUME FaultsAssumption == MaxFaults \in Nat
ASSUME SignalsAssumption == MaxSignals \in Nat
ASSUME SignalledAssumption == Signalled \subseteq Relay
ASSUME NobodyAssumption == Nobody \notin Relay
ASSUME DrawnAssumption ==
    /\ Drawn \in [Event -> Nat \ {0}]
    /\ \A e, f \in Event : Drawn[e] = Drawn[f] => e = f

VARIABLES
    outbox, cursor, relay, job, created, announced, notices, deadLetter, faults,
    loop,       \* startRelay: in relayOnce, asleep, or ended
    stage,      \* shutdown: which await it is at
    runner,     \* the process, not killed, of each active job and of each notice
    signals     \* signals so far

O == INSTANCE Outbox

queueVars == <<job, created, notices, deadLetter>>
outboxVars == <<outbox, cursor, relay, queueVars, announced, faults>>
lifeVars == <<loop, stage, runner, signals>>
vars == <<outboxVars, lifeVars>>

Live(k) == stage[k] \in {"up", "stop", "drain"}
Lives(e) == runner[e] # Nobody /\ Live(runner[e])
Running(k) == {e \in Event : runner[e] = k /\ job[e].state = "active"}

\* mutant: the loop does not ask for stopping
AgainAnyway(k) == "cycle"
\* while (!stopping)
Again(k) == IF stage[k] = "up" THEN "cycle" ELSE "ended"

SetLoop(k, state) == loop' = [loop EXCEPT ![k] = state]
-----------------------------------------------------------------------------
(* Requests of the API *)

\* A transaction that commits, in one step: Outbox has the others.  Commits come in
\* any order, so a row may appear below cursors that were published before it.
Record(e) ==
    /\ outbox[e] = "none"
    /\ outbox' = [outbox EXCEPT ![e] = "pending"]
    /\ cursor' = [cursor EXCEPT ![e] = Drawn[e]]
    /\ UNCHANGED <<relay, queueVars, announced, faults, lifeVars>>
-----------------------------------------------------------------------------
(* The loop of startRelay *)

InCycle(k) == Live(k) /\ loop[k] = "cycle"

FindRows(k) == InCycle(k) /\ O!SelectBatch(k) /\ UNCHANGED lifeVars

\* relayOnce returns 0.
FindNothing(k) ==
    /\ InCycle(k)
    /\ relay[k].pc = "idle"
    /\ O!Eligible = {}
    /\ SetLoop(k, "pause")
    /\ UNCHANGED <<outboxVars, stage, runner, signals>>

\* addBulk and the pub/sub pipeline, in one step: Outbox has the two.
Publish(k) ==
    /\ InCycle(k)
    /\ relay[k].pc = "selected"
    /\ O!EnqueueJobs(relay[k].batch)
    /\ relay' = [relay EXCEPT ![k].pc = "announced"]
    /\ UNCHANGED <<outbox, cursor, announced, faults, lifeVars>>

\* A full batch goes on at once, a partial one sleeps.
Mark(k) ==
    /\ InCycle(k)
    /\ O!CommitBatch(k)
    /\ SetLoop(k, IF Cardinality(relay[k].batch) < BatchSize THEN "pause" ELSE Again(k))
    /\ UNCHANGED <<stage, runner, signals>>

\* BEGIN or the SELECT fails: there is no transaction to undo.
SelectFails(k) ==
    /\ relay[k].pc = "idle"
    /\ O!Fault
    /\ UNCHANGED <<outbox, cursor, relay, queueVars, announced>>

\* The catch of startRelay: sleep the backoff.
CycleFails(k) ==
    /\ InCycle(k)
    /\ SelectFails(k) \/ O!AddBulkReplyLost(k) \/ O!RelayFails(k)
    /\ SetLoop(k, "pause")
    /\ UNCHANGED <<stage, runner, signals>>

WakeUp(k) ==
    /\ Live(k)
    /\ loop[k] = "pause"
    /\ SetLoop(k, Again(k))
    /\ UNCHANGED <<outboxVars, stage, runner, signals>>
-----------------------------------------------------------------------------
(* The consumer: worker.close() is called at stage drain, and takes no more jobs. *)

Take(k, e) ==
    /\ stage[k] \in {"up", "stop"}
    /\ O!TakeJob(e)
    /\ runner' = [runner EXCEPT ![e] = k]
    /\ UNCHANGED <<loop, stage, signals>>

Handle(e) ==
    /\ Lives(e)
    /\ O!Handle(e)
    /\ runner' = IF e \in notices' THEN runner ELSE [runner EXCEPT ![e] = Nobody]
    /\ UNCHANGED <<loop, stage, signals>>

\* deadLetter.add takes effect, sent by a process that may have ended since.
DeadLetter(e) ==
    /\ O!DeadLetter(e)
    /\ runner' = [runner EXCEPT ![e] = Nobody]
    /\ UNCHANGED <<loop, stage, signals>>

\* The call fails and is only logged.
DeadLetterFails(e) ==
    /\ Lives(e)
    /\ O!DeadLetterLost(e)
    /\ runner' = [runner EXCEPT ![e] = Nobody]
    /\ UNCHANGED <<loop, stage, signals>>
-----------------------------------------------------------------------------
(* shutdown *)

SetStage(k, s) == stage' = [stage EXCEPT ![k] = s]

\* SIGTERM or SIGINT: closing = true and relay.stop().  wake ends the sleep in
\* progress; in relayOnce there is none, and the promise it resolves is an old one.
Signal(k) ==
    /\ k \in Signalled /\ stage[k] = "up"
    /\ signals < MaxSignals
    /\ signals' = signals + 1
    /\ SetStage(k, "stop")
    /\ IF loop[k] = "pause" THEN SetLoop(k, "ended") ELSE UNCHANGED loop
    /\ UNCHANGED <<outboxVars, runner>>

\* mutant: stop() does not wait for done
StopAtOnce(k) ==
    /\ stage[k] = "stop"
    /\ SetStage(k, "drain")
    /\ UNCHANGED <<outboxVars, loop, runner, signals>>

\* await done: relay.stop() resolves and worker.close() begins.
RelayStopped(k) ==
    /\ stage[k] = "stop"
    /\ loop[k] = "ended"
    /\ SetStage(k, "drain")
    /\ UNCHANGED <<outboxVars, loop, runner, signals>>

\* mutant: worker.close(true), or not awaited
ExitBusy(k) ==
    /\ stage[k] = "drain"
    /\ SetStage(k, "exited")
    /\ UNCHANGED <<outboxVars, loop, runner, signals>>

\* worker.close() waited for the handlers; the connections are closed, exit(0).
\* Nothing waits for deadLetter.add.
Exit(k) ==
    /\ stage[k] = "drain"
    /\ Running(k) = {}
    /\ SetStage(k, "exited")
    /\ UNCHANGED <<outboxVars, loop, runner, signals>>

\* What a process held is nobody's once it is killed, or another was started for it.
Orphaned(k) == [e \in Event |-> IF runner[e] = k THEN Nobody ELSE runner[e]]

End(k) ==
    /\ O!Fault
    /\ SetStage(k, "killed")
    /\ SetLoop(k, "ended")
    /\ runner' = Orphaned(k)
    /\ UNCHANGED <<outbox, cursor, relay, queueVars, announced, signals>>

\* The 30 s timer fires before shutdown is through, or one of its awaits throws.
ForcedExit(k) == stage[k] \in {"stop", "drain"} /\ End(k)

Crash(k) == stage[k] = "up" /\ End(k)
-----------------------------------------------------------------------------
(* What a dead process leaves behind *)

\* The statement in flight takes effect or not, and PostgreSQL ends the transaction.
LastWords(k) ==
    /\ stage[k] = "killed"
    /\ relay[k].pc # "idle"
    /\ \/ O!CommitBatch(k)
       \/ /\ relay[k].pc = "selected"
          /\ O!EnqueueJobs(relay[k].batch)
          /\ O!Rest(k)
          /\ UNCHANGED <<outbox, cursor, announced, faults>>
       \/ /\ O!Rest(k)
          /\ UNCHANGED <<outbox, cursor, queueVars, announced, faults>>
    /\ UNCHANGED lifeVars

\* BullMQ: the lock of the job is no longer renewed, the job is given out again.
GiveAgain(e) ==
    /\ ~Lives(e)
    /\ O!StallJob(e)
    /\ runner' = [runner EXCEPT ![e] = Nobody]
    /\ UNCHANGED <<outbox, cursor, relay, created, announced, notices, deadLetter, faults,
                   loop, stage, signals>>

\* deadLetter.add was not sent in time.
NoticeDies(e) ==
    /\ e \in notices
    /\ ~Lives(e)
    /\ notices' = notices \ {e}
    /\ runner' = [runner EXCEPT ![e] = Nobody]
    /\ UNCHANGED <<outbox, cursor, relay, job, created, announced, deadLetter, faults,
                   loop, stage, signals>>

\* External: whatever runs the process starts it again.
Restart(k) ==
    /\ stage[k] \in {"exited", "killed"}
    /\ relay[k].pc = "idle"
    /\ SetStage(k, "up")
    /\ SetLoop(k, "cycle")
    /\ runner' = Orphaned(k)
    /\ UNCHANGED <<outboxVars, signals>>
-----------------------------------------------------------------------------
Init ==
    /\ O!Init
    /\ loop = [k \in Relay |-> "cycle"]
    /\ stage = [k \in Relay |-> "up"]
    /\ runner = [e \in Event |-> Nobody]
    /\ signals = 0

LoopStep(k) == FindRows(k) \/ FindNothing(k) \/ Publish(k) \/ Mark(k) \/ WakeUp(k)
ShutdownStep(k) == RelayStopped(k) \/ Exit(k)
FaultStep(k) == CycleFails(k) \/ ForcedExit(k) \/ Crash(k)

\* One of these is enabled at a time, whatever the state of the process or job is.
ProcessStep(k) == LoopStep(k) \/ ShutdownStep(k) \/ LastWords(k) \/ Restart(k)
JobStep(e) == (\E k \in Relay : Take(k, e)) \/ Handle(e) \/ GiveAgain(e)

Next ==
    \/ \E k \in Relay : ProcessStep(k) \/ Signal(k) \/ FaultStep(k)
    \/ \E e \in Event : JobStep(e) \/ DeadLetter(e) \/ DeadLetterFails(e) \/ NoticeDies(e)
                            \/ Record(e)

Spec == Init /\ [][Next]_vars

\* A live process runs its loop, its sleeps end, and shutdown goes on to its next
\* await; PostgreSQL ends the transactions of dead connections, and a process that
\* ended is started again (external).  Consumers take jobs, handlers end one way or
\* the other, and BullMQ gives stalled jobs again.  Nothing makes the 30 s timer
\* fire, and nothing makes a request commit.
FairSpec ==
    /\ Spec
    /\ \A k \in Relay : WF_vars(ProcessStep(k))
    /\ \A e \in Event : WF_vars(JobStep(e))
-----------------------------------------------------------------------------
(* Properties *)

TypeOK ==
    /\ O!TypeOK
    /\ loop \in [Relay -> {"cycle", "pause", "ended"}]
    /\ stage \in [Relay -> {"up", "stop", "drain", "exited", "killed"}]
    /\ runner \in [Event -> Relay \cup {Nobody}]
    /\ signals \in 0..MaxSignals

\* await relay.stop(): once it has resolved, no transaction of this process holds
\* rows of the outbox, so closing relayDb cuts no batch in two.
StopWaitsForBatch ==
    \A k \in Relay : stage[k] \in {"drain", "exited"} => relay[k].batch = {}

\* Graceful shutdown: a process that ran to its exit(0) leaves no job in progress
\* behind, to stall and run a second time; only one that was killed does.
JobsOutliveNoCleanExit ==
    \A e \in Event : job[e].state = "active" /\ runner[e] # Nobody =>
        stage[runner[e]] # "exited"

\* stop() waits for the batch in progress and for nothing else.
StopWaitsOnlyForBatch ==
    \A k \in Relay : stage[k] = "stop" => loop[k] # "pause"

\* A shutdown comes to its end without the help of the timer that forces it.
ShutdownEnds == \A k \in Signalled : stage[k] = "stop" ~> stage[k] \in {"exited", "killed"}

\* Signals, crashes and restarts of the workers stop no committed event from being
\* published, nor from coming to rest in the queue.
EventuallyPublished == O!EventuallyPublished
EventuallySettled == O!EventuallySettled
ImplementsDelivery == O!ImplementsDelivery
=============================================================================
