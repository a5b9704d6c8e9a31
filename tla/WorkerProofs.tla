----------------------------- MODULE WorkerProofs -----------------------------
(* Worker keeps its invariants, and with them those of Outbox, for any number *)
(* of events and processes, however they are signalled, killed and restarted. *)
(*                                                                            *)
(* Worker takes most steps of Outbox as they are; what it does otherwise is   *)
(* covered by the lemmas of OutboxProofs on the steps that are not Outbox's.  *)
EXTENDS Worker, TLAPS

P == INSTANCE OutboxProofs

-----------------------------------------------------------------------------
(* The inductive invariant *)

LifeTypes ==
    /\ loop \in [Relay -> {"cycle", "pause", "ended"}]
    /\ stage \in [Relay -> {"up", "stop", "drain", "exited", "killed"}]
    /\ runner \in [Event -> Relay \cup {Nobody}]
    /\ signals \in 0..MaxSignals

\* Outside relayOnce a live process holds no rows, and stop() does not resolve
\* before the loop has ended.
LoopHoldsRows ==
    \A k \in Relay :
        /\ relay[k].pc = "idle" => relay[k].batch = {}
        /\ Live(k) /\ loop[k] # "cycle" => relay[k].batch = {}
        /\ stage[k] \in {"drain", "exited"} => loop[k] = "ended" /\ relay[k].batch = {}

LifeInv == LifeTypes /\ LoopHoldsRows

WorkerInv == P!TablesInv /\ LifeInv /\ JobsOutliveNoCleanExit

-----------------------------------------------------------------------------
(* The tables and the queue                                                   *)

\* The steps Worker takes from Outbox.
OutboxStep ==
    \/ \E k \in Relay : \/ O!SelectBatch(k) \/ O!CommitBatch(k)
                        \/ O!AddBulkReplyLost(k) \/ O!RelayFails(k)
    \/ \E e \in Event : O!TakeJob(e) \/ O!Handle(e) \/ O!DeadLetter(e) \/ O!DeadLetterLost(e)

\* They are steps of Outbox.
LEMMA TakenFromOutbox == OutboxStep => P!Next
<1> SUFFICES ASSUME OutboxStep PROVE P!Next
  OBVIOUS
<1>1. ASSUME NEW k \in Relay, O!SelectBatch(k) PROVE P!Next
  <2>0. /\ O!Eligible = P!Eligible
        /\ \A batch, rows : O!IsHead(batch, rows) <=> P!IsHead(batch, rows)
        /\ O!queueVars = P!queueVars
    BY DEF O!Eligible, P!Eligible, O!LockedRows, P!LockedRows, O!IsHead, P!IsHead,
           O!Cardinality, P!Cardinality, O!queueVars, P!queueVars
  <2>1. P!SelectBatch(k)
    BY <1>1, <2>0 DEF O!SelectBatch, P!SelectBatch, O!queueVars, P!queueVars
  <2> QED BY <2>1 DEF P!Next, P!RelayStep
<1>2. ASSUME NEW k \in Relay, O!CommitBatch(k) PROVE P!Next
  <2>1. P!CommitBatch(k)
    BY <1>2 DEF O!CommitBatch, P!CommitBatch, O!Marked, P!Marked, O!Rest, P!Rest,
                O!Resting, P!Resting, O!queueVars, P!queueVars
  <2> QED BY <2>1 DEF P!Next, P!RelayStep
<1>3. ASSUME NEW k \in Relay, O!AddBulkReplyLost(k) PROVE P!Next
  <2>1. P!AddBulkReplyLost(k)
    BY <1>3 DEF O!AddBulkReplyLost, P!AddBulkReplyLost, O!Fault, P!Fault, O!EnqueueJobs,
                P!EnqueueJobs, O!NewJobs, P!NewJobs, O!NewJob, P!NewJob, O!Rest, P!Rest, O!Resting, P!Resting
  <2> QED BY <2>1 DEF P!Next, P!RelayFault
<1>4. ASSUME NEW k \in Relay, O!RelayFails(k) PROVE P!Next
  <2>1. P!RelayFails(k)
    BY <1>4 DEF O!RelayFails, P!RelayFails, O!Fault, P!Fault, O!Rest, P!Rest, O!Resting,
                P!Resting, O!queueVars, P!queueVars
  <2> QED BY <2>1 DEF P!Next, P!RelayFault
<1>5. ASSUME NEW e \in Event, O!TakeJob(e) PROVE P!Next
  <2>1. P!TakeJob(e)
    BY <1>5 DEF O!TakeJob, P!TakeJob, O!SetJob, P!SetJob
  <2> QED BY <2>1 DEF P!Next
<1>6. ASSUME NEW e \in Event, O!Handle(e) PROVE P!Next
  <2>1. P!Handle(e)
    BY <1>6 DEF O!Handle, P!Handle, O!HandlerSucceeds, P!HandlerSucceeds, O!HandlerFails,
                P!HandlerFails, O!SetJob, P!SetJob, O!Exhausted, P!Exhausted
  <2> QED BY <2>1 DEF P!Next
<1>7. ASSUME NEW e \in Event, O!DeadLetter(e) PROVE P!Next
  <2>1. P!DeadLetter(e)
    BY <1>7 DEF O!DeadLetter, P!DeadLetter
  <2> QED BY <2>1 DEF P!Next
<1>8. ASSUME NEW e \in Event, O!DeadLetterLost(e) PROVE P!Next
  <2>1. P!DeadLetterLost(e)
    BY <1>8 DEF O!DeadLetterLost, P!DeadLetterLost, O!Fault, P!Fault
  <2> QED BY <2>1 DEF P!Next, P!WorkerFault
<1> QED BY <1>1, <1>2, <1>3, <1>4, <1>5, <1>6, <1>7, <1>8 DEF OutboxStep

\* They keep the tables and the queue right.
LEMMA OutboxStepTables == P!TablesInv /\ OutboxStep => P!TablesInv'
BY TakenFromOutbox, P!TablesStep, BatchAssumption, AttemptsAssumption, FaultsAssumption

\* Every step of the worker keeps the tables and the queue right: also the ones
\* that cut a batch or a handler short, and those that clean up after them.
LEMMA TablesKept ==
    ASSUME P!TablesInv, [Next]_vars PROVE P!TablesInv'
<1> USE BatchAssumption, AttemptsAssumption, FaultsAssumption
<1>0. faults \in 0..MaxFaults
  BY DEF P!TablesInv, P!TypeOK
<1>1. CASE OutboxStep
  BY <1>1, OutboxStepTables
<1>2. ASSUME UNCHANGED outboxVars PROVE P!TablesInv'
  <2>1. UNCHANGED P!vars
    BY <1>2 DEF outboxVars, queueVars, P!vars
  <2> QED BY <2>1, P!TablesStep
<1>3. ASSUME NEW e \in Event, Record(e) PROVE P!TablesInv'
  <2>1. /\ outbox[e] = "none" /\ Drawn[e] \in Nat \ {0}
        /\ outbox' = [outbox EXCEPT ![e] = "pending"]
        /\ cursor' = [cursor EXCEPT ![e] = Drawn[e]]
        /\ UNCHANGED <<relay, P!queueVars, announced, faults>>
    BY <1>3, DrawnAssumption DEF Record, queueVars, P!queueVars
  <2> QED BY <2>1, P!RecordAtOnce
<1>4. ASSUME NEW k \in Relay, Publish(k) PROVE P!TablesInv'
  <2>1. P!EnqueueJobs(relay[k].batch)
        /\ relay' = [relay EXCEPT ![k].pc = "announced"]
        /\ UNCHANGED <<outbox, cursor, announced, faults>>
    BY <1>4 DEF Publish, O!EnqueueJobs, P!EnqueueJobs, O!NewJobs, P!NewJobs, O!NewJob, P!NewJob
  <2> QED BY <2>1, P!EnqueueAtOnce
<1>5. ASSUME NEW k \in Relay, LastWords(k) PROVE P!TablesInv'
  <2>1. CASE O!CommitBatch(k)
    BY <2>1, OutboxStepTables DEF OutboxStep
  <2>2. CASE /\ O!EnqueueJobs(relay[k].batch) /\ O!Rest(k)
             /\ UNCHANGED <<outbox, cursor, announced, faults>>
    <3>1. P!EnqueueJobs(relay[k].batch) /\ P!Rest(k)
      BY <2>2 DEF O!EnqueueJobs, P!EnqueueJobs, O!NewJobs, P!NewJobs, O!NewJob, P!NewJob, O!Rest, P!Rest,
                  O!Resting, P!Resting
    <3> QED BY <2>2, <3>1, P!EnqueueAtOnce
  <2>3. CASE O!Rest(k) /\ UNCHANGED <<outbox, cursor, queueVars, announced, faults>>
    <3>1. P!Rest(k)
      BY <2>3 DEF O!Rest, P!Rest, O!Resting, P!Resting
    <3> QED BY <1>0, <2>3, <3>1, P!LeftBehind DEF queueVars
  <2> QED BY <1>5, <2>1, <2>2, <2>3 DEF LastWords
<1>6. ASSUME NEW e \in Event, GiveAgain(e) PROVE P!TablesInv'
  <2>1. P!StallJob(e)
    BY <1>6 DEF GiveAgain, O!StallJob, P!StallJob
  <2> QED BY <1>0, <1>6, <2>1, P!LeftBehind DEF GiveAgain
<1>7. ASSUME NEW e \in Event, NoticeDies(e) PROVE P!TablesInv'
  BY <1>0, <1>7, P!LeftBehind DEF NoticeDies
<1>8. ASSUME NEW k \in Relay, End(k) PROVE P!TablesInv'
  <2>1. faults' \in 0..MaxFaults
    BY <1>0, <1>8 DEF End, O!Fault
  <2> QED BY <1>8, <2>1, P!LeftBehind DEF End, queueVars
<1>a. ASSUME NEW k \in Relay, SelectFails(k) PROVE P!TablesInv'
  <2>1. faults' \in 0..MaxFaults
    BY <1>0, <1>a DEF SelectFails, O!Fault
  <2> QED BY <1>a, <2>1, P!LeftBehind DEF SelectFails, queueVars
<1>9. ASSUME NEW k \in Relay,
             FindRows(k) \/ Mark(k) \/ CycleFails(k) \/ (\E e \in Event : Take(k, e))
      PROVE  P!TablesInv'
  BY <1>1, <1>a, <1>9 DEF FindRows, Mark, CycleFails, Take, OutboxStep
<1>10. ASSUME NEW e \in Event, Handle(e) \/ DeadLetter(e) \/ DeadLetterFails(e)
       PROVE  P!TablesInv'
  BY <1>1, <1>10 DEF Handle, DeadLetter, DeadLetterFails, OutboxStep
<1>11. ASSUME NEW k \in Relay,
              FindNothing(k) \/ WakeUp(k) \/ Signal(k) \/ ShutdownStep(k) \/ Restart(k)
       PROVE  P!TablesInv'
  BY <1>2, <1>11 DEF FindNothing, WakeUp, Signal, ShutdownStep, RelayStopped, Exit, Restart
<1>12. CASE UNCHANGED vars
  BY <1>2, <1>12 DEF vars
<1>13. ASSUME NEW k \in Relay, ProcessStep(k) \/ Signal(k) \/ FaultStep(k) PROVE P!TablesInv'
  BY <1>4, <1>5, <1>8, <1>9, <1>11, <1>13
     DEF ProcessStep, LoopStep, FaultStep, ForcedExit, Crash
<1>14. ASSUME NEW e \in Event,
              JobStep(e) \/ DeadLetter(e) \/ DeadLetterFails(e) \/ NoticeDies(e) \/ Record(e)
       PROVE  P!TablesInv'
  BY <1>3, <1>6, <1>7, <1>9, <1>10, <1>14 DEF JobStep
<1> QED BY <1>12, <1>13, <1>14 DEF Next
-----------------------------------------------------------------------------
(* The life of the processes                                                  *)

\* What a step does to the transaction of each relay.
RelayTypes ==
    relay \in [Relay -> [pc : {"idle", "selected", "queued", "announced"}, batch : SUBSET Event]]

\* The invariant of the tables types the transactions.
LEMMA RelaysAreTyped == P!TablesInv => RelayTypes
BY DEF P!TablesInv, P!TypeOK, RelayTypes

\* A step that leaves transactions, loops and stages alone keeps what is known of them.
LEMMA QuietLife ==
    ASSUME LifeInv, UNCHANGED <<loop, stage, signals>>,
           \A k \in Relay : relay'[k].batch = relay[k].batch /\
                            (relay'[k].pc = "idle" <=> relay[k].pc = "idle"),
           \/ UNCHANGED runner
           \/ \E e \in Event, k \in Relay \cup {Nobody} : runner' = [runner EXCEPT ![e] = k]
    PROVE  LifeInv'
<1> USE DEF LifeInv, LifeTypes
<1>1. runner' \in [Event -> Relay \cup {Nobody}]
  OBVIOUS
<1>2. LoopHoldsRows'
  BY DEF LoopHoldsRows, Live
<1> QED BY <1>1, <1>2

\* A transaction that ends holds no rows, so the loop may go on to anything.
LEMMA CycleEnds ==
    ASSUME LifeInv, RelayTypes, NEW k \in Relay, O!Rest(k), UNCHANGED <<stage, runner, signals>>,
           \/ UNCHANGED loop
           \/ /\ Live(k) /\ stage[k] # "drain"
              /\ \E state \in {"cycle", "pause", "ended"} : SetLoop(k, state)
    PROVE  LifeInv'
<1> USE DEF LifeInv, LifeTypes
<1>1. \A l \in Relay : IF l = k THEN relay'[l].batch = {} ELSE relay'[l] = relay[l]
  BY DEF O!Rest, O!Resting, RelayTypes
<1>2. /\ loop' \in [Relay -> {"cycle", "pause", "ended"}]
      /\ \A l \in Relay : l # k => loop'[l] = loop[l]
      /\ stage[k] \in {"drain", "exited"} => loop'[k] = loop[k]
  BY DEF SetLoop, Live
<1>3. LoopHoldsRows'
  BY <1>1, <1>2 DEF LoopHoldsRows, Live
<1> QED BY <1>2, <1>3

\* A process that ends holds no rows, or its transaction is left to PostgreSQL.
LEMMA ProcessEnds ==
    ASSUME LifeInv, NEW k \in Relay, NEW s \in {"exited", "killed"},
           SetStage(k, s), UNCHANGED <<relay, signals>>,
           UNCHANGED runner \/ runner' = Orphaned(k),
           \/ s = "killed" /\ SetLoop(k, "ended")
           \/ s = "exited" /\ UNCHANGED loop /\ loop[k] = "ended" /\ relay[k].batch = {}
    PROVE  LifeInv'
<1> USE DEF LifeInv, LifeTypes
<1>1. /\ stage' \in [Relay -> {"up", "stop", "drain", "exited", "killed"}]
      /\ \A l \in Relay : stage'[l] = IF l = k THEN s ELSE stage[l]
      /\ loop' \in [Relay -> {"cycle", "pause", "ended"}]
      /\ \A l \in Relay : l # k => loop'[l] = loop[l]
      /\ loop'[k] = "ended"
  BY DEF SetStage, SetLoop
<1>2. LoopHoldsRows'
  BY <1>1 DEF LoopHoldsRows, Live
<1>3. runner' \in [Event -> Relay \cup {Nobody}]
  BY DEF Orphaned
<1> QED BY <1>1, <1>2, <1>3

\* Every step of the worker keeps the life of the processes.
LEMMA LifeKept == ASSUME WorkerInv, [Next]_vars PROVE LifeInv'
<1>0. LifeInv /\ RelayTypes
  BY RelaysAreTyped DEF WorkerInv
<1> USE DEF SetLoop, SetStage
<1>1. ASSUME UNCHANGED <<relay, lifeVars>> PROVE LifeInv'
  BY <1>0, <1>1, QuietLife DEF lifeVars
<1>2. ASSUME NEW k \in Relay, FindRows(k) PROVE LifeInv'
  <2>1. Live(k) /\ loop[k] = "cycle" /\ UNCHANGED lifeVars
    BY <1>2 DEF FindRows, InCycle
  <2>2. \A l \in Relay : IF l = k THEN relay'[l].pc = "selected" ELSE relay'[l] = relay[l]
    BY <1>0, <1>2 DEF FindRows, O!SelectBatch, RelayTypes
  <2>3. stage[k] \notin {"drain", "exited"}
    BY <1>0, <2>1 DEF LifeInv, LoopHoldsRows
  <2>4. LoopHoldsRows'
    BY <1>0, <2>1, <2>2, <2>3 DEF LifeInv, LoopHoldsRows, lifeVars, Live
  <2> QED BY <1>0, <2>1, <2>4 DEF LifeInv, LifeTypes, lifeVars
<1>3. ASSUME NEW k \in Relay, FindNothing(k) PROVE LifeInv'
  <2>1. /\ Live(k) /\ loop[k] = "cycle" /\ relay[k].batch = {}
        /\ loop' = [loop EXCEPT ![k] = "pause"]
        /\ UNCHANGED <<relay, stage, runner, signals>>
    BY <1>0, <1>3 DEF FindNothing, InCycle, LifeInv, LoopHoldsRows, outboxVars
  <2>2. stage[k] \notin {"drain", "exited"}
    BY <1>0, <2>1 DEF LifeInv, LoopHoldsRows
  <2>3. loop' \in [Relay -> {"cycle", "pause", "ended"}] /\ LoopHoldsRows'
    BY <1>0, <2>1, <2>2 DEF LifeInv, LifeTypes, LoopHoldsRows, Live
  <2> QED BY <1>0, <2>1, <2>3 DEF LifeInv, LifeTypes
<1>4. ASSUME NEW k \in Relay, Publish(k) PROVE LifeInv'
  <2>1. UNCHANGED lifeVars
        /\ relay[k].pc = "selected" /\ relay' = [relay EXCEPT ![k].pc = "announced"]
    BY <1>4 DEF Publish
  <2>2. \A l \in Relay : relay'[l].batch = relay[l].batch /\
                         (relay'[l].pc = "idle" <=> relay[l].pc = "idle")
    BY <1>0, <2>1 DEF RelayTypes
  <2> QED BY <1>0, <2>1, <2>2, QuietLife DEF lifeVars
<1>a. ASSUME NEW k \in Relay, InCycle(k), SelectFails(k), SetLoop(k, "pause"),
             UNCHANGED <<stage, runner, signals>>
      PROVE  LifeInv'
  <2>1. /\ Live(k) /\ loop[k] = "cycle" /\ relay[k].batch = {}
        /\ loop' = [loop EXCEPT ![k] = "pause"]
        /\ UNCHANGED <<relay, stage, runner, signals>>
    BY <1>0, <1>a DEF SelectFails, InCycle, LifeInv, LoopHoldsRows
  <2>2. stage[k] \notin {"drain", "exited"}
    BY <1>0, <2>1 DEF LifeInv, LoopHoldsRows
  <2>3. loop' \in [Relay -> {"cycle", "pause", "ended"}] /\ LoopHoldsRows'
    BY <1>0, <2>1, <2>2 DEF LifeInv, LifeTypes, LoopHoldsRows, Live
  <2> QED BY <1>0, <2>1, <2>3 DEF LifeInv, LifeTypes
<1>5. ASSUME NEW k \in Relay, Mark(k) \/ CycleFails(k) PROVE LifeInv'
  <2>0. SelectFails(k) /\ CycleFails(k) => LifeInv'
    BY <1>a DEF CycleFails
  <2> SUFFICES ASSUME Mark(k) \/ (CycleFails(k) /\ ~SelectFails(k)) PROVE LifeInv'
    BY <1>5, <2>0
  <2>1. /\ Live(k) /\ loop[k] = "cycle" /\ O!Rest(k) /\ UNCHANGED <<stage, runner, signals>>
        /\ \E state \in {"cycle", "pause", "ended"} : SetLoop(k, state)
    BY DEF Mark, CycleFails, InCycle, O!CommitBatch, O!AddBulkReplyLost, O!RelayFails, Again
  <2>2. stage[k] # "drain"
    BY <1>0, <2>1 DEF LifeInv, LoopHoldsRows
  <2> QED BY <1>0, <2>1, <2>2, CycleEnds
<1>6. ASSUME NEW k \in Relay, WakeUp(k) PROVE LifeInv'
  <2>1. /\ Live(k) /\ loop[k] = "pause" /\ UNCHANGED <<relay, stage, runner, signals>>
        /\ loop' = [loop EXCEPT ![k] = Again(k)] /\ Again(k) \in {"cycle", "ended"}
    BY <1>6 DEF WakeUp, outboxVars, Again
  <2>2. relay[k].batch = {} /\ stage[k] \notin {"drain", "exited"}
    BY <1>0, <2>1 DEF LifeInv, LoopHoldsRows
  <2>3. loop' \in [Relay -> {"cycle", "pause", "ended"}] /\ LoopHoldsRows'
    BY <1>0, <2>1, <2>2 DEF LifeInv, LifeTypes, LoopHoldsRows, Live
  <2> QED BY <1>0, <2>1, <2>3 DEF LifeInv, LifeTypes
<1>7. ASSUME NEW k \in Relay, NEW e \in Event, Take(k, e) PROVE LifeInv'
  <2>1. runner' = [runner EXCEPT ![e] = k] /\ UNCHANGED <<relay, loop, stage, signals>>
    BY <1>7 DEF Take, O!TakeJob
  <2> QED BY <1>0, <2>1, QuietLife
<1>8. ASSUME NEW e \in Event,
             Handle(e) \/ DeadLetter(e) \/ DeadLetterFails(e) \/ GiveAgain(e) \/ NoticeDies(e)
      PROVE  LifeInv'
  <2>1. /\ UNCHANGED <<relay, loop, stage, signals>>
        /\ UNCHANGED runner \/ runner' = [runner EXCEPT ![e] = Nobody]
    BY <1>8 DEF Handle, DeadLetter, DeadLetterFails, GiveAgain, NoticeDies, O!Handle,
                O!HandlerSucceeds, O!HandlerFails, O!DeadLetter, O!DeadLetterLost
  <2> QED BY <1>0, <2>1, QuietLife
<1>9. ASSUME NEW k \in Relay, Signal(k) PROVE LifeInv'
  <2>1. /\ stage[k] = "up" /\ stage' = [stage EXCEPT ![k] = "stop"]
        /\ signals' \in 0..MaxSignals /\ UNCHANGED <<relay, runner>>
    BY <1>0, <1>9, SignalsAssumption DEF Signal, LifeInv, LifeTypes, outboxVars
  <2>2. \/ loop[k] # "pause" /\ UNCHANGED loop
        \/ loop[k] = "pause" /\ loop' = [loop EXCEPT ![k] = "ended"]
    BY <1>9 DEF Signal
  <2>3. /\ stage' \in [Relay -> {"up", "stop", "drain", "exited", "killed"}]
        /\ loop' \in [Relay -> {"cycle", "pause", "ended"}]
    BY <1>0, <2>1, <2>2 DEF LifeInv, LifeTypes
  <2>4. LoopHoldsRows'
    BY <1>0, <2>1, <2>2 DEF LifeInv, LifeTypes, LoopHoldsRows, Live
  <2> QED BY <1>0, <2>1, <2>3, <2>4 DEF LifeInv, LifeTypes
<1>10. ASSUME NEW k \in Relay, RelayStopped(k) PROVE LifeInv'
  <2>1. /\ stage[k] = "stop" /\ loop[k] = "ended" /\ stage' = [stage EXCEPT ![k] = "drain"]
        /\ UNCHANGED <<relay, loop, runner, signals>>
    BY <1>10 DEF RelayStopped, outboxVars
  <2>2. relay[k].batch = {}
    BY <1>0, <2>1 DEF LifeInv, LoopHoldsRows, Live
  <2>3. stage' \in [Relay -> {"up", "stop", "drain", "exited", "killed"}] /\ LoopHoldsRows'
    BY <1>0, <2>1, <2>2 DEF LifeInv, LifeTypes, LoopHoldsRows, Live
  <2> QED BY <1>0, <2>1, <2>3 DEF LifeInv, LifeTypes
<1>11. ASSUME NEW k \in Relay, Exit(k) PROVE LifeInv'
  <2>1. loop[k] = "ended" /\ relay[k].batch = {}
    BY <1>0, <1>11 DEF Exit, LifeInv, LoopHoldsRows
  <2> QED BY <1>0, <1>11, <2>1, ProcessEnds DEF Exit, outboxVars
<1>12. ASSUME NEW k \in Relay, End(k) PROVE LifeInv'
  BY <1>0, <1>12, ProcessEnds DEF End
<1>13. ASSUME NEW k \in Relay, LastWords(k) PROVE LifeInv'
  <2>1. O!Rest(k) /\ UNCHANGED lifeVars
    BY <1>13 DEF LastWords, O!CommitBatch
  <2> QED BY <1>0, <2>1, CycleEnds DEF lifeVars
<1>15. ASSUME NEW k \in Relay, Restart(k) PROVE LifeInv'
  <2>1. /\ stage[k] \in {"exited", "killed"} /\ relay[k].pc = "idle"
        /\ stage' = [stage EXCEPT ![k] = "up"] /\ loop' = [loop EXCEPT ![k] = "cycle"]
        /\ UNCHANGED <<relay, signals>>
    BY <1>15 DEF Restart, outboxVars
  <2>2. /\ stage' \in [Relay -> {"up", "stop", "drain", "exited", "killed"}]
        /\ loop' \in [Relay -> {"cycle", "pause", "ended"}]
        /\ LoopHoldsRows'
    BY <1>0, <2>1 DEF LifeInv, LifeTypes, LoopHoldsRows, Live
  <2>3. runner' \in [Event -> Relay \cup {Nobody}]
    BY <1>0, <1>15 DEF Restart, Orphaned, LifeInv, LifeTypes
  <2> QED BY <1>0, <2>1, <2>2, <2>3 DEF LifeInv, LifeTypes
<1>16. ASSUME UNCHANGED vars \/ \E e \in Event : Record(e) PROVE LifeInv'
  BY <1>1, <1>16 DEF Record, vars, outboxVars
<1>17. ASSUME NEW k \in Relay, ProcessStep(k) \/ Signal(k) \/ FaultStep(k) PROVE LifeInv'
  BY <1>2, <1>3, <1>4, <1>5, <1>6, <1>9, <1>10, <1>11, <1>12, <1>13, <1>15, <1>17
     DEF ProcessStep, LoopStep, ShutdownStep, FaultStep, ForcedExit, Crash
<1>18. ASSUME NEW e \in Event,
              JobStep(e) \/ DeadLetter(e) \/ DeadLetterFails(e) \/ NoticeDies(e) \/ Record(e)
       PROVE  LifeInv'
  BY <1>7, <1>8, <1>16, <1>18 DEF JobStep
<1> QED BY <1>16, <1>17, <1>18 DEF Next

\* No job starts in a process that has exited, and a process exits when it runs none.
LEMMA ExitsStayClean == ASSUME WorkerInv, [Next]_vars PROVE JobsOutliveNoCleanExit'
<1> DEFINE State == {"up", "stop", "drain", "exited", "killed"}
<1>0. /\ JobsOutliveNoCleanExit /\ stage \in [Relay -> State]
      /\ runner \in [Event -> Relay \cup {Nobody}]
      /\ job \in [Event -> [state : P!JobState, attempts : 0..MaxAttempts, stalled : BOOLEAN]]
  BY DEF WorkerInv, P!TablesInv, P!TypeOK, LifeInv, LifeTypes
<1>1. ASSUME \A e \in Event : job'[e].state = "active" =>
                 job[e].state = "active" /\ runner'[e] \in {runner[e], Nobody},
             \A k \in Relay : stage'[k] = "exited" => stage[k] = "exited"
      PROVE  JobsOutliveNoCleanExit'
  <2>1. \A e \in Event : job'[e].state = "active" /\ runner'[e] # Nobody =>
          stage'[runner'[e]] # "exited"
    BY <1>0, <1>1 DEF JobsOutliveNoCleanExit
  <2> QED BY <2>1 DEF JobsOutliveNoCleanExit
<1>2. ASSUME NEW k \in Relay, NEW e \in Event, Take(k, e) PROVE JobsOutliveNoCleanExit'
  <2>1. /\ stage[k] \in {"up", "stop"} /\ runner' = [runner EXCEPT ![e] = k]
        /\ \A x \in Event \ {e} : job'[x] = job[x]
        /\ UNCHANGED stage
    BY <1>0, <1>2 DEF Take, O!TakeJob, O!SetJob
  <2>2. \A x \in Event : job'[x].state = "active" /\ runner'[x] # Nobody =>
          stage'[runner'[x]] # "exited"
    BY <1>0, <2>1 DEF JobsOutliveNoCleanExit
  <2> QED BY <2>2 DEF JobsOutliveNoCleanExit
<1>3. ASSUME NEW k \in Relay, Exit(k) PROVE JobsOutliveNoCleanExit'
  <2>1. /\ \A e \in Event : ~(runner[e] = k /\ job[e].state = "active")
        /\ \A l \in Relay \ {k} : stage'[l] = stage[l]
        /\ UNCHANGED <<job, runner>>
    BY <1>0, <1>3 DEF Exit, Running, SetStage, outboxVars, queueVars
  <2>2. \A e \in Event : job'[e].state = "active" /\ runner'[e] # Nobody =>
          stage'[runner'[e]] # "exited"
    BY <1>0, <2>1 DEF JobsOutliveNoCleanExit
  <2> QED BY <2>2 DEF JobsOutliveNoCleanExit
<1>4. ASSUME NEW k \in Relay, O!EnqueueJobs(relay[k].batch), UNCHANGED <<stage, runner>>
      PROVE  JobsOutliveNoCleanExit'
  <2>1. \A e \in Event : job'[e] = job[e] \/ job'[e].state = "waiting"
    BY <1>4 DEF O!EnqueueJobs, O!NewJob
  <2> QED BY <1>1, <1>4, <2>1
<1>5. ASSUME NEW e \in Event,
             Handle(e) \/ DeadLetter(e) \/ DeadLetterFails(e) \/ GiveAgain(e) \/ NoticeDies(e)
      PROVE  JobsOutliveNoCleanExit'
  <2>1. /\ \A x \in Event \ {e} : job'[x] = job[x] /\ runner'[x] = runner[x]
        /\ runner'[e] \in {runner[e], Nobody}
        /\ UNCHANGED stage
    BY <1>0, <1>5 DEF Handle, DeadLetter, DeadLetterFails, GiveAgain, NoticeDies, O!Handle,
          O!HandlerSucceeds, O!HandlerFails, O!DeadLetter, O!DeadLetterLost, O!SetJob, O!StallJob
  <2>2. job'[e].state = "active" => job[e].state = "active"
    BY <1>0, <1>5 DEF Handle, DeadLetter, DeadLetterFails, GiveAgain, NoticeDies, O!Handle,
          O!HandlerSucceeds, O!HandlerFails, O!DeadLetter, O!DeadLetterLost, O!SetJob, O!StallJob
  <2> QED BY <1>1, <2>1, <2>2
<1>6. ASSUME UNCHANGED job, UNCHANGED runner \/ \E k \in Relay : runner' = Orphaned(k),
             \/ UNCHANGED stage
             \/ \E k \in Relay, s \in State \ {"exited"} : SetStage(k, s)
      PROVE  JobsOutliveNoCleanExit'
  <2>1. \A e \in Event : runner'[e] \in {runner[e], Nobody}
    BY <1>0, <1>6 DEF Orphaned
  <2>2. \A k \in Relay : stage'[k] = "exited" => stage[k] = "exited"
    BY <1>0, <1>6 DEF SetStage
  <2> QED BY <1>1, <1>6, <2>1, <2>2
<1>7. ASSUME NEW k \in Relay,
             \/ FindRows(k) \/ FindNothing(k) \/ Mark(k) \/ WakeUp(k)
             \/ RelayStopped(k) \/ Signal(k) \/ Restart(k) \/ End(k)
      PROVE  JobsOutliveNoCleanExit'
  <2>1. UNCHANGED job
    BY <1>7 DEF FindRows, FindNothing, Mark, WakeUp, RelayStopped, Signal, Restart, End,
          O!SelectBatch, O!CommitBatch, O!queueVars, outboxVars, queueVars
  <2>2. UNCHANGED runner \/ runner' = Orphaned(k)
    BY <1>7 DEF FindRows, FindNothing, Mark, WakeUp, RelayStopped, Signal, Restart, End, lifeVars
  <2>3. UNCHANGED stage \/ \E s \in State \ {"exited"} : SetStage(k, s)
    BY <1>7 DEF FindRows, FindNothing, Mark, WakeUp, RelayStopped, Signal, Restart, End, lifeVars
  <2> QED BY <1>6, <2>1, <2>2, <2>3
<1>8. ASSUME NEW k \in Relay, Publish(k) \/ CycleFails(k) \/ LastWords(k)
      PROVE  JobsOutliveNoCleanExit'
  <2>1. UNCHANGED <<stage, runner>>
    BY <1>8 DEF Publish, CycleFails, LastWords, lifeVars
  <2>2. O!EnqueueJobs(relay[k].batch) \/ UNCHANGED job
    BY <1>8 DEF Publish, CycleFails, LastWords, SelectFails, O!AddBulkReplyLost, O!RelayFails,
          O!CommitBatch, O!queueVars, queueVars
  <2> QED BY <1>4, <1>6, <2>1, <2>2
<1>9. ASSUME UNCHANGED vars \/ \E e \in Event : Record(e) PROVE JobsOutliveNoCleanExit'
  BY <1>6, <1>9 DEF Record, vars, outboxVars, queueVars, lifeVars
<1>10. ASSUME NEW k \in Relay, ProcessStep(k) \/ Signal(k) \/ FaultStep(k)
       PROVE  JobsOutliveNoCleanExit'
  BY <1>3, <1>7, <1>8, <1>10
     DEF ProcessStep, LoopStep, ShutdownStep, FaultStep, ForcedExit, Crash
<1>11. ASSUME NEW e \in Event,
              JobStep(e) \/ DeadLetter(e) \/ DeadLetterFails(e) \/ NoticeDies(e) \/ Record(e)
       PROVE  JobsOutliveNoCleanExit'
  BY <1>2, <1>5, <1>9, <1>11 DEF JobStep
<1> QED BY <1>9, <1>10, <1>11 DEF Next

\* With every process up, nothing is held and no job is anybody's.
LEMMA WorkerInit == Init => WorkerInv
<1> SUFFICES ASSUME Init PROVE WorkerInv
  OBVIOUS
<1> USE BatchAssumption, AttemptsAssumption, FaultsAssumption
<1>1. P!Init
  BY DEF Init, O!Init, P!Init, O!Resting, P!Resting, O!NewJob, P!NewJob
<1>2. P!TablesInv
  BY <1>1, P!OutboxInit DEF P!OutboxInv
<1>3. LifeTypes
  BY SignalsAssumption DEF Init, LifeTypes
<1>4. LoopHoldsRows
  BY DEF Init, O!Init, O!Resting, LoopHoldsRows
<1>5. JobsOutliveNoCleanExit
  BY DEF Init, JobsOutliveNoCleanExit
<1> QED BY <1>2, <1>3, <1>4, <1>5 DEF WorkerInv, LifeInv

-----------------------------------------------------------------------------
(* What the worker guarantees *)

\* The inductive invariant holds in every behaviour of the processes.
THEOREM WorkerInvariant == Spec => []WorkerInv
<1>1. WorkerInv /\ [Next]_vars => WorkerInv'
  BY TablesKept, LifeKept, ExitsStayClean DEF WorkerInv
<1> QED BY WorkerInit, <1>1, PTL DEF Spec

\* The tables, the queue and the processes stay well typed.
THEOREM WorkerTypeCorrect == Spec => []TypeOK
<1>1. WorkerInv => TypeOK
  BY DEF WorkerInv, P!TablesInv, P!TypeOK, LifeInv, LifeTypes, TypeOK, O!TypeOK,
         O!RowState, P!RowState, O!JobState, P!JobState
<1> QED BY <1>1, WorkerInvariant, PTL

\* Once relay.stop() has resolved no transaction of the process holds rows of the
\* outbox: closing relayDb cuts no batch in two.
THEOREM StopCompletesBatch == Spec => []StopWaitsForBatch
<1>1. WorkerInv => StopWaitsForBatch
  BY DEF WorkerInv, LifeInv, LoopHoldsRows, StopWaitsForBatch
<1> QED BY <1>1, WorkerInvariant, PTL

\* A process that exits by itself leaves no job in progress behind.
THEOREM CleanExitLeavesNoJob == Spec => []JobsOutliveNoCleanExit
<1>1. WorkerInv => JobsOutliveNoCleanExit
  BY DEF WorkerInv
<1> QED BY <1>1, WorkerInvariant, PTL

\* The promises of the outbox: batches are disjoint, nothing is published before its
\* commit, what is marked was given to the queue, which has one job of it, and dead
\* letters are final.  That none is dropped without a fault is not among them: a clean
\* exit awaits no deadLetter.add().
OutboxSafe ==
    /\ O!DisjointBatches
    /\ O!NothingBeforeCommit
    /\ O!PublishedHasJob
    /\ O!OneJobPerEvent
    /\ O!DeadLetterIsFinal

\* Signals, kills, the last statements of dead connections and restarts of processes
\* in main.ts break none of them.
THEOREM WorkersKeepOutboxSafe == Spec => []OutboxSafe
<1>1. ASSUME WorkerInv PROVE OutboxSafe
  <2>1. /\ P!TypeOK /\ P!DisjointBatches /\ P!NothingBeforeCommit /\ P!PublishedHasJob
        /\ P!JobsAreCounted /\ P!DeadLetterIsFinal
    BY <1>1 DEF WorkerInv, P!TablesInv
  <2>2. O!DisjointBatches /\ O!DeadLetterIsFinal
    BY <2>1 DEF O!DisjointBatches, P!DisjointBatches, O!DeadLetterIsFinal, P!DeadLetterIsFinal
  <2>3. O!NothingBeforeCommit /\ O!PublishedHasJob
    BY <2>1 DEF O!NothingBeforeCommit, P!NothingBeforeCommit, O!PublishedHasJob,
                P!PublishedHasJob, O!Given, P!Given, O!Committed, P!Committed
  <2>4. O!OneJobPerEvent
    BY <2>1 DEF O!OneJobPerEvent, P!TypeOK, P!JobsAreCounted
  <2> QED BY <2>2, <2>3, <2>4 DEF OutboxSafe
<1>2. WorkerInv => OutboxSafe
  BY <1>1
<1> QED BY <1>2, WorkerInvariant, PTL

-----------------------------------------------------------------------------
(* The worker implements the promise of EventDelivery *)

\* Each step of the worker commits an event, gives the queue a batch of committed
\* events, or changes nothing that the promise speaks of.
LEMMA PromiseStep == ASSUME WorkerInv, [Next]_vars PROVE [P!Promise!Next]_(P!Promise!vars)
<1> DEFINE Goal == [P!Promise!Next]_(P!Promise!vars)
<1> USE BatchAssumption, AttemptsAssumption, FaultsAssumption
<1>0. P!TablesInv
  BY DEF WorkerInv
<1>1. ASSUME OutboxStep PROVE Goal
  BY <1>0, <1>1, TakenFromOutbox, P!PromiseStep
<1>2. ASSUME UNCHANGED <<outbox, job, created>> PROVE Goal
  BY <1>0, <1>2, P!PromiseOfLeftBehind
<1>3. ASSUME NEW e \in Event, Record(e) PROVE Goal
  <2>1. /\ outbox[e] = "none" /\ outbox' = [outbox EXCEPT ![e] = "pending"]
        /\ UNCHANGED <<job, created>>
    BY <1>3 DEF Record, queueVars
  <2> QED BY <1>0, <2>1, P!PromiseOfRecord
<1>4. ASSUME NEW k \in Relay, O!EnqueueJobs(relay[k].batch), UNCHANGED outbox PROVE Goal
  <2>1. P!EnqueueJobs(relay[k].batch)
    BY <1>4 DEF O!EnqueueJobs, P!EnqueueJobs, O!NewJobs, P!NewJobs, O!NewJob, P!NewJob
  <2> QED BY <1>0, <1>4, <2>1, P!PromiseOfEnqueue
<1>5. ASSUME NEW k \in Relay, LastWords(k) PROVE Goal
  <2>1. CASE O!CommitBatch(k)
    BY <1>1, <2>1 DEF OutboxStep
  <2>2. CASE O!EnqueueJobs(relay[k].batch) /\ UNCHANGED outbox
    BY <1>4, <2>2
  <2>3. CASE UNCHANGED <<outbox, queueVars>>
    BY <1>2, <2>3 DEF queueVars
  <2> QED BY <1>5, <2>1, <2>2, <2>3 DEF LastWords
<1>6. ASSUME NEW e \in Event, GiveAgain(e) PROVE Goal
  <2>1. P!StallJob(e) /\ UNCHANGED <<outbox, created>>
    BY <1>6 DEF GiveAgain, O!StallJob, P!StallJob
  <2> QED BY <1>0, <2>1, P!PromiseOfLeftBehind
<1>7. ASSUME NEW k \in Relay, Publish(k) PROVE Goal
  BY <1>4, <1>7 DEF Publish
<1>8. ASSUME NEW k \in Relay,
             FindRows(k) \/ Mark(k) \/ CycleFails(k) \/ (\E e \in Event : Take(k, e))
      PROVE  Goal
  BY <1>1, <1>2, <1>8 DEF FindRows, Mark, CycleFails, SelectFails, Take, OutboxStep, queueVars
<1>9. ASSUME NEW e \in Event, Handle(e) \/ DeadLetter(e) \/ DeadLetterFails(e) PROVE Goal
  BY <1>1, <1>9 DEF Handle, DeadLetter, DeadLetterFails, OutboxStep
<1>10. ASSUME NEW k \in Relay,
              FindNothing(k) \/ WakeUp(k) \/ Signal(k) \/ ShutdownStep(k) \/ Restart(k) \/ End(k)
       PROVE  Goal
  BY <1>2, <1>10
     DEF FindNothing, WakeUp, Signal, ShutdownStep, RelayStopped, Exit, Restart, End,
         outboxVars, queueVars
<1>11. ASSUME NEW e \in Event, NoticeDies(e) PROVE Goal
  BY <1>2, <1>11 DEF NoticeDies
<1>12. CASE UNCHANGED vars
  BY <1>2, <1>12 DEF vars, outboxVars, queueVars
<1>13. ASSUME NEW k \in Relay, ProcessStep(k) \/ Signal(k) \/ FaultStep(k) PROVE Goal
  BY <1>5, <1>7, <1>8, <1>10, <1>13 DEF ProcessStep, LoopStep, FaultStep, ForcedExit, Crash
<1>14. ASSUME NEW e \in Event,
              JobStep(e) \/ DeadLetter(e) \/ DeadLetterFails(e) \/ NoticeDies(e) \/ Record(e)
       PROVE  Goal
  BY <1>3, <1>6, <1>8, <1>9, <1>11, <1>14 DEF JobStep
<1> QED BY <1>12, <1>13, <1>14 DEF Next

\* Outbox and Worker instantiate the promise alike.
LEMMA SamePromise ==
    /\ O!Init => O!Promise!Init
    /\ [P!Promise!Next]_(P!Promise!vars) => [O!Promise!Next]_(O!Promise!vars)
<1>1. O!Init => O!Promise!Init
  BY DEF O!Init, O!NewJob, O!Promise!Init, O!Committed, O!Given
<1>2. [P!Promise!Next]_(P!Promise!vars) => [O!Promise!Next]_(O!Promise!vars)
  BY DEF O!Promise!Next, P!Promise!Next, O!Promise!Record, P!Promise!Record, O!Promise!Deliver,
         P!Promise!Deliver, O!Promise!vars, P!Promise!vars, O!Committed, P!Committed,
         O!Given, P!Given
<1> QED BY <1>1, <1>2

\* Through signals, kills and restarts the workers do only what EventDelivery
\* allows: they give the queue nothing but events whose transaction committed.
THEOREM WorkersDeliverOnlyWhatIsRecorded ==
    Spec => O!Promise!Init /\ [][O!Promise!Next]_(O!Promise!vars)
<1>1. Init => O!Promise!Init
  BY SamePromise DEF Init
<1>2. WorkerInv /\ [Next]_vars => [O!Promise!Next]_(O!Promise!vars)
  BY PromiseStep, SamePromise
<1> QED BY <1>1, <1>2, WorkerInvariant, PTL DEF Spec
=============================================================================
