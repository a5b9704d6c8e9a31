SPECIFICATION Spec
CONSTANTS
    Event = {e1, e2, e3}
    Relay = {k1, k2}
    BatchSize = 2
    MaxAttempts = 2
    MaxFaults = 2
SYMMETRY Symmetry
INVARIANTS TypeOK DisjointBatches NothingBeforeCommit PublishedHasJob OneJobPerEvent
    DeadLetteredUnlessFault DeadLetterIsFinal
CHECK_DEADLOCK FALSE
