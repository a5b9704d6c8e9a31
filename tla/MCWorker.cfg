SPECIFICATION FairSpec
CONSTANTS
    e1 = e1
    e2 = e2
    Event = {e1, e2}
    Drawn <- InOrder
    Relay = {k1, k2}
    BatchSize = 1
    MaxAttempts = 2
    MaxFaults = 1
    Signalled = {k1}
    MaxSignals = 1
    Nobody = Nobody
INVARIANTS TypeOK StopWaitsForBatch JobsOutliveNoCleanExit
PROPERTIES ShutdownEnds ImplementsDelivery EventuallyPublished EventuallySettled
CHECK_DEADLOCK FALSE
