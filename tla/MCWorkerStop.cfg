SPECIFICATION Spec
CONSTANTS
    e1 = e1
    e2 = e2
    Event = {e1, e2}
    Drawn <- InOrder
    Relay = {k1, k2}
    BatchSize = 1
    MaxAttempts = 2
    MaxFaults = 0
    Signalled = {k1}
    MaxSignals = 1
    Nobody = Nobody
INVARIANT StopWaitsOnlyForBatch
CHECK_DEADLOCK FALSE
