SPECIFICATION Spec
CONSTANTS
    Proc = {p1, p2}
    LockAfter = 1
    LockMax = 1
    MaxTime = 2
    MaxFailures = 2
    MaxSecrets = 2
    MaxConfirms = 2
SYMMETRY Symmetry
INVARIANT ConfirmedSecretWasProved
CHECK_DEADLOCK FALSE
