\* Three writers, one of which crashes while it holds the lock.
CONSTANTS
    Writers = {w1, w2, w3}
    Readers = {}
    NoOne = NoOne
    MaxUpdates = 1
    MaxCrashes = 1
    StaleAge = 1
    MaxWait = 2
    Stalls = FALSE
    Faults = {}
    InitialKinds = {"absent"}
SPECIFICATION Spec
SYMMETRY Interchangeable
INVARIANT NoAckedWriteLost
CHECK_DEADLOCK FALSE
