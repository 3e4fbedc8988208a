\* One writer and one lock-free reader on a store that starts torn; no crash.
CONSTANTS
    Writers = {w1}
    Readers = {r1}
    NoOne = NoOne
    MaxUpdates = 1
    MaxCrashes = 0
    StaleAge = 1
    MaxWait = 2
    Stalls = FALSE
    Faults = {}
    InitialKinds = {"torn"}
SPECIFICATION Spec
INVARIANT NoAckedWriteLost
CHECK_DEADLOCK FALSE
