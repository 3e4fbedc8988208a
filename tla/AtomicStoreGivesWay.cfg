\* Two writers, one of which may crash, live holders that outlast the stale age, a reader, any initial file.
CONSTANTS
    Writers = {w1, w2}
    Readers = {r1}
    NoOne = NoOne
    MaxUpdates = 1
    MaxCrashes = 1
    StaleAge = 1
    MaxWait = 2
    Stalls = TRUE
    Faults = {"open", "steal", "link", "write"}
    InitialKinds = {"absent", "torn", "whole"}
SPECIFICATION FairSpec
INVARIANTS
    FailedWriteNotKept
PROPERTIES
    EveryCallReturns
CHECK_DEADLOCK FALSE
