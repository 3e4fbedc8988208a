\* Two writers, either or both of which may crash anywhere; the store may start torn.
CONSTANTS
    Writers = {w1, w2}
    Readers = {}
    NoOne = NoOne
    MaxUpdates = 2
    MaxCrashes = 2
    StaleAge = 1
    MaxWait = 2
    Stalls = FALSE
    Faults = {"open", "steal", "read", "unlink", "write"}
    InitialKinds = {"absent", "torn", "whole"}
SPECIFICATION Spec
SYMMETRY Interchangeable
INVARIANTS
    MutualExclusion
    NoAckedWriteLost
CHECK_DEADLOCK FALSE
