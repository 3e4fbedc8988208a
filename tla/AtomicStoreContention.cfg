\* Three writers and two readers; nobody crashes, the store starts absent or whole.
CONSTANTS
    Writers = {w1, w2, w3}
    Readers = {r1, r2}
    NoOne = NoOne
    MaxUpdates = 2
    MaxCrashes = 0
    StaleAge = 1
    MaxWait = 2
    Stalls = FALSE
    Faults = {"open", "write"}
    InitialKinds = {"absent", "whole"}
SPECIFICATION Spec
SYMMETRY Interchangeable
INVARIANTS
    TypeOK
    MutualExclusion
    NoAckedWriteLost
PROPERTIES
    ReadsMoveForward
    KeepsPromise
CHECK_DEADLOCK FALSE
