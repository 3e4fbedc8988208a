\* Records, consolidations, a reviewer and a syncer, all at once, over a lock that gives way.
CONSTANTS
    Recorded = {d1}
    Minted = {m1}
    Homeless = {m1}
    Jobs = {j1, j2}
    Reviewers = {r1}
    Syncers = {s1}
    Hearsay = {d1, m1}
    NoOne = NoOne
    Mortal = TRUE
    LLMFails = TRUE
    Slow = FALSE
    Impatient = {}
    Killable = {j1, j2}
SPECIFICATION Spec
SYMMETRY Interchangeable
INVARIANTS
    TypeOK
    SpecsOnlyApproved
PROPERTIES
    DraftsNeverVanish
    SyncAgreesWithSpecs
CHECK_DEADLOCK FALSE
