\* Three records, each with its consolidation process, under a lock that is stolen and outwaited.
CONSTANTS
    Recorded = {d1, d2}
    Minted = {}
    Homeless = {}
    Jobs = {j1, j2, j3}
    Reviewers = {}
    Syncers = {}
    Hearsay = {d1, d2}
    NoOne = NoOne
    Mortal = FALSE
    LLMFails = FALSE
    Slow = TRUE
    Impatient = {j1, j2}
    Killable = {}
SPECIFICATION FairSpec
PROPERTIES
    EveryDraftConsolidated
CHECK_DEADLOCK FALSE
