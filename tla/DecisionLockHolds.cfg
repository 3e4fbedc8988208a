\* Three records, each with its consolidation process, under a lock nobody outlasts; nobody reviews or syncs.
CONSTANTS
    Recorded = {d1, d2}
    Minted = {m1}
    Homeless = {}
    Jobs = {j1, j2, j3}
    Reviewers = {}
    Syncers = {}
    Hearsay = {d2}
    NoOne = NoOne
    Mortal = TRUE
    LLMFails = FALSE
    Slow = FALSE
    Impatient = {}
    Killable = {}
SPECIFICATION Spec
PROPERTIES
    ConsolidationPreserves
CHECK_DEADLOCK FALSE
