\* One record and its consolidation, a reviewer, and a sync that loads before the review and commits after it.
CONSTANTS
    Recorded = {d1}
    Minted = {m1}
    Homeless = {}
    Jobs = {j1}
    Reviewers = {r1}
    Syncers = {s1}
    Hearsay = {}
    NoOne = NoOne
    Mortal = FALSE
    LLMFails = FALSE
    Slow = FALSE
    Impatient = {}
    Killable = {}
SPECIFICATION Spec
PROPERTIES
    SyncPreserves
CHECK_DEADLOCK FALSE
