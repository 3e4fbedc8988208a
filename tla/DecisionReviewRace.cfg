\* One record, its consolidation, and a reviewer who approves meanwhile.
CONSTANTS
    Recorded = {d1}
    Minted = {m1}
    Homeless = {}
    Jobs = {j1}
    Reviewers = {r1}
    Syncers = {}
    Hearsay = {}
    NoOne = NoOne
    Mortal = FALSE
    LLMFails = FALSE
    Slow = FALSE
    Impatient = {}
    Killable = {}
SPECIFICATION Spec
PROPERTIES
    ConsolidationPreserves
CHECK_DEADLOCK FALSE
