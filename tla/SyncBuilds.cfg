\* Torn builds, events, requests and restarts; no Satellite is needed for that.
SPECIFICATION MCSpec
CONSTANTS
    p1 = p1
    Peers = {}
    NumSections = 2
    Values <- MCValues
    Edits <- Back
    Outcomes <- AllOutcomes
    AutoSync = TRUE
    Limits <- BuildLimits
    None = None
    Undefined = Undefined
    Mixed = Mixed
INVARIANTS
    SnapshotCoverage
PROPERTIES
    ClearedMeansCurrent
\* A reconfiguration may wait for ever, for a late watcher.
CHECK_DEADLOCK FALSE
