\* Two disturbances, then quiet: an edit with a request, or an edit or a failure with
\* a recoverable failure or with a restart or reconfiguration.
SPECIFICATION MCFairSpec
CONSTANTS
    p1 = p1
    Peers = {p1}
    NumSections = 1
    Values <- MCValues
    Edits <- Forward
    Outcomes <- AllButPartial
    AutoSync = TRUE
    Limits <- RecoveryLimits
    None = None
    Undefined = Undefined
    Mixed = Mixed
INVARIANTS
    TypeOK
PROPERTIES
    Convergence
    OnlyFailuresStrand
\* A reconfiguration may wait for ever, for a late watcher.
CHECK_DEADLOCK FALSE
