\* Delayed, lost and timed-out pushes, a snapshot's state, a press, a restart.
SPECIFICATION Spec
CONSTANTS
    a = a
    b = b
    None = None
    Order <- One
    MaxTasks = 2
    Stateless = TRUE
    Limits <- OrderLimits
INVARIANTS
    TypeOK
    NewestApplied
PROPERTIES
    VersionsAdvance
CONSTRAINT OneFault
\* Once its disturbances are used up, the system comes to rest.
CHECK_DEADLOCK FALSE
