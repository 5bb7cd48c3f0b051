\* Three calls of any kinds that share a session, or a watcher, with lost
\* sessions, refused connections and timeouts.
SPECIFICATION CoreFairSpec
CONSTANTS
    first = first
    second = second
    third = third
    Calls = {first, second, third}
    Programs <- MCPrograms
    MaxProbes = 2
CHECK_DEADLOCK FALSE
INVARIANTS
    CoreTypeOK
    SharesOneSession
    SentOnce
PROPERTIES
    CallsEnd
    SessionIsReturned
    WatcherReturns
    WatcherEnds
