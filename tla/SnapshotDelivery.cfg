\* Pushes that overlap, over a network that loses answers, to a Satellite that
\* sleeps, moves or dies.
SPECIFICATION DeliveryFairSpec
CONSTANTS
    sync = sync
    retry = retry
    old = old
    new = new
    home = home
    away = away
    Snapshots = {old, new}
    Pushes = {sync, retry}
    Addresses = {home, away}
    SavedAddress = home
    HasMac = TRUE
    Restarts = TRUE
    Descriptors <- MCDescriptors
    MaxTries = 3
    Limits <- MCLimits
    Parts = {part}
    part = part
    Nothing = Nothing
    Removal = Removal
CHECK_DEADLOCK FALSE
INVARIANTS
    DeliveryTypeOK
    SuccessWasApplied
PROPERTIES
    PushEnds
    SleeperIsReached
