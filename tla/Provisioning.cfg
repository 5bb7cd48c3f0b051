\* One remote and one Primary; four keys, three disturbances.
SPECIFICATION ProvisioningFairSpec
CONSTANTS
    MaxKeys = 4
    MaxErrors = 1
    MaxTroubles = 3
    Calls = {c1, c2}
CHECK_DEADLOCK FALSE
INVARIANTS
    ProvisioningTypeOK
    KeysInUseExist
    KeysAccounted
PROPERTIES
    JobEnds
