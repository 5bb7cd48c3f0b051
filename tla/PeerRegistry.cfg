\* An addition and two operations of any kind of the Primary, or three that change
\* tokens, of either side, under way in any order, on no or two known Satellites.
SPECIFICATION RegistrySpec
CONSTANTS
    a = a
    b = b
    Sats = {a, b}
    Tasks = {1, 2, 3}
    Programs <- MCPrograms
    Registries <- MCRegistries
    MaxFaults = 1
    Nothing = Nothing
CHECK_DEADLOCK FALSE
INVARIANTS
    RegistryTypeOK
    ChangesAreKept
    CredentialsAgree
