\* Operations that restart the services, and a removal, that wait for each other.
SPECIFICATION RegistryFairSpec
CONSTANTS
    a = a
    b = b
    Sats = {a, b}
    Tasks = {1, 2, 3}
    Programs <- MCRestartPrograms
    Registries <- MCRegistries
    MaxFaults = 1
    Nothing = Nothing
CHECK_DEADLOCK FALSE
PROPERTIES
    RestartsEnd
