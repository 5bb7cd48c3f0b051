\* Two Satellites, up to four changes at the Primary and a press.
SPECIFICATION Spec
CONSTANTS
    a = a
    b = b
    None = None
    Order <- Two
    MaxTasks = 2
    Stateless = FALSE
    Limits <- AgreementLimits
INVARIANTS
    Agreement
    NoEcho
PROPERTIES
    OlderNeverOverwrites
    OnlyOlderIsIgnored
CONSTRAINT SharingIsBounded
\* Once its disturbances are used up, the system comes to rest.
CHECK_DEADLOCK FALSE
