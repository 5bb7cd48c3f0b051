\* A removal that cannot delete a proxy entity.
SPECIFICATION Spec
CONSTANTS
    s1 = s1
    s2 = s2
    image = image
    dock = dock
    scene = scene
    group = group
    page = page
    lamp = lamp
    fan = fan
    on = on
    dim = dim
    Snapshots = {s1, s2}
    Items = {image, dock, scene, group, page}
    Kind <- MCKind
    Carries <- MCCarries
    Entities = {lamp, fan}
    Capabilities = {on, dim}
    Caps <- MCCaps
    MaxCopies = 2
    Prune = TRUE
    VerifyHashes = FALSE
    Inhibitor = TRUE
    Limits <- MCLimits
    None = None
    Base = Base
    Removal = Removal
CHECK_DEADLOCK FALSE
PROPERTIES
    UndeletedStaysTracked
