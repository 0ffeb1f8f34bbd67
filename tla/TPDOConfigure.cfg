SPECIFICATION Spec
CONSTANTS
    a = a
    b = b
    unknown = unknown
    predefinedId = predefinedId
    otherId = otherId
    Var = {a, b, unknown}
    Known = {a, b}
    Value = {0, 1}
    CanId = {predefinedId, otherId}
    DefaultId = predefinedId
    Predefined = TRUE
    Mappings <- AllMappings
    Types = {0, 2, 255}
    Timed = {TRUE, FALSE}
    Online = {"type", "inhibit"}
    MaxDivider = 2
INVARIANTS
    TypeOK
    WatchLedger
    CacheIsCurrent
    ActiveIsUsable
PROPERTIES
    FramesAreCurrent
    InhibitTimeKept
