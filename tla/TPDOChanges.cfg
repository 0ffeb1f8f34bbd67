SPECIFICATION FairSpec
CONSTANTS
    a = a
    b = b
    unknown = unknown
    predefinedId = predefinedId
    otherId = otherId
    Var = {a, b, unknown}
    Known = {a, b}
    Value = {0, 1}
    CanId = {predefinedId}
    DefaultId = predefinedId
    Predefined = FALSE
    Mappings <- KnownMappings
    Types = {0, 2, 255}
    Timed = {TRUE, FALSE}
    Online = {}
    MaxDivider = 2
INVARIANTS
    NoChangeLost
    CobIdPublished
PROPERTIES
    ChangeReachesBus
