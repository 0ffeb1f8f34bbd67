SPECIFICATION Spec
CONSTANTS
    a = a
    b = b
    unknown = unknown
    predefinedId = predefinedId
    otherId = otherId
    Var = {a, b, unknown}
    Known = {a, b}
    Value = {0, 1}
    CanId = {predefinedId}
    DefaultId = predefinedId
    Predefined = TRUE
    Mappings <- KnownMappings
    Types = {3, 255}
    Timed = {FALSE}
    Online = {}
    MaxDivider = 3
PROPERTIES
    EveryNthSync
