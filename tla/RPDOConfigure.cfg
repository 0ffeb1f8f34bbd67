SPECIFICATION Spec
CONSTANTS
    a = a
    b = b
    unknown = unknown
    predefinedId = predefinedId
    otherId = otherId
    sdoId = sdoId
    Var = {a, b, unknown}
    Known = {a, b}
    Value = {0, 1}
    CanId = {predefinedId, otherId, sdoId}
    DefaultId = predefinedId
    Predefined = TRUE
    Mappings <- MCMappings
    ForeignId = {sdoId}
    Types = {1, 255}
    Messages <- MCMessages
    InRange <- Bounded
    Rejected <- Objected
    Careless = {}
INVARIANTS
    TypeOK
    SubscriptionLedger
    SyncLedger
PROPERTIES
    OthersKept
    OnlyMappedChange
