SPECIFICATION Spec
CONSTANTS
    Conns = {c1, c2, c3}
    Workers = {w1, w2, w3}
    MaxIdle = 2
    Schemas = {public, sales}
    ServerDefault = public
    ReadOnly = TRUE
    Pinned = NoSchema
    NoSchema = NoSchema
    MaxPicks = 1
INVARIANTS
    SettingsOnFirst
