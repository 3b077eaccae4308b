SPECIFICATION Spec
CONSTANTS
    Keys = {k1}
    Convs = {c0, c1}
    Kinds = {claude, other}
    Workers = {w1, w2}
    OldConv = c0
    FilterExternal = TRUE
    Nil = nil
    MaxSessions = 2
    MaxRestarts = 1
SYMMETRY StoreSymmetry
INVARIANTS IdsNeverReused DiskFollows
PROPERTIES KnownKept
