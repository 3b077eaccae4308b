SPECIFICATION Spec
CONSTANTS
    Names = {p1, p2}
    Globals = {p1}
    Refs <- MCRefs
    Thinking = {p1}
    Models = {m1, m2}
    Chats = {c1, c2}
    Workers = {w1}
    MaxEdits = 1
    None = None
SYMMETRY ProvidersSymmetry
INVARIANTS TypeOK SettingsRestored ProxyOfActive SwitchReaches
