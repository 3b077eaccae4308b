SPECIFICATION FairSpec
CONSTANTS
    Sources = {a}
    Relays = {r1, r2}
    Turns = {t1, t2}
    None = None
CHECK_DEADLOCK FALSE
INVARIANTS TypeOK ChatEnv
PROPERTIES RequestsEnd
