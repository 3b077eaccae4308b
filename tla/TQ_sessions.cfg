SPECIFICATION Spec
CONSTANTS
    Msgs = {m1, m2}
    Beats = {}
    Resets = {m1, m2}
    Stops = {}
    News = {n1}
    Reapers = {}
    Compressors = {c1}
    FirstSession = x0
    Boot = boot
    NoState = nil
    NoMsg = none
    MaxQueued = 1
    MaxHandlers = 1
    MaxCommands = 2
    Warm = TRUE
    Faults = {"compress", "sendfail", "error", "ask"}
SYMMETRY MsgSymmetry
INVARIANTS DeliveredOnce
