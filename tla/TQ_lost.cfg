SPECIFICATION Spec
CONSTANTS
    Msgs = {m1, m2}
    Beats = {}
    Resets = {}
    Stops = {}
    News = {}
    Reapers = {}
    Compressors = {}
    FirstSession = x0
    Boot = boot
    NoState = nil
    NoMsg = none
    MaxQueued = 2
    MaxHandlers = 1
    MaxCommands = 0
    Warm = FALSE
    Faults = {}
INVARIANTS NoMessageStranded
