SPECIFICATION FairSpec
CONSTANTS
    Msgs = {m1, m2, m3, m4}
    Beats = {m4}
    Resets = {}
    Stops = {}
    News = {}
    Reapers = {}
    Compressors = {}
    FirstSession = x0
    Boot = boot
    NoState = nil
    NoMsg = none
    MaxQueued = 1
    MaxHandlers = 1
    MaxCommands = 0
    Warm = TRUE
    Faults = {"error", "ask"}
INVARIANTS TurnExclusion NoMessageStranded NoOvertaking
PROPERTIES MessagesSettle
