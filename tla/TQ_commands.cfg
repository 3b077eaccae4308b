SPECIFICATION FairSpec
CONSTANTS
    Msgs = {m1, m2}
    Beats = {}
    Resets = {}
    Stops = {s1}
    News = {}
    Reapers = {r1}
    Compressors = {}
    FirstSession = x0
    Boot = boot
    NoState = nil
    NoMsg = none
    MaxQueued = 1
    MaxHandlers = 2
    MaxCommands = 1
    Warm = FALSE
    Faults = {"die", "replyfail", "startfail", "idle", "ask"}
INVARIANTS QueueBooks SingleReader LiveAgentReachable
PROPERTIES OneOutcome KeepsDesk SessionReleased
