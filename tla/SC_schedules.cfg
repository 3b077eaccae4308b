SPECIFICATION FairSpec
CONSTANTS
    Jobs = {j1}
    Exprs = {x1, x2}
    Admins = {a1, a2}
    Runs = {r1}
    Ids = {1, 2, 3}
    MaxOps = 2
    OpsBeside = 0
    Beats = {b1, b2}
    Intervals = {30, 60}
    Configured = 30
    NoFile = NoFile
    Torn = Torn
    Nil = Nil
INVARIANTS  ScheduledIfAlone OneHolder RestartNeutral
PROPERTIES RunsSettle HeartbeatGoesOn
