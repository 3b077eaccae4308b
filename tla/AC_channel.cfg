SPECIFICATION FairSpec
CONSTANTS
    Turns = {1, 2}
    Jobs = {j1}
    Commands = {c1}
    Askers = {j1}
    Faults = {"slowreader"}
    ChanCap = 1
    Nil = nil
CHECK_DEADLOCK FALSE
INVARIANTS TypeOK AnsweredOnce PoolBalanced
PROPERTIES AgentClosed
