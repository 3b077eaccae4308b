SPECIFICATION Spec
CONSTANTS
    Unset = Unset
    Configs <- MCConfigs
    Sends = {TRUE, FALSE}
    MaxEvents <- MCMaxEvents
    MaxSwitches = 1
    MaxSide = 1
CHECK_DEADLOCK FALSE
INVARIANTS TypeOK InOrder AllSaid DisplayKept
