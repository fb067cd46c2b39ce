SPECIFICATION FairSpec
CONSTANTS
    HEAD = 2
    TEMPS = 2
    CELLS = 2
    TAIL = 1
    PER = 2
    RETRIES = 1
    STRINGS = 3
    PROBES = 2
    MaxFaults = 2
    MaxPeer = 1
INVARIANTS TypeOK InfoComplete
PROPERTIES BusLeftAlone GetReturns
CHECK_DEADLOCK FALSE
