SPECIFICATION FairSpec
CONSTANTS
    Requests <- Asked
    Data <- BmsData
    Options <- Opts
    BUFLEN = 10
    PKTSIZE = 256
    Noise <- Damaged
    Err = Err
    MaxAsk = 2
    MaxOpen = 2
    MaxFaults = 1
INVARIANTS TypeOK AcceptedIsReply
PROPERTIES ImplementsStream ReadReturns
CHECK_DEADLOCK FALSE
