SPECIFICATION FairSpec
CONSTANTS
    SIZE = 3
    BUFLEN = 2
    RETRIES = 2
    Chunk <- Chunks
    MaxNote = 3
    MaxOpen = 2
INVARIANTS TypeOK InsideData LockUnusedAtDestroy
PROPERTIES ImplementsBuffer AnswersFresh ReadReturns JoinReturns
CHECK_DEADLOCK FALSE
