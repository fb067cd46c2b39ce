SPECIFICATION FairSpec
CONSTANTS
    N = 4
    Reg <- Regs
    Script <- EditScript
    RETRIES = 2
    ClearOnWrite = FALSE
    MaxFaults = 1
INVARIANTS TypeOK AnswersSameRegister GenuineSuccess SettledBySuccess AtMostRetries
PROPERTIES ImplementsRpc CallReturns
CHECK_DEADLOCK FALSE
