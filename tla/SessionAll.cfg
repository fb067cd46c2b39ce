SPECIFICATION Spec
CONSTANTS
    Plans <- AllPlans
    Reg <- Regs
    B = 2
    MaxFaults = 2
INVARIANTS AppliedInOrder CleanExit FetsAsRequested OtherFetKept
PROPERTY WritesInsideBracket
CHECK_DEADLOCK FALSE
