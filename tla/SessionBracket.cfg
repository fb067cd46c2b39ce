SPECIFICATION Spec
CONSTANTS
    Plans <- ReadPlans
    Reg <- Regs
    B = 2
    MaxFaults = 0
INVARIANT BracketClosed
CHECK_DEADLOCK FALSE
