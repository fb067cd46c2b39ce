SPECIFICATION Spec
CONSTANTS
    Plans <- DumpPlans
    Reg <- Regs
    B = 2
    MaxFaults = 0
INVARIANT SettingsRoundTrip
CHECK_DEADLOCK FALSE
