SPECIFICATION LoopFairSpec
CONSTANT MaxRound = 4
PROPERTIES DeliveredWhole LoopGoesOn
CHECK_DEADLOCK FALSE
