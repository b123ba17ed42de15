CONSTANTS
    CostLimits <- MCCostLimits
    BurnCosts = {20000}
    CopyLengths = {0, 1, 31, 32, 33, 64, 65}
    MaxOps = 3

SPECIFICATION Spec
INVARIANT CallNeverPaysCaller
