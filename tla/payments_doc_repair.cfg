SPECIFICATION Spec
CONSTANTS
    h1 = h1
    h2 = h2
    Handlers <- TwoHandlers
    MaxCalls = 2
    MaxFaults = 1
    MaxRefusals = 1
INVARIANT SuccessIsRepairable
CHECK_DEADLOCK FALSE
