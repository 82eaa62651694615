SPECIFICATION Spec
CONSTANTS
    c1 = c1
    c2 = c2
    k1 = k1
    NoKey = NoKey
    Calls <- MCCalls
    Keys <- MCKeys
    Requests <- MCRequests
    MaxBookings = 2
    MaxVersion = 3
    MaxCreations = 3
    MaxFaults = 1
SYMMETRY Symmetry
INVARIANTS
    IdempotentCreation
    StuckOnlyByFailure
    StaleOnlyIfOvertaken
CHECK_DEADLOCK FALSE
