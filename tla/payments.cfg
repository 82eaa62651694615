SPECIFICATION FairSpec
CONSTANTS
    h1 = h1
    h2 = h2
    Handlers <- TwoHandlers
    MaxCalls = 2
    MaxFaults = 1
    MaxRefusals = 1
INVARIANTS
    EventsAreBacked
    OneEventPerNotice
    OnePayableOrder
    OneVerdict
PROPERTIES
    PaidIsConfirmed
CHECK_DEADLOCK FALSE
