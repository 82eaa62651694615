SPECIFICATION FairSpec
CONSTANTS
    w1 = w1
    w2 = w2
    NumEvents = 3
    Workers <- TwoLoops
    Services <- MCServices
    TopicOf <- BookingEvents
    Serves <- TwoLoopsServe
    Malformed <- LastMalformed
    BatchSize = 2
    MaxRetries = 2
    MaxFailures = 1
    MaxCrashes = 1
    MaxStops = 1
INVARIANTS
    StatusTellsTheTruth
PROPERTIES
    ImplementsEventDelivery
    EveryEventSettles
CHECK_DEADLOCK FALSE
