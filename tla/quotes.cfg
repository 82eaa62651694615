SPECIFICATION FairSpec
CONSTANTS
    h1 = h1
    h2 = h2
    Handlers <- TwoHandlers
    MaxQuotes = 3
    MaxCalls = 4
    MaxFailures = 1
INVARIANTS
    OpenQuoteIsNewest
    EventsTellTheTruth
    OnlyOpenQuotesGoStale
PROPERTIES
    ImplementsQuoteLifecycle
    LapsedQuoteSettles
CHECK_DEADLOCK FALSE
