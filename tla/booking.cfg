SPECIFICATION SpecBothStarts
CONSTANTS
    h1 = h1
    h2 = h2
    a1 = a1
    a2 = a2
    q1 = q1
    q2 = q2
    k1 = k1
    k2 = k2
    NoArtisan = NoArtisan
    NoKey = NoKey
    Handlers <- TwoHandlers
    Artisans <- TwoArtisans
    Quotes <- OneQuote
    Keys <- TwoKeys
    Roles <- AllRoles
    MaxCalls = 4
    MaxCrashes = 1
INVARIANTS
    EventsAccountedFor
PROPERTIES
    ArtisanNeverReplaced
    RequestsFollowTheTable
    ReservationsRespected
    LapsedOfferSettles
CHECK_DEADLOCK FALSE
