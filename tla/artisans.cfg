SPECIFICATION ArtisanSpec
CONSTANTS
    c1 = c1
    c2 = c2
    plumbing = plumbing
    painting = painting
    pipes = pipes
    walls = walls
    ArtisanCalls <- TwoCalls
    Categories <- TwoCategories
    Services <- TwoServices
    CategoryOf <- ServiceCategory
    Requests <- Lists
    MayAbort = TRUE
SYMMETRY Symmetry
INVARIANTS
    CountTellsIfRated
    RatedWhereAllowed
