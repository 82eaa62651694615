SPECIFICATION ProfileSpec
CONSTANTS
    c1 = c1
    c2 = c2
    a1 = a1
    a2 = a2
    a3 = a3
    names = names
    phone = phone
    avatar = avatar
    ProfileCalls <- TwoCalls
    Fields <- ThreeFields
    KeyFields <- TwoKeyFields
    Addresses <- ThreeAddresses
SYMMETRY Symmetry
INVARIANTS
    CleanUnlessRaced
PROPERTIES
    DefaultStays
    
