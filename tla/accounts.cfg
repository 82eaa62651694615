SPECIFICATION Spec
CONSTANTS
    c1 = c1
    c2 = c2
    p1 = p1
    p2 = p2
    Calls <- TwoCalls
    Passwords <- TwoPasswords
    MaxResets = 1
    MaxVerifications = 1
SYMMETRY Symmetry
INVARIANTS
    ActiveRoleEnabled
    RegisteredOnce
PROPERTIES
    LostOnlyByOverlap
CHECK_DEADLOCK FALSE
