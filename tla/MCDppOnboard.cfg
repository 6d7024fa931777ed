CONSTANTS
    PAs = {p1, p2}
    Frags = 2
    MaxChirps = 4
    MaxLost = 1
SPECIFICATION Spec
INVARIANT TypeOK
PROPERTIES
    OnboardedWithKey
    Onboards
CHECK_DEADLOCK FALSE
