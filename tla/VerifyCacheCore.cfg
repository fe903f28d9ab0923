SPECIFICATION Spec
CONSTANTS
    tokA = tokA  tokB = tokB
    Tokens <- TwoTokens
    Exp <- Staggered
    Requests = {r1, r2, r3}
    TTL = 1
    StaleTTL = 3
    Timeout = 1
    MaxSize = 1
    MaxTime = 6
    MaxLost = 2
INVARIANTS
    GrantsAreTimely
SYMMETRY RequestSymmetry
