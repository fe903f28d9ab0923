SPECIFICATION FairSpec
CONSTANTS
    Users = {u1, u2}
    Groups = {g1}
    Root = u1
    Absent = Absent
    Handlers = {h1}
    MaxEdits = 2
    MaxSecrets = 1
INVARIANTS
    TypeOK
    TokensPassMFA
PROPERTIES
    LocalAndLockedStand
    
