SPECIFICATION Spec
CONSTANTS
    ann = ann  dup = dup  box = box  sw = sw
    NoConn = NoConn
    Users <- MCUsers
    Logins <- MCLogins
    OwnerOf <- MCOwnerOf
    Names <- MCNames
    NameOf <- MCNameOf
    Hosts <- MCHosts
    KindOf <- MCKindOf
    Roles <- MCRoles
    Kinds <- MCKinds
    Family <- MCFamily
    LinuxFamilies <- MCLinux
    Patterns = {}
    Seeds = {}
    Lines = {}
    Literals = {}
    RuleForms <- MCForms
    Inputs <- MCInputs
    InitialTables <- MCTables
    InitialMachines <- MCMachines
    Conns = {c1, c2}
    MaxConns = 2
    MaxEdits = 2
    MaxTurns = 3
INVARIANTS
    TypeOK
    
    SudoFollowsGrants
SYMMETRY ConnSymmetry
CHECK_DEADLOCK FALSE
