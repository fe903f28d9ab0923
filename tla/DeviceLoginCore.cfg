SPECIFICATION Spec
CONSTANTS
    ann = ann  dup = dup  sw = sw  fw = fw
    NoUser = NoUser
    Users <- MCUsers
    Logins <- MCLogins
    NameOf <- MCNameOf
    EmailOf <- MCEmailOf
    Directory = {ann}
    Hosts <- MCHosts
    KindOf <- MCKindOf
    ByUrlOnly = {}
    Bootstrapped = {sw}
    DropUnknown = TRUE
    Commands <- MCCommands
    Meaning <- MCMeaning
    Leaving <- MCLeaving
    Profiles <- MCProfiles
    Rank <- MCRank
    Inputs <- MCInputs
    Beside <- MCBeside
    InitialTables <- MCTables
    RuleForms <- MCForms
    Mappings <- MCMappings
    Roles <- MCRoles
    Kinds <- MCKinds
    Family <- MCFamily
    LinuxFamilies = {}
    Patterns <- MCPatterns
    Seeds <- MCSeeds
    Lines <- MCLines
    Literals = {}
    Workers = {g1, g2}
    MaxRequests = 2
    MaxEdits = 2
    MaxTurns = 3
SYMMETRY WorkerSymmetry
INVARIANTS
    TypeOK
    
    
    
    
CHECK_DEADLOCK FALSE
