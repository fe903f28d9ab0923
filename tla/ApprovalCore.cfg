SPECIFICATION FairSpec
CONSTANTS
    ann = ann  bob = bob  cy = cy  router = router  netops = netops
    NoUser = NoUser
    NoTarget = NoTarget
    Users <- MCUsers
    Admins <- MCAdmins
    Targets <- MCTargets
    Groups <- MCGroups
    Kinds <- MCKinds
    Family <- MCFamily
    KindOf <- MCKindOf
    TierOf <- MCTierOf
    TTLs <- MCTTLs
    RuleForms <- MCRuleForms
    RuleIds = {1, 2}
    InitialMatrices <- MCMatrices
    InitialMembers <- MCMembers
    Handlers = {h1, h2}
    DefaultTTL = 1
    RenewTTL = 2
    MaxRequests = 1
    MaxTime = 1
    MaxEdits = 0
    MaxAborts = 1
    MaxRestarts = 1
    MaxBlind = 0
INVARIANTS
    QuorumOfApprovers
    NoLostDecision
    
PROPERTIES
    ImplementsAccessGrant
    QuorumDecides
CHECK_DEADLOCK FALSE
