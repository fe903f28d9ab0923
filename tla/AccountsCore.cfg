SPECIFICATION Spec
CONSTANTS
    opsSafe = opsSafe
    rootName = rootName  rootRef = rootRef
    Safes <- OneSafe
    Names <- OneName
    Refs <- OneRef
    RefOf <- RootRef
    Users = {ann}
    Handlers = {h1, h2}
    Worker = cpmWorker
    RotationDays = 1
    MaxAccounts = 2
    MaxTime = 1
    MaxFaults = 1
INVARIANTS
    TypeOK
    ReferencesHold
    RevealsAreRecorded
SYMMETRY HandlerSymmetry
CHECK_DEADLOCK FALSE
