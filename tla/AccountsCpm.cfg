SPECIFICATION FairSpec
CONSTANTS
    opsSafe = opsSafe
    rootName = rootName  rootRef = rootRef
    Safes <- OneSafe
    Names <- OneName
    Refs <- OneRef
    RefOf <- RootRef
    Users = {ann}
    Handlers = {h1}
    Worker = cpmWorker
    RotationDays = 1
    MaxAccounts = 2
    MaxTime = 2
    MaxFaults = 1
PROPERTIES
    DueIsRotated
CHECK_DEADLOCK FALSE
