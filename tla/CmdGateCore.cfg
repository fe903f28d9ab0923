SPECIFICATION Spec
CONSTANTS
    Words <- MCWords
    Secret = "S"
    Allow = {}
    Deny <- MCDeny
    EnableSecret = TRUE
    PortalPassword = TRUE
    Devices = {"ios", "linux"}
    Opens = {"enable", "sudo"}
    Controls = {"CR", "LF", "DEL"}
    MaxKeys = 4
    MaxChunk = 2
    MaxTries = 3
    Lines <- MCLines
    Literals = {}
INVARIANTS
    RefusedNeverRuns
    SecretStandsAlone
    KeysPass
CHECK_DEADLOCK FALSE
