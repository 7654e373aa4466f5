SPECIFICATION Spec
CONSTANTS
    Addresses <- MCAddresses
    BufSize = 15
    Hosts <- MCHosts
    Sources <- MCSources
    MaxLine = 4
    MaxCuts = 2
INVARIANTS TypeOK Faithful Complete ForThisHost
CHECK_DEADLOCK FALSE
