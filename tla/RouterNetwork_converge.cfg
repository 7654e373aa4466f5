SPECIFICATION FairSpec
CONSTANTS
    a = a  b = b  c = c
    Routers = {a, b, c}
    Neighbors <- MCLine3
    Home = a
    FullTables = {}
    MaxRestarts = 1
    SendsData = FALSE
INVARIANT TypeOK
PROPERTY Converges
