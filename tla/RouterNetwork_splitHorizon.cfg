SPECIFICATION Spec
CONSTANTS
    a = a  b = b  c = c
    Routers = {a, b, c}
    Neighbors <- MCLine3
    Home = a
    FullTables = {}
    MaxRestarts = 0
    SendsData = FALSE
PROPERTY SplitHorizon
