SPECIFICATION Spec
CONSTANTS
    a = a  b = b  c = c
    Routers = {a, b, c}
    Neighbors <- MCRing3
    Home = a
    FullTables = {}
    MaxRestarts = 1
    SendsData = FALSE
INVARIANTS HostStaysHome PromisedByOneThatKnows
PROPERTY HandlersSplitHorizon
