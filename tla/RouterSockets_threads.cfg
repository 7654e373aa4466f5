SPECIFICATION FairSpec
CONSTANTS
    h1 = h1  h2 = h2
    c1 = c1  c2 = c2  c3 = c3
    Hosts = {h1, h2}
    Interface <- MCInterfaces
    Conns = {c1, c2, c3}
    HostOf <- MCHostOf
    MaxPeers = 2
    MaxFd = 7
    Walk = 1
INVARIANTS TypeOK PeersOpen NeverBlocks ClosedUnused
PROPERTIES OwnMail Heard StopsClean
CHECK_DEADLOCK FALSE
