SPECIFICATION Spec
CONSTANTS
    h1 = h1  h2 = h2
    c1 = c1  c2 = c2  c3 = c3
    Hosts = {h1, h2}
    Interface <- MCStdInterfaces
    Conns = {c1, c2, c3}
    HostOf <- MCHostOf
    MaxPeers = 3
    MaxFd = 7
    Walk = 0
INVARIANT MailForThisPC
CHECK_DEADLOCK FALSE
