SPECIFICATION FairSpec
CONSTANTS
    NumPages = 3
    TlbSize = 2
    Preload <- MCTwoHosts
    Ips = {1, 2, 3, 4}
    Hops = {1, 2}
INVARIANTS TypeOK MmuIntact Compact AdvertisesHosts
PROPERTIES ImplementsStore WalkEnds
