CONSTANTS
    c1 = c1
    c2 = c2
    Conns = {c1, c2}
    Fds = {1, 2}
    Quota <- MCQuota
    Rounds = 2
    StoreReads = 2
    Serv = 0
    NoConn = NoConn
SPECIFICATION FairSpec
INVARIANTS TypeOK ClientsInStep RegistryExact NoLostEvent
PROPERTIES ClosesEnded EndServed InputRead
CHECK_DEADLOCK FALSE
