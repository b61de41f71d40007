CONSTANTS
    c1 = c1
    c2 = c2
    w1 = w1
    w2 = w2
    Conns = {c1, c2}
    Workers = {w1, w2}
    Blocks = {1, 2, 3, 4, 5, 6, 7, 8, 9, 10}
    Overlaps = 1
    Fds = {1, 2}
    Quota <- MCQuota
    Serv = 0
    NoConn = NoConn
SPECIFICATION Spec
SYMMETRY WorkerSymmetry
INVARIANTS TypeOK BlocksOwned KeyLive SentInOrder
CHECK_DEADLOCK FALSE
