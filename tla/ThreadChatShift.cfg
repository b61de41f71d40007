CONSTANTS
    a = a
    b = b
    d = d
    Conns = {a, b, d}
    Fds = {f1, f2, f3}
    Breaks = {a, b, d}
    MaxClnt = 3
    Quota <- QuotaNone
    Platform = "linux"
    NoFd = NoFd
    NoConn = NoConn
    Free = Free
SPECIFICATION Spec
INVARIANTS DisconnectedRemoved
SYMMETRY FullSymmetry
CHECK_DEADLOCK FALSE
