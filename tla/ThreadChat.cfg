CONSTANTS
    a = a
    b = b
    d = d
    Conns = {a, b, d}
    Fds = {f1, f2, f3}
    Breaks = {}
    MaxClnt = 3
    Quota <- QuotaTwo
    Platform = "windows"
    NoFd = NoFd
    NoConn = NoConn
    Free = Free
SPECIFICATION Spec
INVARIANTS TypeOK AgreedOrder Echoed CountBalanced RegistryExact
SYMMETRY OrderSymmetry
CHECK_DEADLOCK FALSE
