CONSTANTS
    a = a
    b = b
    d = d
    Conns = {a, b}
    Fds = {f1, f2}
    Breaks = {a, b}
    MaxClnt = 2
    Quota <- QuotaTwo
    Platform = "linux"
    NoFd = NoFd
    NoConn = NoConn
    Free = Free
SPECIFICATION FairSpec
PROPERTIES EofServed MutexReleased
CHECK_DEADLOCK FALSE
