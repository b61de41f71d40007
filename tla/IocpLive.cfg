CONSTANTS
    a = a
    b = b
    d = d
    Conns = {a, b}
    Workers = {w1}
    Handles = {h1, h2}
    MaxClnt = 2
    Quota <- QuotaOneOnce
    NoHandle = NoHandle
    NoConn = NoConn
    None = None
SPECIFICATION FairSpec
CHECK_DEADLOCK FALSE
PROPERTIES MessageServed FinServed StrandLiveSpec
