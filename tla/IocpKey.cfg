CONSTANTS
    a = a
    b = b
    d = d
    Conns = {a, b}
    Workers = {w1, w2}
    Handles = {h1, h2}
    MaxClnt = 2
    Quota <- QuotaOneOnce
    NoHandle = NoHandle
    NoConn = NoConn
    None = None
SPECIFICATION Spec
INVARIANTS KeyLive
SYMMETRY ThreadSymmetry
CHECK_DEADLOCK FALSE
