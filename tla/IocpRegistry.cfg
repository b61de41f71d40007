CONSTANTS
    a = a
    b = b
    d = d
    Conns = {a, b, d}
    Workers = {w1, w2}
    Handles = {h1, h2, h3}
    MaxClnt = 3
    Quota <- QuotaNone
    NoHandle = NoHandle
    NoConn = NoConn
    None = None
SPECIFICATION Spec
INVARIANTS RegistryExact
SYMMETRY FullSymmetry
CHECK_DEADLOCK FALSE
