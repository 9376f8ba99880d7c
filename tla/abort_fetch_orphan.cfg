\* Abort while a statement holds a handle Get just returned.
CONSTANTS
    c1 = c1
    c2 = c2
    c3 = c3
    t1 = t1
    t2 = t2
    NoConn = NoConn
    Conns <- MCConns
    Txns = {t1, t2}
    Cap = 2
    MaxStmts = 2
    MaxFaults = 0
    TwopcMode <- MCTwopcMode
    Timeout = FALSE
    AbortEnabled = TRUE
    CloseEnabled = FALSE
    MaxCloseRounds = 0
    Kids = {1}
SPECIFICATION Spec
INVARIANT NoOrphanSession
