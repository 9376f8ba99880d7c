\* A UNION or JOIN in a twopc txn: both children's goroutines miss the
\* backend in twopcConnections, each Gets a handle, and the second store
\* overwrites the first.
CONSTANTS
    c1 = c1
    c2 = c2
    c3 = c3
    t1 = t1
    t2 = t2
    NoConn = NoConn
    Conns <- MCConns
    Txns = {t1, t2}
    Cap = 2
    MaxStmts = 1
    MaxFaults = 0
    TwopcMode <- MCTwopcMode
    Timeout = FALSE
    AbortEnabled = FALSE
    CloseEnabled = FALSE
    MaxCloseRounds = 0
    Kids = {1, 2}
SYMMETRY MCSymmetry
SPECIFICATION Spec
INVARIANT
    NoOrphanSession
