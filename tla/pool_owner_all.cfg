\* Everything of pool_owner, with one statement per txn, and the session
\* glue (Kill, Remove, one shutdown round of Sessions.Close, unbinding) and
\* Pool.Close: one owner per handle.
CONSTANTS
    c1 = c1
    c2 = c2
    c3 = c3
    t1 = t1
    t2 = t2
    NoConn = NoConn
    Conns <- MCConns
    Txns = {t1, t2}
    Cap = 2
    MaxStmts = 1
    MaxFaults = 2
    TwopcMode <- MCTwopcMode
    Timeout = TRUE
    AbortEnabled = TRUE
    CloseEnabled = TRUE
    MaxCloseRounds = 1
    Kids = {1}
SYMMETRY MCSymmetry
SPECIFICATION Spec
INVARIANT
    ExclusiveOwnership
