\* A session killed before its statement reaches Txn.execute: the txn is
\* aborted, then revived by execute, then finished.
CONSTANTS
    c1 = c1
    c2 = c2
    c3 = c3
    t1 = t1
    t2 = t2
    NoConn = NoConn
    Conns <- MCConns
    Txns = {t1, t2}
    Cap = 2
    MaxStmts = 1
    MaxFaults = 0
    TwopcMode <- MCTwopcMode
    Timeout = FALSE
    AbortEnabled = TRUE
    CloseEnabled = FALSE
    MaxCloseRounds = 0
    Kids = {1}
SPECIFICATION Spec
INVARIANTS
    FinishAbortExclusive
