\* A multiple-statement txn bound after a KILL: the handler's lookup finds
\* the session gone, the txn stays live after the handler is gone.
CONSTANTS
    k1 = k1
    k2 = k2
    Clients <- MCClients
    MultiClients <- MCMultiClients
    MaxTxns = 1
    c1 = c1
    c2 = c2
    c3 = c3
    t1 = t1
    t2 = t2
    NoConn = NoConn
    Conns <- MCConns
    Txns = {t1, t2}
    Cap = 2
    MaxStmts = 2
    MaxFaults = 2
    TwopcMode <- MCTwopcMode
    Timeout = TRUE
    AbortEnabled = FALSE
    CloseEnabled = FALSE
    MaxCloseRounds = 0
    Kids = {1}
SPECIFICATION MCSpec
INVARIANT NoOrphanTxn
