\* Fetch, execute, deadline kills, finish, with dial and KILL errors and
\* sessions the server ends: one owner per handle, no orphaned session;
\* beside them, in a sum, the session registry and its shutdown.
CONSTANTS
    k1 = k1
    k2 = k2
    Clients <- MCClients
    MultiClients <- MCMultiClients
    MaxTxns = 1
    c1 = c1
    c2 = c2
    c3 = c3
    t1 = t1
    t2 = t2
    NoConn = NoConn
    Conns <- MCConns
    Txns = {t1, t2}
    Cap = 2
    MaxStmts = 2
    MaxFaults = 2
    TwopcMode <- MCTwopcMode
    Timeout = TRUE
    AbortEnabled = FALSE
    CloseEnabled = FALSE
    MaxCloseRounds = 0
    Kids = {1}
SPECIFICATION MCSpec
INVARIANTS
    TypeOK
    ExclusiveOwnership
    NoOrphanSession
PROPERTIES
    ShutdownCompletes
