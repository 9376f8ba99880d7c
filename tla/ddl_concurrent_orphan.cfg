\* Two sessions run DDL at once and no backend fails: their fan-outs reach
\* the backends in different orders (expected to be violated).
CONSTANTS
    Slots = 4
    Bound = 5
    MaxParts = 3
    NoSegment = NoSegment
    Values <- MCValues
    MaxRows = 2
    MaxWidth = 2
    JoinLimits = {2, 3}
    ColVectors <- MCColVectors
    Pending = Pending
    ChildErr = ChildErr
    NQueries = 2
    MaxCursorRows = 2
    ChanCap = 1
    BufSize = 2
    StreamFaults = 1
    Behinds = 1
    MaxWrites = 2
    ShiftFaults = 1
    DB1 = DB1
    DB2 = DB2
    DT1 = DT1
    DT2 = DT2
    Sessions = {DS1, DS2}
    Backends = {DB1, DB2}
    Tables = {DT1, DT2}
    Stmts <- MCStmts
    MaxStmts = 3
    DDLFaults = 0
    ColNames = {SKa, SKb}
    Missing = Missing
    Engines = {"", "innodb", "myisam"}
    MaxIdx = 2
    Names = {SN1, SN2}
    Addrs = {SA1, SA2}
    Txns = {SX1, SX2}
    MaxPools = 3
    ScatterFaults = 1
SPECIFICATION AlgSpec
CHECK_DEADLOCK FALSE
INVARIANT
    CatalogAgreement
