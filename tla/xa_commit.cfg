\* A multiple-statement XA transaction of two statements with injected
\* backend errors and one proxy crash: atomic commit, the whole
\* transaction or nothing, the checker's retirement rule, progress.
CONSTANTS
    b1 = b1
    b2 = b2
    t1 = t1
    t2 = t2
    None = None
    Backends <- MCBackends
    Txns = {t1}
    Parts <- MCPartsAll
    Retrys = 1
    MaxFaults = 2
    MaxCrashes = 1
    Multi = {t1}
    MultiStmts = 2
SPECIFICATION Spec
INVARIANTS
    TypeOK
PROPERTIES
    XaAtomicCommitRefined
    RetiredOnlyWhenResolved
    EntryEventuallyRetired
    LoggedBranchResolved
