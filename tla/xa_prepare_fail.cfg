\* A failed XA PREPARE leads to Txn.Rollback, whose XA END cannot undo a branch already prepared.
CONSTANTS
    b1 = b1
    b2 = b2
    t1 = t1
    t2 = t2
    None = None
    Backends <- MCBackends
    Txns = {t1}
    Parts <- MCPartsAll
    Retrys = 1
    MaxFaults = 1
    MaxCrashes = 0
    Multi = {}
    MultiStmts = 1
SPECIFICATION Spec
INVARIANT InDoubtCovered
