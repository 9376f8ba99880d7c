\* Two concurrent XA write statements sharing the XA checker: one tick
\* ranges over both entries, and a recover error ends it for both.
CONSTANTS
    b1 = b1
    b2 = b2
    t1 = t1
    t2 = t2
    None = None
    Backends <- MCBackends
    Txns = {t1, t2}
    Parts <- MCPartsAll
    Retrys = 1
    MaxFaults = 2
    MaxCrashes = 0
    Multi = {}
    MultiStmts = 1
SPECIFICATION Spec
SYMMETRY MCSymmetry
PROPERTIES
    XaAtomicCommitRefined
    RetiredOnlyWhenResolved
