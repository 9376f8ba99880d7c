------------------------------ MODULE MC_PoolConn ------------------------------
(* Instances of PoolConn for TLC: three handles, two transactions.        *)
EXTENDS PoolConn, TLC

CONSTANTS c1, c2, c3, t1, t2

MCConns == {c1, c2, c3}

\* t1 runs an XA write (twopc bucket), t2 a plain one (normal bucket).
MCTwopcMode == [t \in {t1, t2} |-> t = t1]

\* Handles are interchangeable: Dial may return any unused one.
MCSymmetry == Permutations(MCConns)
=============================================================================
