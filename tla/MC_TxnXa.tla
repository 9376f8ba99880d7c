------------------------------- MODULE MC_TxnXa -------------------------------
(* Instances of TxnXa for TLC: two backends, one or two transactions.     *)
EXTENDS TxnXa, TLC

CONSTANTS b1, b2, t1, t2

MCBackends == {b1, b2}

\* Every statement writes to both backends: a distributed write.
MCPartsAll == [t \in Txns |-> MCBackends]

\* Backends and transactions are interchangeable when every statement
\* writes to every backend; only safety runs use this.
MCSymmetry == Permutations(MCBackends) \cup Permutations({t1, t2})

\* Backends alone are interchangeable when one transaction is a
\* multiple-statement one and the other is not.
MCBackendSymmetry == Permutations(MCBackends)
=============================================================================
