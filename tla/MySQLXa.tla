------------------------------- MODULE MySQLXa -------------------------------
(***************************************************************************)
(* The XA branch state machine of a MySQL backend, as the proxy sees it.  *)
(* The backends are the environment of the proxy, not code of this        *)
(* repository, so nothing here is mapped to a source line.  A branch is   *)
(* identified by (backend, xid); the proxy names a branch by the           *)
(* transaction that owns it, so Txns doubles as the set of XIDs.           *)
(***************************************************************************)
EXTENDS Naturals, FiniteSets

CONSTANTS
    Backends,   \* the backends of the scatter (model values)
    Txns        \* the write transactions, one XID each (model values)

ASSUME Backends # {} /\ Txns # {}

BranchStates == {"none", "active", "idle", "prepared", "committed", "rolledback"}

XaCmds == {"start", "end", "prepare", "commit", "rollback"}

\* The states from which the server accepts an XA command; any other state
\* gets XAER_RMFAIL or XAER_NOTA.  XA ROLLBACK of an ACTIVE branch is refused
\* (XA END must come first); a prepared branch may be finished from any session.
XaFrom == [start    |-> {"none"},
           end      |-> {"active"},
           prepare  |-> {"idle"},
           commit   |-> {"prepared"},
           rollback |-> {"idle", "prepared"}]

XaTo == [start |-> "active", end |-> "idle", prepare |-> "prepared",
         commit |-> "committed", rollback |-> "rolledback"]

XaLegal(cmd, s) == s \in XaFrom[cmd]

\* Closing or killing the session that holds a branch rolls the branch back
\* unless it is prepared: a prepared branch survives its session.
OnDisconnect(s) == IF s \in {"active", "idle"} THEN "rolledback" ELSE s

\* The branches XA RECOVER lists on a backend.
Recovered(branch, b) == {x \in Txns : branch[b][x] = "prepared"}
=============================================================================
