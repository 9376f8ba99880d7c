---------------------------- MODULE XaAtomicCommit ----------------------------
(***************************************************************************)
(* What the proxy's XA handling promises, per transaction: every branch  *)
(* of it ends up committed or every branch ends up aborted.  A branch is *)
(* working until it votes (prepared); it may commit only once every      *)
(* branch of its transaction has voted, and it may abort only while no   *)
(* branch of its transaction has committed.  Several branches may move   *)
(* in one step (a process crash aborts every working branch at once).    *)
(***************************************************************************)
CONSTANTS Txns, Backends, Parts

VARIABLE rm

RMStates == {"working", "prepared", "committed", "aborted"}

ACTypeOK == rm \in [Txns -> [Backends -> RMStates]]

ACInit == rm = [x \in Txns |-> [b \in Backends |-> "working"]]

\* Every branch of x has voted yes (or already committed).
AllVoted(x) == \A b \in Parts[x] : rm[x][b] \in {"prepared", "committed"}

SomeCommitted(r, x) == \E b \in Parts[x] : r[x][b] = "committed"

SomeAborted(r, x) == \E b \in Parts[x] : r[x][b] = "aborted"

\* The moves one branch may make from the current state.
CanMove(x, b, to) ==
    \/ rm[x][b] = "working" /\ to = "prepared"
    \/ rm[x][b] = "prepared" /\ to = "committed" /\ AllVoted(x)
    \/ rm[x][b] \in {"working", "prepared"} /\ to = "aborted"
       /\ ~SomeCommitted(rm, x)

ACNext ==
    /\ rm' \in [Txns -> [Backends -> RMStates]]
    /\ rm' # rm
    /\ \A x \in Txns :
         /\ \A b \in Backends : rm'[x][b] = rm[x][b] \/ (b \in Parts[x] /\ CanMove(x, b, rm'[x][b]))
         /\ ~(SomeCommitted(rm', x) /\ SomeAborted(rm', x))

ACSpec == ACInit /\ [][ACNext]_rm
=============================================================================
