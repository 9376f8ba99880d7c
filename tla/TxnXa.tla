-------------------------------- MODULE TxnXa --------------------------------
(***************************************************************************)
(* A single-statement write transaction run as XA two-phase commit        *)
(* (backend/txn.go), the session that may abort it (proxy/session.go),    *)
(* and the XA checker it hands failed branches to (XaCheck), against the  *)
(* XA branches of the MySQL backends (MySQLXa).                            *)
(*                                                                         *)
(* The XA fan-out helpers xaStart/xaEnd/xaPrepare/xaCommit/xaRollback and *)
(* the spanner's ExecuteDML that drives Begin/Execute/Commit/Finish are   *)
(* not in the source tree; they are modelled from the specification       *)
(* (section 4.6): each helper sends its command to every participant in   *)
(* parallel and fails if one of them fails; a failed COMMIT (ROLLBACK     *)
(* once PREPARE was reached) is written to the XA checker; a statement    *)
(* error leads to RollbackPhaseOne, a failed Commit to a full rollback.   *)
(*                                                                         *)
(* Per transaction t:                                                      *)
(*  pc[t]     where the statement handler is: "init", a fan-out phase     *)
(*            (DOMAIN PhaseCmd), "finish" (deferred Finish), "done"       *)
(*  tst[t]    txn.state                                                   *)
(*  todo[t]   participants whose goroutine of the current fan-out has not *)
(*            yet run its command                                         *)
(*  failed[t] participants whose command of the current fan-out failed    *)
(*  tolog[t]  participants whose COMMIT/ROLLBACK failed and that still    *)
(*            wait for xc.mu to write the checker log                     *)
(*  errs[t]   txn.errors > 0                                              *)
(*  conns[t]  backends of txn.twopcConnections (a fresh one is fetched by *)
(*            twopcConnection when the map has none)                      *)
(*  wrote[b][t]  where the statement's write on b went: "no", "branch"    *)
(*            (inside the XA branch) or "auto" (autocommitted outside it) *)
(*  closed[t] the session was closed (session.close ran)                  *)
(*  stmt[t]   statements of t that ran without error (the caller's loop   *)
(*            over the statements of a multiple-statement transaction)    *)
(*                                                                         *)
(* A transaction of Multi is a multiple-statement transaction: BEGIN      *)
(* runs BeginScatter (XA START on every backend), each of its MultiStmts  *)
(* statements runs without xaStart, and COMMIT/ROLLBACK or a statement    *)
(* error run CommitScatter/RollbackScatter.                               *)
(***************************************************************************)
EXTENDS XaCheck

CONSTANTS
    Parts,      \* Parts[t]: the backends the statement of t writes to
    MaxCrashes, \* bound on proxy crashes
    Multi,      \* the multiple-statement transactions
    MultiStmts  \* the number of statements of each of them

\* A ReqScatter request (BeginScatter, CommitScatter, RollbackScatter)
\* addresses every backend, so a multiple-statement transaction writes to
\* all of them.
ASSUME /\ \A t \in Txns : Parts[t] # {} /\ Parts[t] \subseteq Backends
       /\ Multi \subseteq Txns /\ \A t \in Multi : Parts[t] = Backends
       /\ MultiStmts \in Nat \ {0}

VARIABLES pc, tst, todo, failed, tolog, errs, conns, wrote, closed, crashes,
          stmt

txnVars == <<pc, tst, todo, failed, tolog, errs, conns, wrote, closed, stmt>>
vars == <<branch, retrys, xafile, timesout, ck, faults, txnVars, crashes>>

TxnStates == {"live", "executingTwoPC", "rollbacking", "committing",
              "finishing", "aborting"}

\* The command each fan-out phase sends.  end/prepare/commit are Commit;
\* rbend/rbprepare/rollback are Rollback (XA END, XA PREPARE, XA ROLLBACK),
\* the full rollback after a failed Commit; rb1end/rb1 are RollbackPhaseOne
\* (XA END, XA ROLLBACK).
PhaseCmd == [start |-> "start", exec |-> "dml", end |-> "end",
             prepare |-> "prepare", commit |-> "commit",
             rbend |-> "end", rbprepare |-> "prepare", rollback |-> "rollback",
             rb1end |-> "end", rb1 |-> "rollback"]

LoggedPhase == [commit |-> "commit", rollback |-> "rollback"]

Phases == DOMAIN PhaseCmd

TypeOK ==
    /\ CheckTypeOK
    /\ pc \in [Txns -> Phases \cup {"init", "finish", "done"}]
    /\ tst \in [Txns -> TxnStates]
    /\ todo \in [Txns -> SUBSET Backends]
    /\ failed \in [Txns -> SUBSET Backends]
    /\ tolog \in [Txns -> SUBSET Backends]
    /\ errs \in [Txns -> BOOLEAN]
    /\ conns \in [Txns -> SUBSET Backends]
    /\ wrote \in [Backends -> [Txns -> {"no", "branch", "auto"}]]
    /\ closed \in [Txns -> BOOLEAN]
    /\ crashes \in 0..MaxCrashes
    /\ stmt \in [Txns -> 0..MultiStmts]

\* The statements transaction t runs.
StmtsOf(t) == IF t \in Multi THEN MultiStmts ELSE 1

Init ==
    /\ branch = [b \in Backends |-> [x \in Txns |-> "none"]]
    /\ CheckInit
    /\ faults = 0
    /\ pc = [t \in Txns |-> "init"]
    /\ tst = [t \in Txns |-> "live"]
    /\ todo = [t \in Txns |-> {}]
    /\ failed = [t \in Txns |-> {}]
    /\ tolog = [t \in Txns |-> {}]
    /\ errs = [t \in Txns |-> FALSE]
    /\ conns = [t \in Txns |-> {}]
    /\ wrote = [b \in Backends |-> [x \in Txns |-> "no"]]
    /\ closed = [t \in Txns |-> FALSE]
    /\ crashes = 0
    /\ stmt = [t \in Txns |-> 0]

\* Closing the given sessions of t (Close or Kill): the server rolls back
\* every branch of t on them that is not prepared.
Disconnect(t, bs) ==
    [b \in Backends |-> [branch[b] EXCEPT ![t] =
                            IF b \in bs THEN OnDisconnect(@) ELSE @]]

-----------------------------------------------------------------------------
(* The statement handler.                                                  *)

\* CreateTxn, Begin (twopc = true) and Execute of a write request: Execute
\* calls xaStart before the statement runs.
Begin(t) ==
    /\ t \notin Multi
    /\ pc[t] = "init"
    /\ pc' = [pc EXCEPT ![t] = "start"]
    /\ todo' = [todo EXCEPT ![t] = Parts[t]]
    /\ UNCHANGED <<branch, retrys, xafile, timesout, ck, faults, tst, failed,
                   tolog, errs, conns, wrote, closed, crashes, stmt>>

\* BeginScatter of a multiple-statement transaction: twopc is set and
\* xaStart sends XA START to every backend at once.
BeginScatter(t) ==
    /\ t \in Multi
    /\ pc[t] = "init"
    /\ pc' = [pc EXCEPT ![t] = "start"]
    /\ todo' = [todo EXCEPT ![t] = Backends]
    /\ UNCHANGED <<branch, retrys, xafile, timesout, ck, faults, tst, failed,
                   tolog, errs, conns, wrote, closed, crashes, stmt>>

\* The command of b failed: txn.errors counts it; a failure of a logged
\* phase waits to be written to the XA checker, any other fails the phase.
SendFailed(t, b) ==
    /\ errs' = [errs EXCEPT ![t] = TRUE]
    /\ IF pc[t] \in DOMAIN LoggedPhase
       THEN /\ tolog' = [tolog EXCEPT ![t] = @ \cup {b}]
            /\ UNCHANGED failed
       ELSE /\ failed' = [failed EXCEPT ![t] = @ \cup {b}]
            /\ UNCHANGED tolog

\* The goroutine of one participant sends an XA command on the connection
\* that fetchOneConnection/twopcConnection gives it.  The server applies a
\* legal command and refuses any other; an injected error may come before
\* or after the server applied it.
XaSend(t, b) ==
    /\ pc[t] \in Phases \ {"exec"}
    /\ b \in todo[t]
    /\ LET cmd == PhaseCmd[pc[t]]
           s   == branch[b][t]
       IN \/ /\ XaLegal(cmd, s)
             /\ branch' = [branch EXCEPT ![b][t] = XaTo[cmd]]
             /\ UNCHANGED <<faults, failed, tolog, errs>>
          \/ /\ ~XaLegal(cmd, s)
             /\ SendFailed(t, b)
             /\ UNCHANGED <<branch, faults>>
          \/ /\ faults < MaxFaults
             /\ faults' = faults + 1
             /\ branch' \in {[branch EXCEPT ![b][t] = v] :
                              v \in {s} \cup IF XaLegal(cmd, s)
                                             THEN {XaTo[cmd]} ELSE {}}
             /\ SendFailed(t, b)
    /\ todo' = [todo EXCEPT ![t] = @ \ {b}]
    /\ conns' = [conns EXCEPT ![t] = @ \cup {b}]
    /\ UNCHANGED <<retrys, xafile, timesout, ck, pc, tst, wrote, closed,
                   crashes, stmt>>

\* execute/oneShard: the statement runs on the connection fetchOneConnection
\* returns.  On the connection that holds the XA branch the write joins the
\* branch; when txn.twopcConnections has no connection for b any more,
\* twopcConnection fetches a fresh one from the pool, where the write
\* autocommits.  Abort's deferred reset leaves txn.twopc false, so after
\* it fetchOneConnection takes normalConnection (txn.go 262-270): the write
\* autocommits and twopcConnections stays as it is.
TwopcOn(t) == ~closed[t]

ExecShard(t, b) ==
    /\ pc[t] = "exec"
    /\ b \in todo[t]
    /\ \/ /\ wrote' = [wrote EXCEPT ![b][t] =
                          IF TwopcOn(t) /\ b \in conns[t] THEN "branch" ELSE "auto"]
          /\ UNCHANGED <<faults, failed, errs>>
       \/ /\ faults < MaxFaults
          /\ faults' = faults + 1
          /\ failed' = [failed EXCEPT ![t] = @ \cup {b}]
          /\ errs' = [errs EXCEPT ![t] = TRUE]
          /\ UNCHANGED wrote
    /\ todo' = [todo EXCEPT ![t] = @ \ {b}]
    /\ conns' = IF TwopcOn(t) THEN [conns EXCEPT ![t] = @ \cup {b}] ELSE conns
    /\ UNCHANGED <<branch, retrys, xafile, timesout, ck, pc, tst, tolog,
                   closed, crashes, stmt>>

\* The goroutine of a failed COMMIT/ROLLBACK calls txn.WriteXaCommitErrLog.
LogXaErr(t, b) ==
    /\ b \in tolog[t]
    /\ WriteXaCommitErrLog(t, LoggedPhase[pc[t]])
    /\ tolog' = [tolog EXCEPT ![t] = @ \ {b}]
    /\ UNCHANGED <<branch, faults, pc, tst, todo, failed, errs, conns, wrote,
                   closed, crashes, stmt>>

\* Faulty variant of PhaseNext: Commit goes on to XA COMMIT although
\* xaPrepare failed.
PhaseNextIgnorePrepareErr(p, bad) ==
    CASE p = "start"     -> IF bad THEN "rb1end" ELSE "exec"
      [] p = "exec"      -> IF bad THEN "rb1end" ELSE "end"
      [] p = "end"       -> IF bad THEN "rbend" ELSE "prepare"
      [] p = "prepare"   -> "commit"
      [] p = "rbend"     -> IF bad THEN "finish" ELSE "rbprepare"
      [] p = "rbprepare" -> IF bad THEN "finish" ELSE "rollback"
      [] p = "rb1end"    -> IF bad THEN "finish" ELSE "rb1"
      [] OTHER           -> "finish"

\* The fan-out's errgroup.Wait returned: the handler goes on.
\*  start:   xaStart failed -> Execute returns the error -> RollbackPhaseOne;
\*           else execute sets txn.state ExecutingTwoPC.
\*  exec:    a shard failed -> RollbackPhaseOne; else Commit sets
\*           txn.state Committing and calls xaEnd.
\*  end, prepare: xaEnd/xaPrepare failed -> Commit returns the error -> the
\*           full Rollback, which sets Rollbacking and calls xaEnd.
\*  rbend, rbprepare, rb1end: Rollback/RollbackPhaseOne return at once when
\*           the helper failed, else go on to the next command.
\*  commit, rollback, rb1: the handler returns and Finish runs.
\* Every state set here is a plain txn.state.Set: it overwrites "aborting".
PhaseNext(p, bad) ==
    CASE p = "start"     -> IF bad THEN "rb1end" ELSE "exec"
      [] p = "exec"      -> IF bad THEN "rb1end" ELSE "end"
      [] p = "end"       -> IF bad THEN "rbend" ELSE "prepare"
      [] p = "prepare"   -> IF bad THEN "rbend" ELSE "commit"
      [] p = "rbend"     -> IF bad THEN "finish" ELSE "rbprepare"
      [] p = "rbprepare" -> IF bad THEN "finish" ELSE "rollback"
      [] p = "rb1end"    -> IF bad THEN "finish" ELSE "rb1"
      [] OTHER           -> "finish"

\* The same for a multiple-statement transaction.  A failed BeginScatter or
\* statement, and a failed XA END or PREPARE of CommitScatter, lead to
\* RollbackScatter (XA END, XA PREPARE, XA ROLLBACK; there is no
\* phase-one variant); a statement that succeeded is followed by the next
\* one, which runs without xaStart since isMultiStmtTxn is set, until
\* CommitScatter.  RollbackScatter and CommitScatter return at once when
\* one of their helpers failed, as Rollback and Commit do.
ScatterNext(p, bad, more) ==
    CASE p \in {"start", "exec"} /\ bad -> "rbend"
      [] p = "exec" /\ more              -> "exec"
      [] OTHER                           -> PhaseNext(p, bad)

\* The txn.state a phase entered from p sets: execute sets ExecutingTwoPC,
\* Commit(Scatter) Committing, every rollback Rollbacking.
PhaseState(p, next, st) ==
    CASE next = "exec"                 -> "executingTwoPC"
      [] next = "end"                  -> "committing"
      [] next \in {"rb1end", "rbend"}  -> "rollbacking"
      [] OTHER                         -> st

PhaseDone(t) ==
    /\ pc[t] \in Phases
    /\ todo[t] = {}
    /\ tolog[t] = {}
    /\ LET bad  == failed[t] # {}
           next == IF t \in Multi
                   THEN ScatterNext(pc[t], bad, stmt[t] + 1 < MultiStmts)
                   ELSE PhaseNext(pc[t], bad)
       IN /\ pc' = [pc EXCEPT ![t] = next]
          /\ stmt' = [stmt EXCEPT ![t] = IF pc[t] = "exec" /\ ~bad
                                          THEN @ + 1 ELSE @]
          /\ todo' = [todo EXCEPT ![t] = IF next = "finish" THEN {} ELSE Parts[t]]
          /\ tst' = [tst EXCEPT ![t] = PhaseState(pc[t], next, @)]
    /\ failed' = [failed EXCEPT ![t] = {}]
    /\ UNCHANGED <<branch, retrys, xafile, timesout, ck, faults, tolog, errs,
                   conns, wrote, closed, crashes>>

\* Txn.Finish: a no-op once the txn was aborted; otherwise txn.state becomes
\* Finishing and every held connection is closed when txn.errors > 0 (the
\* server rolls back its unprepared branch) or recycled otherwise.
Finish(t) ==
    /\ pc[t] = "finish"
    /\ pc' = [pc EXCEPT ![t] = "done"]
    /\ IF tst[t] = "aborting"
       THEN UNCHANGED <<tst, branch, conns>>
       ELSE /\ tst' = [tst EXCEPT ![t] = "finishing"]
            /\ branch' = IF errs[t] THEN Disconnect(t, conns[t]) ELSE branch
            /\ conns' = [conns EXCEPT ![t] = {}]
    /\ UNCHANGED <<retrys, xafile, timesout, ck, faults, todo, failed, tolog,
                   errs, wrote, closed, crashes, stmt>>

-----------------------------------------------------------------------------
(* The session.                                                            *)

\* Sessions.Kill (or Remove) takes the session out of the map and
\* session.close calls Abort on the txn it read from the session under
\* session.mu; the statement may have finished (and unbound it) since.  Txn.Abort does nothing once
\* the txn is Finishing; otherwise it sets Aborting, KILLs every twopc
\* connection and deletes it from txn.twopcConnections.
Abort(t) ==
    /\ pc[t] # "init"
    /\ ~closed[t]
    /\ closed' = [closed EXCEPT ![t] = TRUE]
    /\ IF tst[t] = "finishing"
       THEN UNCHANGED <<tst, branch, conns>>
       ELSE /\ tst' = [tst EXCEPT ![t] = "aborting"]
            /\ branch' = Disconnect(t, conns[t])
            /\ conns' = [conns EXCEPT ![t] = {}]
    /\ UNCHANGED <<retrys, xafile, timesout, ck, faults, pc, todo, failed,
                   tolog, errs, wrote, crashes, stmt>>

\* The proxy process dies: every backend session closes, so every
\* unprepared branch rolls back; the statements in flight are gone; on
\* restart the XA checker reloads xacheck.json.
Crash ==
    /\ crashes < MaxCrashes
    /\ crashes' = crashes + 1
    /\ branch' = [b \in Backends |-> [x \in Txns |-> OnDisconnect(branch[b][x])]]
    /\ pc' = [t \in Txns |-> IF pc[t] = "init" THEN "init" ELSE "done"]
    /\ todo' = [t \in Txns |-> {}]
    /\ failed' = [t \in Txns |-> {}]
    /\ tolog' = [t \in Txns |-> {}]
    /\ conns' = [t \in Txns |-> {}]
    /\ closed' = [t \in Txns |-> TRUE]
    /\ LoadXaCommitErrLogs
    /\ UNCHANGED <<xafile, timesout, faults, tst, errs, wrote, stmt>>

\* Every statement finished and nothing is left to retry.
Quiescent ==
    /\ \A t \in Txns : pc[t] = "done"
    /\ Logged = {}
    /\ UNCHANGED vars

TxnNext(t) ==
    \/ Begin(t)
    \/ BeginScatter(t)
    \/ \E b \in Backends : XaSend(t, b) \/ ExecShard(t, b) \/ LogXaErr(t, b)
    \/ PhaseDone(t)
    \/ Finish(t)

Next ==
    \/ \E t \in Txns : TxnNext(t) \/ Abort(t)
    \/ CheckNext /\ UNCHANGED <<txnVars, crashes>>
    \/ Crash
    \/ Quiescent

\* Each statement goroutine runs on (weak fairness); a goroutine waiting
\* for xc.mu gets it eventually although the worker keeps taking it (Go's
\* sync.Mutex hands the lock to a waiter starved for 1ms: strong fairness).
\* The ticker fires every XaCheckInterval (weak fairness).  Session kills,
\* crashes and injected errors are the environment and are not fair.
Fairness ==
    /\ \A t \in Txns :
         /\ WF_vars(Begin(t) \/ BeginScatter(t) \/ PhaseDone(t) \/ Finish(t))
         /\ \A b \in Backends :
              /\ WF_vars(XaSend(t, b) \/ ExecShard(t, b))
              /\ SF_vars(LogXaErr(t, b))
    /\ WF_vars(CheckNext /\ UNCHANGED <<txnVars, crashes>>)

Spec == Init /\ [][Next]_vars /\ Fairness

-----------------------------------------------------------------------------
(* Properties.                                                             *)

\* The abstract state of a branch: working until XA PREPARE.
AbsState(s) == CASE s \in {"none", "active", "idle"} -> "working"
                 [] s = "prepared"                   -> "prepared"
                 [] s = "committed"                  -> "committed"
                 [] s = "rolledback"                 -> "aborted"

AC == INSTANCE XaAtomicCommit
        WITH rm <- [x \in Txns |-> [b \in Backends |-> AbsState(branch[b][x])]]

\* Txn.Commit, Rollback and RollbackPhaseOne, the session kill, a crash and
\* the XA checker's retries together implement atomic commit of each XID:
\* no branch commits before every branch of the XID is prepared, and no
\* branch of an XID is rolled back once another one committed.
XaAtomicCommitRefined == AC!ACSpec

\* A branch left prepared by a finished statement is in doubt: it holds its
\* locks until someone runs XA COMMIT/ROLLBACK on it.  The only one who
\* does is the XA checker, so every such branch must be in xacheck.json's
\* map or recorded as given up in xacheck_timesout.json.
InDoubtCovered ==
    \A x \in Txns, b \in Backends :
        branch[b][x] = "prepared" /\ pc[x] = "done"
            => retrys[x] # None \/ x \in timesout

\* commitRetryBackends reports an entry done (not timed out) only when the
\* XA <state> it sent finished every branch XA RECOVER listed: the map
\* never forgets an XID that still has a prepared branch.
RetiredOnlyWhenResolved ==
    [][\A x \in Txns :
         (retrys[x] # None /\ retrys'[x] = None /\ x \notin timesout')
            => \A b \in Backends : branch'[b][x] # "prepared"]_vars

\* Every entry written by WriteXaCommitErrLog is eventually taken out of
\* the map by xaCommitsRetryMain (finished or timed out): the retry budget
\* Times bounds the work the checker does for one XID.
EntryEventuallyRetired ==
    \A x \in Txns : (retrys[x] # None) ~> (retrys[x] = None)

\* A prepared branch whose XID is in the checker's map is eventually
\* committed or rolled back, as long as the backends fail fewer times than
\* the retry budget allows: xaCommitsRetryMain keeps retrying it.
LoggedBranchResolved ==
    \A x \in Txns, b \in Backends :
        (retrys[x] # None /\ branch[b][x] = "prepared")
            ~> (branch[b][x] # "prepared")

\* xacheck_timesout.json records incidents: an XID goes there only when
\* some branch of it is still prepared after the retry budget ran out.
\* (Section 4.5, step 5, deletes an entry as soon as every backend of its
\* possibly empty "needs terminate" set succeeded.)
TimeoutOnlyInDoubt ==
    [][\A x \in Txns :
         (x \notin timesout /\ x \in timesout')
            => \E b \in Backends : branch[b][x] = "prepared"]_vars

\* Where a statement's write on b ends up durable: autocommitted outside
\* the XA branch, or inside a branch that committed.
Durable(b, x) ==
    \/ wrote[b][x] = "auto"
    \/ wrote[b][x] = "branch" /\ branch[b][x] = "committed"

\* A write statement is atomic across its shards: when its write on one
\* backend is durable, its branch on no other backend is rolled back with
\* the write on that backend lost.  This is about execute running the
\* statement after Txn.Abort dropped txn.twopcConnections.
NoPartialWrite ==
    \A x \in Txns, b, c \in Backends :
        Durable(b, x) => ~(branch[c][x] = "rolledback" /\ ~Durable(c, x))

=============================================================================
