------------------------------- MODULE XaCheck -------------------------------
(***************************************************************************)
(* The XA checker of backend/xacheck.go: the persistent log of XA          *)
(* branches whose COMMIT or ROLLBACK failed after PREPARE, and the ticker  *)
(* worker that retries them.                                               *)
(*                                                                         *)
(*  retrys    the in-memory map xc.retrys (xid -> XaCommitErr)             *)
(*  xafile    the content of xacheck.json (rewritten by every flush)       *)
(*  timesout  the xids appended to xacheck_timesout.json                   *)
(*  ck        the worker: where it is in xaCommitsRetryMain and            *)
(*            commitRetryBackends, the entries left in this range over     *)
(*            the map, the backends still to ask, needCommitBackends and   *)
(*            the success count.  While ck.pc # "idle" the worker holds   *)
(*            xc.mu (xaCommitsRetry locks it for the whole tick).          *)
(*  faults    backend errors injected so far (bounded by MaxFaults); it is *)
(*            shared with the transactions that also talk to the backends. *)
(***************************************************************************)
EXTENDS MySQLXa

CONSTANTS
    Retrys,     \* conf.XaCheckRetrys: the Times an entry starts with
    MaxFaults,  \* bound on injected backend errors
    None        \* no entry for this xid

ASSUME Retrys \in Nat /\ MaxFaults \in Nat

VARIABLES branch, retrys, xafile, timesout, ck, faults

XaCommitErr == [state : {"commit", "rollback"}, times : 0..Retrys]

CkIdle == [pc |-> "idle", left |-> {}, cur |-> None, todo |-> {},
           need |-> {}, count |-> 0]

Logged == {x \in Txns : retrys[x] # None}

CheckTypeOK ==
    /\ branch \in [Backends -> [Txns -> BranchStates]]
    /\ retrys \in [Txns -> XaCommitErr \cup {None}]
    /\ xafile \in [Txns -> XaCommitErr \cup {None}]
    /\ timesout \subseteq Txns
    /\ ck \in [pc : {"idle", "next", "recover", "commit"},
               left : SUBSET Txns, cur : Txns \cup {None},
               todo : SUBSET Backends, need : SUBSET Backends,
               count : 0..Cardinality(Backends)]
    /\ faults \in 0..MaxFaults

CheckInit ==
    /\ retrys = [x \in Txns |-> None]
    /\ xafile = retrys
    /\ timesout = {}
    /\ ck = CkIdle

-----------------------------------------------------------------------------
(* The write path, called by a transaction.                                *)

\* addXaCommitErrLog: a duplicate xid is rejected, otherwise the entry is
\* added with the full retry budget.
AddXaCommitErrLog(x, st) ==
    IF retrys[x] = None
    THEN [retrys EXCEPT ![x] = [state |-> st, times |-> Retrys]]
    ELSE retrys

\* flushXaCommitErrLog: rewrite xacheck.json from the whole map.
FlushXaCommitErrLog == xafile' = retrys'

\* WriteXaCommitErrLog: under xc.mu, add the entry and flush it; a
\* duplicate xid makes addXaCommitErrLog fail, and the write returns before
\* the flush.  The lock is taken by the worker for a whole tick, so the
\* writer waits for it.
WriteXaCommitErrLog(x, st) ==
    /\ ck.pc = "idle"
    /\ retrys' = AddXaCommitErrLog(x, st)
    /\ IF retrys[x] = None THEN FlushXaCommitErrLog ELSE UNCHANGED xafile
    /\ UNCHANGED <<timesout, ck>>

-----------------------------------------------------------------------------
(* The retry worker.                                                       *)

\* xaCommitCheck/xaCommitsRetry: a tick of the ticker takes xc.mu and
\* xaCommitsRetryMain ranges over the map.  A tick over an empty map
\* changes nothing and is left out.
TickStart ==
    /\ ck.pc = "idle"
    /\ Logged # {}
    /\ ck' = [CkIdle EXCEPT !.pc = "next", !.left = Logged]
    /\ UNCHANGED <<branch, retrys, xafile, timesout, faults>>

\* xaCommitsRetryMain: take the next entry of the range (Go map order is
\* unspecified), or end the tick and release xc.mu.  commitRetryBackends
\* starts with AllBackends and a fresh internal transaction.
NextEntry ==
    /\ ck.pc = "next"
    /\ IF ck.left = {}
       THEN ck' = CkIdle
       ELSE \E x \in ck.left :
              ck' = [ck EXCEPT !.pc = "recover", !.cur = x,
                               !.left = @ \ {x}, !.todo = Backends,
                               !.need = {}, !.count = 0]
    /\ UNCHANGED <<branch, retrys, xafile, timesout, faults>>

\* Faulty variant of Recover: needCommitBackends is overwritten by the
\* backend that lists the xid instead of appended to.
RecoverOverwriteNeed(b) ==
    /\ ck.pc = "recover"
    /\ b \in ck.todo
    /\ \/ /\ LET need == IF ck.cur \in Recovered(branch, b)
                         THEN {b} ELSE ck.need
                 todo == ck.todo \ {b}
             IN ck' = [ck EXCEPT !.todo = IF todo = {} THEN need ELSE todo,
                                 !.need = need,
                                 !.pc = IF todo = {} THEN "commit" ELSE "recover"]
          /\ UNCHANGED faults
       \/ /\ faults < MaxFaults
          /\ faults' = faults + 1
          /\ ck' = CkIdle
    /\ UNCHANGED <<branch, retrys, xafile, timesout>>

\* commitRetryBackends, first stage: XA RECOVER on one backend.  A backend
\* that lists the xid joins needCommitBackends.  An error returns from
\* commitRetryBackends, and xaCommitsRetryMain returns at once: the rest of
\* this tick, the other entries included, is skipped and Times is kept.
Recover(b) ==
    /\ ck.pc = "recover"
    /\ b \in ck.todo
    /\ \/ /\ LET need == IF ck.cur \in Recovered(branch, b)
                         THEN ck.need \cup {b} ELSE ck.need
                 todo == ck.todo \ {b}
             IN ck' = [ck EXCEPT !.todo = IF todo = {} THEN need ELSE todo,
                                 !.need = need,
                                 !.pc = IF todo = {} THEN "commit" ELSE "recover"]
          /\ UNCHANGED faults
       \/ /\ faults < MaxFaults
          /\ faults' = faults + 1
          /\ ck' = CkIdle
    /\ UNCHANGED <<branch, retrys, xafile, timesout>>

\* Faulty variant of RetryCommit: count++ also when the command failed.
RetryCommitCountAll(b) ==
    /\ ck.pc = "commit"
    /\ b \in ck.todo
    /\ LET x == ck.cur  s == branch[b][x]  cmd == retrys[x].state
       IN \/ /\ XaLegal(cmd, s)
             /\ branch' = [branch EXCEPT ![b][x] = XaTo[cmd]]
             /\ UNCHANGED faults
          \/ ~XaLegal(cmd, s) /\ UNCHANGED <<branch, faults>>
          \/ /\ faults < MaxFaults
             /\ faults' = faults + 1
             /\ branch' \in {[branch EXCEPT ![b][x] = t] :
                              t \in {s} \cup IF XaLegal(cmd, s)
                                             THEN {XaTo[cmd]} ELSE {}}
    /\ ck' = [ck EXCEPT !.todo = @ \ {b}, !.count = @ + 1]
    /\ UNCHANGED <<retrys, xafile, timesout>>

\* commitRetryBackends, second stage: XA <state> 'xid' on one backend of
\* needCommitBackends; a success is counted.  The command fails when the
\* branch was finished meanwhile, or by an injected error, which may come
\* after the server applied it (the reply is lost).
RetryCommit(b) ==
    /\ ck.pc = "commit"
    /\ b \in ck.todo
    /\ LET x   == ck.cur
           cmd == retrys[x].state
           s   == branch[b][x]
       IN \/ /\ XaLegal(cmd, s)
             /\ branch' = [branch EXCEPT ![b][x] = XaTo[cmd]]
             /\ ck' = [ck EXCEPT !.todo = @ \ {b}, !.count = @ + 1]
             /\ UNCHANGED faults
          \/ /\ ~XaLegal(cmd, s)
             /\ ck' = [ck EXCEPT !.todo = @ \ {b}]
             /\ UNCHANGED <<branch, faults>>
          \/ /\ faults < MaxFaults
             /\ faults' = faults + 1
             /\ branch' \in {[branch EXCEPT ![b][x] = t] :
                              t \in {s} \cup IF XaLegal(cmd, s)
                                             THEN {XaTo[cmd]} ELSE {}}
             /\ ck' = [ck EXCEPT !.todo = @ \ {b}]
    /\ UNCHANGED <<retrys, xafile, timesout>>

\* Faulty variants of RetryDecide: Times is never decremented; the budget
\* is tested with < instead of <=.
RetryDecideNoDecrement ==
    /\ ck.pc = "commit"
    /\ ck.todo = {}
    /\ LET x == ck.cur
           committed == ck.count > 0 /\ ck.count = Cardinality(ck.need)
       IN IF committed \/ retrys[x].times <= 0
          THEN /\ retrys' = [retrys EXCEPT ![x] = None]
               /\ FlushXaCommitErrLog
               /\ timesout' = IF committed THEN timesout ELSE timesout \cup {x}
          ELSE UNCHANGED <<retrys, xafile, timesout>>
    /\ ck' = [ck EXCEPT !.pc = "next", !.cur = None]
    /\ UNCHANGED <<branch, faults>>

RetryDecideTimesBelowZero ==
    /\ ck.pc = "commit"
    /\ ck.todo = {}
    /\ LET x == ck.cur
           committed == ck.count > 0 /\ ck.count = Cardinality(ck.need)
       IN IF committed \/ retrys[x].times < 0
          THEN /\ retrys' = [retrys EXCEPT ![x] = None]
               /\ FlushXaCommitErrLog
               /\ timesout' = IF committed THEN timesout ELSE timesout \cup {x}
          ELSE /\ retrys' = [retrys EXCEPT ![x].times = @ - 1]
               /\ UNCHANGED <<xafile, timesout>>
    /\ ck' = [ck EXCEPT !.pc = "next", !.cur = None]
    /\ UNCHANGED <<branch, faults>>

\* The end of commitRetryBackends and its use in xaCommitsRetryMain: the
\* entry is done when count > 0 and count = len(needCommitBackends); else,
\* with Times <= 0, it is appended to xacheck_timesout.json and done; else
\* Times is decremented in memory only.  A done entry is deleted from the
\* map and the map is flushed.
RetryDecide ==
    /\ ck.pc = "commit"
    /\ ck.todo = {}
    /\ LET x == ck.cur
           e == retrys[x]
           committed == ck.count > 0 /\ ck.count = Cardinality(ck.need)
       IN IF committed \/ e.times <= 0
          THEN /\ retrys' = [retrys EXCEPT ![x] = None]
               /\ FlushXaCommitErrLog
               /\ timesout' = IF committed THEN timesout ELSE timesout \cup {x}
          ELSE /\ retrys' = [retrys EXCEPT ![x].times = @ - 1]
               /\ UNCHANGED <<xafile, timesout>>
    /\ ck' = [ck EXCEPT !.pc = "next", !.cur = None]
    /\ UNCHANGED <<branch, faults>>

\* XaCheck.Init/LoadXaCommitErrLogs after a restart: the map is what
\* xacheck.json holds, and the worker starts idle.
LoadXaCommitErrLogs ==
    /\ retrys' = xafile
    /\ ck' = CkIdle

CheckNext ==
    \/ TickStart
    \/ NextEntry
    \/ \E b \in Backends : Recover(b) \/ RetryCommit(b)
    \/ RetryDecide
=============================================================================
