# TLA+ models of NeoDB's distributed transaction core

NeoDB is a MySQL sharding proxy. A client statement is routed to the
segments it touches, planned into per-shard queries, and run inside a
transaction (`Txn`). A write that spans backends runs as MySQL XA two-phase
commit. The XA checker keeps a persistent log of branches whose COMMIT or
ROLLBACK failed after PREPARE, and retries them.

This directory holds TLA+ models of those parts, the TLC configurations
that check them, and `PROJECT.json`, which records the following:

* the components;
* the runs and the mutants that show each property can fail;
* the map from every definition to the source lines it models;
* the findings;
* the hazards of the code.

## 1. Inventory of the system

| Component | Source | State | Operations that change state | Interacts with |
|---|---|---|---|---|
| Backend connection | `backend/connection.go` | driver handle, `killed`, `lastErr`, timestamp | Dial, ExecuteWithLimits (deadline watcher issues KILL), Kill, Recycle, Close | its Pool, the MySQL session and its XA branch |
| Pool | `backend/pool.go` | channel of idle connections, `connections == nil` after Close | Get (ping after 1 s idle, redial after 20 s), put, Close | Connection, Txn buckets |
| Scatter | `backend/scatter.go` | name → Poolz map, catalog file | add, remove (closes pools), FlushConfig, LoadConfig, CreateTransaction (snapshot of pools) | Pool, TxnManager, XA checker |
| TxnManager | `backend/txnmgr.go` | txn id, `txnNums`, commit rw-lock | CreateTxn, Add, Remove, CommitLock/RLock | Txn, XA checker |
| Txn | `backend/txn.go` | state, xaState, twopc and multi-stmt flags, three connection buckets, `errors` | Begin, Execute (xaStart), execute (fan-out per shard), Commit, Rollback, RollbackPhaseOne, *Scatter variants, ExecuteStreamFetch, Finish, Abort | Pool (connections), MySQL XA branches, XA checker, session |
| XA checker | `backend/xacheck.go` | `retrys` map, `xacheck.json`, `xacheck_timesout.json`, `xc.mu` | WriteXaCommitErrLog, the ticker worker (XA RECOVER, XA COMMIT/ROLLBACK, Times budget), LoadXaCommitErrLogs at Init | Scatter (internal txn to every backend), Txn |
| Session glue | `proxy/session.go`, `proxy/sessions.go` | session map (`ss.mu`), each session's bound txn (`session.mu`) | Add, Remove, Kill (close → Txn.Abort), TxnBinding and MultiStmtTxnBinding (lookup, then set), the UnBindings, Close (rounds until the map is empty) | Txn, the client handler |
| Router | `router/*.go` | per table: segments over 4096 slots | Build (overlap and coverage checks), Lookup, GetIndex (jump hash) | planner |
| Executor engines | `executor/engine/*` | none (pure over result sets) | join (nested loop, cartesian with max rows), union (distinct), merge | Txn.Execute |
| Shift tool | `tools/shift/shift/shift.go`, `neodb.go` | canal and behinds goroutines, unbuffered `done`/`err`, `allDone`, `atomicBool`, ticker, `closeTchan`, `stopSignal`; NeoDB's readonly flag and shift rule | Start, the behinds tick, setNeoDB (nine steps), WaitFinish, close, SetStopSignal | the source and target MySQL, NeoDB's HTTP API |
| DDL handling | `proxy/ddl.go`, `executor/ddl_executor.go` | the router's database and table catalog; each backend's databases and tables | handleDDL per statement form: checks, router update, fan-out to the backends, rollback of the router on error | router, Txn's per-backend goroutines, Scatter's backend list |
| Planner, optimizer, the rest of the proxy front end, ctl, config, plugins | | | | not modelled, see §5 |

The hard behaviours of the system:

* Per-backend goroutines of one fan-out run in any order. The first error
  wins, and the other goroutines still finish.
* A session KILL runs `Txn.Abort` concurrently with the statement's
  goroutines.
* A backend may fail a command, or apply it and lose the reply.
* The proxy may crash between two XA phases. On restart only `xacheck.json`
  survives; MySQL keeps prepared branches and rolls back unprepared ones
  when their session closes.
* The checker's worker holds `xc.mu` for a whole tick, while statements
  wait on it to log their failures.
* The retry budget `Times` is decremented in memory only.

The properties these call for:

* atomic commit per XID;
* no in-doubt branch that nobody will finish;
* no entry forgotten while a branch of it is prepared;
* every entry eventually retired;
* a statement's write is atomic across its shards;
* connections are owned by exactly one holder, and no server session is
  left without an owner;
* the router's segments partition the slots (planned).

## 2. Modules

| Module | Models | Variables | Actions |
|---|---|---|---|
| `MySQLXa` | the XA branch state machine of a MySQL server (environment, not mapped) | none; constants `Backends`, `Txns` | `XaLegal`, `XaTo`, `OnDisconnect`, `Recovered` |
| `XaCheck` | `backend/xacheck.go` | `branch`, `retrys` (xc.retrys), `xafile` (xacheck.json), `timesout` (xacheck_timesout.json), `ck` (the worker inside one tick; non-idle = holds xc.mu), `faults` | `WriteXaCommitErrLog`, `TickStart`, `NextEntry`, `Recover(b)`, `RetryCommit(b)`, `RetryDecide`, `LoadXaCommitErrLogs` |
| `TxnXa` | `backend/txn.go` single-statement XA write and the multiple-statement path (`BeginScatter`, `CommitScatter`, `RollbackScatter`), `proxy/session(s).go` kill, composed with `XaCheck` | `pc`, `tst` (txn.state), `todo`/`failed`/`tolog` (the fan-out's goroutines), `errs` (txn.errors > 0), `conns` (twopcConnections), `wrote`, `closed`, `crashes`, `stmt` (statements that succeeded) | `Begin`, `BeginScatter`, `XaSend(t,b)`, `ExecShard(t,b)`, `LogXaErr(t,b)`, `PhaseDone`, `Finish`, `Abort`, `Crash` |
| `XaAtomicCommit` | what the XA path promises: per-XID atomic commit | `rm` | `ACNext` |
| `Sessions` | `proxy/sessions.go` and `session.close`, with the client handler of spec §4.6 and §5 (single statements, and multiple-statement txns kept bound between statements) | `smap` (ss.sessions), `sconn` (client connection), `stxn` (session.transaction), `stst`/`sntx` (the client's txns), `hpc` (handler), `shut`/`stodo` (Sessions.Close) | `SessionsAdd`, `Create`, `BindingLookup`, `BindingSet`, `UnBindingFinish`, `MultiCommit`, `ClientQuit`, `SessionsRemove`, `SessionsKill`, `CloseStart`, `CloseOne`, `CloseRoundEnd` |
| `MC_TxnXa` | model values and symmetry for TLC | | |
| `MC_PoolSessions` | `PoolConn` (through `MC_PoolConn`) and `Sessions` in one run, as a sum: each moves only while the other is at its initial state (`PoolStep`, `SessStep`), with the registry's fairness restated for its gated steps | | |
| `RouterHash` | `router/hash.go`: `Hash.Build` (RECURSIVE `BuildFrom`, the loop with its early returns), `Lookup`, `GetSegment`, checked against a declarative reference | `conf` (the partition config), `hash` (the built table) | `AddPartition`, `ResetConfig` (config edits, each followed by Build) |
| `ExecEngine` | `executor/engine/union_engine.go` and the Cartesian strategy of `join_engine.go`: the row algorithms as RECURSIVE operators (`RowKey`, `DistinctRows`, `UnionExecute`, `JoinRows`, `cartesianProduct`), checked against set-level reference definitions | `node` (the plan node), `lres`/`rres` (what each child's Execute delivered), `out` | `LeftExecute`, `RightExecute` (the errgroup's two goroutines), `Combine` (after `eg.Wait`) |
| `StreamFetch` | `Txn.ExecuteStreamFetch` in `backend/txn.go`: the cursor-opening errgroup, one producer per cursor, the batching consumer, the `rows` and `stop` channels, the deferred cursor close | `sp`/`sres` (the handler), `qi`/`openers`/`cursors`/`nrows`, `closedC` (closed by the defer), `egErr`, `pos`/`prod` (producers), `rowsCh`/`rowsClosed`/`finished` (cursorFinished), `cons`/`cbuf`/`sent`/`allRowCount` (consumer), `stopClosed`, `sfaults` | `FetchConn`, `OpenCursor(q)`, `OpenWait`, `SendFields`, `ProduceRow(q)`, `ProducerStop(q)`, `RowValuesErr(q)`, `CursorEnd(q)`, `ConsumeRow`, `ConsumeEnd`, `StreamWait` |
| `Shift` | the shift tool's online cut-over after `Start()`: the canal goroutine of `prepareCanal`, the behinds goroutine of `behindsCheckStart` with `setNeoDB`, `WaitFinish` and `close` | `written`/`synced` (master and canal binlog positions), `cst` (canal goroutine), `dumpDone`, `canalClosed`, `canalOK` (atomicBool), `allDone`, `bpc` (behinds goroutine, one value per setNeoDB step), `target` (WaitUntilPos position), `tick`/`tickerStopped`, `closeT`, `mpc` (WaitFinish), `drainer`, `stopSig`, `ro`/`renamed`/`rule` (effects on NeoDB and the target), `sfault`; constants `checksum`/`ruleFlavor` chosen at Init | `ClientWrite`, `TickerFire`, `SetStopSignal` (environment); `CanalDump`, `CanalSync`, `CanalRunReturn`, `CanalRunErr`, `CanalSendErr`; `BehindsDumpWait`, `BehindsTick`, `BehindsClose`, `MasterPos`, `WaitUntilPos`, `SetReadOnly`, `ChecksumStep`, `RenameToTable`, `SetNeoDBRule`, `SetWritable`, `Unthrottle`, `SendDone`, `SetAllDone`, `BehindsSendErr`; `WaitStop`, `CloseShift` |
| `DDL` | `proxy/ddl.go` handleDDL for CREATE/DROP DATABASE, CREATE/DROP TABLE, ALTER, RENAME and ALTER DATABASE, with the fan-out of `ddl_executor.go` and `txn.execute` | `rdb`/`rtab` (the router's catalog), `phys` (each backend's databases and tables), `ses` (a session inside handleDDL: statement, backends still to run, first error), `nstmts`, `dfaults` | `Begin(s)` (the checks, the router update before the fan-out, the early returns), `BackendExec(s,b)` (one goroutine), `Finish(s)` (the router rollback or drop after `Wait`) |
| `ShardKey` | `proxy/ddl.go` checkEngine, tryGetShardKey and checkShardKey, checked against a reference stated on the table's unique keys | `tdef` (the CREATE TABLE definition) | `CheckCreateTable` |
| `Scatter` | `backend/scatter.go` (the backend registry and `backend.json`), `backend/txnmgr.go` (txn ids and `txnNums`), `NewPoolz`/`Poolz.Close`, and the part of Txn that uses them | `sup` (the process: down, up, closed, failed), `reg`/`paddr`/`popen` (map, pools, open pools), `file`/`fexists` (backend.json), `txst`/`snap` (each txn's state and pools snapshot), `txnid`, `txnNums`, `yanked`, `dirty`, `scfaults` | `Add(e)`, `ScatterRemove(n)`, `Close`, `Crash`, `FlushConfig`, `LoadConfig`, `CreateTransaction(t)`, `TxnGetClosed(t,n)`, `TxnExecute(t)` (execute's state.Set), `TxnFinish(t)`, `TxnAbort(t)` (from `live` or `aborting`, at most `MaxAbortCalls` = 2 calls: Kill or Remove, and a `Sessions.Close` round) |
| `MC_Algorithms` | the router, the engines, the streaming fetch, the shift cut-over, DDL, the CREATE TABLE checks and the Scatter in one run: each component moves only while the others are idle, so the state spaces add up | | |
| `PoolConn` | `backend/pool.go`, `backend/connection.go`, the connection buckets and release/kill loops of `backend/txn.go`, and the session side of `proxy/session(s).go` | `chan` (p.connections), `open`, `drv`/`alive` (client and server side of each handle), `killed`, `st`, `twopc`/`normal` (the buckets), `errs`, `g` (the statement's goroutines, one per member of the constant `Kids`: the children of a UNION or JOIN, joined by `eg.Wait`, `StmtOver`), `stmts`, `done`; `insess` (the session is in `Sessions.sessions`), `bound` (the session still holds its txn), `closing`/`rounds` (`Sessions.Close`), `cleanup` (history: which of Finish and Abort ran) | `Accept`, `ExecStart` (`Txn.execute`'s `state.Set(live)`), `Fetch`, `Store`, `ExecDone`, `Return`, `Deadline(t)` (the watcher), `Finish`, `SessionKill`, `SessionRemove`, `Unbind` (`TxnBinding(nil)`), `CloseRound`/`CloseSession` (`Sessions.Close`), `ClosePool`, `Drop(c)` (the server ends an idle session) |
| `MC_PoolConn` | three handles, a twopc txn and a normal txn, symmetry over handles (not used by `pool_owner`, whose liveness property rules it out) | | |

How the code maps to the model:

* **One goroutine, one action.** Each per-backend goroutine of a fan-out
  (`xaStart`, `execute`, `xaEnd`, ...) is one `XaSend` or `ExecShard` step.
  `PhaseDone` is `errgroup.Wait` returning, together with the branch the
  handler takes on its result: the early returns of `Commit`, `Rollback`
  and `RollbackPhaseOne`, and the caller choosing `RollbackPhaseOne` or
  `Rollback`.
* **XA helpers.** `xaStart`/`xaEnd`/`xaPrepare`/`xaCommit`/`xaRollback`
  and the spanner that drives the txn are not in the source tree. They are
  modelled from spec §4.6 and §7, and marked `spec_modelled` in the map.
* **What goes to the checker.** A failure of COMMIT, or of ROLLBACK after
  PREPARE, goes to the XA checker (`tolog`, then `LogXaErr`). Any other
  failure fails the phase.
* **Abort.** `Abort` is `Sessions.Kill` → `session.close` →
  `Txn.Abort`. The session reads its txn before calling Abort, so Abort
  can also arrive after Finish; it is then a no-op. Its deferred reset
  leaves `txn.twopc` false either way, so a later statement's
  `ExecShard` goes through `normalConnection` and autocommits
  (`TwopcOn`). That Kill can fail on a handle is left to `PoolConn`, which
  models it; in `TxnXa` the KILL always ends the branch's session.
* **Duplicate log entry.** `WriteXaCommitErrLog` for an xid already in
  the map fails in `addXaCommitErrLog` and returns before the flush, so
  `xacheck.json` keeps what it had.
* **Crash.** `Crash` kills the proxy. Every backend session closes
  (`OnDisconnect`) and the checker reloads `xacheck.json`.
* **Faults.** An injected fault (`faults < MaxFaults`) either leaves the
  branch unchanged or applies the command and loses the reply.

* **Pool operations as outcome sets.** In `PoolConn`, `Get`, `Put`,
  `Recycle`, `Kill` and `Reconnect` map a record of the pool and handle
  state to the set of states the call may leave. An action takes one
  outcome, so `Kill` (Get, KILL, Recycle) composes the way the code calls
  it. How long a handle sat idle, and when the deadline fires, are
  nondeterministic.
* **Ownership.** A handle is owned by the channel, by a live txn's
  buckets, or by the goroutine that has it in hand. An aborted txn owns
  nothing: Finish skips it.

Composition: `TxnXa` EXTENDS `XaCheck` (shared `branch` and `faults`;
`LogXaErr` calls `WriteXaCommitErrLog`), and states the refinement
`AC == INSTANCE XaAtomicCommit WITH rm <- ...`, which maps the states of a
branch as follows:

* none, active and idle → working;
* prepared → prepared;
* committed → committed;
* rolledback → aborted.

## 3. Runs

The XA runs use `MC_TxnXa`: backends {b1, b2}, and every statement writes
to both (`MCPartsAll`). The router and executor runs use `MC_Algorithms`.

| Run | Bounds | Checks | Result |
|---|---|---|---|
| `xa_commit` | 1 multiple-statement txn of 2 statements, Retrys 1, 2 faults, 1 crash | `TypeOK`, `XaAtomicCommitRefined`, `RetiredOnlyWhenResolved`, `EntryEventuallyRetired`, `LoggedBranchResolved` | pass, ~14k states |
| `xa_two_txns` | 2 single-statement txns, Retrys 1, 2 faults, symmetry | `XaAtomicCommitRefined`, `RetiredOnlyWhenResolved` | pass, ~1M states, 40 s |
| `xa_prepare_fail` | 1 fault, no crash | `InDoubtCovered` | violation |
| `xa_timeout_resolved` | 1 fault | `TimeoutOnlyInDoubt` | violation |
| `xa_abort_partial` | no fault | `NoPartialWrite` | violation |
| `router_build` | 4 slots, bounds 0..5, up to 3 partitions; 4 column values, children of ≤2 rows and ≤2 columns, max_join_rows {2,3}; the stream, shift, DDL, CREATE TABLE and Scatter bounds below | `BuildMatchesReference`, `UnionResultSound`, `CartesianMatchesReference`, `StreamComplete`, `StreamNoHang`, `NoLostWrite`, `ShardKeyMatchesReference`, `RestartRestoresFlushed` | pass, ~3.4M states, 50 s |
| `router_out_of_range` | same | `EverySlotRouted` | violation |
| `pool_owner` | 2 txns, 3 handles, capacity 2, 2 statements each, 2 faults, deadlines, no symmetry (the run checks liveness); beside it (`MC_PoolSessions`) 2 clients, one running a multiple-statement txn, 1 txn each | `TypeOK`, `ExclusiveOwnership`, `NoOrphanSession`, `ShutdownCompletes` | pass, ~500k states, 30 s |
| `pool_owner_all` | 1 statement each, with session kill/remove/unbind, one `Sessions.Close` round and Pool.Close | `ExclusiveOwnership` | pass, ~1.1M states, 22 s |
| `pool_close_orphan` | Pool.Close, no fault | `NoOrphanSession` | violation |
| `abort_fetch_orphan` | Abort, no fault, no deadline | `NoOrphanSession` | violation |
| `deadline_after_return` | deadlines, no fault | `KilledNeverPooled` | violation |

What the passing runs show:

* **XaAtomicCommitRefined.** Across START/END/PREPARE/COMMIT, the rollback
  paths, a session kill, a crash and the checker's retries, no branch
  commits before every branch is prepared. No branch rolls back once
  another committed. The checker never sends the wrong terminal command.
* **RetiredOnlyWhenResolved.** An entry is deleted as done only when none
  of its branches is prepared. This holds even when the statement's own
  COMMIT goroutines race the retry, or a COMMIT reply is lost.
* **EntryEventuallyRetired.** The budget ends every entry, even though a
  restart reloads the undecremented `Times`.
* **LoggedBranchResolved.** With no more faults than the budget absorbs
  (2 with Retrys 1), a logged prepared branch is finished.
  It breaks with 3 faults.
* **BuildMatchesReference.** `Hash.Build` accepts exactly the configs whose
  ranges do not overlap and cover every slot, and then maps each slot to the
  partition whose range holds it.
* **UnionResultSound.** Soundness only: UNION ALL returns both children
  in order; UNION and UNION DISTINCT return pairwise different rows of the
  children; either counts its rows in RowsAffected; a column-count
  mismatch is an error. Completeness is `UnionDistinctComplete`
  (disagreement 9).
* **CartesianMatchesReference.** The Cartesian join returns every pair,
  left-major, projected through `Cols`, while the pairs fit in
  `max_join_rows`, and fails exactly when they do not.
* **StreamComplete.** A streaming fetch that sends its finish packet has
  delivered every row of every shard once, each shard's rows in cursor
  order, and reports their number.
* **StreamNoHang.** Whenever no goroutine of the streaming fetch can move,
  it has returned and none of its goroutines is blocked. This holds even
  when the consumer gives up on a failed callback while a producer waits
  on a full channel.
* **NoLostWrite.** When the shift tool's `setNeoDBRule` moves the table
  to the new backend, the canal has applied every write the old backend
  took. It rests on the order of `setNeoDB`: readonly, then the master
  position read again and waited for. It holds across stop signals,
  canal failures and failing calls at every step.
* **ShardKeyMatchesReference.** handleDDL accepts a CREATE TABLE exactly
  when its engine is supported and its sharding column, named or chosen
  from the keys, belongs to every unique key; the column it picks is the
  first keyed column, else the first column of the first unique index.
* **RestartRestoresFlushed.** A restart registers exactly the backends
  the last completed FlushConfig wrote, also after a Panicf between the
  file write and the version bump; LoadConfig never fails on the proxy's
  own file.
* **ShutdownCompletes.** Once `Sessions.Close` has started a round, it
  returns: each round closes the connection of every session left, and
  every handler, whatever statement or binding step it is in, sees its
  closed connection and Removes its session, even while the rounds keep
  taking `ss.mu`. Kills and clients quitting at any point do not stop it.
* **ExclusiveOwnership (with sessions).** A session kill, `Sessions.Close`
  and `Remove` racing a statement still never give one handle two owners.

The violations are real disagreements (see `findings` in `PROJECT.json`):

1. **A PREPARE failure leaves an unlogged in-doubt branch.** After a
   PREPARE failure the full `Rollback` begins with XA END, which the
   server refuses on idle or prepared branches. The other backend's
   prepared branch is left in doubt and is never logged.
2. **A crash after PREPARE loses the branch.** A crash between PREPARE
   and COMMIT leaves prepared branches that no log records. This is the
   TODO at `xacheck.go:171`. `InDoubtCovered` fails this way with one
   crash and no fault. No run keeps that configuration; the hazard at
   `txn.go:300` records it.
3. **Finished entries become incidents.** `count > 0` makes an entry whose
   branches are all finished (reply lost) run out its budget. It is then
   filed in `xacheck_timesout.json`, where spec §4.5 would delete it.
4. **A kill can split a statement.** `Abort` drops `twopcConnections`
   mid-statement. Later shard goroutines write through fresh autocommit
   connections while the XA branches roll back.

5. **Build accepts ranges past the last slot.** `Hash.Build` counts
   mapped slots but never checks that a range lies inside
   `[0, slots)`. `1-5` over 4 slots builds, and a key hashing to slot 0
   gets the zero `Segment`.

6. **Put on a closed pool leaks the session.** `Pool.put` returns at
   once when `p.connections` is nil. A txn that finishes after its pool
   was closed leaves its handle open and unowned. Spec §3.2 says Put
   closes it.
7. **A handle fetched during Abort escapes.** `twopcConnection` and
   `normalConnection` store the handle without looking at `txn.state`.
   If Abort runs between Get and the store, nobody kills, closes or
   recycles the handle. In twopc mode its session holds an active XA
   branch.
8. **A late deadline recycles a killed handle.** The watcher can take
   `ctx.Done` after the query returned, before `close(done)`. The
   statement succeeds, the session is KILLed, and Finish recycles the
   handle. The next Get within 1 s hands it out without a ping. Spec
   scenario D says a killed connection is dropped.

Ten more disagreements are checked by configurations that are ready but
not listed as runs, because the run list is full:

9. **UNION merges different rows** (`union_key_collision.cfg`,
   `UnionDistinctComplete`). The hash key concatenates the columns' Raw
   bytes with no separator or NULL marker. `[(NULL)] UNION [('')]`
   returns one row, and so do `('a','')` and `('','a')`.
10. **execute revives an aborted txn** (`abort_revive.cfg`,
   `FinishAbortExclusive`). `Txn.execute` overwrites `txn.state` with
   ExecutingTwoPC or ExecutingNormal without looking at it. A session KILL whose Abort ran before the statement
   reached `execute` is undone, and Finish later runs on the same txn:
   both cleanups run, where spec says Abort and Finish exclude each other.
11. **A failed connection fetch leaks a stream cursor**
   (`stream_cursor_leak.cfg`, `CursorsClosed`). `ExecuteStreamFetch`
   returns as soon as `fetchOneConnection` fails for a later query. The
   `oneShard` goroutine of an earlier query may still be opening its
   cursor. The deferred close loop has then already run, so that cursor is
   never closed.
12. **A shift goroutine blocks for ever** (`shift_goroutine_leak.cfg`,
   `ShiftNoLeak`). `done` and `err` are unbuffered and WaitFinish receives
   once. After it returned on an error, the canal goroutine (or the
   behinds goroutine) blocks sending the next error. After a stop the
   drainer receives one error, and waits for ever if `canal.Run` returns
   nil. `done <- true` comes before `allDone.Set(true)`, so even a
   successful shift can close the canal while `allDone` is still false,
   and the canal's exit error is then sent to nobody. The go-mysql canal
   is not in the tree, so `canal.Run` after `Close` may return either; each
   choice leaks a goroutine on some path.
13. **NeoDB stays read-only after a failed shift**
   (`shift_readonly_stuck.cfg`, `ReadOnlyReleased`). Once step 2 set
   readonly, a failure of any later step returns an error, and nothing
   resets readonly. The shortest trace is a failed `checksum table`:
   `checksumFunc` does not return after the error, and `r.GetUint` on the
   nil result panics, killing the tool with NeoDB read-only.
14. **Concurrent DDL splits the catalog** (`ddl_concurrent_orphan.cfg`,
   `CatalogAgreement`). handleDDL takes no lock across a statement. Two
   sessions' fan-outs reach the backends in different orders with no
   backend failing: a DROP DATABASE that one backend refuses while
   another CREATE DATABASE is in flight leaves the router with the
   database and a backend without it; a CREATE TABLE can pass the
   router's check while the database is still being created.
15. **Remove yanks a snapshot's pool** (`scatter_yanked_pool.cfg`,
   `NoYankedPool`). CreateTransaction copies the map of pools, but
   Remove closes the removed backend's pool, so a transaction created
   before it fails its next connection fetch on that backend with
   errClosed. Spec §4.3 says the snapshot exists so that a removal does
   not yank the pools a transaction borrowed.
16. **A KILL before MultiStmtTxnBinding orphans the txn**
   (`sessions_multi_orphan.cfg` on `MC_PoolSessions`, `NoOrphanTxn`). The binding looks the
   session up under `ss.mu.RLock` and sets `session.transaction` later.
   A Kill after BEGIN created the txn and before the set closes a
   session that has no transaction yet; the txn is then bound to a
   session no longer in the map, or not bound at all, and the handler's
   `Remove` finds nothing. Nobody aborts the multiple-statement txn, where
   spec §5 says session close aborts any bound Txn. The handler is
   modelled from the spec, since the spanner is not in the tree.
17. **Two children of one statement leak a twopc session**
   (`twopc_store_race.cfg`, `NoOrphanSession`, `Kids = {1, 2}`).
   `twopcConnection` reads `twopcConnections` under `RLock` and stores
   under `Lock`. The two goroutines of a UNION or JOIN on the same backend
   both miss, both Get a handle, and the second store overwrites the
   first. The first handle stays checked out with its session, and Finish
   never releases it; the first child's rows also ran outside the XA
   branch the transaction ends.
18. **txnNums stops counting the live transactions**
   (`scatter_txn_count.cfg`, `LiveTxnCount`). Abort skips only a
   finishing txn and Finish only an aborting one. A session kill's Abort,
   then the next statement's `execute`, which sets the state to executing
   without the lock, leave a txn running that `txnNums` no longer counts;
   its Finish calls `mgr.Remove` again. A second Abort from a
   `Sessions.Close` round does the same.

Every property of a passing run has a mutant in `PROJECT.json`. Each is a
plausible code bug, defined next to the operator it replaces, that TLC
catches under the run's own configuration:

| Mutant | Bug it stands for | Property it breaks |
|---|---|---|
| `RetryDecideTimesBelowZero` | `<` for `<=` | `TypeOK` |
| `PhaseNextIgnorePrepareErr` | ignore xaPrepare's error | refinement |
| `RetryCommitCountAll` | `count++` on errors | `RetiredOnlyWhenResolved` |
| `RetryDecideNoDecrement` | drop `Times--` | `EntryEventuallyRetired` |
| `RecoverOverwriteNeed` | assign instead of append | `LoggedBranchResolved` |
| `BuildFromNoOverlap` | bitmap written without the overlap test | `BuildMatchesReference` |
| `PutNoCapacity` | queue without the full-channel test | `TypeOK` (PoolConn) |
| `KillRecycleVictim` | `defer c.Recycle()` for `kill.Recycle()` | `ExclusiveOwnership` |
| `GetExpiredNoClose` | drop an expired handle without Close | `NoOrphanSession` |
| `DistinctRowsNoLookup` | Put every row without `table.Get` | `UnionResultSound` |
| `ConsumeEndNoFlush` | drop the last partial batch | `StreamComplete` |
| `DeliverNoStop` | return on a failed callback without `close(stop)` | `StreamNoHang` |
| `WaitUntilPosShort` | WaitUntilPos returning one event short | `NoLostWrite` |
| `cartesianProductLimitAtMax` | `>=` for `>` in the max-rows check | `CartesianMatchesReference` |
| `checkShardKeyPrimaryIdx` | test `index.Primary` only, not `index.Unique` | `ShardKeyMatchesReference` |
| `LoadAddsReturnEarly` | LoadConfig's loop returns after its first add | `RestartRestoresFlushed` |
| `CloseOneNoConnClose` | session.close aborting the txn without closing the connection | `ShutdownCompletes` |

### Bounds

* **Two backends.** This is the least that makes a distributed commit:
  a partial PREPARE, one branch committed while the other is not.
* **One txn for liveness, two for safety.** Two txns exercise a tick
  over several entries, and the recover error that ends the tick for
  all of them.
* **Two faults against Retrys 1.** This is the most the budget absorbs,
  so `LoggedBranchResolved` holds, and with three it fails. The budget
  still runs out without a fault when a retry finds its branch already
  finished.
* **One crash.** It is enough to reload a map whose Times was
  decremented.
* **Two statements in the multiple-statement txn.** A first statement
  that succeeds and a second that fails, or a kill between them, is the
  least that makes a branch hold part of a transaction.

* **PoolConn: three handles, capacity 2, two statements per txn.** A
  full channel, an empty channel with handles left to dial, and a Kill
  that needs a handle of its own are all reached. A twopc txn reuses its
  handle; a normal txn takes a new one per statement. `pool_owner_all`
  keeps one statement per txn so that the session actions fit in time.
  When no handle is left to dial, `Get` fails without consuming a fault,
  standing for the dial error a real server gives at its connection limit.
  The runs keep one goroutine per statement (`Kids = {1}`): with two, the
  twopc store race (disagreement 17) happens within a few steps, and the
  state space of the other actions doubles.
* **Executor: 4 values, ≤2 rows of ≤2 columns.** The values are NULL, '',
  'a' and 'ab', the least that makes a NULL meet an empty string and two
  columns' bytes run together; two rows per side make duplicates within
  and across sides, and `max_join_rows` 2 and 3 put the limit below, at
  and above the 4 pairs.
* **Streaming fetch: 2 shards, ≤2 rows each, channel capacity 1, batches
  of 2, 1 error.** The real channel holds 65536 rows. A capacity of one
  makes a producer block on it, which is the case `stop` exists for. Up to
  four rows in batches of two give a full batch, a partial last batch, and
  a failed callback with rows still to send.

* **Shift: two client writes, cfg.Behinds 1, one failing call.** Two
  writes make a lag of 2, which takes the throttle branch, and of 1, which
  starts the cut-over; a write can fall between the two master-position
  reads. Both values of `cfg.Checksum` and of the target flavor are
  explored. One failing call reaches every error return of setNeoDB, a
  canal failure, and the checksum panic. The other components run beside
  one of the four configurations only, since they share nothing with it.

* **DDL: one session, two backends, two tables, six statements, one
  failing backend execution.** Every statement form with and without IF
  [NOT] EXISTS is tried, so each check's early return and each rollback
  is reached; six statements create, fill, rename and drop a database.
  The concurrency finding needs a second session, which only its
  prepared configuration adds.
* **CREATE TABLE: two column names, up to two indexes.** This is every
  definition over two columns, so a key on the other column, a unique
  index without the sharding column, and a PRIMARY KEY against a
  column-level UNIQUE are all met.
* **Scatter: two names, two addresses, three pools, one failed write;
  one transaction in `router_build`, two in the prepared configurations.**
  Two names on one address reach the address check; three pools let a
  name be removed and added back within a lifetime. No property of
  `router_build` is about transactions, so one keeps their actions
  reached; `scatter_yanked_pool.cfg` and `scatter_txn_count.cfg` use two.
* **Sessions: two clients, one txn each, one of them multiple-statement.**
  One client of each kind reaches both binding paths; a Kill, a quit or a
  shutdown round can fall between any two steps of either. More txns per
  client repeat the same steps.

Together the passing runs fire every action and every disjunct of
`Next`, `XaSend`, `RetryCommit` and `Recover`.

### Fairness

* **Weak fairness for each goroutine.** Each goroutine of a statement's
  fan-out, the statement handler itself, and the checker's ticker get weak
  fairness: they are runnable goroutines, and the ticker fires every
  `XaCheckInterval`.
* **Strong fairness for the log writer.** `LogXaErr` waits for `xc.mu`,
  which the worker takes on every tick. Go's `sync.Mutex` switches to
  starvation mode and hands the lock to a waiter blocked more than 1 ms,
  which justifies strong fairness.
* **Strong fairness for the session handlers.** A handler's binding
  lookup, unbinding and Remove wait for `ss.mu`, which every round of
  `Sessions.Close` takes; `sync.RWMutex` starvation mode gives it the lock.
  The shutdown goroutine's steps are weakly fair once Close was called.
* **Fairness in a sum.** In `MC_PoolSessions` each fairness condition is stated
  for the component's steps taken while the other is at its initial
  state, so the pool's steps never make the registry's behaviours vacuous.
* **No fairness for the environment.** Kills, crashes, injected
  faults, clients and the call of `Sessions.Close` get no fairness.
* **No fairness in PoolConn, RouterHash, ExecEngine, StreamFetch, Shift, DDL, ShardKey and Scatter.** Their own properties are
  safety only (the liveness property of `pool_owner` is the registry's).

## 4. Plan for the next sittings

1. **Connection ownership (done).** Pool, Connection, the buckets, the
   `twopcConnection` race between two goroutines of one statement
   (`Kids`), TxnManager counters and Scatter add/remove against a txn's
   pools snapshot (`Scatter`). Still open: a passing run with `Kids = {1, 2}`
   once the race is fixed.
7. **Session registry (done).** `Sessions`, composed with `PoolConn`.
   Still open: the registry composed with `TxnXa` in one run, which needs
   a run small enough for liveness without symmetry.
6. **DDL (done for single-table statements).** Still open: multi-table
   DROP, list and global tables, and the ACL and privilege checks.
2. **Router (done for Hash).** `GetIndex` stays abstract: jump hash
   needs 64-bit arithmetic, which TLC's integers do not have.
3. **Executor (UNION and Cartesian done).** The nested-loop and
   sort-merge strategies need `concatLeftAndNil`, `sortMergeJoin` and
   the join-condition evaluation, which are not in the source tree.
4. **Multi-statement XA (done).** The caller that chooses between
   `CommitScatter` and `RollbackScatter` is not in the tree; the model
   follows spec §4.6: any error leads to the rollback.
5. **Shift tool (cut-over done).** Still open: a property for what a
   stopped shift promises (a stop during setNeoDB lets the rule move after
   WaitFinish reported the stop), and the two positions of a tick read
   apart, where the uint32 lag wraps.

## 5. Not modelled

* **Out of TLC's useful reach.** The SQL parser and planner/optimizer are
  string and AST rewriting.
* **Pure I/O or protocol.** This covers the proxy's MySQL handshake and
  query dispatch, the admin HTTP API (`ctl`), configuration loading, the
  privilege plugin and the vendored packet code.
* **Parts of the shift tool.** The spec excludes the tool, but its
  cut-over protocol is concurrent code a model checker reaches, so it is
  modelled. Not modelled are `Start()`'s preparation (connections, table
  creation, mysqldump), the binlog row handlers (`insert_mysql.go`,
  `insert_neodb.go`, `parse_value.go`), which are data conversion, and
  the throttle factor arithmetic. `Pool` and `Cleanup` are not in this
  tree. What `Pool.Get` does after `close()` is therefore left open: a
  call may fail.
* **Code outside the tree.** `xbase.WriteFile` (taken as atomic, as
  spec §4.3 says), `config.UpdateVersion` (only its failure is
  modelled), the admin API that calls Scatter's Add and Remove (the
  environment of `Scatter`), the router catalog (`Router.CreateDatabase`,
  `DropTable` ... taken as atomic, failing on a missing or existing name),
  the planner's `DDLPlan`, and the join helpers named above. The
  TxnManager's commit lock is never write-locked by code in the tree.
* **Parts of DDL.** The ACL and privilege checks, multi-table DROP,
  list and global tables, and MySQL's own DDL semantics beyond exists /
  not exists. A backend that fails part of a fan-out leaves the catalogs
  apart, which the spec accepts; `CatalogAgreement` is stated without a
  backend failure, and is checked only by the two-session
  `ddl_concurrent_orphan.cfg` (disagreement 14): with one session it
  could not meet the race it is about.
* **A driver error inside a cursor.** `oneFetch` treats `cursor.Next()`
  returning false as the end of the cursor and never asks the cursor for
  an error (txn.go 633-640), so a shard whose stream broke off looks like
  a finished one. `CursorEnd` models exactly that; `StreamComplete`
  compares against the rows the cursor yielded, and says nothing about a
  truncated shard.
* **Read-only session functions.** `Sessions.Reaches`, `getSession`
  and the `Snapshot*` functions only read or copy the map; the session's
  streaming-fetch capability bit is a per-session flag no property is
  about.
* **Not modelled at all.** Memory limits and query deadlines of a single
  connection, and the JSON encoding of `xacheck.json`. The model keeps
  only that a flush writes the whole map.
