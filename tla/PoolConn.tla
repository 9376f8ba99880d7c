------------------------------- MODULE PoolConn -------------------------------
(***************************************************************************)
(* Who owns a backend connection: the idle queue of its Pool                *)
(* (backend/pool.go), a Txn's connection buckets (backend/txn.go), or the  *)
(* goroutine of a statement that has it in hand.  Connection handles       *)
(* (backend/connection.go) are model values; a handle is unused until      *)
(* Dial gives it a server session.                                          *)
(*                                                                         *)
(*  chan    the buffered channel p.connections (FIFO of idle handles)      *)
(*  open    p.connections # nil (Pool.Close sets it to nil)                *)
(*  drv     the client side of a handle: unused, open, or closed (Close)   *)
(*  alive   the server side: the MySQL session still exists                *)
(*  killed  the handle's killed flag (set by the deadline watcher, never   *)
(*          reset)                                                         *)
(*  st      txn.state: live, finishing (Finish won) or aborting (Abort won) *)
(*  twopc   txn.twopcConnections[backend] (one backend: NoConn or a handle) *)
(*  normal  txn.normalConnections (the slice is never cleared)             *)
(*  errs    txn.errors > 0                                                 *)
(*  g       the statement's goroutines calling Txn.Execute (one, or the    *)
(*          two children of a UNION or JOIN), each in its oneShard: where  *)
(*          it is, its handle, and whether its deadline watcher has fired  *)
(*  stmts   statements begun so far; done: txns the caller has Finished    *)
(*  insess  txns whose client session is in Sessions.sessions              *)
(*  bound   txns bound to their session (session.transaction)             *)
(*  closing sessions Sessions.Close still has to visit in its current     *)
(*          round, holding ss.mu; rounds: rounds begun so far             *)
(*  cleanup history: which of Finish and Abort ran their cleanup for a txn *)
(*                                                                         *)
(* One backend and its normal pool; the replica pool and bucket have the  *)
(* same shape and are left out.  Timing is abstracted: how long a handle  *)
(* sat idle, and whether the deadline fires, are nondeterministic.        *)
(***************************************************************************)
EXTENDS Naturals, Sequences, FiniteSets, SequencesExt

CONSTANTS
    Conns,          \* connection handles Dial may hand out
    Txns,
    Cap,            \* conf.MaxConnections: the channel's capacity
    MaxStmts,       \* bound on the statements of one txn
    MaxFaults,      \* bound on injected errors: dial, KILL, dropped sessions
    TwopcMode,      \* [Txns -> BOOLEAN]: Begin set txn.twopc
    Timeout,        \* txn.timeout > 0: a deadline watcher is armed
    AbortEnabled,   \* sessions may be killed (session.close -> Txn.Abort)
    CloseEnabled,   \* the pool may be closed (Scatter.remove, shutdown)
    MaxCloseRounds, \* rounds of the Sessions.Close shutdown loop
    Kids,           \* the goroutines of one statement that call Txn.Execute:
                    \* one, or the two children union_engine.go and
                    \* join_engine.go run with eg.Go
    NoConn

ASSUME Cap \in Nat \ {0} /\ MaxStmts \in Nat /\ MaxFaults \in Nat /\ MaxCloseRounds \in Nat
ASSUME Timeout \in BOOLEAN /\ AbortEnabled \in BOOLEAN /\ CloseEnabled \in BOOLEAN

VARIABLES chan, open, drv, alive, faults, killed,
          st, twopc, normal, errs, g, stmts, done,
          insess, bound, closing, rounds, cleanup

poolVars == <<chan, open, drv, alive, faults>>
sessVars == <<insess, bound, closing, rounds>>
vars == <<chan, open, drv, alive, faults, killed,
          st, twopc, normal, errs, g, stmts, done, sessVars, cleanup>>

\* The pool and handle state as one record, so that Get, Put and Kill can
\* be composed the way the code calls them.
W == [chan |-> chan, open |-> open, drv |-> drv, alive |-> alive, faults |-> faults]

SetW(w) == /\ chan' = w.chan /\ open' = w.open /\ drv' = w.drv
           /\ alive' = w.alive /\ faults' = w.faults

-----------------------------------------------------------------------------
(* backend/connection.go and backend/pool.go                               *)

\* connection.Close: the driver is closed, and with it the server session.
CloseConn(w, c) == [w EXCEPT !.drv[c] = "closed", !.alive[c] = FALSE]

\* Pool.reconnect: NewConnection and Dial.  Dial either opens a server
\* session on a fresh handle, or fails (the handle is closed with a nil
\* driver and dropped) and Get returns the error.  When the model has no
\* fresh handle left, Dial fails without using up a fault.
Reconnect(w) ==
    LET fresh == {h \in Conns : w.drv[h] = "unused"} IN
    {[w |-> [w EXCEPT !.drv[c] = "open", !.alive[c] = TRUE], ok |-> TRUE, c |-> c] :
        c \in fresh}
    \cup (IF w.faults < MaxFaults
          THEN {[w |-> [w EXCEPT !.faults = @ + 1], ok |-> FALSE, c |-> NoConn]}
          ELSE {})
    \cup (IF fresh = {} THEN {[w |-> w, ok |-> FALSE, c |-> NoConn]} ELSE {})

\* Faulty variant of Get: a handle idle beyond 20 s is dropped without
\* Close before reconnecting.
GetExpiredNoClose(w) ==
    IF ~w.open THEN {[w |-> w, ok |-> FALSE, c |-> NoConn]}
    ELSE IF w.chan = <<>> THEN Reconnect(w)
    ELSE LET c  == Head(w.chan)
             w1 == [w EXCEPT !.chan = Tail(@)]
         IN {[w |-> w1, ok |-> TRUE, c |-> c]}
            \cup (IF w.alive[c] THEN {[w |-> w1, ok |-> TRUE, c |-> c]}
                                ELSE Reconnect(w1))
            \cup Reconnect(w1)

\* Pool.Get, its outcomes.  A closed pool returns errClosed; an empty
\* channel reconnects; otherwise the head of the channel is taken and,
\* by how long it sat idle: up to 1 s it is returned as is; up to 20 s it
\* is pinged, and a failed ping reconnects (the handle is dropped without
\* Close); beyond 20 s it is closed and Get reconnects.
Get(w) ==
    IF ~w.open THEN {[w |-> w, ok |-> FALSE, c |-> NoConn]}
    ELSE IF w.chan = <<>> THEN Reconnect(w)
    ELSE LET c  == Head(w.chan)
             w1 == [w EXCEPT !.chan = Tail(@)]
         IN {[w |-> w1, ok |-> TRUE, c |-> c]}
            \cup (IF w.alive[c] THEN {[w |-> w1, ok |-> TRUE, c |-> c]}
                                ELSE Reconnect(w1))
            \cup Reconnect(CloseConn(w1, c))

\* Faulty variant of Put: the handle is queued without the capacity test.
PutNoCapacity(w, c) ==
    IF ~w.open THEN w ELSE [w EXCEPT !.chan = Append(@, c)]

\* Pool.put: a closed pool returns at once; a full channel closes the
\* handle (select default); otherwise the handle is queued.
Put(w, c) ==
    IF ~w.open THEN w
    ELSE IF Len(w.chan) < Cap THEN [w EXCEPT !.chan = Append(@, c)]
    ELSE CloseConn(w, c)

\* connection.Recycle: put back unless the driver reports itself closed.
\* The driver only knows of its own Close; a session the server ended is
\* not seen until the next read.
Recycle(w, c) == IF w.drv[c] = "closed" THEN w ELSE Put(w, c)

\* Faulty variant of Kill: the victim is recycled instead of the handle
\* that sent the KILL.
KillRecycleVictim(w, c) ==
    UNION {IF ~r.ok THEN {r.w}
           ELSE (IF r.w.alive[r.c] THEN {Recycle([r.w EXCEPT !.alive[c] = FALSE], c)}
                                   ELSE {Recycle(r.w, c)})
                \cup (IF r.w.faults < MaxFaults
                      THEN {Recycle([r.w EXCEPT !.faults = @ + 1], c)} ELSE {})
           : r \in Get(w)}

\* connection.Kill: a handle is taken from the same pool (an error ends
\* Kill), KILL <id> is sent on it, and it is recycled (defer).  KILL ends
\* the victim's server session; it fails when the borrowed handle's own
\* session is gone, or by an injected error.
Kill(w, c) ==
    UNION {IF ~r.ok THEN {r.w}
           ELSE (IF r.w.alive[r.c] THEN {Recycle([r.w EXCEPT !.alive[c] = FALSE], r.c)}
                                   ELSE {Recycle(r.w, r.c)})
                \cup (IF r.w.faults < MaxFaults
                      THEN {Recycle([r.w EXCEPT !.faults = @ + 1], r.c)} ELSE {})
           : r \in Get(w)}

-----------------------------------------------------------------------------
(* backend/txn.go                                                          *)

\* The handles in the txn's buckets.
Held(t) == ({twopc[t]} \ {NoConn}) \cup normal[t]

\* Finish's loops: each handle is closed when txn.errors > 0 and recycled
\* otherwise (Go map order: any order).
RECURSIVE Release(_, _, _)
Release(w, S, close) ==
    IF S = {} THEN {w}
    ELSE UNION {Release(IF close THEN CloseConn(w, c) ELSE Recycle(w, c), S \ {c}, close)
                : c \in S}

\* Abort's loops: Kill on each handle; its error is ignored.
RECURSIVE KillAll(_, _)
KillAll(w, S) ==
    IF S = {} THEN {w}
    ELSE UNION {UNION {KillAll(w2, S \ {c}) : w2 \in Kill(w, c)} : c \in S}

GoIdle == [pc |-> "none", c |-> NoConn, fired |-> FALSE]

Init ==
    /\ chan = <<>>
    /\ open = TRUE
    /\ drv = [c \in Conns |-> "unused"]
    /\ alive = [c \in Conns |-> FALSE]
    /\ faults = 0
    /\ killed = [c \in Conns |-> FALSE]
    /\ st = [t \in Txns |-> "live"]
    /\ twopc = [t \in Txns |-> NoConn]
    /\ normal = [t \in Txns |-> {}]
    /\ errs = [t \in Txns |-> FALSE]
    /\ g = [t \in Txns |-> [k \in Kids |-> GoIdle]]
    /\ stmts = [t \in Txns |-> 0]
    /\ done = {}
    /\ insess = Txns
    /\ bound = Txns
    /\ closing = {}
    /\ rounds = 0
    /\ cleanup = [t \in Txns |-> {}]

\* No goroutine of txn t's statement is under way.
StmtOver(t) == \A k \in Kids : g[t][k].pc = "none"

\* The session's handler accepts a command of the txn: a statement, whose
\* goroutines all call Execute.
Accept(t) ==
    /\ t \in insess /\ t \notin done
    /\ StmtOver(t) /\ stmts[t] < MaxStmts
    /\ g' = [g EXCEPT ![t] = [k \in Kids |-> [GoIdle EXCEPT !.pc = "query"]]]
    /\ stmts' = [stmts EXCEPT ![t] = @ + 1]
    /\ UNCHANGED <<poolVars, killed, st, twopc, normal, errs, done,
                   sessVars, cleanup>>

\* Txn.execute begins: txn.state.Set(ExecutingTwoPC or ExecutingNormal),
\* without txn.mu and without looking at the state it overwrites.
ExecStart(t, k) ==
    /\ g[t][k].pc = "query"
    /\ st' = [st EXCEPT ![t] = "live"]
    /\ g' = [g EXCEPT ![t][k].pc = "start"]
    /\ UNCHANGED <<poolVars, killed, twopc, normal, errs, stmts, done,
                   sessVars, cleanup>>

\* The statement starts its goroutine, oneShard: fetchOneConnection.  In
\* twopc mode the bucket's handle is reused (twopcConnection, read under
\* RLock); otherwise the pool is asked.  An error of Get ends the
\* statement with an error (Execute: incErrors).
Fetch(t, k) ==
    /\ g[t][k].pc = "start"
    /\ IF TwopcMode[t] /\ twopc[t] # NoConn
       THEN /\ g' = [g EXCEPT ![t][k] = [GoIdle EXCEPT !.pc = "exec", !.c = twopc[t]]]
            /\ UNCHANGED <<poolVars, errs>>
       ELSE \E r \in Get(W) :
              /\ SetW(r.w)
              /\ IF r.ok
                 THEN /\ g' = [g EXCEPT ![t][k] = [GoIdle EXCEPT !.pc = "got", !.c = r.c]]
                      /\ UNCHANGED errs
                 ELSE /\ errs' = [errs EXCEPT ![t] = TRUE]
                      /\ g' = [g EXCEPT ![t][k] = GoIdle]
    /\ UNCHANGED <<killed, st, twopc, normal, stmts, done, sessVars, cleanup>>

\* twopcConnection / normalConnection after Get returned: the handle is
\* stored in the bucket under the bucket's lock.  Nothing here looks at
\* txn.state, and the goroutine does not hold txn.mu.
Store(t, k) ==
    /\ g[t][k].pc = "got"
    /\ IF TwopcMode[t]
       THEN twopc' = [twopc EXCEPT ![t] = g[t][k].c] /\ UNCHANGED normal
       ELSE normal' = [normal EXCEPT ![t] = @ \cup {g[t][k].c}] /\ UNCHANGED twopc
    /\ g' = [g EXCEPT ![t][k].pc = "exec"]
    /\ UNCHANGED <<poolVars, killed, st, errs, stmts, done,
                   sessVars, cleanup>>

\* ExecuteWithLimits: the query returns.  It fails when the session is
\* gone (KILLed, or ended by the server); it may fail on its own (an SQL
\* error).  A failure counts in txn.errors.
ExecDone(t, k) ==
    /\ g[t][k].pc = "exec"
    /\ \E ok \in IF alive[g[t][k].c] THEN BOOLEAN ELSE {FALSE} :
         errs' = [errs EXCEPT ![t] = @ \/ ~ok]
    /\ g' = [g EXCEPT ![t][k].pc = "ret"]
    /\ UNCHANGED <<poolVars, killed, st, twopc, normal, stmts, done,
                   sessVars, cleanup>>

\* ExecuteWithLimits' deferred close(done) and wg.Wait: the watcher is
\* stopped and the statement is over.
Return(t, k) ==
    /\ g[t][k].pc = "ret"
    /\ g' = [g EXCEPT ![t][k] = GoIdle]
    /\ UNCHANGED <<poolVars, killed, st, errs, twopc, normal, stmts, done,
                   sessVars, cleanup>>

\* setDeadline's watcher: the timer fires before close(done), which may
\* be after the query has already returned.  It sets killed and calls Kill.
Deadline(t, k) ==
    /\ Timeout
    /\ g[t][k].pc \in {"exec", "ret"} /\ ~g[t][k].fired
    /\ killed' = [killed EXCEPT ![g[t][k].c] = TRUE]
    /\ \E w \in Kill(W, g[t][k].c) : SetW(w)
    /\ g' = [g EXCEPT ![t][k].fired = TRUE]
    /\ UNCHANGED <<st, errs, twopc, normal, stmts, done,
                   sessVars, cleanup>>

\* Txn.Finish, called by the caller once the statement is over: an
\* aborted txn is left alone; otherwise every handle of the buckets is
\* closed (errors > 0) or recycled, and twopcConnections is emptied.
Finish(t) ==
    /\ t \notin done /\ StmtOver(t)
    /\ done' = done \cup {t}
    /\ IF st[t] = "aborting"
       THEN UNCHANGED <<poolVars, st, twopc, cleanup>>
       ELSE /\ st' = [st EXCEPT ![t] = "finishing"]
            /\ twopc' = [twopc EXCEPT ![t] = NoConn]
            /\ \E w \in Release(W, Held(t), errs[t]) : SetW(w)
            /\ cleanup' = [cleanup EXCEPT ![t] = @ \cup {"finish"}]
    /\ UNCHANGED <<killed, normal, errs, g, stmts, sessVars>>

\* Txn.Abort, under txn.mu but concurrent with the statement's goroutine.
\* A txn whose Finish ran is left alone; otherwise, also when it is
\* already aborting, every handle of the buckets is killed and
\* twopcConnections is emptied.  No handle is closed or recycled.
Abort(t) ==
    IF st[t] = "finishing"
    THEN UNCHANGED <<poolVars, st, twopc, cleanup>>
    ELSE /\ st' = [st EXCEPT ![t] = "aborting"]
         /\ twopc' = [twopc EXCEPT ![t] = NoConn]
         /\ \E w \in KillAll(W, Held(t)) : SetW(w)
         /\ cleanup' = [cleanup EXCEPT ![t] = @ \cup {"abort"}]

\* session.close: the client connection is closed and the bound txn, read
\* under session.mu, is aborted.
SessionClose(t) ==
    IF t \in bound THEN Abort(t)
    ELSE UNCHANGED <<poolVars, st, twopc, cleanup>>

-----------------------------------------------------------------------------
(* proxy/sessions.go                                                       *)

\* Sessions.Kill (KILL <id> from a client or the admin API): the session is
\* deleted from the map under ss.mu, then closed.
SessionKill(t) ==
    /\ AbortEnabled
    /\ closing = {} /\ t \in insess
    /\ insess' = insess \ {t}
    /\ SessionClose(t)
    /\ UNCHANGED <<killed, normal, errs, g, stmts, done, bound, closing, rounds>>

\* Sessions.Remove: the session's handler exits (the client went away)
\* between two commands; the session is deleted and closed as by Kill.
SessionRemove(t) ==
    /\ StmtOver(t)
    /\ SessionKill(t)

\* Sessions.TxnUnBinding after the caller finished the txn; a session no
\* longer in the map is left as it is.
Unbind(t) ==
    /\ closing = {} /\ t \in done /\ t \in bound /\ t \in insess
    /\ bound' = bound \ {t}
    /\ UNCHANGED <<poolVars, killed, st, twopc, normal, errs, g, stmts, done,
                   insess, closing, rounds, cleanup>>

\* Sessions.Close, one round of its shutdown loop: ss.mu is taken and every
\* session still in the map is visited.  Sessions stay in the map; the loop
\* sleeps a second and starts again while any is left.
CloseRound ==
    /\ AbortEnabled
    /\ closing = {} /\ insess # {} /\ rounds < MaxCloseRounds
    /\ closing' = insess
    /\ rounds' = rounds + 1
    /\ UNCHANGED <<poolVars, killed, st, twopc, normal, errs, g, stmts, done,
                   insess, bound, cleanup>>

\* The round's v.close() on one session (Go map order: any order).
CloseSession(t) ==
    /\ t \in closing
    /\ closing' = closing \ {t}
    /\ SessionClose(t)
    /\ UNCHANGED <<killed, normal, errs, g, stmts, done, insess, bound, rounds>>

-----------------------------------------------------------------------------
(* backend/pool.go                                                         *)

\* Pool.Close (Poolz.Close from Scatter.remove or shutdown): the channel
\* is closed, drained with Close on every idle handle, and set to nil.
ClosePool ==
    /\ CloseEnabled /\ open
    /\ open' = FALSE
    /\ chan' = <<>>
    /\ drv' = [c \in Conns |-> IF c \in ToSet(chan) THEN "closed" ELSE drv[c]]
    /\ alive' = [c \in Conns |-> alive[c] /\ c \notin ToSet(chan)]
    /\ UNCHANGED <<faults, killed, st, twopc, normal, errs, g, stmts, done,
                   sessVars, cleanup>>

\* The server ends an idle session (wait_timeout, a backend restart); the
\* handle stays in the channel.
Drop(c) ==
    /\ faults < MaxFaults
    /\ c \in ToSet(chan) /\ alive[c]
    /\ alive' = [alive EXCEPT ![c] = FALSE]
    /\ faults' = faults + 1
    /\ UNCHANGED <<chan, open, drv, killed, st, twopc, normal, errs, g, stmts, done,
                   sessVars, cleanup>>

\* Every txn is finished and no shutdown round is under way: the system
\* idles.
Terminated ==
    /\ done = Txns /\ closing = {}
    /\ UNCHANGED vars

Next ==
    \/ \E t \in Txns :
         \/ Accept(t)
         \/ \E k \in Kids :
              \/ ExecStart(t, k) \/ Fetch(t, k) \/ Store(t, k) \/ ExecDone(t, k)
              \/ Return(t, k) \/ Deadline(t, k)
         \/ Finish(t) \/ SessionKill(t) \/ SessionRemove(t) \/ Unbind(t)
         \/ CloseSession(t)
    \/ CloseRound
    \/ ClosePool
    \/ \E c \in Conns : Drop(c)
    \/ Terminated

Spec == Init /\ [][Next]_vars

-----------------------------------------------------------------------------
(* Properties.                                                             *)

TypeOK ==
    /\ chan \in Seq(Conns) /\ Len(chan) <= Cap
    /\ open \in BOOLEAN
    /\ drv \in [Conns -> {"unused", "open", "closed"}]
    /\ alive \in [Conns -> BOOLEAN]
    /\ faults \in 0..MaxFaults
    /\ killed \in [Conns -> BOOLEAN]
    /\ st \in [Txns -> {"live", "finishing", "aborting"}]
    /\ twopc \in [Txns -> Conns \cup {NoConn}]
    /\ normal \in [Txns -> SUBSET Conns]
    /\ errs \in [Txns -> BOOLEAN]
    /\ g \in [Txns -> [Kids -> [pc : {"none", "query", "start", "got", "exec", "ret"},
                               c : Conns \cup {NoConn},
                               fired : BOOLEAN]]]
    /\ stmts \in [Txns -> 0..MaxStmts]
    /\ done \subseteq Txns
    /\ insess \subseteq Txns /\ bound \subseteq Txns /\ closing \subseteq insess
    /\ rounds \in 0..MaxCloseRounds
    /\ cleanup \in [Txns -> SUBSET {"finish", "abort"}]

\* The handles txn t is responsible for: its buckets while Finish may
\* still release them, and the one its goroutine has in hand.
Holding(t) ==
    (IF st[t] = "live" THEN Held(t) ELSE {})
    \cup {g[t][k].c : k \in {j \in Kids : g[t][j].pc \notin {"none", "query", "start"}}}

\* A handle has one owner at a time (spec 3.1: the Pool's idle queue or
\* the Txn holding it): the channel holds no handle twice and no handle a
\* txn holds, and no two txns hold the same handle.  Kill borrows and
\* recycles a handle of the same pool while the victim is still held.
ExclusiveOwnership ==
    /\ IsInjective(chan)
    /\ \A t \in Txns : Holding(t) \cap ToSet(chan) = {}
    /\ \A t1, t2 \in Txns : t1 # t2 => Holding(t1) \cap Holding(t2) = {}

\* Every server session is owned by someone who will end it or hand it
\* on: the pool's channel, a live txn, or a statement's goroutine.  A
\* session nobody owns stays open on the backend (holding its locks and,
\* in twopc mode, its XA branch) until the server times it out.
NoOrphanSession ==
    \A c \in Conns : alive[c] =>
        \/ c \in ToSet(chan)
        \/ \E t \in Txns : c \in Holding(t)

\* A handle whose query was killed by the deadline watcher is dropped, not
\* recycled (spec section 8, scenario D): the channel never holds a
\* handle with the killed flag set.
KilledNeverPooled == \A c \in ToSet(chan) : ~killed[c]
\* Abort and Finish are mutually exclusive, whichever wins wins (spec
\* section 3.1 on the Txn lifecycle, and the comment in session.close):
\* no txn has both its connections killed by Abort and its buckets
\* released by Finish.  This is about Txn.execute's unlocked state.Set,
\* which a statement under way when its session is closed runs after Abort.
FinishAbortExclusive == \A t \in Txns : cleanup[t] # {"finish", "abort"}
====
