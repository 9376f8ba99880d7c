-------------------------------- MODULE Shift --------------------------------
(***************************************************************************)
(* The table-shift tool (src/tools/shift/shift): moving a table from one  *)
(* MySQL backend to another while NeoDB keeps serving it, after Start()   *)
(* returned.  Four goroutines share the Shift value:                      *)
(*   - the canal goroutine of prepareCanal, which dumps the from-table    *)
(*     and then replicates its binlog into the to-table;                  *)
(*   - the behinds goroutine of behindsCheckStart, which on every tick    *)
(*     measures the replication lag and, once it is within cfg.Behinds,   *)
(*     runs setNeoDB: the nine cut-over steps;                            *)
(*   - WaitFinish, selecting on done, err and the stop signal and then    *)
(*     calling close();                                                   *)
(*   - the goroutine WaitFinish starts on a stop to drain one error.      *)
(* done and err are unbuffered: a send is a rendezvous with a receiver.  *)
(*                                                                         *)
(* Data is abstracted to binlog positions: written counts the client      *)
(* writes NeoDB sent to the from-table, synced how many of them the canal *)
(* applied to the to-table.  The readonly flag, the renamed to-table and  *)
(* the shift rule are the effects of the HTTP and SQL calls on NeoDB and  *)
(* the backends.  A failing call (a connection, HTTP or SQL error, a       *)
(* WaitUntilPos timeout) is an injected fault, at most ShiftFaults.        *)
(***************************************************************************)
EXTENDS Naturals

CONSTANTS
    Behinds,       \* cfg.Behinds: the lag at which the cut-over starts
    MaxWrites,     \* most client writes to the from-table
    ShiftFaults    \* most failing calls

VARIABLES
    checksum,      \* cfg.Checksum
    ruleFlavor,    \* cfg.ToFlavor is mysql or mariadb: step 6 calls NeoDB
    written,       \* master binlog position of the from-backend
    synced,        \* canal.SyncedPosition()
    cst,           \* the canal goroutine
    dumpDone,      \* canal.WaitDumpDone() is closed
    canalClosed,   \* canal.Close() was called
    canalOK,       \* shift.atomicBool
    allDone,       \* shift.allDone
    bpc,           \* the behinds goroutine
    target,        \* the master position a WaitUntilPos waits for
    tick,          \* a tick buffered in behindsTicker.C
    tickerStopped, \* behindsTicker.Stop() was called
    closeT,        \* closeTchan is closed
    mpc,           \* WaitFinish
    drainer,       \* the goroutine draining one error after a stop
    stopSig,       \* stopSignal is closed
    ro,            \* NeoDB is read-only
    renamed,       \* the to-table was renamed to the from-table's name
    rule,          \* NeoDB routes the table to the to-backend
    sfault         \* faults injected so far

shiftVars == <<checksum, ruleFlavor, written, synced, cst, dumpDone,
               canalClosed, canalOK, allDone, bpc, target, tick,
               tickerStopped, closeT, mpc, drainer, stopSig, ro, renamed,
               rule, sfault>>

\* The cut-over steps of setNeoDB, in order.
CutSteps == {"s1", "until1", "ro", "s3", "until3", "checksum", "rename",
             "rule", "rw", "unthrottle"}

ShiftTypeOK ==
    /\ checksum \in BOOLEAN /\ ruleFlavor \in BOOLEAN
    /\ written \in 0..MaxWrites /\ synced \in 0..written
    /\ cst \in {"dump", "sync", "reterr", "send", "exit"}
    /\ bpc \in {"dump", "loop", "senderr", "done", "setall", "exit",
                "panic"} \cup CutSteps
    /\ target \in 0..MaxWrites
    /\ mpc \in {"wait", "closedone", "closeerr", "closestop", "ret"}
    /\ drainer \in {"none", "wait", "got"}
    /\ {dumpDone, canalClosed, canalOK, allDone, tick, tickerStopped,
        closeT, stopSig, ro, renamed, rule} \subseteq BOOLEAN
    /\ sfault \in 0..ShiftFaults

\* After Start(): the pools are open, the canal and behinds goroutines run
\* and the caller is in WaitFinish.
ShiftInit ==
    /\ checksum \in BOOLEAN /\ ruleFlavor \in BOOLEAN
    /\ written = 0 /\ synced = 0
    /\ cst = "dump" /\ dumpDone = FALSE /\ canalClosed = FALSE
    /\ canalOK = TRUE /\ allDone = FALSE
    /\ bpc = "dump" /\ target = 0
    /\ tick = FALSE /\ tickerStopped = FALSE /\ closeT = FALSE
    /\ mpc = "wait" /\ drainer = "none" /\ stopSig = FALSE
    /\ ro = FALSE /\ renamed = FALSE /\ rule = FALSE
    /\ sfault = 0

ShiftFault == sfault < ShiftFaults /\ sfault' = sfault + 1

\* Variable groups, for UNCHANGED.
cfgV   == <<checksum, ruleFlavor>>
neoV   == <<ro, renamed, rule>>
canalV == <<cst, dumpDone, synced, canalOK>>
loopV  == <<bpc, target, allDone>>
mainV  == <<mpc, drainer, tickerStopped, closeT, canalClosed, stopSig>>

----------------------------------------------------------------------------
(* The environment: clients, the ticker and the caller                    *)

\* A client write NeoDB routes to the from-backend: refused while NeoDB is
\* read-only, and no longer sent there once the rule moved the table.
ClientWrite ==
    /\ ~ro /\ ~rule /\ written < MaxWrites
    /\ written' = written + 1
    /\ UNCHANGED <<cfgV, neoV, canalV, loopV, mainV, tick, sfault>>

\* time.Ticker: a tick is buffered (capacity one) until Stop().
TickerFire ==
    /\ ~tickerStopped /\ ~tick
    /\ tick' = TRUE
    /\ UNCHANGED <<cfgV, neoV, canalV, loopV, mainV, written, sfault>>

\* shift.go 148-150 SetStopSignal: close(stopSignal), once.
SetStopSignal ==
    /\ ~stopSig /\ stopSig' = TRUE
    /\ UNCHANGED <<cfgV, neoV, canalV, loopV, mpc, drainer, tickerStopped,
                   closeT, canalClosed, written, tick, sfault>>
----------------------------------------------------------------------------
(* Calls that fail                                                         *)

\* An HTTP call to NeoDB failing.
HTTPFault == ShiftFault

\* A call through fromPool or toPool failing.  After close() the pools are
\* closed, and what Pool.Get then returns is not in this tree: a call may
\* fail without using up the fault budget.
DBFault == ShiftFault \/ (canalClosed /\ UNCHANGED sfault)

\* A receive on the unbuffered err channel: WaitFinish's select, or the
\* goroutine it started after a stop (shift.go 117-120, 127-132).
ErrRecv ==
    \/ mpc = "wait" /\ mpc' = "closeerr" /\ UNCHANGED drainer
    \/ drainer = "wait" /\ drainer' = "got" /\ UNCHANGED mpc

----------------------------------------------------------------------------
(* The canal goroutine (shift.go 322-332; canal.Run is go-mysql's)        *)

\* The dump ends, with or without an error; WaitDumpDone is closed either
\* way (the comment at shift.go 476).
CanalDump ==
    /\ cst = "dump" /\ dumpDone' = TRUE
    /\ \/ cst' = "sync" /\ UNCHANGED sfault
       \/ cst' = "reterr" /\ ShiftFault
    /\ UNCHANGED <<cfgV, neoV, synced, canalOK, loopV, mainV, written, tick>>

\* The canal applies the next binlog event to the to-table.
CanalSync ==
    /\ cst = "sync" /\ ~canalClosed /\ synced < written
    /\ synced' = synced + 1
    /\ UNCHANGED <<cfgV, neoV, cst, dumpDone, canalOK, loopV, mainV, written,
                   tick, sfault>>

\* canal.Run returns: an error while syncing, or after canal.Close() with
\* an error or nil (the comment at shift.go 123-125 expects an error).
CanalRunReturn ==
    /\ cst = "sync"
    /\ \/ ~canalClosed /\ ShiftFault /\ cst' = "reterr"
       \/ canalClosed /\ cst' \in {"reterr", "exit"} /\ UNCHANGED sfault
    /\ UNCHANGED <<cfgV, neoV, synced, dumpDone, canalOK, loopV, mainV,
                   written, tick>>

\* shift.go 324-330: an error is reported unless allDone is already set.
CanalRunErr ==
    /\ cst = "reterr"
    /\ IF allDone THEN cst' = "exit" /\ UNCHANGED canalOK
       ELSE cst' = "send" /\ canalOK' = FALSE
    /\ UNCHANGED <<cfgV, neoV, synced, dumpDone, loopV, mainV, written, tick,
                   sfault>>

\* shift.go 327: shift.err <- err.
CanalSendErr ==
    /\ cst = "send" /\ ErrRecv
    /\ cst' = "exit"
    /\ UNCHANGED <<cfgV, neoV, synced, dumpDone, canalOK, loopV, tickerStopped,
                   closeT, canalClosed, stopSig, written, tick, sfault>>
----------------------------------------------------------------------------
(* The behinds goroutine (shift.go 472-526) and setNeoDB (neodb.go 118-218) *)

\* What a step of the behinds goroutine leaves alone.
bOther == <<cfgV, canalV, mainV, written>>

\* shift.go 476-478: <-WaitDumpDone() before the loop.
BehindsDumpWait ==
    /\ bpc = "dump" /\ dumpDone /\ bpc' = "loop"
    /\ UNCHANGED <<bOther, neoV, target, allDone, tick, sfault>>

\* shift.go 521-522: closeTchan closed; select picks at random among the
\* ready cases, a buffered tick included.
BehindsClose ==
    /\ bpc = "loop" /\ closeT /\ bpc' = "exit"
    /\ UNCHANGED <<bOther, neoV, target, allDone, tick, sfault>>

\* shift.go 482-520, one tick.  `break` leaves the select, not the loop:
\* allDone and a failed canal go back to waiting.  masterPosition and the
\* throttle call may fail; a lag within cfg.Behinds runs setNeoDB.  Both
\* positions are read in one step here.
BehindsTick ==
    /\ bpc = "loop" /\ tick /\ tick' = FALSE
    /\ \/ (allDone \/ ~canalOK) /\ UNCHANGED <<bpc, sfault>>
       \/ ~allDone /\ canalOK /\ DBFault /\ bpc' = "senderr"
       \/ ~allDone /\ canalOK /\ written - synced <= Behinds
          /\ bpc' = "s1" /\ UNCHANGED sfault
       \/ ~allDone /\ canalOK /\ written - synced > Behinds
          /\ \/ HTTPFault /\ bpc' = "senderr"
             \/ UNCHANGED <<bpc, sfault>>
    /\ UNCHANGED <<bOther, neoV, target, allDone>>

\* neodb.go 123-126 and 147-150: masterPosition() before WaitUntilPos.
MasterPos(from, to) ==
    /\ bpc = from
    /\ \/ DBFault /\ bpc' = "senderr" /\ UNCHANGED target
       \/ bpc' = to /\ target' = written /\ UNCHANGED sfault
    /\ UNCHANGED <<bOther, neoV, allDone, tick>>

\* Mutant: WaitUntilPos returning one event short of the position.
WaitUntilPosShort(from, to) ==
    /\ bpc = from
    /\ \/ synced + 1 >= target /\ bpc' = to /\ UNCHANGED sfault
       \/ synced < target /\ (canalClosed \/ cst # "sync")
          /\ bpc' = "senderr" /\ UNCHANGED sfault
       \/ DBFault /\ bpc' = "senderr"
    /\ UNCHANGED <<bOther, neoV, target, allDone, tick>>

\* neodb.go 128-131 and 152-155: canal.WaitUntilPos returns once the canal
\* synced up to the position; a stopped canal never gets there and the
\* call times out; FlushBinlog or the timer may fail it anyway.
WaitUntilPos(from, to) ==
    /\ bpc = from
    /\ \/ synced >= target /\ bpc' = to /\ UNCHANGED sfault
       \/ synced < target /\ (canalClosed \/ cst # "sync")
          /\ bpc' = "senderr" /\ UNCHANGED sfault
       \/ DBFault /\ bpc' = "senderr"
    /\ UNCHANGED <<bOther, neoV, target, allDone, tick>>

\* A call of setNeoDB: on an error the goroutine sends it, otherwise it
\* applies eff to NeoDB's state and moves on.
Call(from, to, fault, eff) ==
    /\ bpc = from
    /\ \/ fault /\ bpc' = "senderr" /\ UNCHANGED neoV
       \/ bpc' = to /\ eff /\ UNCHANGED sfault
    /\ UNCHANGED <<bOther, target, allDone, tick>>

\* A step of setNeoDB that a NeoDB target skips.
Skip(from, to) ==
    /\ bpc = from /\ bpc' = to
    /\ UNCHANGED <<bOther, neoV, target, allDone, tick, sfault>>

\* neodb.go 135-143: setNeoDBReadOnly(true).
SetReadOnly ==
    Call("ro", "s3", HTTPFault, ro' = TRUE /\ UNCHANGED <<renamed, rule>>)

\* neodb.go 159-167, ChecksumTable (shift.go 346-434): both tables are
\* checksummed, up to 29 times while they differ.  checksumFunc does not
\* return after a failed Execute: r.GetUint on the nil result panics and
\* the process dies.  The tables compared equal once the canal applied
\* every write; readonly and the second wait make that so before the
\* first round, and the error after 29 unequal rounds is not reached.
ChecksumStep ==
    /\ bpc = "checksum"
    /\ \/ ~checksum /\ bpc' = "rename" /\ UNCHANGED sfault
       \/ checksum /\ DBFault /\ bpc' = "panic"
       \/ checksum /\ synced = written /\ bpc' = "rename" /\ UNCHANGED sfault
    /\ UNCHANGED <<bOther, neoV, target, allDone, tick>>

\* neodb.go 169-177, renameToTable (shift.go 242-269): skipped for a NeoDB
\* target.
RenameToTable ==
    IF ruleFlavor
    THEN Call("rename", "rule", DBFault, renamed' = TRUE /\ UNCHANGED <<ro, rule>>)
    ELSE Skip("rename", "rule")

\* neodb.go 179-189, setNeoDBRule: the table's rule moves to cfg.To.
SetNeoDBRule ==
    IF ruleFlavor
    THEN Call("rule", "rw", HTTPFault, rule' = TRUE /\ UNCHANGED <<ro, renamed>>)
    ELSE Skip("rule", "rw")

\* neodb.go 191-199: setNeoDBReadOnly(false).
SetWritable ==
    Call("rw", "unthrottle", HTTPFault, ro' = FALSE /\ UNCHANGED <<renamed, rule>>)

\* neodb.go 201-209: setNeoDBThrottle(0).
Unthrottle == Call("unthrottle", "done", HTTPFault, UNCHANGED neoV)

\* neodb.go 213: shift.done <- true, a rendezvous with WaitFinish.
SendDone ==
    /\ bpc = "done" /\ mpc = "wait"
    /\ bpc' = "setall" /\ mpc' = "closedone"
    /\ UNCHANGED <<cfgV, canalV, drainer, tickerStopped, closeT, canalClosed,
                   stopSig, written, neoV, target, allDone, tick, sfault>>

\* neodb.go 214: allDone.Set(true), after the send returned.
SetAllDone ==
    /\ bpc = "setall" /\ bpc' = "loop" /\ allDone' = TRUE
    /\ UNCHANGED <<bOther, neoV, target, tick, sfault>>

\* shift.go 493, 503, 510: shift.err <- err, then back to the loop.
BehindsSendErr ==
    /\ bpc = "senderr" /\ ErrRecv
    /\ bpc' = "loop"
    /\ UNCHANGED <<cfgV, canalV, tickerStopped, closeT, canalClosed, stopSig,
                   written, neoV, target, allDone, tick, sfault>>
----------------------------------------------------------------------------
(* WaitFinish (shift.go 86-134) and close (shift.go 529-541)               *)

\* shift.go 121-133: the stop signal; a goroutine is started to receive
\* the one error closing the canal is expected to cause.
WaitStop ==
    /\ mpc = "wait" /\ stopSig
    /\ mpc' = "closestop" /\ drainer' = "wait"
    /\ UNCHANGED <<cfgV, neoV, canalV, loopV, tickerStopped, closeT,
                   canalClosed, stopSig, written, tick, sfault>>

\* closeWithDone, closeWithError and closeWithStop all call close(): the
\* ticker is stopped, closeTchan closed, the canal and the pools closed
\* (Cleanup is not in this tree), and WaitFinish returns.
CloseShift ==
    /\ mpc \in {"closedone", "closeerr", "closestop"}
    /\ mpc' = "ret"
    /\ tickerStopped' = TRUE /\ closeT' = TRUE /\ canalClosed' = TRUE
    /\ UNCHANGED <<cfgV, neoV, canalV, loopV, drainer, stopSig, written, tick,
                   sfault>>

----------------------------------------------------------------------------

CanalNext ==
    CanalDump \/ CanalSync \/ CanalRunReturn \/ CanalRunErr \/ CanalSendErr

BehindsNext ==
    \/ BehindsDumpWait \/ BehindsClose \/ BehindsTick
    \/ MasterPos("s1", "until1") \/ WaitUntilPos("until1", "ro")
    \/ SetReadOnly
    \/ MasterPos("s3", "until3") \/ WaitUntilPos("until3", "checksum")
    \/ ChecksumStep \/ RenameToTable \/ SetNeoDBRule \/ SetWritable
    \/ Unthrottle \/ SendDone \/ SetAllDone \/ BehindsSendErr

\* A panic ends the shift process; NeoDB and its clients go on.
ShiftNext ==
    \/ ClientWrite
    \/ bpc # "panic" /\ \/ TickerFire \/ SetStopSignal
                        \/ CanalNext \/ BehindsNext
                        \/ WaitStop \/ CloseShift

ShiftSpec == ShiftInit /\ [][ShiftNext]_shiftVars

----------------------------------------------------------------------------
(* Properties                                                             *)

\* No client write is lost by the cut-over: when setNeoDBRule moves the
\* table to the to-backend, the canal has applied every write the
\* from-backend took.  It rests on setNeoDB's order: readonly first, then
\* the master position read again and waited for (neodb.go 135-157).
NoLostWrite == rule => synced = written

\* Once nothing in the shift process can move, every goroutine it started
\* has returned: none is blocked for ever on the unbuffered done or err
\* channel (WaitFinish's comment at shift.go 123-125).
ShiftNoLeak ==
    ~ENABLED ShiftNext =>
        /\ mpc = "ret"
        /\ cst = "exit" /\ bpc \in {"exit", "panic"}
        /\ drainer # "wait"

\* Once nothing in the shift process can move, NeoDB is not left
\* read-only: setNeoDB sets readonly (neodb.go 135-143) and only its own
\* step 7 clears it.
ReadOnlyReleased == ~ENABLED ShiftNext => ~ro
====
