------------------------------- MODULE Scatter --------------------------------
(***************************************************************************)
(* The backend registry of src/backend/scatter.go and the transaction     *)
(* counters of src/backend/txnmgr.go, across proxy restarts.              *)
(*                                                                         *)
(* Scatter keeps a map from backend name to its Poolz.  The admin API     *)
(* adds and removes backends and asks for FlushConfig, which writes the   *)
(* map to backend.json; on start LoadConfig reads the file back.  Every   *)
(* transaction gets a copy of the map (PoolzClone) when it is created,    *)
(* and takes its connections from the pools of that copy.                 *)
(*                                                                         *)
(* A pool is known by its creation number within one process lifetime:   *)
(* paddr[i] is the address the i-th pool was created for, and popen the   *)
(* pools not yet closed.  The file holds name/address pairs in the order  *)
(* FlushConfig ranged over the map, which Go leaves unspecified.          *)
(***************************************************************************)
EXTENDS Integers, Sequences, FiniteSets

LOCAL SE == INSTANCE SequencesExt

CONSTANTS
    Names,         \* backend names the admin API uses
    Addrs,         \* backend addresses
    Txns,          \* transactions a process lifetime creates, at most
    MaxPools,      \* pools a process lifetime creates, at most
    ScatterFaults  \* failed file writes, at most

VARIABLES
    sup,      \* the process: "down", "up", "closed" (Scatter.Close ran), "failed"
    reg,      \* scatter.backends: name -> pool number, 0 when absent
    paddr,    \* pool number -> conf.Address
    popen,    \* pools not closed
    file,     \* backend.json: a sequence of [name, addr], or <<>> when absent
    fexists,  \* backend.json exists
    txst,     \* txn.state: "none" (not created), "live", "finishing", "aborting"
    snap,     \* the pools snapshot each txn was created with
    txnid,    \* mgr.txnid
    txnNums,  \* mgr.txnNums
    yanked,   \* txns that found a pool of their snapshot closed
    dirty,    \* a backend was added or removed since LoadConfig
    scfaults,
    aborts    \* the Abort calls each txn has had

scatterVars == <<sup, reg, paddr, popen, file, fexists, txst, snap, txnid,
                 txnNums, yanked, dirty, scfaults, aborts>>

Entries == [name : Names, addr : Addrs]
NoPools == [n \in Names |-> 0]

\* Session.close calls Abort once from Kill or Remove and once more from a
\* round of Sessions.Close that finds the session still in the map.
MaxAbortCalls == 2

ScatterTypeOK ==
    /\ sup \in {"down", "up", "closed", "failed"}
    /\ paddr \in SE!BoundedSeq(Addrs, MaxPools)
    /\ reg \in [Names -> 0..Len(paddr)]
    /\ popen \subseteq 1..Len(paddr)
    /\ file \in SE!BoundedSeq(Entries, Cardinality(Names))
    /\ fexists \in BOOLEAN
    /\ txst \in [Txns -> {"none", "live", "finishing", "aborting"}]
    /\ snap \in [Txns -> [Names -> 0..MaxPools]]
    /\ txnid \in 0..Cardinality(Txns)
    /\ txnNums \in Int
    /\ yanked \subseteq Txns
    /\ dirty \in BOOLEAN
    /\ scfaults \in 0..ScatterFaults
    /\ aborts \in [Txns -> 0..MaxAbortCalls]

\* A fresh meta directory: no backend.json, the process not started.
ScatterInit ==
    /\ sup = "down"
    /\ reg = NoPools
    /\ paddr = <<>>
    /\ popen = {}
    /\ file = <<>>
    /\ fexists = FALSE
    /\ txst = [t \in Txns |-> "none"]
    /\ snap = [t \in Txns |-> NoPools]
    /\ txnid = 0
    /\ txnNums = 0
    /\ yanked = {}
    /\ dirty = FALSE
    /\ scfaults = 0
    /\ aborts = [t \in Txns |-> 0]

\* The registry as name/address pairs.
Registry(r, pa) == {[name |-> n, addr |-> pa[r[n]]] : n \in {m \in Names : r[m] # 0}}

\* The in-memory part of the Scatter, as one record, so that add can be
\* folded over the file by LoadConfig.
Mem == [reg |-> reg, paddr |-> paddr, popen |-> popen]

\* scatter.go 55-72 add: refuse a duplicate name, then a duplicate address
\* (issue#546), else create a pool for it.  [ok, m].
addAddrCheck(m, e) ==
    \A n \in Names : m.reg[n] # 0 => m.paddr[m.reg[n]] # e.addr

\* pool.go 57-65 NewPoolz: a new pool for the address, open.
NewPoolz(m, e) ==
    [reg |-> [m.reg EXCEPT ![e.name] = Len(m.paddr) + 1],
     paddr |-> Append(m.paddr, e.addr),
     popen |-> m.popen \cup {Len(m.paddr) + 1}]

\* pool.go 67-75 Poolz.Close: pool i no longer hands out connections.
PoolzClose(open, i) == open \ {i}

add(m, e) ==
    IF m.reg[e.name] = 0 /\ addAddrCheck(m, e) /\ Len(m.paddr) < MaxPools
    THEN [ok |-> TRUE, m |-> NewPoolz(m, e)]
    ELSE [ok |-> FALSE, m |-> m]

SetMem(m) == reg' = m.reg /\ paddr' = m.paddr /\ popen' = m.popen

\* scatter.go 75-79 Add, from the admin API.
Add(e) ==
    /\ sup = "up"
    /\ add(Mem, e).ok
    /\ SetMem(add(Mem, e).m)
    /\ dirty' = TRUE
    /\ UNCHANGED <<sup, file, fexists, txst, snap, txnid, txnNums, yanked, scfaults, aborts>>

\* scatter.go 81-100 Remove: delete the name and close its pool.
ScatterRemove(n) ==
    /\ sup = "up"
    /\ reg[n] # 0
    /\ reg' = [reg EXCEPT ![n] = 0]
    /\ popen' = PoolzClose(popen, reg[n])
    /\ dirty' = TRUE
    /\ UNCHANGED <<sup, paddr, file, fexists, txst, snap, txnid, txnNums, yanked, scfaults, aborts>>

\* scatter.go 115-120 clear, with 102-113 Close: every pool closed, the
\* map emptied, the XA checker stopped.
Close ==
    /\ sup = "up"
    /\ sup' = "closed"
    /\ reg' = NoPools
    /\ popen' = {}
    /\ UNCHANGED <<paddr, file, fexists, txst, snap, txnid, txnNums, yanked, dirty, scfaults, aborts>>

\* The process ends, by a crash, by the Panicf of FlushConfig, or after
\* Close: nothing in memory survives; backend.json does.
Lost ==
    /\ sup' = "down"
    /\ reg' = NoPools /\ paddr' = <<>> /\ popen' = {}
    /\ txst' = [t \in Txns |-> "none"] /\ snap' = [t \in Txns |-> NoPools]
    /\ txnid' = 0 /\ txnNums' = 0 /\ yanked' = {} /\ dirty' = FALSE
    /\ aborts' = [t \in Txns |-> 0]

Crash ==
    /\ sup \in {"up", "closed"}
    /\ Lost
    /\ UNCHANGED <<file, fexists, scfaults>>

\* scatter.go 123-145 FlushConfig: the map, in map order, to backend.json
\* (WriteConfig replaces the file whole), then the version bump.  Either
\* write may fail, and Panicf then ends the process: after the first the
\* file is as it was, after the second it holds the new map.
FlushConfig ==
    /\ sup = "up"
    /\ \E s \in SE!SetToSeqs(Registry(reg, paddr)) :
          \/ /\ file' = s /\ fexists' = TRUE
             /\ UNCHANGED <<sup, reg, paddr, popen, txst, snap, txnid, txnNums,
                            yanked, dirty, scfaults, aborts>>
          \/ /\ scfaults < ScatterFaults
             /\ scfaults' = scfaults + 1
             /\ Lost
             /\ \/ file' = s /\ fexists' = TRUE
                \/ UNCHANGED <<file, fexists>>

\* Mutant: the loop returns after its first add, error or not.
LoadAddsReturnEarly(m, s) ==
    IF s = <<>> THEN [ok |-> TRUE, m |-> m] ELSE add(m, Head(s))

\* scatter.go 179-185: add each backend of the file in order, returning
\* on the first error with the backends before it registered.
RECURSIVE LoadAdds(_, _)
LoadAdds(m, s) ==
    IF s = <<>> THEN [ok |-> TRUE, m |-> m]
    ELSE LET r == add(m, Head(s))
         IN IF r.ok THEN LoadAdds(r.m, Tail(s)) ELSE [ok |-> FALSE, m |-> r.m]

\* scatter.go 148-187 LoadConfig, at process start: clear, create an
\* empty backend.json when there is none, read it and add its backends.
\* An error fails the start: a failed write of the empty file leaves
\* nothing behind and the process is started again; an add that fails
\* on the proxy's own file fails every start ("failed").
LoadConfig ==
    LET r == LoadAdds([reg |-> NoPools, paddr |-> <<>>, popen |-> {}], file)
    IN /\ sup = "down"
       /\ \/ /\ fexists
             /\ sup' = IF r.ok THEN "up" ELSE "failed"
             /\ SetMem(r.m)
             /\ UNCHANGED <<file, fexists, scfaults>>
          \/ /\ ~fexists
             /\ file' = <<>> /\ fexists' = TRUE
             /\ sup' = "up"
             /\ UNCHANGED <<reg, paddr, popen, scfaults>>
          \/ /\ ~fexists
             /\ scfaults < ScatterFaults
             /\ scfaults' = scfaults + 1
             /\ UNCHANGED <<sup, reg, paddr, popen, file, fexists>>
       /\ dirty' = FALSE
       /\ UNCHANGED <<txst, snap, txnid, txnNums, yanked, aborts>>

\* txnmgr.go 57-72: GetID, and Add and Remove, which keep txnNums.
GetID == txnid' = txnid + 1
mgrAdd == txnNums' = txnNums + 1
mgrRemove == txnNums' = txnNums - 1

\* scatter.go 232-241 PoolzClone: a copy of the map.
PoolzClone == reg

\* txnmgr.go 74-87 CreateTxn: an empty map is an error; else the txn gets
\* the next id and the map it was given, and txnNums counts it.
CreateTxn(t, backends) ==
    /\ \E n \in Names : backends[n] # 0
    /\ GetID
    /\ txst' = [txst EXCEPT ![t] = "live"]
    /\ snap' = [snap EXCEPT ![t] = backends]
    /\ mgrAdd

\* scatter.go 254-257 CreateTransaction.
CreateTransaction(t) ==
    /\ sup = "up"
    /\ txst[t] = "none"
    /\ CreateTxn(t, PoolzClone)
    /\ UNCHANGED <<sup, reg, paddr, popen, file, fexists, yanked, dirty, scfaults, aborts>>

\* txn.go 186-194 twopcConnection (and normalConnection, 218-225) on a
\* pool of the snapshot that has been closed since: pool.go 130-133,
\* Get finds p.connections nil and fails with errClosed.
TxnGetClosed(t, n) ==
    /\ sup \in {"up", "closed"}
    /\ txst[t] = "live"
    /\ snap[t][n] # 0
    /\ snap[t][n] \notin popen
    /\ t \notin yanked
    /\ yanked' = yanked \cup {t}
    /\ UNCHANGED <<sup, reg, paddr, popen, file, fexists, txst, snap, txnid,
                   txnNums, dirty, scfaults, aborts>>

\* txn.go 462-477 execute: a statement of the txn sets its state to
\* executing, whatever it was; after an Abort this makes the txn live again.
TxnExecute(t) ==
    /\ sup \in {"up", "closed"}
    /\ txst[t] = "aborting"
    /\ txst' = [txst EXCEPT ![t] = "live"]
    /\ UNCHANGED <<sup, reg, paddr, popen, file, fexists, snap, txnid, txnNums,
                   yanked, dirty, scfaults, aborts>>

\* txn.go 733-782 Finish, which the handler calls once: nothing if the txn
\* is aborting, else the state becomes finishing and mgr.Remove decrements
\* txnNums.
TxnFinish(t) ==
    /\ sup \in {"up", "closed"}
    /\ txst[t] = "live"
    /\ txst' = [txst EXCEPT ![t] = "finishing"]
    /\ mgrRemove
    /\ UNCHANGED <<sup, reg, paddr, popen, file, fexists, snap, txnid, yanked,
                   dirty, scfaults, aborts>>

\* txn.go 785-826 Abort, from session.close: nothing if the txn is
\* finishing (that call is a stutter and left out), else the state becomes
\* aborting and txnNums is decremented, also when it already was aborting.
TxnAbort(t) ==
    /\ sup \in {"up", "closed"}
    /\ txst[t] \in {"live", "aborting"}
    /\ aborts[t] < MaxAbortCalls
    /\ txst' = [txst EXCEPT ![t] = "aborting"]
    /\ aborts' = [aborts EXCEPT ![t] = @ + 1]
    /\ mgrRemove
    /\ UNCHANGED <<sup, reg, paddr, popen, file, fexists, snap, txnid, yanked,
                   dirty, scfaults>>

ScatterNext ==
    \/ \E e \in Entries : Add(e)
    \/ \E n \in Names : ScatterRemove(n)
    \/ FlushConfig
    \/ LoadConfig
    \/ Close
    \/ Crash
    \/ \E t \in Txns : \/ CreateTransaction(t)
                       \/ TxnExecute(t)
                       \/ TxnFinish(t)
                       \/ TxnAbort(t)
                       \/ \E n \in Names : TxnGetClosed(t, n)

ScatterSpec == ScatterInit /\ [][ScatterNext]_scatterVars

-----------------------------------------------------------------------------
\* txnNums, which TxnManager.Add and Remove keep, is the number of live
\* transactions: created by CreateTxn and ended by neither Finish nor Abort.
\* A second Abort from a Sessions.Close round, or a Finish after a
\* statement revived an aborted txn, calls Remove again.
LiveTxnCount == txnNums = Cardinality({t \in Txns : txst[t] = "live"})

\* A process that starts from backend.json registers what the last
\* completed FlushConfig wrote, and keeps it until a backend is added or
\* removed: LoadConfig never fails on a file the proxy itself wrote, even
\* across a Panicf between the file write and the version bump.
RestartRestoresFlushed ==
    /\ sup # "failed"
    /\ sup = "up" /\ ~dirty => Registry(reg, paddr) = SE!ToSet(file)

\* A transaction can use every backend of its snapshot until it ends: spec
\* 4.3 says removing a backend mid-transaction does not yank the pools a
\* transaction borrowed.  Remove and Close close the pool of the snapshot.
NoYankedPool == yanked = {}
====
