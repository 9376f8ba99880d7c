------------------------------- MODULE Sessions -------------------------------
(***************************************************************************)
(* The session registry of src/proxy/sessions.go and session.close of     *)
(* src/proxy/session.go, with the client handler that drives it.          *)
(*                                                                         *)
(* Sessions keeps the map ss.sessions from session id to a session, each  *)
(* holding the transaction bound to it.  The binding calls look the       *)
(* session up under ss.mu.RLock, release it, and only then take           *)
(* session.mu to set session.transaction.  Kill and Remove delete the     *)
(* session under ss.mu and then close it: the client connection is        *)
(* closed, session.transaction is read and that transaction aborted.      *)
(* Sessions.Close, at shutdown, closes every session still in the map,   *)
(* under ss.mu, once a second, until the handlers have removed them all.  *)
(*                                                                         *)
(* The handler (the driver's connection loop and the spanner) is not in   *)
(* the tree; it follows spec 4.6 and 5: a single statement creates a txn, *)
(* binds it, runs, unbinds and finishes it; a multiple-statement txn is    *)
(* bound at BEGIN and kept by the session until COMMIT; a closed client   *)
(* connection ends the loop with Sessions.Remove.  A transaction ends     *)
(* once, by Finish or Abort, whichever comes first (Txn's state guard).   *)
(***************************************************************************)
EXTENDS Naturals, FiniteSets

CONSTANTS
    Clients,       \* client connections, one session id each
    MultiClients,  \* the clients that run multiple-statement transactions
    MaxTxns        \* transactions one client starts, at most

ASSUME MultiClients \subseteq Clients

VARIABLES
    smap,   \* the ids in ss.sessions
    sconn,  \* the client connection: "none" (not accepted), "open", "closed"
    stxn,   \* session.transaction: the number of the client's txn, 0 for nil
    stst,   \* each txn of each client: "none", "live", "ended"
    sntx,   \* txns the client's handler created
    hpc,    \* the handler: "new", "idle", "created", "looked", "exec",
            \* "inmulti" (between statements of a multiple-statement txn), "gone"
    shut,   \* Sessions.Close: "no", "round" (holds ss.mu), "sleep", "done"
    stodo   \* sessions the current round has still to close

regVars == <<smap, sconn, stxn, stst, sntx, hpc, shut, stodo>>

Txn == 1..MaxTxns
HPCs == {"new", "idle", "created", "looked", "exec", "inmulti", "gone"}

SessTypeOK ==
    /\ smap \subseteq Clients
    /\ sconn \in [Clients -> {"none", "open", "closed"}]
    /\ stxn \in [Clients -> 0..MaxTxns]
    /\ stst \in [Clients -> [Txn -> {"none", "live", "ended"}]]
    /\ sntx \in [Clients -> 0..MaxTxns]
    /\ hpc \in [Clients -> HPCs]
    /\ shut \in {"no", "round", "sleep", "done"}
    /\ stodo \subseteq Clients

SessInit ==
    /\ smap = {}
    /\ sconn = [c \in Clients |-> "none"]
    /\ stxn = [c \in Clients |-> 0]
    /\ stst = [c \in Clients |-> [k \in Txn |-> "none"]]
    /\ sntx = [c \in Clients |-> 0]
    /\ hpc = [c \in Clients |-> "new"]
    /\ shut = "no"
    /\ stodo = {}

\* ss.mu is free: no round of Sessions.Close holds it.
MuFree == shut # "round"

\* Txn.Finish or Txn.Abort of txn k of client c: the first one ends it,
\* the second does nothing.
EndTxn(c, k) ==
    stst' = [stst EXCEPT ![c][k] = IF @ = "live" THEN "ended" ELSE @]

\* session.go 62-86 close: close the client connection, read
\* session.transaction under session.mu, abort it.
close(c) ==
    /\ sconn' = [sconn EXCEPT ![c] = "closed"]
    /\ IF stxn[c] # 0 THEN EndTxn(c, stxn[c]) ELSE UNCHANGED stst

\* sessions.go 45-50 Add, for a connection the front end accepted before
\* shutdown began.
SessionsAdd(c) ==
    /\ hpc[c] = "new" /\ shut = "no"
    /\ smap' = smap \cup {c}
    /\ sconn' = [sconn EXCEPT ![c] = "open"]
    /\ hpc' = [hpc EXCEPT ![c] = "idle"]
    /\ UNCHANGED <<stxn, stst, sntx, shut, stodo>>

\* A statement arrives: the handler creates its txn (a single statement,
\* or BEGIN of a multiple-statement txn, with BeginScatter).
Create(c) ==
    /\ hpc[c] = "idle" /\ sconn[c] = "open" /\ sntx[c] < MaxTxns
    /\ sntx' = [sntx EXCEPT ![c] = @ + 1]
    /\ stst' = [stst EXCEPT ![c][sntx[c] + 1] = "live"]
    /\ hpc' = [hpc EXCEPT ![c] = "created"]
    /\ UNCHANGED <<smap, sconn, stxn, shut, stodo>>

\* sessions.go 106-114 TxnBinding and 150-158 MultiStmtTxnBinding, the
\* lookup under ss.mu.RLock: a session no longer in the map returns, and
\* the statement runs unbound.
BindingLookup(c) ==
    /\ hpc[c] = "created" /\ MuFree
    /\ hpc' = [hpc EXCEPT ![c] = IF c \in smap THEN "looked"
                                  ELSE IF c \in MultiClients THEN "inmulti"
                                  ELSE "exec"]
    /\ UNCHANGED <<smap, sconn, stxn, stst, sntx, shut, stodo>>

\* sessions.go 116-128 and 160-175, under session.mu: the txn is bound to
\* the session found by the lookup, whether or not it is still in the map.
\* MultiStmtTxnUnBinding(false) then keeps it bound between statements.
BindingSet(c) ==
    /\ hpc[c] = "looked"
    /\ stxn' = [stxn EXCEPT ![c] = sntx[c]]
    /\ hpc' = [hpc EXCEPT ![c] = IF c \in MultiClients THEN "inmulti" ELSE "exec"]
    /\ UNCHANGED <<smap, sconn, stst, sntx, shut, stodo>>

\* sessions.go 131-147 TxnUnBinding and 177-196 MultiStmtTxnUnBinding(true):
\* session.transaction is cleared only if the session is still in the map.
UnsetTxn(c) == stxn' = [stxn EXCEPT ![c] = IF c \in smap THEN 0 ELSE @]

\* A single statement has run: TxnUnBinding, then Finish.
UnBindingFinish(c) ==
    /\ hpc[c] = "exec" /\ MuFree
    /\ UnsetTxn(c)
    /\ EndTxn(c, sntx[c])
    /\ hpc' = [hpc EXCEPT ![c] = "idle"]
    /\ UNCHANGED <<smap, sconn, sntx, shut, stodo>>

\* COMMIT of a multiple-statement txn: CommitScatter,
\* MultiStmtTxnUnBinding(true), then Finish.
MultiCommit(c) ==
    /\ hpc[c] = "inmulti" /\ sconn[c] = "open" /\ MuFree
    /\ UnsetTxn(c)
    /\ EndTxn(c, sntx[c])
    /\ hpc' = [hpc EXCEPT ![c] = "idle"]
    /\ UNCHANGED <<smap, sconn, sntx, shut, stodo>>

\* The client quits: its connection closes, at any point; the handler
\* sees it at its next read.
ClientQuit(c) ==
    /\ sconn[c] = "open"
    /\ sconn' = [sconn EXCEPT ![c] = "closed"]
    /\ UNCHANGED <<smap, stxn, stst, sntx, hpc, shut, stodo>>

\* sessions.go 51-63 Remove, when the handler's read finds the connection
\* closed: delete the session if it is still in the map, and close it.
SessionsRemove(c) ==
    /\ hpc[c] \in {"idle", "inmulti"} /\ sconn[c] = "closed" /\ MuFree
    /\ IF c \in smap
       THEN smap' = smap \ {c} /\ close(c)
       ELSE UNCHANGED <<smap, sconn, stst>>
    /\ hpc' = [hpc EXCEPT ![c] = "gone"]
    /\ UNCHANGED <<stxn, sntx, shut, stodo>>

\* sessions.go 65-82 Kill, from an admin KILL: delete, then close.
SessionsKill(c) ==
    /\ c \in smap /\ MuFree
    /\ smap' = smap \ {c}
    /\ close(c)
    /\ UNCHANGED <<stxn, sntx, hpc, shut, stodo>>

\* sessions.go 198-217 Close: a round takes ss.mu and closes every
\* session in the map, which stays in it; with some left it sleeps a
\* second and starts again, else it returns.
CloseStart ==
    /\ shut \in {"no", "sleep"}
    /\ shut' = "round"
    /\ stodo' = smap
    /\ UNCHANGED <<smap, sconn, stxn, stst, sntx, hpc>>

\* A round that only aborts the bound txn and leaves the connection open.
CloseOneNoConnClose(c) ==
    /\ shut = "round" /\ c \in stodo
    /\ IF stxn[c] # 0 THEN EndTxn(c, stxn[c]) ELSE UNCHANGED stst
    /\ stodo' = stodo \ {c}
    /\ UNCHANGED <<smap, sconn, stxn, sntx, hpc, shut>>

CloseOne(c) ==
    /\ shut = "round" /\ c \in stodo
    /\ close(c)
    /\ stodo' = stodo \ {c}
    /\ UNCHANGED <<smap, stxn, sntx, hpc, shut>>

CloseRoundEnd ==
    /\ shut = "round" /\ stodo = {}
    /\ shut' = IF smap = {} THEN "done" ELSE "sleep"
    /\ UNCHANGED <<smap, sconn, stxn, stst, sntx, hpc, stodo>>

\* The handler's own steps: they run whenever their locks are free.
HandlerStep(c) ==
    BindingLookup(c) \/ BindingSet(c) \/ UnBindingFinish(c) \/ SessionsRemove(c)

\* Close has returned and the process exits: nothing more happens.
SessQuiescent == shut = "done" /\ UNCHANGED regVars

SessNext ==
    \/ \E c \in Clients :
          \/ SessionsAdd(c) \/ Create(c) \/ HandlerStep(c) \/ MultiCommit(c)
          \/ ClientQuit(c) \/ SessionsKill(c) \/ CloseOne(c)
    \/ CloseStart \/ CloseRoundEnd \/ SessQuiescent

\* A handler waiting for ss.mu gets it: Go's sync.RWMutex hands the lock
\* to a writer or reader blocked more than 1 ms (starvation mode), so
\* strong fairness; the shutdown goroutine's steps are weakly fair once
\* Close was called.  Clients, admin KILLs and the call of Close itself
\* get none.
SessFairness ==
    /\ \A c \in Clients : SF_regVars(HandlerStep(c))
    /\ \A c \in Clients : WF_regVars(CloseOne(c))
    /\ WF_regVars(shut # "no" /\ CloseStart)
    /\ WF_regVars(CloseRoundEnd)

SessSpec == SessInit /\ [][SessNext]_regVars /\ SessFairness

-----------------------------------------------------------------------------
\* Sessions.Close returns: once shutdown has started, every round closes
\* the client connections of the sessions left, their handlers finish the
\* statement in hand and Remove them, and a round finds the map empty.
ShutdownCompletes == shut = "round" ~> shut = "done"

\* No transaction outlives its client's handler unended: spec 5 says
\* session close aborts any bound txn.  A multiple-statement txn whose
\* binding came after a KILL read session.transaction is bound to a
\* session nobody will close.
NoOrphanTxn ==
    \A c \in Clients : hpc[c] = "gone" => \A k \in Txn : stst[c][k] # "live"
====
