--------------------------------- MODULE DDL ---------------------------------
(***************************************************************************)
(* Spanner.handleDDL (src/proxy/ddl.go): a DDL statement changes two     *)
(* things that must agree, the router's catalog (its databases, and per  *)
(* table the backends holding it) and the schemas of the MySQL backends. *)
(* handleDDL updates the router before or after sending the statement to *)
(* the backends, depending on the statement, and each backend applies it  *)
(* on its own: the fan-out (ExecuteScatter to every backend, ExecuteDDL  *)
(* to the table's backends) runs one goroutine per backend, each of which *)
(* may fail.  Several sessions run DDL at once.                           *)
(*                                                                         *)
(* One database is modelled; the ACL and privilege checks pass, as for a  *)
(* user database and a user with the DDL privilege.  The router's catalog *)
(* operations (router.go) are not in this tree: the model takes the      *)
(* usual contract, that each is atomic and fails on a missing or an       *)
(* existing name.                                                         *)
(***************************************************************************)
EXTENDS Naturals, FiniteSets

CONSTANTS
    Sessions,      \* sessions running DDL
    Backends,      \* the normal backends (scatter.Backends())
    Tables,        \* table names of the database
    Stmts,         \* the statements a session may send
    MaxStmts,      \* most statements per session
    DDLFaults      \* most backend executions failing for other reasons

\* The statements handleDDL handles, one record per form.  single is a
\* backend for PARTITION BY SINGLE ... DISTRIBUTED BY, or "hash".
StmtForms ==
    [op : {"createdb"}, ine : BOOLEAN] \cup [op : {"dropdb"}, ie : BOOLEAN]
    \cup [op : {"createtable"}, t : Tables, ine : BOOLEAN,
          on : Backends \cup {"hash"}]
    \cup [op : {"droptable"}, t : Tables, ie : BOOLEAN]
    \cup [op : {"alter"}, t : Tables]
    \cup [op : {"rename"}, t : Tables, to : Tables] \cup [op : {"alterdb"}]

ASSUME Stmts \subseteq StmtForms

VARIABLES
    rdb,     \* the router knows the database
    rtab,    \* rtab[t]: the backends of table t in the router, {} if none
    phys,    \* phys[b]: the database and tables that exist on backend b
    ses,     \* ses[s]: the statement session s is in and where it is
    nstmts,  \* statements each session has sent
    dfaults  \* injected backend failures so far

ddlVars == <<rdb, rtab, phys, ses, nstmts, dfaults>>

Idle == [pc |-> "idle"]

\* A statement whose query is out on the backends: those that have not
\* answered yet, and whether one answered with an error.  Once todo is
\* empty, ExecuteScatter or ExecuteDDL has returned.
SesStates ==
    {Idle} \cup [pc : {"exec"}, st : Stmts, todo : SUBSET Backends,
                 err : BOOLEAN]

DDLTypeOK ==
    /\ rdb \in BOOLEAN
    /\ rtab \in [Tables -> SUBSET Backends]
    /\ phys \in [Backends -> [db : BOOLEAN, tabs : SUBSET Tables]]
    /\ ses \in [Sessions -> SesStates]
    /\ nstmts \in [Sessions -> 0..MaxStmts]
    /\ dfaults \in 0..DDLFaults

\* No database or table yet, anywhere.
DDLInit ==
    /\ rdb = FALSE
    /\ rtab = [t \in Tables |-> {}]
    /\ phys = [b \in Backends |-> [db |-> FALSE, tabs |-> {}]]
    /\ ses = [s \in Sessions |-> Idle]
    /\ nstmts = [s \in Sessions |-> 0]
    /\ dfaults = 0

\* ddl.go 117-129 checkTableExists: the table is in router.Tables().
checkTableExists(t) == rdb /\ rtab[t] # {}

\* The backends a table-level statement goes to: the table's backends as
\* the plan reads them from the router, or none when the router has no
\* such table (planning fails).
PlanBackends(t) == rtab[t]

\* What MySQL does with the statement's query on one backend whose
\* schema is p: whether it succeeds, and the schema after it.  The query
\* keeps IF [NOT] EXISTS, except DROP TABLE's, which handleDDL rebuilds
\* as "drop table t" (ddl.go 303).
BackendOK(st, p) ==
    CASE st.op = "createdb"    -> ~p.db \/ st.ine
      [] st.op = "dropdb"      -> p.db \/ st.ie
      [] st.op = "createtable" -> p.db /\ (st.t \notin p.tabs \/ st.ine)
      [] st.op = "droptable"   -> p.db /\ st.t \in p.tabs
      [] st.op = "alter"       -> p.db /\ st.t \in p.tabs
      [] st.op = "rename"      -> p.db /\ st.t \in p.tabs /\ st.to \notin p.tabs
      [] st.op = "alterdb"     -> p.db

BackendEffect(st, p) ==
    CASE st.op = "createdb"    -> [p EXCEPT !.db = TRUE]
      [] st.op = "dropdb"      -> [db |-> FALSE, tabs |-> {}]
      [] st.op = "createtable" -> [p EXCEPT !.tabs = @ \cup {st.t}]
      [] st.op = "droptable"   -> [p EXCEPT !.tabs = @ \ {st.t}]
      [] st.op = "alter"       -> p
      [] st.op = "rename"      -> [p EXCEPT !.tabs = (@ \ {st.t}) \cup {st.to}]
      [] st.op = "alterdb"     -> p

\* The router's catalog operations, atomic under its lock; each fails,
\* changing nothing, on a missing or an existing name.
RouterDropTable(t) == rtab' = [rtab EXCEPT ![t] = {}]

\* The backends CreateHashTable or CreateNonPartTable gives the table.
CreatedOn(st) == IF st.on = "hash" THEN Backends ELSE {st.on}

\* ddl.go 340-347 and 386-396: the database and the table exist and, for
\* RENAME, the new name does not.
TableChecksPass(st) ==
    checkTableExists(st.t) /\ (st.op = "rename" => ~checkTableExists(st.to))

\* handleDDL returns to the client.
EarlyReturn(s) == ses' = [ses EXCEPT ![s] = Idle] /\ UNCHANGED <<rdb, rtab>>

\* The query goes out to the backends bs; err when there is no plan.
Send(s, st, bs, err) ==
    ses' = [ses EXCEPT ![s] = [pc |-> "exec", st |-> st, todo |-> bs,
                               err |-> err]]

\* handleDDL up to ExecuteScatter or ExecuteDDL, one operator per
\* statement: the checks, the router update made before the backends run
\* the query, and the plan, which reads the table's backends from the
\* router.  Each router call is atomic on its own; a check only decides
\* between an early return and an error from the router call after it,
\* so they are one step.  checkEngine, tryGetShardKey and
\* GetAutoIncrement accept the statement.
StartCreateDB(s, st) ==
    \/ rdb /\ EarlyReturn(s)
    \/ ~rdb /\ rdb' = TRUE /\ Send(s, st, Backends, FALSE) /\ UNCHANGED rtab

StartDropDB(s, st) ==
    \/ ~rdb /\ st.ie /\ EarlyReturn(s)
    \/ (rdb \/ ~st.ie) /\ Send(s, st, Backends, FALSE)
       /\ UNCHANGED <<rdb, rtab>>

StartCreateTable(s, st) ==
    \/ (~rdb \/ checkTableExists(st.t)) /\ EarlyReturn(s)
    \/ rdb /\ ~checkTableExists(st.t)
       /\ rtab' = [rtab EXCEPT ![st.t] = CreatedOn(st)]
       /\ Send(s, st, CreatedOn(st), FALSE)
       /\ UNCHANGED rdb

StartDropTable(s, st) ==
    \/ (~rdb \/ (st.ie /\ ~checkTableExists(st.t))) /\ EarlyReturn(s)
    \/ rdb /\ (~st.ie \/ checkTableExists(st.t))
       /\ Send(s, st, PlanBackends(st.t), PlanBackends(st.t) = {})
       /\ UNCHANGED <<rdb, rtab>>

\* ALTER (index, engine, charset, column, truncate) and RENAME.
StartAlterRename(s, st) ==
    \/ ~TableChecksPass(st) /\ EarlyReturn(s)
    \/ TableChecksPass(st) /\ Send(s, st, PlanBackends(st.t), FALSE)
       /\ UNCHANGED <<rdb, rtab>>

\* ALTER DATABASE, with the session's database written into the query.
StartAlterDB(s, st) ==
    \/ ~rdb /\ EarlyReturn(s)
    \/ rdb /\ Send(s, st, Backends, FALSE) /\ UNCHANGED <<rdb, rtab>>

Start(s, st) ==
    CASE st.op = "createdb"    -> StartCreateDB(s, st)
      [] st.op = "dropdb"      -> StartDropDB(s, st)
      [] st.op = "createtable" -> StartCreateTable(s, st)
      [] st.op = "droptable"   -> StartDropTable(s, st)
      [] st.op \in {"alter", "rename"} -> StartAlterRename(s, st)
      [] st.op = "alterdb"     -> StartAlterDB(s, st)

\* A session sends its next DDL statement.
Begin(s) ==
    /\ ses[s] = Idle /\ nstmts[s] < MaxStmts
    /\ \E st \in Stmts : Start(s, st)
    /\ nstmts' = [nstmts EXCEPT ![s] = @ + 1]
    /\ UNCHANGED <<phys, dfaults>>

\* One backend's goroutine of the fan-out runs the query: MySQL applies
\* it, or refuses it, or it fails for another reason (a lost connection,
\* a timeout), changing nothing.  Every backend runs; the error is kept.
BackendExec(s, b) ==
    LET st == ses[s].st IN
    /\ ses[s].pc = "exec" /\ b \in ses[s].todo
    /\ \/ BackendOK(st, phys[b])
          /\ phys' = [phys EXCEPT ![b] = BackendEffect(st, @)]
          /\ ses' = [ses EXCEPT ![s].todo = @ \ {b}]
          /\ UNCHANGED dfaults
       \/ ~BackendOK(st, phys[b])
          /\ ses' = [ses EXCEPT ![s].todo = @ \ {b}, ![s].err = TRUE]
          /\ UNCHANGED <<phys, dfaults>>
       \/ dfaults < DDLFaults /\ dfaults' = dfaults + 1
          /\ ses' = [ses EXCEPT ![s].todo = @ \ {b}, ![s].err = TRUE]
          /\ UNCHANGED phys
    /\ UNCHANGED <<rdb, rtab, nstmts>>

\* handleDDL after the fan-out returned: the router update made after the
\* backends ran the query, one operator per statement.  A router call
\* that fails changes nothing.
DropDBDone(err) ==
    \/ (err \/ ~rdb) /\ UNCHANGED <<rdb, rtab>>
    \/ ~err /\ rdb /\ rdb' = FALSE /\ rtab' = [u \in Tables |-> {}]

\* A failed CREATE TABLE is undone in the router only.
CreateTableDone(t, err) ==
    (IF err THEN RouterDropTable(t) ELSE UNCHANGED rtab) /\ UNCHANGED rdb

\* DROP TABLE drops the router's table whatever the backends answered.
DropTableDone(t) == RouterDropTable(t) /\ UNCHANGED rdb

RenameDone(st, err) ==
    \/ (err \/ ~TableChecksPass(st)) /\ UNCHANGED <<rdb, rtab>>
    \/ ~err /\ TableChecksPass(st)
       /\ rtab' = [rtab EXCEPT ![st.t] = {}, ![st.to] = rtab[st.t]]
       /\ UNCHANGED rdb

Finish(s) ==
    LET st == ses[s].st
        err == ses[s].err IN
    /\ ses[s].pc = "exec" /\ ses[s].todo = {}
    /\ ses' = [ses EXCEPT ![s] = Idle]
    /\ CASE st.op = "dropdb"      -> DropDBDone(err)
          [] st.op = "createtable" -> CreateTableDone(st.t, err)
          [] st.op = "droptable"   -> DropTableDone(st.t)
          [] st.op = "rename"      -> RenameDone(st, err)
          [] OTHER                 -> UNCHANGED <<rdb, rtab>>
    /\ UNCHANGED <<phys, nstmts, dfaults>>

DDLNext ==
    \E s \in Sessions :
        \/ Begin(s)
        \/ \E b \in Backends : BackendExec(s, b)
        \/ Finish(s)

DDLSpec == DDLInit /\ [][DDLNext]_ddlVars

\* As long as no backend has failed for a reason of its own, whenever
\* the sessions are idle the router and the backends agree: every backend
\* has the database exactly when the router does, and a table exactly
\* when the router places it there.  handleDDL updates the router before
\* the backends for CREATE DATABASE and CREATE TABLE and after them for
\* DROP DATABASE, DROP TABLE and RENAME, and each check reads the router,
\* not the backends.  (A backend failure leaves them apart by design: the
\* fan-out is not atomic.)
CatalogAgreement ==
    (dfaults = 0 /\ \A s \in Sessions : ses[s] = Idle) =>
        /\ \A b \in Backends : phys[b].db = rdb
        /\ \A b \in Backends, t \in Tables : t \in phys[b].tabs <=> b \in rtab[t]
====
