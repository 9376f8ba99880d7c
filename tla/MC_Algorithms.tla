---------------------------- MODULE MC_Algorithms ----------------------------
(* The pure algorithms: the router's Hash.Build with four slots, bounds   *)
(* one past the last slot and configs of up to three partitions; one      *)
(* executor engine node (a union of any type, or a Cartesian join) over   *)
(* child results of up to two rows.  The values are NULL, the empty       *)
(* string, "a" and "ab", which include rows whose raw bytes concatenate    *)
(* alike.                                                                  *)
(*                                                                         *)
(* The router and the engine share nothing; they are checked in one state *)
(* graph, one after the other: the engine node runs while the router's    *)
(* config is still empty, and the router builds configs while the engine  *)
(* node is still idle, so the graph is the sum of the two, not their      *)
(* product.                                                                *)
(*                                                                         *)
(* Txn.ExecuteStreamFetch joins them the same way: two shard queries,     *)
(* cursors of up to two rows, a rows channel of capacity one (a full      *)
(* channel is reached), batches of two rows and one injected error; it    *)
(* runs while the router and the engine are idle.                          *)
(*                                                                         *)
(* The shift tool's cut-over is the fourth: up to two client writes, a    *)
(* cfg.Behinds of one (both the throttle and the cut-over branch are      *)
(* taken), one failing call, each of cfg.Checksum and the target flavor   *)
(* either way.  It runs while the other three are idle, and they only     *)
(* while it has not started.                                               *)
(*                                                                         *)
(* The proxy's DDL handling is the fifth, on two backends and two tables: *)
(* every statement form, with and without IF [NOT] EXISTS, a table by    *)
(* hash or on one backend, a RENAME onto the second table; up to six      *)
(* statements and one failing backend execution.  It runs while the      *)
(* others are idle, and they while it has sent nothing.                   *)
(*                                                                         *)
(* Last, the CREATE TABLE checks against their reference, over every      *)
(* definition of one or two columns named a and b, up to two indexes,     *)
(* three engine options and every partition option.                       *)
(*                                                                         *)
(* Beside them, the Scatter's backend registry across restarts: two names *)
(* and two addresses, three pools per process lifetime, two transactions *)
(* and one failed file write.  It starts only while all the others are in *)
(* their initial state, and they only while it has never started.        *)
EXTENDS RouterHash, ExecEngine, StreamFetch, Shift, DDL, ShardKey, Scatter

CONSTANTS DB1, DB2, DT1, DT2

MCStmts ==
    {[op |-> "createdb", ine |-> i] : i \in BOOLEAN}
    \cup {[op |-> "dropdb", ie |-> i] : i \in BOOLEAN}
    \cup {[op |-> "createtable", t |-> DT1, ine |-> FALSE, on |-> "hash"],
          [op |-> "createtable", t |-> DT1, ine |-> TRUE, on |-> DB1]}
    \cup {[op |-> "droptable", t |-> DT1, ie |-> i] : i \in BOOLEAN}
    \cup {[op |-> "alter", t |-> DT1], [op |-> "rename", t |-> DT1, to |-> DT2],
          [op |-> "alterdb"]}

Str(s) == [null |-> FALSE, raw |-> s]

MCValues == {NullValue, Str(<<>>), Str(<<"a">>), Str(<<"a", "b">>)}

\* Projections of two-column rows: interleaved and repeated columns.
MCColVectors == {<<-2, 1>>, <<1, -1, 2>>}

algVars == <<vars, engineVars, streamVars, shiftVars, ddlVars, tdef, scatterVars>>

RouterIdle == conf = <<>>

EngineIdle == lres = Pending /\ rres = Pending

StreamIdle == sp = "open" /\ qi = 1

\* The shift has not started, in one of its four configurations: it shares
\* nothing with the others, which need not run beside each.
ShiftIdle ==
    /\ checksum /\ ruleFlavor
    /\ written = 0 /\ cst = "dump" /\ bpc = "dump" /\ mpc = "wait"
    /\ ~stopSig /\ ~tick

OthersIdle == RouterIdle /\ EngineIdle /\ StreamIdle

\* No session has sent a DDL statement yet.
DDLIdle == nstmts = [s \in Sessions |-> 0]

ShardIdle == tdef = NoDef

\* The proxy process of the Scatter has never started.
ScatterIdle == sup = "down" /\ ~fexists

\* The router, the engine, the streaming fetch and the shift still in
\* their initial state: one engine node and the shift configuration the
\* others run beside, since the last two share nothing with any of them.
FirstFourAtInit ==
    /\ Init /\ EngineInit /\ StreamInit /\ ShiftInit /\ ShiftIdle
    /\ node = CHOOSE n \in Nodes : TRUE

AlgInit == Init /\ EngineInit /\ StreamInit /\ ShiftInit /\ DDLInit /\ ShardInit
           /\ ScatterInit

AlgNext ==
    \/ ScatterIdle /\ ShiftIdle /\ DDLIdle /\ ShardIdle /\ EngineIdle /\ StreamIdle /\ Next
       /\ UNCHANGED <<engineVars, streamVars, shiftVars, ddlVars, tdef,
                      scatterVars>>
    \/ ScatterIdle /\ ShiftIdle /\ DDLIdle /\ ShardIdle /\ RouterIdle /\ StreamIdle
       /\ EngineNext /\ UNCHANGED <<vars, streamVars, shiftVars, ddlVars, tdef,
                      scatterVars>>
    \/ ScatterIdle /\ ShiftIdle /\ DDLIdle /\ ShardIdle /\ RouterIdle /\ EngineIdle
       /\ StreamNext /\ UNCHANGED <<vars, engineVars, shiftVars, ddlVars, tdef,
                      scatterVars>>
    \/ ScatterIdle /\ DDLIdle /\ ShardIdle /\ OthersIdle /\ ShiftNext
       /\ UNCHANGED <<vars, engineVars, streamVars, ddlVars, tdef,
                      scatterVars>>
    \/ ScatterIdle /\ FirstFourAtInit /\ ShardIdle /\ DDLNext
       /\ UNCHANGED <<vars, engineVars, streamVars, shiftVars, tdef,
                      scatterVars>>
    \/ ScatterIdle /\ FirstFourAtInit /\ DDLIdle /\ CheckCreateTable
       /\ UNCHANGED <<vars, engineVars, streamVars, shiftVars, ddlVars,
                      scatterVars>>
    \/ FirstFourAtInit /\ DDLIdle /\ ShardIdle /\ ScatterNext
       /\ UNCHANGED <<vars, engineVars, streamVars, shiftVars, ddlVars, tdef>>

AlgSpec == AlgInit /\ [][AlgNext]_algVars
=============================================================================
