------------------------------- MODULE ShardKey -------------------------------
(***************************************************************************)
(* The checks handleDDL runs on a CREATE TABLE before it touches the      *)
(* router (src/proxy/ddl.go 25-115): checkEngine, and tryGetShardKey,     *)
(* which picks the sharding column and has checkShardKey verify it.  A    *)
(* table partitioned by a column can enforce a unique key on its shards  *)
(* only if the key contains that column, since rows of the same key       *)
(* value then land on the same backend.                                  *)
(*                                                                         *)
(* The table definition is data: its columns in order, each with its     *)
(* column-level key option, its index definitions in order, its engine   *)
(* option and its partition option.  Column names compare equal the way  *)
(* ColIdent.EqualString and strings.ToLower make them: one model value    *)
(* per name, whatever its case.                                           *)
(***************************************************************************)
EXTENDS Naturals, Sequences, FiniteSets

LOCAL SE == INSTANCE SequencesExt

CONSTANTS
    ColNames,    \* column names a definition may use
    Missing,     \* a PARTITION BY HASH column that is not in the table
    Engines,     \* engine options tried ("" when none is given)
    MaxIdx       \* most index definitions of a table

\* What a definition may hold.  A column's key option is that of
\* col.Type.PrimaryKeyOpt/UniqueKeyOpt; an index is plain, UNIQUE or
\* PRIMARY, over a non-empty list of distinct columns.
ColKeys == {"none", "primary", "unique"}
IdxKinds == {"plain", "unique", "primary"}

DistinctSeqs(S) == {s \in SE!BoundedSeq(S, Cardinality(S)) :
                        s # <<>> /\ SE!ToSet(s) \in SUBSET S
                        /\ Len(s) = Cardinality(SE!ToSet(s))}

Columns ==
    UNION {{[c \in 1..Len(ns) |-> [name |-> ns[c], key |-> ks[c]]] :
               ks \in [1..Len(ns) -> ColKeys]} : ns \in DistinctSeqs(ColNames)}

Indexes == [kind : IdxKinds, cols : DistinctSeqs(ColNames)]

Partitions ==
    [kind : {"hash", "list"}, name : ColNames \cup {Missing}]
    \cup [kind : {"normal", "global", "single"}]

VARIABLE tdef   \* the CREATE TABLE being checked, or NoDef

NoDef == [table |-> "none"]

TableDefs ==
    [table : {"t", "dual"}, cols : Columns, idx : SE!BoundedSeq(Indexes, MaxIdx),
     engine : Engines, part : Partitions]

\* ddl.go 25-40 checkEngine: no engine (InnoDB is then set), InnoDB or
\* TokuDB, in any case.
checkEngine(d) == d.engine \in {"", "innodb", "tokudb"}

IsUniqueCol(col) == col.key # "none"
IsUniqueIdx(ix) == ix.kind # "plain"

\* Mutant: the index loop tests index.Primary only, not index.Unique.
checkShardKeyPrimaryIdx(d, key) ==
    /\ \E c \in 1..Len(d.cols) : d.cols[c].name = key
    /\ \A c \in 1..Len(d.cols) :
           d.cols[c].name # key => ~IsUniqueCol(d.cols[c])
    /\ \A i \in 1..Len(d.idx) :
           d.idx[i].kind = "primary" => key \in SE!ToSet(d.idx[i].cols)

\* ddl.go 77-115 checkShardKey: the key is a column, no other column has a
\* column-level PRIMARY or UNIQUE, and every UNIQUE or PRIMARY index
\* lists the key among its columns.
checkShardKey(d, key) ==
    /\ \E c \in 1..Len(d.cols) : d.cols[c].name = key
    /\ \A c \in 1..Len(d.cols) :
           d.cols[c].name # key => ~IsUniqueCol(d.cols[c])
    /\ \A i \in 1..Len(d.idx) :
           IsUniqueIdx(d.idx[i]) => key \in SE!ToSet(d.idx[i].cols)

\* ddl.go 42-75 tryGetShardKey: [ok, key].  PARTITION BY HASH or LIST
\* names the key; with no partition option it is the first column with a
\* column-level key, else the first column of the first unique index;
\* GLOBAL and SINGLE tables have none and skip checkShardKey.
tryGetShardKey(d) ==
    LET fc == SE!SelectInSeq(d.cols, IsUniqueCol)
        fi == SE!SelectInSeq(d.idx, IsUniqueIdx)
        key == CASE d.part.kind \in {"hash", "list"} -> d.part.name
                 [] fc # 0 -> d.cols[fc].name
                 [] fi # 0 -> d.idx[fi].cols[1]
                 [] OTHER  -> Missing
    IN CASE d.table = "dual" -> [ok |-> FALSE, key |-> Missing]
         [] d.part.kind \in {"global", "single"} -> [ok |-> TRUE, key |-> Missing]
         [] d.part.kind = "normal" /\ fc = 0 /\ fi = 0 ->
                [ok |-> FALSE, key |-> Missing]
         [] OTHER -> [ok |-> checkShardKey(d, key), key |-> key]

\* The CREATE TABLE checks of handleDDL (ddl.go 224-232), in order.
CreateTableChecks(d) == checkEngine(d) /\ tryGetShardKey(d).ok

ShardInit == tdef = NoDef

\* A CREATE TABLE statement arrives with definition d.
CheckCreateTable ==
    /\ tdef = NoDef
    /\ tdef' \in TableDefs

-----------------------------------------------------------------------------
(* The reference: what MySQL requires of a partitioned table, stated on  *)
(* the set of unique keys rather than by scanning the definition.        *)

UniqueKeys(d) ==
    {{d.cols[c].name} : c \in {c \in 1..Len(d.cols) : IsUniqueCol(d.cols[c])}}
    \cup {SE!ToSet(d.idx[i].cols) : i \in {i \in 1..Len(d.idx) :
                                               IsUniqueIdx(d.idx[i])}}

ColumnSet(d) == {d.cols[c].name : c \in 1..Len(d.cols)}

\* Partitioning on k can enforce every unique key.
Partitionable(d, k) == k \in ColumnSet(d) /\ \A u \in UniqueKeys(d) : k \in u

\* The sharding column of a table without a partition option: the first
\* column, in column order, that carries a key of its own; else the
\* leading column of the first unique index.
DefaultKey(d) ==
    LET keyed == {c \in 1..Len(d.cols) : IsUniqueCol(d.cols[c])}
        uidx == {i \in 1..Len(d.idx) : IsUniqueIdx(d.idx[i])}
    IN IF keyed # {} THEN {d.cols[CHOOSE c \in keyed : \A o \in keyed : c <= o].name}
       ELSE IF uidx # {} THEN {d.idx[CHOOSE i \in uidx : \A o \in uidx : i <= o].cols[1]}
       ELSE {}

RefAccepts(d) ==
    /\ d.engine \in {"", "innodb", "tokudb"}
    /\ d.table # "dual"
    /\ \/ d.part.kind \in {"global", "single"}
       \/ d.part.kind \in {"hash", "list"} /\ Partitionable(d, d.part.name)
       \/ d.part.kind = "normal" /\ \E k \in DefaultKey(d) : Partitionable(d, k)

\* handleDDL lets a CREATE TABLE through to the router exactly when the
\* engine is one it supports and the table's sharding column (named, or
\* chosen from its keys) is in every unique key, so that no unique key
\* spans backends; the key it hands CreateHashTable is that column.
ShardKeyMatchesReference ==
    tdef # NoDef =>
        /\ CreateTableChecks(tdef) <=> RefAccepts(tdef)
        /\ CreateTableChecks(tdef) /\ tdef.part.kind = "normal" =>
               tryGetShardKey(tdef).key \in DefaultKey(tdef)
====
