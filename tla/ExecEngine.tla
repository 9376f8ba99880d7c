------------------------------ MODULE ExecEngine ------------------------------
(***************************************************************************)
(* The row algorithms of the distributed executor                         *)
(* (src/executor/engine): the UNION engine and the Cartesian join, as pure *)
(* operators over the two children's results.                              *)
(*                                                                         *)
(* Both engines first run their children in an errgroup and wait; each   *)
(* child's Execute is an action delivering rows or an error, and Combine   *)
(* applies the operators to what they delivered, so the invariants judge  *)
(* every pair of child results of the bounded sizes.  A column value is a *)
(* sqltypes.Value: a NULL, or a non-NULL value                             *)
(* whose Raw() bytes are its MySQL text encoding.  Raw() of a NULL is nil. *)
(***************************************************************************)
EXTENDS Naturals, Sequences, SequencesExt, FiniteSets

CONSTANTS
    Values,       \* the column values the children may return
    MaxRows,      \* most rows a child returns
    MaxWidth,     \* most columns of a row
    JoinLimits,   \* the values of txn.MaxJoinRows() tried
    ColVectors,   \* JoinNode.Cols projection vectors tried
    Pending,      \* a child that has not returned yet
    ChildErr      \* a child's Execute that returned an error

NullValue == [null |-> TRUE, raw |-> <<>>]

\* sqltypes.Value.Raw(): the encoded bytes, nil for a NULL.
Raw(v) == v.raw

\* The rows of a child result of width w.
RowsOf(w) == UNION {[1..n -> [1..w -> Values]] : n \in 0..MaxRows}

----------------------------------------------------------------------------
(* UnionEngine.Execute                                                    *)

\* union_engine.go 76-80: the hash key of a row, the concatenation of the
\* Raw() bytes of its columns.
RowKey(row) == FlattenSeq([i \in 1..Len(row) |-> Raw(row[i])])

\* union_engine.go 75-84: walk the appended rows and Put a row into the hash
\* table unless table.Get finds its key.  The table is kept as the rows in
\* insertion order; HashTable's iteration order is not part of the result's
\* contract (an ORDER BY above the union is a later operator).
\* Mutant: the table.Get lookup dropped, every row Put.
RECURSIVE DistinctRowsNoLookup(_, _)
DistinctRowsNoLookup(rows, table) ==
    IF rows = <<>> THEN table
    ELSE DistinctRowsNoLookup(Tail(rows), Append(table, Head(rows)))

RECURSIVE DistinctRows(_, _)
DistinctRows(rows, table) ==
    IF rows = <<>> THEN table
    ELSE LET row == Head(rows)
             has == \E i \in 1..Len(table) : RowKey(table[i]) = RowKey(row)
         IN  DistinctRows(Tail(rows), IF has THEN table ELSE Append(table, row))

\* union_engine.go 49-92 after both children returned: the column counts
\* are compared, the right rows appended to the left ones, and UNION and
\* UNION DISTINCT deduplicated through the table, whose size becomes
\* RowsAffected; UNION ALL keeps lctx's RowsAffected, which AppendResult
\* (sqltypes, outside the tree) summed with rctx's, and a child's SELECT
\* result counts its rows.
UnionExecute(typ, lwidth, rwidth, l, r) ==
    LET all == l \o r IN
    CASE lwidth # rwidth -> [err |-> TRUE, rows |-> <<>>, affected |-> 0]
      [] all = <<>>      -> [err |-> FALSE, rows |-> <<>>, affected |-> 0]
      [] typ \in {"union distinct", "union"} ->
            LET t == DistinctRows(all, <<>>)
            IN  [err |-> FALSE, rows |-> t, affected |-> Len(t)]
      [] OTHER -> [err |-> FALSE, rows |-> all, affected |-> Len(all)]

UnionTypes == {"union", "union distinct", "union all"}

----------------------------------------------------------------------------
(* JoinEngine, Cartesian strategy                                         *)

\* join_engine.go 204-217 joinRows: output column i is the left column
\* -cols[i] when cols[i] < 0, else the right column cols[i] (both 1-based
\* here); a nil right row (left joins) leaves the column NULL.
JoinRows(lrow, rrow, cols) ==
    [i \in 1..Len(cols) |->
        IF cols[i] < 0 THEN lrow[-cols[i]]
        ELSE IF rrow = <<>> THEN NullValue ELSE rrow[cols[i]]]

\* Mutant: the limit check made len(res.Rows) >= maxrow.
cartesianProductLimitAtMax(l, r, cols, maxrow) ==
    LET n == Len(l) * Len(r)
        pair(k) == <<l[((k - 1) \div Len(r)) + 1], r[((k - 1) % Len(r)) + 1]>>
        RECURSIVE Loop(_, _)
        Loop(k, rows) ==
            IF k > n THEN [err |-> FALSE, rows |-> rows]
            ELSE LET next == Append(rows, JoinRows(pair(k)[1], pair(k)[2], cols))
                 IN  IF Len(next) >= maxrow THEN [err |-> TRUE, rows |-> next]
                     ELSE Loop(k + 1, next)
    IN  Loop(1, <<>>)

\* join_engine.go 231-243 cartesianProduct: the left-major nested loop,
\* failing as soon as the result holds more than maxrow rows.
cartesianProduct(l, r, cols, maxrow) ==
    LET n == Len(l) * Len(r)
        pair(k) == <<l[((k - 1) \div Len(r)) + 1], r[((k - 1) % Len(r)) + 1]>>
        RECURSIVE Loop(_, _)
        Loop(k, rows) ==
            IF k > n THEN [err |-> FALSE, rows |-> rows]
            ELSE LET next == Append(rows, JoinRows(pair(k)[1], pair(k)[2], cols))
                 IN  IF Len(next) > maxrow THEN [err |-> TRUE, rows |-> next]
                     ELSE Loop(k + 1, next)
    IN  Loop(1, <<>>)

\* join_engine.go 71-86 for the Cartesian strategy with a non-empty right
\* side: an empty left side returns no rows before the join runs.
CartesianExecute(l, r, cols, maxrow) ==
    IF l = <<>> THEN [err |-> FALSE, rows |-> <<>>]
    ELSE cartesianProduct(l, r, cols, maxrow)

----------------------------------------------------------------------------
(* One engine node executing: its two children run in an errgroup, each  *)
(* delivering rows or an error, and Execute combines them after Wait.     *)

\* The plan nodes: a union of any type over children of any widths, and a
\* Cartesian join with a projection vector and a max_join_rows value.
Nodes ==
    [typ : UnionTypes, lw : 1..MaxWidth, rw : 1..MaxWidth]
    \cup [typ : {"cartesian"}, lw : {MaxWidth}, rw : {MaxWidth},
           cols : ColVectors, maxrow : JoinLimits]

\* The results a child of width w may deliver.  A Cartesian join whose right
\* side is empty calls concatLeftAndNil, which is not in this source tree:
\* its right child delivers at least one row here.
ChildResults(w, nonEmpty) ==
    (IF nonEmpty THEN RowsOf(w) \ {<<>>} ELSE RowsOf(w)) \cup {ChildErr}

VARIABLES node, lres, rres, out

engineVars == <<node, lres, rres, out>>

EngineInit ==
    /\ node \in Nodes
    /\ lres = Pending /\ rres = Pending /\ out = Pending

\* union_engine.go 55-57, join_engine.go 61-63: the left child's Execute.
LeftExecute ==
    /\ lres = Pending
    /\ lres' \in ChildResults(node.lw, FALSE)
    /\ UNCHANGED <<node, rres, out>>

\* union_engine.go 58-60, join_engine.go 64-66: the right child's Execute.
RightExecute ==
    /\ rres = Pending
    /\ rres' \in ChildResults(node.rw, node.typ = "cartesian")
    /\ UNCHANGED <<node, lres, out>>

\* eg.Wait() returned: a child's error is the engine's error, otherwise the
\* rows are combined (union_engine.go 61-92, join_engine.go 67-90).
Combine ==
    /\ lres # Pending /\ rres # Pending /\ out = Pending
    /\ out' = IF ChildErr \in {lres, rres}
                THEN [err |-> TRUE, rows |-> <<>>]
              ELSE IF node.typ = "cartesian"
                THEN CartesianExecute(lres, rres, node.cols, node.maxrow)
              ELSE UnionExecute(node.typ, node.lw, node.rw, lres, rres)
    /\ UNCHANGED <<node, lres, rres>>

EngineNext == LeftExecute \/ RightExecute \/ Combine

EngineSpec == EngineInit /\ [][EngineNext]_engineVars

\* The engine returned rows combined from two child results.
Returned == out # Pending /\ ChildErr \notin {lres, rres}

----------------------------------------------------------------------------
(* Properties                                                             *)

\* SQL's UNION: the distinct rows of both sides, a NULL equal to a NULL and
\* different from every non-NULL value.  spec.md test 12: [(1),(2),(3)] and
\* [(3),(4)] give {1,2,3,4}.
UnionReference(l, r) == ToSet(l \o r)

\* UNION and UNION ALL are sound: a column-count mismatch is an error;
\* otherwise the rows returned are rows of the children, UNION's rows are
\* pairwise different, UNION ALL returns both sides in order, and either
\* counts what it returns in RowsAffected (UnionEngine.Execute).  That
\* UNION keeps every distinct row is UnionDistinctComplete.
UnionResultSound ==
    (Returned /\ node.typ \in UnionTypes) =>
        IF node.lw # node.rw THEN out.err
        ELSE /\ ~out.err
             /\ ToSet(out.rows) \subseteq UnionReference(lres, rres)
             /\ out.affected = Len(out.rows)
             /\ node.typ # "union all" => IsInjective(out.rows)
             /\ node.typ = "union all" => out.rows = lres \o rres

\* UNION returns every distinct row of its children (spec.md test 12); the
\* hash key built by UnionEngine.Execute must therefore tell apart any two
\* different rows.
UnionDistinctComplete ==
    (Returned /\ node.typ \in {"union", "union distinct"} /\ ~out.err) =>
        ToSet(out.rows) = UnionReference(lres, rres)

\* A Cartesian join whose output fits in max_join_rows returns every
\* (left, right) pair projected through Cols, left-major; one that would
\* exceed it fails (spec.md test 10), and only then (cartesianProduct).
CartesianMatchesReference ==
    (Returned /\ node.typ = "cartesian" /\ lres # <<>>) =>
        LET l == lres
            r == rres
            cols == node.cols
        IN  IF Len(l) * Len(r) <= node.maxrow
            THEN /\ ~out.err
                 /\ out.rows = [k \in 1..Len(l) * Len(r) |->
                                 LET i == ((k - 1) \div Len(r)) + 1
                                     j == ((k - 1) % Len(r)) + 1
                                 IN  [c \in 1..Len(cols) |->
                                        IF cols[c] < 0 THEN l[i][-cols[c]]
                                        ELSE r[j][cols[c]]]]
            ELSE out.err
====
