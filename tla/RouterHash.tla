------------------------------ MODULE RouterHash ------------------------------
(***************************************************************************)
(* The hash router of one table (router/hash.go): Build turns the table's *)
(* partition config into the slot -> segment map and the sorted segment    *)
(* list; Lookup and GetSegment answer from them.                           *)
(*                                                                         *)
(* A partition's "Segment" string "start-end" is abstracted to the pair    *)
(* <<start, end>> it parses to, or to Malformed when strings.Split or      *)
(* strconv.Atoi rejects it.  A partition is named by its position in the   *)
(* config (its Table).  GetIndex, the jump hash of the key, is abstracted  *)
(* to the slot it yields: jump.Hash returns a value in 0..slots-1.         *)
(*                                                                         *)
(* The state machine edits the config one partition at a time (or starts  *)
(* over) and rebuilds, so that every config of up to MaxParts partitions  *)
(* is built once.                                                          *)
(***************************************************************************)
EXTENDS Naturals, Sequences, FiniteSets, TLC

CONSTANTS
    Slots,      \* h.slots
    Bound,      \* largest start or end a config may name
    MaxParts,   \* bound on the number of partitions of a config
    NoSegment   \* Segment{}: the zero value a Go map read returns on a miss

ASSUME Slots \in Nat \ {0} /\ Bound \in Nat /\ MaxParts \in Nat

\* What a spec that does not parse to two integers stands for.
Malformed == <<>>

SegSpecs == {<<s, e>> : s, e \in 0..Bound} \cup {Malformed}

VARIABLES conf, hash

vars == <<conf, hash>>

\* The Segment Build makes of the i-th partition of config c.
Partition(c, i) == [table |-> i, start |-> c[i][1], end |-> c[i][2]]

\* Slots the range [start, end) of a parsed partition spec covers.
Span(p) == p[1]..(p[2] - 1)

NoPartitions == [k \in {} |-> NoSegment]

\* Faulty variant of BuildFrom: the bitmap is written without the overlap
\* test.
RECURSIVE BuildFromNoOverlap(_, _, _)
BuildFromNoOverlap(c, i, pm) ==
    IF i > Len(c) THEN [ok |-> TRUE, partitions |-> pm]
    ELSE IF c[i] = Malformed \/ c[i][2] <= c[i][1]
         THEN [ok |-> FALSE]
         ELSE BuildFromNoOverlap(c, i + 1,
                                 [k \in DOMAIN pm \cup Span(c[i]) |->
                                    IF k \in Span(c[i]) THEN Partition(c, i) ELSE pm[k]])

\* The loop of Build from the i-th partition on, with the partitions map so
\* far: a malformed spec or end <= start returns an error; a slot already
\* in the map returns the overlap error; otherwise every slot of the range
\* is mapped to the new segment.
RECURSIVE BuildFrom(_, _, _)
BuildFrom(c, i, pm) ==
    IF i > Len(c) THEN [ok |-> TRUE, partitions |-> pm]
    ELSE IF c[i] = Malformed \/ c[i][2] <= c[i][1]
         THEN [ok |-> FALSE]
         ELSE IF \E k \in Span(c[i]) : k \in DOMAIN pm
              THEN [ok |-> FALSE]
              ELSE BuildFrom(c, i + 1,
                             [k \in DOMAIN pm \cup Span(c[i]) |->
                                IF k \in DOMAIN pm THEN pm[k] ELSE Partition(c, i)])

\* Hash.Build: after the loop the map must hold exactly h.slots slots; the
\* segments are sorted by Start (sort.Sort over Segments).
HashBuild(c) ==
    LET r == BuildFrom(c, 1, NoPartitions)
    IN IF r.ok /\ Cardinality(DOMAIN r.partitions) = Slots
       THEN [ok |-> TRUE, partitions |-> r.partitions,
             segments |-> SortSeq([i \in 1..Len(c) |-> Partition(c, i)],
                                  LAMBDA a, b : a.start < b.start)]
       ELSE [ok |-> FALSE]

\* h.partitions[idx]: a slot missing from the map reads as Segment{}.
PartitionAt(h, k) == IF k \in DOMAIN h.partitions THEN h.partitions[k] ELSE NoSegment

\* Hash.Lookup, for the four kinds of query q: an open interval (start or
\* end nil), keys of different types, two different keys, or two equal
\* keys whose GetIndex is slot q.idx.
HashLookup(h, q) ==
    CASE q.kind \in {"open", "range"} -> [ok |-> TRUE, segs |-> h.segments]
      [] q.kind = "mismatch"          -> [ok |-> FALSE]
      [] q.kind = "point"             -> [ok |-> TRUE, segs |-> <<PartitionAt(h, q.idx)>>]

\* Hash.GetSegment.
HashGetSegment(h, index) ==
    IF index < 0 \/ index >= Slots THEN [ok |-> FALSE]
    ELSE [ok |-> TRUE, seg |-> PartitionAt(h, index)]

-----------------------------------------------------------------------------

Init ==
    /\ conf = <<>>
    /\ hash = HashBuild(conf)

\* The table's config gains a partition and the table is rebuilt.
AddPartition ==
    /\ Len(conf) < MaxParts
    /\ \E p \in SegSpecs :
         /\ conf' = Append(conf, p)
         /\ hash' = HashBuild(conf')

\* The table is dropped and created again from an empty config.
ResetConfig ==
    /\ conf # <<>>
    /\ conf' = <<>>
    /\ hash' = HashBuild(conf')

Next == AddPartition \/ ResetConfig

Spec == Init /\ [][Next]_vars

-----------------------------------------------------------------------------
(* Reference definitions and properties.                                   *)

WellFormed(c) == \A i \in 1..Len(c) : c[i] # Malformed /\ c[i][1] < c[i][2]

Disjoint(c) == \A i, j \in 1..Len(c) : i # j => Span(c[i]) \cap Span(c[j]) = {}

Covered(c) == UNION {Span(c[i]) : i \in 1..Len(c)}

\* The partition of c whose range holds slot k.
Owner(c, k) == CHOOSE i \in 1..Len(c) : k \in Span(c[i])

\* Build accepts a config exactly when its ranges are well formed, pairwise
\* disjoint and together cover h.slots slots; it then maps each covered
\* slot to the partition whose range holds it, and lists every partition
\* once in ascending order of Start.  Build's early returns inside the
\* loop, its overlap bitmap and its final count decide the same thing.
BuildMatchesReference ==
    /\ hash.ok <=> (WellFormed(conf) /\ Disjoint(conf) /\ Cardinality(Covered(conf)) = Slots)
    /\ hash.ok =>
         /\ DOMAIN hash.partitions = Covered(conf)
         /\ \A k \in Covered(conf) : hash.partitions[k] = Partition(conf, Owner(conf, k))
         /\ Len(hash.segments) = Len(conf)
         /\ {hash.segments[i] : i \in 1..Len(conf)} = {Partition(conf, i) : i \in 1..Len(conf)}
         /\ \A i \in 1..(Len(conf) - 1) : hash.segments[i].start < hash.segments[i + 1].start

\* A table that Build accepted routes every key: whatever slot GetIndex
\* yields, Lookup and GetSegment return a real segment of the table, not
\* the zero Segment of a map miss (section 4.4: corrupt segment
\* definitions fail the load).
EverySlotRouted ==
    hash.ok =>
        \A k \in 0..(Slots - 1) :
            /\ HashLookup(hash, [kind |-> "point", idx |-> k]).segs[1] # NoSegment
            /\ HashGetSegment(hash, k).seg # NoSegment
=============================================================================
