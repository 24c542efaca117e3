---------------------------- MODULE LiquidTable ----------------------------
(***************************************************************************)
(* A clustered table of blitz-cluster, reclustered along the columns that  *)
(* queries filter on, and the queries of blitz-exec over it: the text is   *)
(* parsed and resolved (Understood, which is BlockSql's Understand where   *)
(* texts are run), the blocks are pruned by their zone maps, every block   *)
(* left is a morsel, and a morsel is executed by the coordinator, by a     *)
(* worker that reads the same storage or by one that is sent the columns.  *)
(* Who claims a morsel, and what is done about workers that die, is        *)
(* RampExec; here the data matters.                                        *)
(*                                                                         *)
(* A block is the sequence of its columns.  The keys of a curve have       *)
(* KeyBits bits, 32 in the code, and the doubles that scale a column to    *)
(* them are exact.                                                         *)
(***************************************************************************)
EXTENDS Kernels, Functions, FiniteSets

CONSTANTS
  Tables,      \* tables to start from: sequences of rows
  Statements,  \* texts that are asked: [text, meant], meant a query of Kernels
  BlockRows,   \* 65536
  KeyBits,     \* 32
  Understood(_),  \* the query a text is resolved to: [ok, q]
  MaxHits      \* bound on the predicates recorded

I64 == I64Min..I64Max

ASSUME LiquidTableAssumption == {BlockRows, KeyBits, MaxHits} \subseteq Nat \ {0}
\* The largest key; keys are narrower than the values of a column.
KeyMax == 2^KeyBits - 1
ASSUME KeysAssumption == KeyMax \in 1..I64Max
\* A table has rows and columns: reclustering one without blocks panics.
ASSUME TablesAssumption ==
  \A t \in Tables :
    /\ t \in Seq(Seq(I64)) \ {<<>>}
    /\ \A i \in DOMAIN t : t[i] # <<>> /\ Len(t[i]) = Len(t[1])
\* The columns a text filters on exist: the zone map of another one panics.
ASSUME StatementsAssumption ==
  \A stmt \in Statements :
    LET read == Understood(stmt.text)
    IN  read.ok /\ read.q.filter # <<>> =>
          /\ read.q.filter[1].op \in CmpOps /\ read.q.filter[1].lit \in I64
          /\ \A t \in Tables : read.q.filter[1].col \in DOMAIN t[1]

VARIABLES
  loaded,          \* the rows the table was made of
  blocks,          \* ClusteredTable.blocks
  zones,           \* ClusteredTable.zones: zones[block][column]
  cluster_keys,    \* ClusteredTable.cluster_keys
  predicate_hits,  \* LiquidStats.predicate_hits
  run              \* the query being run: Idle, or [stmt, q, queue, result, done], the queue
                   \* the set of the blocks in it

vars == <<loaded, blocks, zones, cluster_keys, predicate_hits, run>>

Idle == [stmt |-> <<>>]
Modes == {"local", "shared", "inline"}

Columns == DOMAIN loaded[1]
RowsOf(block) == [i \in DOMAIN block[1] |-> [c \in DOMAIN block |-> block[c][i]]]
AllRows == FlattenSeq([b \in DOMAIN blocks |-> RowsOf(blocks[b])])

\* Blocks of BlockRows rows, the last one shorter.
Chunks(rows) ==
  LET n == (Len(rows) + BlockRows - 1) \div BlockRows
      part(b) == SubSeq(rows, BlockRows * (b - 1) + 1,
                        IF BlockRows * b < Len(rows) THEN BlockRows * b ELSE Len(rows))
  IN  [b \in 1..n |-> [c \in Columns |-> [i \in DOMAIN part(b) |-> part(b)[i][c]]]]

Build(data) ==
  [min |-> Min(Range(data) \cup {I64Max}), max |-> Max(Range(data) \cup {I64Min})]
BuildZones(bs) == [b \in DOMAIN bs |-> [c \in DOMAIN bs[b] |-> Build(bs[b][c])]]

\* from_blocks
Init ==
  /\ loaded \in Tables
  /\ blocks = Chunks(loaded)
  /\ zones = BuildZones(blocks)
  /\ cluster_keys = <<>>
  /\ predicate_hits = [c \in {} |-> 0]
  /\ run = Idle

-----------------------------------------------------------------------------
(* Reclustering.                                                            *)

Hits(c) == IF c \in DOMAIN predicate_hits THEN predicate_hits[c] ELSE 0

RecordPredicate(c) ==
  /\ FoldFunction(+, 0, predicate_hits) < MaxHits
  /\ predicate_hits' = [x \in DOMAIN predicate_hits \cup {c} |->
                          IF x = c THEN Hits(c) + 1 ELSE predicate_hits[x]]
  /\ UNCHANGED <<loaded, blocks, zones, cluster_keys, run>>

\* The two columns recorded most often; the order of a hash map decides among equals.
ChooseKeys ==
  LET cols == DOMAIN predicate_hits
      n == IF Cardinality(cols) < 2 THEN Cardinality(cols) ELSE 2
  IN  {keys \in [1..n -> cols] :
         /\ IsInjective(keys)
         /\ \A i \in 1..n, c \in cols :
              Hits(c) > Hits(keys[i]) => \E j \in 1..(i - 1) : keys[j] = c}

\* A value of a column scaled to a key; the cast of a double to u32 saturates.
Norm(rows, c, v) ==
  LET zone == Build([i \in DOMAIN rows |-> rows[i][c]])
      span == IF Wrap(zone.max - zone.min) > 1 THEN Wrap(zone.max - zone.min) ELSE 1
      key == (Wrap(v - zone.min) * KeyMax) \div span
  IN  IF key < 0 THEN 0 ELSE IF key > KeyMax THEN KeyMax ELSE key

\* The bits of x at the even positions.
Spread[x \in 0..KeyMax] == IF x = 0 THEN 0 ELSE (x % 2) + 4 * Spread[x \div 2]
Zorder(a, b) == Spread[a] + 2 * Spread[b]

CurvePosition(rows, keys, r) ==
  IF Len(keys) = 2 THEN Zorder(Norm(rows, keys[1], r[keys[1]]), Norm(rows, keys[2], r[keys[2]]))
  ELSE Norm(rows, keys[1], r[keys[1]]) * 2^KeyBits

\* The rows along the curve, those at one position in any order.
Sorted(rows, keys) ==
  LET at == [i \in DOMAIN rows |-> CurvePosition(rows, keys, rows[i])]
      orders == {p \in [DOMAIN rows -> DOMAIN rows] :
                   /\ \A i \in 1..(Len(rows) - 1) : at[p[i]] <= at[p[i + 1]]
                   /\ IsInjective(p)}
  IN  {[i \in DOMAIN rows |-> rows[p[i]]] : p \in orders}

\* The rows are sorted, and the blocks and their zones built anew.  Variant: the zones of
\* the blocks that were there are kept.
ReclusterKeepsZones ==
  /\ run = Idle
  /\ \E keys \in ChooseKeys :
       IF keys = <<>> THEN UNCHANGED vars
       ELSE \E rows \in Sorted(AllRows, keys) :
              /\ blocks' = Chunks(rows)
              /\ cluster_keys' = keys
              /\ UNCHANGED <<zones, loaded, predicate_hits, run>>
\* Variant: the last block is built only when it is full.
ReclusterFullBlocks ==
  /\ run = Idle
  /\ \E keys \in ChooseKeys :
       IF keys = <<>> THEN UNCHANGED vars
       ELSE \E rows \in Sorted(AllRows, keys) :
              /\ blocks' = SelectSeq(Chunks(rows), LAMBDA b : Len(b[1]) = BlockRows)
              /\ zones' = BuildZones(blocks')
              /\ cluster_keys' = keys
              /\ UNCHANGED <<loaded, predicate_hits, run>>
Recluster ==
  /\ run = Idle
  /\ \E keys \in ChooseKeys :
       IF keys = <<>> THEN UNCHANGED vars
       ELSE \E rows \in Sorted(AllRows, keys) :
              /\ blocks' = Chunks(rows)
              /\ zones' = BuildZones(blocks')
              /\ cluster_keys' = keys
              /\ UNCHANGED <<loaded, predicate_hits, run>>

-----------------------------------------------------------------------------
(* Queries.                                                                 *)

PrunedMorsels(filter) ==
  {b \in DOMAIN blocks :
     filter = <<>> \/ LET z == zones[b][filter[1].col]
                      IN  ~BoundsPrune(filter[1].op, z.min, z.max, filter[1].lit)}

\* A text that is refused, when it is parsed or resolved, leaves nothing to run.
Ask(stmt) ==
  LET read == Understood(stmt.text)
  IN  /\ run = Idle
      /\ read.ok
      /\ run' = [stmt |-> <<stmt>>, q |-> read.q, queue |-> PrunedMorsels(read.q.filter),
                 result |-> PartialDefault, done |-> FALSE]
      /\ UNCHANGED <<loaded, blocks, zones, cluster_keys, predicate_hits>>

\* What a morsel gives, by who executes it.
MorselBy(mode, block, q) ==
  LET sent == ReadQuery(WriteQuery(q))
  IN  CASE mode = "local" -> ExecMorsel(block, q)
        [] mode = "shared" -> ReadPartial(WritePartial(ExecMorsel(block, sent)))
        [] mode = "inline" ->
             ReadPartial(WritePartial(ExecMorsel(ReceiveBlock(ShipBlock(block, q)), sent)))

Running == run # Idle /\ ~run.done

\* The last morsel of the queue, which is filled in ascending order.
RunMorsel(mode) ==
  /\ Running
  /\ run.queue # {}
  /\ LET m == Max(run.queue)
     IN  run' = [run EXCEPT !.queue = @ \ {m},
                            !.result = MergePartial(@, MorselBy(mode, blocks[m], run.q))]
  /\ UNCHANGED <<loaded, blocks, zones, cluster_keys, predicate_hits>>

Answer ==
  /\ Running
  /\ run.queue = {}
  /\ \E p \in ApplyOrderLimit(run.result, run.q.order_by, run.q.limit) :
       run' = [run EXCEPT !.result = p, !.done = TRUE]
  /\ UNCHANGED <<loaded, blocks, zones, cluster_keys, predicate_hits>>

Done ==
  /\ run # Idle
  /\ run.done
  /\ run' = Idle
  /\ UNCHANGED <<loaded, blocks, zones, cluster_keys, predicate_hits>>

Next ==
  \/ \E c \in Columns : RecordPredicate(c)
  \/ Recluster
  \/ \E stmt \in Statements : Ask(stmt)
  \/ \E mode \in Modes : RunMorsel(mode)
  \/ Answer
  \/ Done

Spec == Init /\ [][Next]_vars

-----------------------------------------------------------------------------
(* Properties.                                                              *)

RowBag(rows) == [r \in Range(rows) |-> Cardinality({i \in DOMAIN rows : rows[i] = r})]

\* However often a table is reclustered, along whatever columns and with whatever order
\* among equal keys, it holds the rows it was made of, each as often (recluster: the last
\* block is short, and keys may overflow the scale).
RowsKept == RowBag(AllRows) = RowBag(loaded)

\* A block that pruned_morsels leaves out holds no row that the filter lets through, also
\* after reclusterings that moved rows between blocks.
PrunedBlocksHoldNothing ==
  Running =>
    \A b \in DOMAIN blocks :
      (run.q.filter # <<>> /\ b \notin PrunedMorsels(run.q.filter)) =>
        \A i \in DOMAIN blocks[b][1] :
          LET f == run.q.filter[1] IN ~Satisfies(blocks[b][f.col][i], f.op, f.lit)

\* After a reclustering along columns whose values fit the keys, a row is never stored
\* behind one that is at least it in every clustering column and larger in one: blocks
\* are runs along the curve, and with one column their ranges meet at most at their ends
\* (clustering_quality: 1/n_blocks is perfect).
AlongTheCurve ==
  LET rows == AllRows
      fits(c) == \A i, j \in DOMAIN rows : rows[i][c] - rows[j][c] \in -KeyMax..KeyMax
      keys == Range(cluster_keys)
  IN  (\A c \in keys : fits(c)) =>
        \A i, j \in DOMAIN rows :
          i < j => ~(/\ \A c \in keys : rows[j][c] <= rows[i][c]
                     /\ \E c \in keys : rows[j][c] < rows[i][c])

\* Reclustering sorts: the same rows, along the curve.
Reclustered == RowsKept /\ AlongTheCurve

\* A plain statement, its clauses in one fixed order, is run as it was written (blitz_sql::parse).
Meant == run.stmt[1].meant
ReadAsWritten ==
  (run # Idle /\ Meant # <<>>) =>
    /\ run.q.agg = Meant[1].agg /\ run.q.agg_col = Meant[1].agg_col
    /\ run.q.filter = Meant[1].filter /\ run.q.group_by = Meant[1].group_by
    /\ run.q.order_by = Meant[1].order_by /\ run.q.limit = Meant[1].limit

\* The answer of a query over the rows as they were loaded.
AccOf(rows, c) ==
  [sum |-> Wrap(FoldLeft(LAMBDA s, r : s + r[c], 0, rows)), count |-> Len(rows),
   min |-> FoldLeft(LAMBDA a, r : IF r[c] < a THEN r[c] ELSE a, I64Max, rows),
   max |-> FoldLeft(LAMBDA a, r : IF r[c] > a THEN r[c] ELSE a, I64Min, rows)]
Answers(q) ==
  LET through == SelectSeq(loaded, LAMBDA r : q.filter = <<>>
                             \/ Satisfies(r[q.filter[1].col], q.filter[1].op, q.filter[1].lit))
      keys == {through[i][q.group_by[1]] : i \in DOMAIN through}
      group(k) == AccOf(SelectSeq(through, LAMBDA r : r[q.group_by[1]] = k), q.agg_col)
      first(S) == IF q.order_by = <<>> THEN TRUE
                  ELSE \A k \in S, x \in keys \ S : IF q.order_by[1].asc THEN k < x ELSE k > x
      size == IF q.limit # <<>> /\ q.limit[1] < Cardinality(keys) THEN q.limit[1]
              ELSE Cardinality(keys)
  IN  IF q.group_by = <<>> THEN {[scalar |-> AccOf(through, q.agg_col), groups |-> NoGroups]}
      ELSE {[scalar |-> AccDefault, groups |-> [k \in S |-> group(k)]] :
              S \in {T \in SUBSET keys : Cardinality(T) = size /\ first(T)}}

\* Whichever of coordinator and workers ran which morsels, over whichever layout of the
\* blocks, the result is the aggregate of the loaded rows.
ResultExact == (run # Idle /\ run.done) => run.result \in Answers(run.q)

=============================================================================
