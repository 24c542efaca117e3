------------------------------- MODULE Kernels -------------------------------
(***************************************************************************)
(* The kernels of blitz-core on Int64 columns, the pipeline of one morsel  *)
(* of blitz-exec that they make up, and what crosses the wire between      *)
(* coordinator and worker: queries, columns, partial results.  A number of *)
(* a message is one word.  Row numbers count from 0, columns from 1.       *)
(*                                                                         *)
(* The Float64, Decimal and Date kernels are left out: a clustered table   *)
(* holds Int64 columns only (its zone maps panic on others).               *)
(***************************************************************************)
EXTENDS Sequences, SequencesExt, ZoneMaps, Words

CONSTANTS
  FlatKeys,    \* 4096: group keys from 0 on for which the flat table is used
  Sample,      \* 1024: keys looked at before it is
  Lanes        \* 8: independent sums

ASSUME KernelsAssumption == {FlatKeys, Sample, Lanes} \subseteq Nat \ {0}

LOCAL Smaller(a, b) == IF a < b THEN a ELSE b
LOCAL Larger(a, b) == IF a > b THEN a ELSE b

FilterI64(data, op, lit) ==
  SelectSeq([i \in DOMAIN data |-> i - 1], LAMBDA i : Satisfies(data[i + 1], op, lit))

AccDefault == [sum |-> 0, count |-> 0, min |-> I64Max, max |-> I64Min]
Push(a, v) ==
  [sum |-> Wrap(a.sum + v), count |-> a.count + 1, min |-> Smaller(a.min, v),
   max |-> Larger(a.max, v)]
MergeAcc(a, o) ==
  [sum |-> Wrap(a.sum + o.sum), count |-> a.count + o.count, min |-> Smaller(a.min, o.min),
   max |-> Larger(a.max, o.max)]

\* Whole chunks of Lanes values in as many sums, and the remainder one by one.
SumI64(data) ==
  LET whole == Len(data) - (Len(data) % Lanes)
      lane(j) == FoldLeft(LAMBDA s, i : IF (i % Lanes) = j THEN Wrap(s + data[i]) ELSE s, 0,
                          [i \in 1..whole |-> i])
      chunks == FoldLeft(LAMBDA s, j : Wrap(s + lane(j % Lanes)), 0, [j \in 1..Lanes |-> j])
      rest == FoldLeft(LAMBDA s, v : Wrap(s + v), chunks, SubSeq(data, whole + 1, Len(data)))
  IN  [sum |-> rest, count |-> Len(data),
       min |-> FoldLeft(Smaller, I64Max, data), max |-> FoldLeft(Larger, I64Min, data)]

SumI64Sel(data, sel) == FoldLeft(LAMBDA a, i : Push(a, data[i + 1]), AccDefault, sel)

\* One row into the accumulator of its key.
Emit(groups, k, v) ==
  LET acc == IF k \in DOMAIN groups THEN groups[k] ELSE AccDefault
  IN  [x \in DOMAIN groups \cup {k} |-> IF x = k THEN Push(acc, v) ELSE groups[x]]

NoGroups == [k \in {} |-> AccDefault]
Flat(k) == 0 <= k /\ k < FlatKeys

\* A key outside the flat table gives the flat pass up, and all rows are grouped again.
\* Variant: the groups found so far are kept, and the pass goes on with what is left.
GroupAggKeeps(keys, vals, rows) ==
  LET flat == FoldLeft(LAMBDA st, i :
                         IF st.fell THEN st
                         ELSE IF Flat(keys[i + 1])
                         THEN [st EXCEPT !.groups = Emit(@, keys[i + 1], vals[i + 1])]
                         ELSE [st EXCEPT !.fell = TRUE],
                       [groups |-> NoGroups, fell |-> FALSE], rows)
      sample == SubSeq(keys, 1, Smaller(Sample, Len(keys)))
  IN  IF \A i \in DOMAIN sample : Flat(sample[i])
      THEN FoldLeft(LAMBDA g, i : IF flat.fell THEN Emit(g, keys[i + 1], vals[i + 1]) ELSE g,
                    flat.groups, rows)
      ELSE FoldLeft(LAMBDA g, i : Emit(g, keys[i + 1], vals[i + 1]), NoGroups, rows)
GroupAgg(keys, vals, rows) ==
  LET flat == FoldLeft(LAMBDA st, i :
                         IF st.fell THEN st
                         ELSE IF Flat(keys[i + 1])
                         THEN [st EXCEPT !.groups = Emit(@, keys[i + 1], vals[i + 1])]
                         ELSE [st EXCEPT !.fell = TRUE],
                       [groups |-> NoGroups, fell |-> FALSE], rows)
      sample == SubSeq(keys, 1, Smaller(Sample, Len(keys)))
  IN  IF (\A i \in DOMAIN sample : Flat(sample[i])) /\ ~flat.fell THEN flat.groups
      ELSE FoldLeft(LAMBDA g, i : Emit(g, keys[i + 1], vals[i + 1]), NoGroups, rows)

-----------------------------------------------------------------------------
(* A morsel.  An option is a sequence of at most one element.  A query has  *)
(* agg, agg_col, filter (an option of [col, op, lit]), group_by, order_by   *)
(* (an option of [col, asc]) and limit.                                     *)

PartialDefault == [scalar |-> AccDefault, groups |-> NoGroups]

ExecMorsel(columns, q) ==
  LET data == columns[q.agg_col]
      all == [i \in DOMAIN data |-> i - 1]
      rows == IF q.filter = <<>> THEN all
              ELSE FilterI64(columns[q.filter[1].col], q.filter[1].op, q.filter[1].lit)
  IN  IF q.group_by # <<>>
      THEN [PartialDefault EXCEPT !.groups = GroupAgg(columns[q.group_by[1]], data, rows)]
      ELSE [PartialDefault EXCEPT !.scalar = IF q.filter = <<>> THEN SumI64(data)
                                             ELSE SumI64Sel(data, rows)]

MergePartial(p, o) ==
  [scalar |-> MergeAcc(p.scalar, o.scalar),
   groups |-> [k \in DOMAIN p.groups \cup DOMAIN o.groups |->
                 IF k \notin DOMAIN o.groups THEN p.groups[k]
                 ELSE IF k \notin DOMAIN p.groups THEN MergeAcc(AccDefault, o.groups[k])
                 ELSE MergeAcc(p.groups[k], o.groups[k])]]

\* The groups left by ORDER BY and LIMIT: without ORDER BY any of them.  They are collected
\* into a hash map again, so that the order itself is lost.
ApplyOrderLimit(p, order_by, limit) ==
  LET keys == DOMAIN p.groups
      ahead(k) == IF order_by[1].asc THEN {x \in keys : x < k} ELSE {x \in keys : x > k}
      kept == IF limit = <<>> \/ limit[1] >= Cardinality(keys) THEN {keys}
              ELSE IF order_by = <<>> THEN {S \in SUBSET keys : Cardinality(S) = limit[1]}
              ELSE {{k \in keys : Cardinality(ahead(k)) < limit[1]}}
  IN  {[p EXCEPT !.groups = [k \in S |-> p.groups[k]]] : S \in kept}

-----------------------------------------------------------------------------
(* The wire.                                                                *)

AggFns == <<"SUM", "COUNT", "MIN", "MAX", "AVG">>
OpCodes == <<"Gt", "Lt", "Ge", "Le", "Eq">>
LOCAL Code(names, x) == SelectInSeq(names, LAMBDA n : n = x) - 1
LOCAL Flag(b) == IF b THEN 1 ELSE 0

WriteQuery(q) ==
  <<Code(AggFns, q.agg), q.agg_col>>
    \o (IF q.filter = <<>> THEN <<0, 0, 0, 0>>
        ELSE <<1, Code(OpCodes, q.filter[1].op), q.filter[1].col, q.filter[1].lit>>)
    \o (IF q.group_by = <<>> THEN <<0, 0>> ELSE <<1, q.group_by[1]>>)
    \o (IF q.order_by = <<>> THEN <<0, 0, 0>>
        ELSE <<1, Flag(q.order_by[1].asc), q.order_by[1].col>>)
    \o (IF q.limit = <<>> THEN <<0, 0>> ELSE <<1, q.limit[1]>>)

ReadQuery(m) ==
  [agg |-> AggFns[m[1] + 1], agg_col |-> m[2],
   filter |-> IF m[3] = 1 THEN <<[col |-> m[5], op |-> OpCodes[m[4] + 1], lit |-> m[6]]>> ELSE <<>>,
   group_by |-> IF m[7] = 1 THEN <<m[8]>> ELSE <<>>,
   order_by |-> IF m[9] = 1 THEN <<[asc |-> m[10] # 0, col |-> m[11]]>> ELSE <<>>,
   limit |-> IF m[12] = 1 THEN <<m[13]>> ELSE <<>>]

\* The columns a query needs, shipped with their numbers; the others are empty at the worker.
Needed(q) ==
  LET once(cols, c) == IF Contains(cols, c) THEN cols ELSE Append(cols, c)
      filter == [i \in DOMAIN q.filter |-> q.filter[i].col]
  IN  FoldLeft(once, <<q.agg_col>>, filter \o q.group_by)
ShipBlock(columns, q) ==
  LET cols == Needed(q)
  IN  <<Len(cols)>>
        \o FlattenSeq([k \in DOMAIN cols |-> <<cols[k], Len(columns[cols[k]])>> \o columns[cols[k]]])
ReceiveBlock(m) ==
  LET step(st, k) ==
        LET n == m[st.pos + 2]
        IN  [pos |-> st.pos + 2 + n,
             cols |-> Append(st.cols, [id |-> m[st.pos + 1],
                                       vals |-> SubSeq(m, st.pos + 3, st.pos + 2 + n)])]
      cols == FoldLeft(step, [pos |-> 1, cols |-> <<>>], [k \in 1..m[1] |-> k]).cols
      last == FoldLeft(LAMBDA x, c : Larger(x, c.id), 1, cols)
  IN  [id \in 1..last |->
         IF \E k \in DOMAIN cols : cols[k].id = id
         THEN cols[SelectInSeq(cols, LAMBDA c : c.id = id)].vals ELSE <<>>]

LOCAL AccWords(a) == <<a.sum, a.count, a.min, a.max>>
LOCAL AccAt(m, i) == [sum |-> m[i], count |-> m[i + 1], min |-> m[i + 2], max |-> m[i + 3]]
WritePartial(p) ==
  LET keys == SetToSeq(DOMAIN p.groups)
  IN  AccWords(p.scalar) \o <<Len(keys)>>
        \o FlattenSeq([k \in DOMAIN keys |-> <<keys[k]>> \o AccWords(p.groups[keys[k]])])
ReadPartial(m) ==
  LET keys == {m[6 + 5 * (k - 1)] : k \in 1..m[5]}
      at(key) == CHOOSE k \in 1..m[5] : m[6 + 5 * (k - 1)] = key
  IN  [scalar |-> AccAt(m, 1), groups |-> [key \in keys |-> AccAt(m, 7 + 5 * (at(key) - 1))]]

=============================================================================
