------------------------------ MODULE TablePlan ------------------------------
(***************************************************************************)
(* plan() of blitz-plan: names bound to tables and columns, predicates     *)
(* pushed into the scans, files pruned by the bounds in the manifests, the *)
(* join's build side and strategy chosen from estimates.  A statement that *)
(* cannot be planned yields ok = FALSE.  Scans, columns and positions      *)
(* count from 1.  Estimates are exact fractions <<numerator, denominator>> *)
(* where the code computes in floats.                                      *)
(***************************************************************************)
EXTENDS Integers, Sequences, SequencesExt, ZoneMaps

CONSTANTS
  RowWidth,            \* EST_ROW_WIDTH
  BroadcastThreshold,  \* BROADCAST_THRESHOLD_BYTES
  Partitions           \* 16 in the code

ASSUME TablePlanAssumption ==
  RowWidth \in Nat /\ BroadcastThreshold \in Nat /\ Partitions \in Nat \ {0}

-----------------------------------------------------------------------------
(* Estimates.                                                               *)

Times(a, b) == <<a[1] * b[1], a[2] * b[2]>>
AtMost(a, b) == a[1] * b[2] <= b[1] * a[2]
LOCAL AtLeastOne(a) == IF AtMost(<<1, 1>>, a) THEN a ELSE <<1, 1>>
LOCAL AtMostOne(a) == IF AtMost(a, <<1, 1>>) THEN a ELSE <<1, 1>>
LOCAL NotNegative(n) == IF n < 0 THEN 0 ELSE n

\* bounds: the field ids with bounds, each with its lower and upper bound.
HasBounds(f, id) == id \in DOMAIN f.bounds

Selectivity(files, p) ==
  LET bounded == {i \in DOMAIN files : HasBounds(files[i], p.field_id)}
      lo == Min({files[i].bounds[p.field_id][1] : i \in bounded})
      hi == Max({files[i].bounds[p.field_id][2] : i \in bounded})
      domain == IF hi - lo < 1 THEN 1 ELSE hi - lo
  IN  IF p.lit.dtype = "Utf8" THEN <<1, 10>>
      ELSE IF bounded = {} THEN <<1, 1>>
      ELSE IF p.op \in {"Gt", "Ge"} THEN AtMostOne(<<NotNegative(hi - p.lit.v), domain>>)
      ELSE IF p.op \in {"Lt", "Le"} THEN AtMostOne(<<NotNegative(p.lit.v - lo), domain>>)
      ELSE <<1, IF domain < 1000 THEN domain ELSE 1000>>

RecordCount(files) == FoldLeft(LAMBDA n, f : n + f.record_count, 0, files)

Estimate(files, preds) ==
  AtLeastOne(FoldLeft(LAMBDA e, p : Times(e, Selectivity(files, p)),
                      <<RecordCount(files), 1>>, preds))

-----------------------------------------------------------------------------
(* File pruning (blitz-iceberg).                                            *)

\* Only a field with bounds and a literal of its type prunes; strings for equality only.
FilePrunes(f, id, dtype, op, lit) ==
  /\ HasBounds(f, id)
  /\ dtype = lit.dtype
  /\ dtype = "Utf8" => op = "Eq"
  /\ BoundsPrune(op, f.bounds[id][1], f.bounds[id][2], lit.v)

-----------------------------------------------------------------------------
(* Binding.  A scan: table, alias, fields, cols, preds, files, and after    *)
(* the estimate est and pruned.                                             *)

BindTable(catalog, name, alias) ==
  [table |-> name, alias |-> alias, fields |-> catalog[name].fields, cols |-> <<>>,
   preds |-> <<>>, files |-> catalog[name].files, est |-> <<RecordCount(catalog[name].files), 1>>,
   pruned |-> 0]

HasColumn(scan, col) == \E c \in DOMAIN scan.fields : scan.fields[c].name = col

\* find_scan: the first scan of that alias or table, or the only one with the column; 0 if
\* none.  Variant: only the table's own name qualifies.
FindScanByTable(scans, qual, col) ==
  LET hits == {s \in DOMAIN scans :
                 IF qual = "" THEN HasColumn(scans[s], col) ELSE scans[s].table = qual}
  IN  IF hits = {} \/ (qual = "" /\ \E s, u \in hits : s # u) THEN 0 ELSE Min(hits)
FindScan(scans, qual, col) ==
  LET hits == {s \in DOMAIN scans :
                 IF qual = "" THEN HasColumn(scans[s], col)
                 ELSE scans[s].alias = qual \/ scans[s].table = qual}
  IN  IF hits = {} \/ (qual = "" /\ \E s, u \in hits : s # u) THEN 0 ELSE Min(hits)

\* col_meta after find_scan: scan, schema index and whether both were found.
Resolve(scans, qual, col) ==
  LET s == FindScan(scans, qual, col) IN
  IF s = 0 \/ (s # 0 /\ ~HasColumn(scans[s], col)) THEN [ok |-> FALSE, scan |-> 0, idx |-> 0]
  ELSE [ok |-> TRUE, scan |-> s, idx |-> SelectInSeq(scans[s].fields, LAMBDA f : f.name = col)]

TypeAt(scans, at) == scans[at.scan].fields[at.idx].dtype

\* need_col: the scan produces the column; once is enough.  And its position in cols.
NeedCol(scans, at) ==
  IF Contains(scans[at.scan].cols, at.idx) THEN scans
  ELSE [scans EXCEPT ![at.scan].cols = Append(@, at.idx)]
PosOf(scans, at) == SelectInSeq(scans[at.scan].cols, LAMBDA c : c = at.idx)

\* The passes below extend st: whether all is well, the scans, and what was bound.
Bound(st, at) == [st EXCEPT !.ok = @ /\ at.ok, !.scans = IF at.ok THEN NeedCol(@, at) ELSE @]

PushPred(st, p) ==
  LET at == Resolve(st.scans, p.qual, p.col)
      bound == Bound(st, at)
  IN  IF ~st.ok \/ ~at.ok THEN [st EXCEPT !.ok = FALSE]
      ELSE [bound EXCEPT !.scans[at.scan].preds =
              Append(@, [col_idx |-> at.idx, field_id |-> st.scans[at.scan].fields[at.idx].id,
                         op |-> p.op, lit |-> p.lit])]

\* One join at most, on Int64 keys.
BindJoin(st, joins) ==
  LET j == joins[1]
      l == Resolve(st.scans, j.lqual, j.lcol)
      r == Resolve(st.scans, j.rqual, j.rcol)
      scans == NeedCol(NeedCol(st.scans, l), r)
  IN  IF joins = <<>> \/ ~st.ok THEN st
      ELSE IF Len(joins) > 1 \/ ~l.ok \/ ~r.ok THEN [st EXCEPT !.ok = FALSE]
      ELSE IF TypeAt(st.scans, l) # "Int64" \/ TypeAt(st.scans, r) # "Int64"
      THEN [st EXCEPT !.ok = FALSE]
      ELSE [st EXCEPT !.scans = scans,
                      !.keys = <<[scan |-> l.scan, pos |-> PosOf(scans, l)],
                                 [scan |-> r.scan, pos |-> PosOf(scans, r)]>>]

\* An output is [agg, scan, pos]; COUNT(*), and any other aggregate of *, has position 0.
BindItem(st, it) ==
  LET at == Resolve(st.scans, it.qual, it.col)
      scans == NeedCol(st.scans, at)
  IN  IF it.agg # "" /\ it.col = "*"
      THEN [st EXCEPT !.output = Append(@, [agg |-> it.agg, scan |-> 1, pos |-> 0])]
      ELSE IF ~st.ok \/ ~at.ok THEN [st EXCEPT !.ok = FALSE]
      ELSE IF it.agg # "" /\ TypeAt(st.scans, at) # "Int64" THEN [st EXCEPT !.ok = FALSE]
      ELSE [st EXCEPT !.scans = scans,
                      !.output = Append(@, [agg |-> it.agg, scan |-> at.scan,
                                            pos |-> PosOf(scans, at)])]

BindGroup(st, name) ==
  LET at == Resolve(st.scans, name.qual, name.col)
      bound == Bound(st, at)
  IN  IF ~st.ok \/ ~at.ok THEN [st EXCEPT !.ok = FALSE]
      ELSE [bound EXCEPT !.group_by = Append(@, [scan |-> at.scan, pos |-> PosOf(bound.scans, at)])]

-----------------------------------------------------------------------------
(* Pruning, estimate and join strategy.                                     *)

\* Vec::retain: the members of s that are in S.
Only(s, S) ==
  LET kept[k \in 0..Len(s)] ==
        IF k = 0 THEN <<>> ELSE IF s[k] \in S THEN Append(kept[k - 1], s[k]) ELSE kept[k - 1]
  IN  kept[Len(s)]

PredOn(scan, p) ==
  CHOOSE f \in ToSet(scan.fields) : f.id = p.field_id

PrunedBy(scan, f) ==
  \E k \in DOMAIN scan.preds :
    LET p == scan.preds[k] IN FilePrunes(f, p.field_id, PredOn(scan, p).dtype, p.op, p.lit)
PruneFiles(scan) ==
  LET kept == Only(scan.files, {f \in ToSet(scan.files) : ~PrunedBy(scan, f)})
  IN  [scan EXCEPT !.files = kept, !.pruned = Len(scan.files) - Len(kept),
                   !.est = Estimate(kept, scan.preds)]

\* The smaller side by estimate is built; a small one is broadcast, another shuffled.
NoJoin == <<>>
ChooseJoin(scans, keys) ==
  LET l == keys[1]
      r == keys[2]
      build == IF AtMost(scans[l.scan].est, scans[r.scan].est) THEN l ELSE r
      probe == IF AtMost(scans[l.scan].est, scans[r.scan].est) THEN r ELSE l
      small == ~AtMost(<<BroadcastThreshold, 1>>, Times(scans[build.scan].est, <<RowWidth, 1>>))
  IN  IF keys = <<>> THEN NoJoin
      ELSE <<[build |-> build.scan, probe |-> probe.scan, build_key |-> build.pos,
              probe_key |-> probe.pos, strategy |-> IF small THEN "Broadcast" ELSE "Shuffle"]>>

NoPlan == [ok |-> FALSE]

\* The predicates, the join, the select list and the grouping, in this order.
Bind(st, step) ==
  CASE step.part = "pred" -> PushPred(st, step.of)
    [] step.part = "joins" -> BindJoin(st, step.of)
    [] step.part = "item" -> BindItem(st, step.of)
    [] step.part = "group" -> BindGroup(st, step.of)
BindSteps(ast) ==
  LET each(part, items) == [i \in DOMAIN items |-> [part |-> part, of |-> items[i]]]
  IN  each("pred", ast.preds) \o each("joins", <<ast.joins>>) \o each("item", ast.select)
        \o each("group", ast.group_by)
BindAll(bound, ast) ==
  LET steps == BindSteps(ast)
      st[k \in 0..Len(steps)] == IF k = 0 THEN bound ELSE Bind(st[k - 1], steps[k])
  IN  st[Len(steps)]

\* What is planned for scans that are bound and pruned.
Strategy(scans, st, ast) ==
  [ok |-> TRUE, scans |-> scans, join |-> ChooseJoin(scans, st.keys), output |-> st.output,
   group_by |-> st.group_by, order_by |-> ast.order_by, limit |-> ast.limit]
Chosen(st, ast) ==
  IF st.ok THEN Strategy([s \in DOMAIN st.scans |-> PruneFiles(st.scans[s])], st, ast) ELSE NoPlan

\* catalog: the tables by name, each with its fields and files.
Plan(ast, catalog) ==
  LET names == <<[table |-> ast.table, alias |-> ast.alias]>>
                 \o [k \in DOMAIN ast.joins |-> [table |-> ast.joins[k].table,
                                                 alias |-> ast.joins[k].alias]]
      bound == [ok |-> TRUE, keys |-> <<>>, output |-> <<>>, group_by |-> <<>>,
                scans |-> [k \in DOMAIN names |-> BindTable(catalog, names[k].table, names[k].alias)]]
  IN  IF \E k \in DOMAIN names : names[k].table \notin DOMAIN catalog THEN NoPlan
      ELSE Chosen(BindAll(bound, ast), ast)

=============================================================================
