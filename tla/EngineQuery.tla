----------------------------- MODULE EngineQuery -----------------------------
(***************************************************************************)
(* A query in blitz-engine, from its text to its answer: parsed and        *)
(* planned (TablePlan), then executed over column files in one or two      *)
(* ramps, whose threads claim morsels, scan them, and join and aggregate   *)
(* what they find, and a final merge.  How a text is parsed and what a     *)
(* reader of a file gives are parameters: SqlFront's Parse and             *)
(* ColumnFile's operators where queries are run.                           *)
(*                                                                         *)
(* A claim and the scan of its morsel are one step: files are only read,   *)
(* and a thread's partial result is its own.  (EngineRamp has the steps of *)
(* the claim.)  A morsel of the shuffle locks one exchange buffer after    *)
(* the other: one step each.  Answers are rows of fractions <<n, d>>, so   *)
(* that an average is a value like others.                                 *)
(***************************************************************************)
EXTENDS TablePlan, Warehouse, FiniteSets, FiniteSetsExt, TLC

CONSTANTS
  Tables,                    \* by name: the fields, and for each file its columns
  Queries,                   \* syntax trees
  StatementOf(_),            \* what the text of a query is parsed to: [ok, v]
  OpenFile(_, _),            \* the file of these fields and columns, opened by a reader
  Panics(_, _, _),           \* eval_pred panics on this chunk, operator and literal
  RowsWhere(_, _, _, _, _),  \* eval_pred's rows of a reader, row group and column
  Cells(_, _, _, _),         \* the cells of a reader, row group and column in these rows
  Threads                    \* local threads, and ramp workers, which join at any time

ASSUME ThreadsAssumption == IsFiniteSet(Threads) /\ Threads # {}

\* Field ids are unique, and the columns of a file are the table's and equally long.
ASSUME TablesAssumption ==
  \A n \in DOMAIN Tables :
    LET fields == Tables[n].fields
        files == Tables[n].files
    IN  /\ fields \in Seq([id : Int, name : STRING, dtype : {"Int64", "Utf8"}])
        /\ \A c, d \in DOMAIN fields : fields[c].id = fields[d].id => c = d
        /\ files \in Seq(Seq([dtype : {"Int64", "Utf8"}, vals : Seq(Int)]))
        /\ \A f \in DOMAIN files :
             /\ DOMAIN files[f] = DOMAIN fields
             /\ \A c \in DOMAIN fields :
                  /\ files[f][c].dtype = fields[c].dtype
                  /\ Len(files[f][c].vals) = Len(files[f][1].vals)
                  /\ \A i \in DOMAIN files[f][c].vals : files[f][c].vals[i] \in I64Min..I64Max

\* The lists of a statement, and its integer literals.
ASSUME StatementsAssumption ==
  \A q \in Queries :
    StatementOf(q).ok =>
      LET ast == StatementOf(q).v IN
      /\ \A list \in {ast.preds, ast.joins, ast.select, ast.group_by} : list \in Seq(ToSet(list))
      /\ \A k \in DOMAIN ast.preds : ast.preds[k].lit.dtype = "Int64" => ast.preds[k].lit.v \in Int

VARIABLES
  query,      \* what is asked
  stage,      \* "text", "parsed", "planned", a ramp under way, "merge", and how it ended
  plan,
  built,      \* broadcast: the build side's rows
  exchange,   \* shuffle: the rows of both sides by partition
  next,       \* the ramp's task counter
  thread,     \* pc, partial result, rows to put into the exchange
  partials,   \* the partial results handed in, in some order
  answer

vars == <<query, stage, plan, built, exchange, next, thread, partials, answer>>

Ramps == {"scan", "probe", "map", "join"}
Ended == {"answered", "rejected", "panicked"}

Catalog ==
  [n \in DOMAIN Tables |->
     [fields |-> Tables[n].fields,
      files |-> [f \in DOMAIN Tables[n].files |->
                   DataFile(<<n, f>>, Tables[n].fields, Tables[n].files[f])]]]

\* The files opened: Reader::open.
Readers ==
  [n \in DOMAIN Tables |->
     [f \in DOMAIN Tables[n].files |-> OpenFile(Tables[n].fields, Tables[n].files[f])]]
ReaderOf(file) == Readers[file.path[1]][file.path[2]]

\* What a reader of a file gives: its row groups are the file's rows, group g those after base[g];
\* a comparison that does not panic yields the rows, from 0, whose values satisfy it, and cells
\* are the values in the rows selected.  Both lists of rows ascend.
Ascends(s) == \A i, k \in DOMAIN s : i < k => s[i] < s[k]
GroupsCover(r, rows, base) ==
  /\ DOMAIN r.rowgroups = 1..Len(r.rowgroups) /\ Len(r.rowgroups) \in Nat
  /\ \A g \in DOMAIN r.rowgroups :
       r.rowgroups[g].rows \in Nat /\ base[g] + r.rowgroups[g].rows <= rows
  /\ \A i \in 1..rows : \E g \in DOMAIN r.rowgroups :
       \A h \in DOMAIN r.rowgroups : base[h] < i /\ i <= base[h] + r.rowgroups[h].rows <=> h = g
ComparesRight(r, g, c, vals, from, p) ==
  LET sel == RowsWhere(r, g, c, p.op, p.lit)
      rows == 0..(r.rowgroups[g].rows - 1)
  IN  Panics(r.rowgroups[g].chunks[c], p.op, p.lit) \/
      /\ sel \in Seq(rows) /\ Ascends(sel)
      /\ ToSet(sel) = {k \in rows : Satisfies(vals[from + k + 1], p.op, p.lit.v)}
GathersRight(r, g, c, vals, from) ==
  \A S \in SUBSET (0..(r.rowgroups[g].rows - 1)) : \A sel \in [1..Cardinality(S) -> S] :
    Ascends(sel) => Cells(r, g, c, sel) = [k \in 1..Cardinality(S) |-> vals[from + sel[k] + 1]]
ReadsBack(r, cols, base) ==
  /\ GroupsCover(r, Len(cols[1].vals), base)
  /\ \A g \in DOMAIN r.rowgroups : \A c \in DOMAIN cols :
       /\ GathersRight(r, g, c, cols[c].vals, base[g])
       /\ \A q \in Queries : StatementOf(q).ok =>
            \A p \in ToSet(StatementOf(q).v.preds) : ComparesRight(r, g, c, cols[c].vals, base[g], p)

\* Files that have a column are read as they were written.
ASSUME ReadersAssumption ==
  \A n \in DOMAIN Tables : \A f \in DOMAIN Tables[n].files :
    LET r == Readers[n][f]
        cols == Tables[n].files[f]
    IN  cols # <<>> => \E base \in [DOMAIN r.rowgroups -> 0..Len(cols[1].vals)] : ReadsBack(r, cols, base)

-----------------------------------------------------------------------------
(* A morsel: one row group of one file.                                     *)

\* Both ascend.
IntersectSorted(a, b) == Only(a, ToSet(b))

\* The selection after a predicate.
Kept(sel) == [sel |-> sel, first |-> FALSE, stop |-> sel = <<>>, panic |-> FALSE]

\* One predicate more, if any row is left.
Narrow(r, rg, st, p) ==
  IF st.stop THEN st
  ELSE IF Panics(r.rowgroups[rg].chunks[p.col_idx], p.op, p.lit)
  THEN [st EXCEPT !.stop = TRUE, !.panic = TRUE]
  ELSE Kept(IF st.first THEN RowsWhere(r, rg, p.col_idx, p.op, p.lit)
            ELSE IntersectSorted(st.sel, RowsWhere(r, rg, p.col_idx, p.op, p.lit)))

\* The predicates in turn, from all rows on.
Unselected(rows) ==
  [sel |-> [k \in 1..rows |-> k - 1], first |-> TRUE, stop |-> FALSE, panic |-> FALSE]
Select(r, rg, preds) ==
  LET st[k \in 0..Len(preds)] ==
        IF k = 0 THEN Unselected(r.rowgroups[rg].rows) ELSE Narrow(r, rg, st[k - 1], preds[k])
  IN  st[Len(preds)]

\* scan_rowgroup and cell_at: the selected rows, each with the columns the plan needs.
Rows(cols, n) == [i \in 1..n |-> [c \in DOMAIN cols |-> cols[c][i]]]
CellsAt(r, rg, cols, sel) ==
  [panic |-> sel.panic,
   rows |-> Rows([c \in DOMAIN cols |-> Cells(r, rg, cols[c], sel.sel)], Len(sel.sel))]
ScanWith(r, scan, rg) == CellsAt(r, rg, scan.cols, Select(r, rg, scan.preds))
ScanRowgroup(scan, f, rg) == ScanWith(ReaderOf(scan.files[f]), scan, rg)

MorselsOf(scan) ==
  FlattenSeq([f \in DOMAIN scan.files |->
                [g \in DOMAIN ReaderOf(scan.files[f]).rowgroups |-> [file |-> f, rg |-> g]]])

\* scan_all: the rows of all morsels.
Together(found) ==
  [panic |-> \E m \in DOMAIN found : found[m].panic,
   rows |-> FlattenSeq([m \in DOMAIN found |-> found[m].rows])]
ScanEach(scan, morsels) ==
  Together([m \in DOMAIN morsels |-> ScanRowgroup(scan, morsels[m].file, morsels[m].rg)])
ScanAll(scan) == ScanEach(scan, MorselsOf(scan))

-----------------------------------------------------------------------------
(* Partial results.                                                         *)

Aggs(p) == SelectSeq(p.output, LAMBDA o : o.agg # "")
HasAggs(p) == Aggs(p) # <<>>

\* Sums wrap around, as in a release build.
AccNew == [sum |-> 0, count |-> 0, min |-> I64Max, max |-> I64Min]
AccAdd(a, v) ==
  [sum |-> Wrap(a.sum + v), count |-> a.count + 1,
   min |-> IF v < a.min THEN v ELSE a.min, max |-> IF v > a.max THEN v ELSE a.max]
AccMerge(a, o) ==
  [sum |-> Wrap(a.sum + o.sum), count |-> a.count + o.count,
   min |-> IF o.min < a.min THEN o.min ELSE a.min, max |-> IF o.max > a.max THEN o.max ELSE a.max]
AccResult(a, f) ==
  CASE f = "SUM" -> <<a.sum, 1>> [] f = "COUNT" -> <<a.count, 1>> [] f = "MIN" -> <<a.min, 1>>
    [] f = "MAX" -> <<a.max, 1>> [] f = "AVG" -> IF a.count = 0 THEN <<0, 1>> ELSE <<a.sum, a.count>>

PartialNew == [groups |-> <<>>, rows |-> <<>>, joined |-> 0, scanned |-> 0]

\* consume_row; row: for each scan its cells.
ConsumeRow(p, part, row) ==
  LET key == [g \in DOMAIN p.group_by |-> row[p.group_by[g].scan][p.group_by[g].pos]]
      aggs == Aggs(p)
      old == IF key \in DOMAIN part.groups THEN part.groups[key] ELSE [a \in DOMAIN aggs |-> AccNew]
      new == [a \in DOMAIN aggs |->
                IF aggs[a].pos = 0 THEN [old[a] EXCEPT !.count = @ + 1]
                ELSE AccAdd(old[a], row[aggs[a].scan][aggs[a].pos])]
  IN  IF HasAggs(p) THEN [part EXCEPT !.groups = (key :> new) @@ @]
      ELSE [part EXCEPT !.rows =
              Append(@, [o \in DOMAIN p.output |-> <<row[p.output[o].scan][p.output[o].pos], 1>>])]

EmptyRow(p) == [s \in DOMAIN p.scans |-> <<>>]

\* A hash join of some probe rows with build rows of the same key.
JoinRows(p, part, build, probe) ==
  LET j == p.join[1]
      meet(st, pr) ==
        LET matches == SelectSeq(build, LAMBDA b : b[j.build_key] = pr[j.probe_key])
            with(s, b) == [ConsumeRow(p, s, [EmptyRow(p) EXCEPT ![j.probe] = pr, ![j.build] = b])
                             EXCEPT !.joined = @ + 1]
        IN  FoldLeft(with, st, matches)
  IN  FoldLeft(meet, part, probe)

-----------------------------------------------------------------------------
(* The ramps.                                                               *)

NoThreads == [t \in Threads |-> [pc |-> "claim", part |-> PartialNew, out |-> <<>>]]

JoinOf(p) == p.join[1]
RampOf(p) ==
  IF p.join = NoJoin THEN "scan" ELSE IF JoinOf(p).strategy = "Broadcast" THEN "probe" ELSE "map"

\* The tasks of a ramp: morsels of one scan or of both sides of a join, or partitions.
SidesOf(ramp) ==
  CASE ramp = "scan" -> <<[side |-> "probe", scan |-> 1]>>
    [] ramp = "probe" -> <<[side |-> "probe", scan |-> JoinOf(plan).probe]>>
    [] ramp = "map" -> <<[side |-> "build", scan |-> JoinOf(plan).build],
                         [side |-> "probe", scan |-> JoinOf(plan).probe]>>
    [] ramp = "join" -> <<>>
TasksOn(s, morsels) ==
  [m \in DOMAIN morsels |->
     [side |-> s.side, scan |-> s.scan, file |-> morsels[m].file, rg |-> morsels[m].rg]]
Tasks(ramp) ==
  IF ramp = "join" THEN [p \in 1..Partitions |-> p]
  ELSE FlattenSeq([k \in DOMAIN SidesOf(ramp) |->
                     TasksOn(SidesOf(ramp)[k], MorselsOf(plan.scans[SidesOf(ramp)[k].scan]))])

\* Rows of a morsel bucketed by join key, one entry for each buffer to be extended.
\* k.rem_euclid(n) is not negative.
Buckets(side, key, rows) ==
  LET of(p) == Only(rows, {r \in ToSet(rows) : r[key] % Partitions = p - 1})
      all == [p \in 1..Partitions |-> [part |-> p, side |-> side, rows |-> of(p)]]
  IN  Only(all, {b \in ToSet(all) : b.rows # <<>>})

Init ==
  /\ query \in Queries
  /\ stage = "text"
  /\ plan = NoPlan
  /\ built = <<>>
  /\ exchange = [p \in 1..Partitions |-> [build |-> <<>>, probe |-> <<>>]]
  /\ next = 1
  /\ thread = NoThreads
  /\ partials = <<>>
  /\ answer = <<>>

PlanOf(ast) == IF ast.ok THEN Plan(ast.v, Catalog) ELSE NoPlan
\* The build side is read before the probe ramp.
Broadcast(p, build) ==
  /\ plan' = p
  /\ built' = build.rows
  /\ stage' = IF build.panic THEN "panicked" ELSE "probe"
Begin(p) ==
  IF p.ok /\ RampOf(p) = "probe" THEN Broadcast(p, ScanAll(p.scans[JoinOf(p).build]))
  ELSE plan' = p /\ stage' = (IF p.ok THEN RampOf(p) ELSE "rejected") /\ built' = built
\* parse() and plan(), and what execute() does before the first ramp.
PlanQuery ==
  /\ stage = "text"
  /\ Begin(PlanOf(StatementOf(query)))
  /\ UNCHANGED <<query, exchange, next, thread, partials, answer>>

\* A thread runs the morsel it claimed, in which the scan found these rows.  A panic reaches
\* the caller when the scope ends; by then nothing but the panic is left of the query.
RunMorsel(t, side, found) ==
  LET part == [thread[t].part EXCEPT !.scanned = @ + Len(found.rows)]
      row(s, r) == ConsumeRow(plan, s, [EmptyRow(plan) EXCEPT ![1] = r])
      key == IF side = "build" THEN JoinOf(plan).build_key ELSE JoinOf(plan).probe_key
  IN  /\ stage' = IF found.panic THEN "panicked" ELSE stage
      /\ CASE stage = "scan" ->
                thread' = [thread EXCEPT ![t].part = FoldLeft(row, part, found.rows)]
           [] stage = "probe" ->
                thread' = [thread EXCEPT ![t].part = JoinRows(plan, part, built, found.rows)]
           [] stage = "map" ->
                LET out == Buckets(side, key, found.rows)
                IN  thread' = [thread EXCEPT ![t] = [pc |-> IF out = <<>> THEN "claim" ELSE "flush",
                                                     part |-> part, out |-> out]]
ScanMorsel(t, task) ==
  RunMorsel(t, task.side, ScanRowgroup(plan.scans[task.scan], task.file, task.rg))

\* fetch_add, and the task.
Claim(t) ==
  /\ stage \in Ramps
  /\ thread[t].pc = "claim"
  /\ next <= Len(Tasks(stage))
  /\ next' = next + 1
  /\ IF stage = "join"
     THEN /\ thread' = [thread EXCEPT ![t].part =
                          JoinRows(plan, @, exchange[next].build, exchange[next].probe)]
          /\ stage' = stage
     ELSE ScanMorsel(t, Tasks(stage)[next])
  /\ UNCHANGED <<query, plan, built, exchange, partials, answer>>

\* One exchange buffer is locked and extended.
Flush(t) ==
  /\ stage = "map"
  /\ thread[t].pc = "flush"
  /\ LET b == thread[t].out[1]
     IN  exchange' = IF b.side = "build"
                     THEN [exchange EXCEPT ![b.part].build = @ \o b.rows]
                     ELSE [exchange EXCEPT ![b.part].probe = @ \o b.rows]
  /\ thread' = [thread EXCEPT ![t].out = Tail(@),
                              ![t].pc = IF Len(thread[t].out) = 1 THEN "claim" ELSE "flush"]
  /\ UNCHANGED <<query, stage, plan, built, next, partials, answer>>

\* No task is left: the thread hands in its partial result.
HandIn(t) ==
  /\ stage \in Ramps
  /\ thread[t].pc = "claim"
  /\ next > Len(Tasks(stage))
  /\ partials' = Append(partials, thread[t].part)
  /\ thread' = [thread EXCEPT ![t].pc = "ended"]
  /\ UNCHANGED <<query, stage, plan, built, exchange, next, answer>>

\* The scope ends when all threads have; the shuffle goes on with its second ramp.
\* Variant: the second ramp begins while a thread of the first still has rows to flush.
EndRampEarly ==
  /\ stage \in Ramps
  /\ next > Len(Tasks(stage))
  /\ stage = "map" \/ \A t \in Threads : thread[t].pc = "ended"
  /\ stage' = IF stage = "map" THEN "join" ELSE "merge"
  /\ next' = 1
  /\ thread' = NoThreads
  /\ UNCHANGED <<query, plan, built, exchange, partials, answer>>
EndRamp ==
  /\ stage \in Ramps
  /\ \A t \in Threads : thread[t].pc = "ended"
  /\ stage' = IF stage = "map" THEN "join" ELSE "merge"
  /\ next' = 1
  /\ thread' = NoThreads
  /\ UNCHANGED <<query, plan, built, exchange, partials, answer>>

-----------------------------------------------------------------------------
(* FinalAggregate and TopN.                                                 *)

\* Variant: of two partial groups with the same key the first one stays.
MergeGroupsFirst(groups, more) ==
  [k \in DOMAIN groups \cup DOMAIN more |-> IF k \in DOMAIN groups THEN groups[k] ELSE more[k]]
MergeGroups(groups, more) ==
  [k \in DOMAIN groups \cup DOMAIN more |->
     IF k \notin DOMAIN more THEN groups[k]
     ELSE IF k \notin DOMAIN groups THEN more[k]
     ELSE [a \in DOMAIN groups[k] |-> AccMerge(groups[k][a], more[k][a])]]
AllGroups == FoldLeft(LAMBDA g, p : MergeGroups(g, p.groups), <<>>, partials)
AllRows == FlattenSeq([p \in DOMAIN partials |-> partials[p].rows])

\* The position of an output in the group key; 0 if it is not grouped by, and the code panics.
KeyPos(o) == SelectLastInSeq(plan.group_by, LAMBDA g : g.scan = o.scan /\ g.pos = o.pos)
Ungrouped == \E o \in DOMAIN plan.output : plan.output[o].agg = "" /\ KeyPos(plan.output[o]) = 0

GroupRow(key, accs) ==
  LET nth(o) == Len(SelectSeq(SubSeq(plan.output, 1, o), LAMBDA x : x.agg # ""))
  IN  [o \in DOMAIN plan.output |->
         IF plan.output[o].agg = "" THEN <<key[KeyPos(plan.output[o])], 1>>
         ELSE AccResult(accs[nth(o)], plan.output[o].agg)]

Before(a, b, order) == IF order.desc THEN ~AtMost(a[order.pos + 1], b[order.pos + 1])
                       ELSE ~AtMost(b[order.pos + 1], a[order.pos + 1])

\* A stable sort: a row goes behind all that it is not before.
SortRows(rows, order) ==
  FoldLeft(LAMBDA sorted, r :
             LET ahead == {i \in DOMAIN sorted : ~Before(r, sorted[i], order)}
             IN  InsertAt(sorted, Cardinality(ahead) + 1, r),
           <<>>, rows)

TopN(rows) ==
  LET sorted == IF plan.order_by = <<>> THEN rows ELSE SortRows(rows, plan.order_by[1])
  IN  IF plan.limit = <<>> \/ Len(sorted) <= plan.limit[1] THEN sorted
      ELSE SubSeq(sorted, 1, plan.limit[1])

\* sort_by compares only if there are two rows.
OrderPanics(rows) ==
  /\ plan.order_by # <<>>
  /\ plan.order_by[1].pos >= Len(plan.output)
  /\ Len(rows) > 1

\* The merged groups come out of a hash map in any order.
Merge ==
  /\ stage = "merge"
  /\ LET groups == AllGroups IN
     IF HasAggs(plan) /\ DOMAIN groups # {} /\ Ungrouped
     THEN stage' = "panicked" /\ answer' = answer
     ELSE \E keys \in SetToSeqs(IF HasAggs(plan) THEN DOMAIN groups ELSE {}) :
            LET rows == AllRows \o [k \in DOMAIN keys |-> GroupRow(keys[k], groups[keys[k]])]
            IN  IF OrderPanics(rows) THEN stage' = "panicked" /\ answer' = answer
                ELSE stage' = "answered" /\ answer' = TopN(rows)
  /\ UNCHANGED <<query, plan, built, exchange, next, thread, partials>>

\* The answer, the refusal or the panic is all there is.
Rest == stage \in Ended /\ UNCHANGED vars

Next ==
  \/ PlanQuery \/ EndRamp \/ Merge \/ Rest
  \/ \E t \in Threads : Claim(t) \/ Flush(t) \/ HandIn(t)

\* Every step but Rest goes on towards an end: without a deadlock every query comes to one.
Spec == Init /\ [][Next]_vars

-----------------------------------------------------------------------------
(* What a query asks for, over the rows as they were written.               *)

Sources(q) ==
  <<[table |-> q.table, alias |-> q.alias]>>
    \o [k \in DOMAIN q.joins |-> [table |-> q.joins[k].table, alias |-> q.joins[k].alias]]

FieldsOf(q, s) == Tables[Sources(q)[s].table].fields

\* The source and field a name may mean.
Meanings(q, name) ==
  {m \in UNION {{s} \X DOMAIN FieldsOf(q, s) : s \in DOMAIN Sources(q)} :
     /\ FieldsOf(q, m[1])[m[2]].name = name.col
     /\ name.qual \in {"", Sources(q)[m[1]].alias, Sources(q)[m[1]].table}}
Meaning(q, name) == CHOOSE m \in Meanings(q, name) : TRUE
TypeOf(q, name) == FieldsOf(q, Meaning(q, name)[1])[Meaning(q, name)[2]].dtype

LeftKey(j) == [qual |-> j.lqual, col |-> j.lcol]
RightKey(j) == [qual |-> j.rqual, col |-> j.rcol]
Named(q) ==
  {p : p \in ToSet(q.preds)} \cup ToSet(q.group_by) \cup {i \in ToSet(q.select) : i.col # "*"}
    \cup UNION {{LeftKey(j), RightKey(j)} : j \in ToSet(q.joins)}

\* Tables exist, names have one meaning, one join at most, numbers where numbers are needed.
Plannable(q) ==
  /\ \A s \in DOMAIN Sources(q) : Sources(q)[s].table \in DOMAIN Tables
  /\ Len(q.joins) <= 1
  /\ \A name \in Named(q) : Cardinality(Meanings(q, name)) = 1
  /\ \A j \in ToSet(q.joins) : TypeOf(q, LeftKey(j)) = "Int64" /\ TypeOf(q, RightKey(j)) = "Int64"
  /\ \A i \in ToSet(q.select) : i.agg # "" /\ i.col # "*" => TypeOf(q, i) = "Int64"

\* ON compares two sources.  A join whose ON names one source twice is planned and joins
\* that source with itself: the other one is not read.
Sided(q) == \A j \in ToSet(q.joins) : Meaning(q, LeftKey(j))[1] # Meaning(q, RightKey(j))[1]

\* Plannable queries that the engine gives up on with a panic.
Mistyped(q) ==
  \E p \in ToSet(q.preds) : TypeOf(q, p) # p.lit.dtype \/ (TypeOf(q, p) = "Utf8" /\ p.op # "Eq")
SelectsUngrouped(q) ==
  /\ \E i \in ToSet(q.select) : i.agg # ""
  /\ \E i \in ToSet(q.select) :
       i.agg = "" /\ \A g \in ToSet(q.group_by) : Meaning(q, g) # Meaning(q, i)
OrdersPastList(q) == \E o \in ToSet(q.order_by) : o.pos >= Len(q.select)

\* A table's rows; a row is its cells.
RowsOf(table) ==
  FlattenSeq([f \in DOMAIN Tables[table].files |->
    LET cols == Tables[table].files[f]
    IN  [i \in DOMAIN cols[1].vals |-> [c \in DOMAIN cols |-> cols[c].vals[i]]]])

\* The combinations of rows, one of each source, that a query is about.
CellOf(q, combo, name) ==
  LET m == Meaning(q, name) IN RowsOf(Sources(q)[m[1]].table)[combo[m[1]]][m[2]]
Combos(q) ==
  LET positions == [s \in DOMAIN Sources(q) |-> DOMAIN RowsOf(Sources(q)[s].table)]
      all == {c \in [DOMAIN Sources(q) -> UNION {positions[s] : s \in DOMAIN positions}] :
                \A s \in DOMAIN c : c[s] \in positions[s]}
  IN  {c \in all :
         /\ \A p \in ToSet(q.preds) : Satisfies(CellOf(q, c, p), p.op, p.lit.v)
         /\ \A j \in ToSet(q.joins) : CellOf(q, c, LeftKey(j)) = CellOf(q, c, RightKey(j))}

Aggregate(q, item, combos) ==
  LET vals == {CellOf(q, c, item) : c \in combos}
      sum == Wrap(MapThenSumSet(LAMBDA c : CellOf(q, c, item), combos))
  IN  CASE item.agg = "COUNT" -> <<Cardinality(combos), 1>>
        [] item.agg = "SUM" -> <<sum, 1>>
        [] item.agg = "AVG" -> <<sum, Cardinality(combos)>>
        [] item.agg = "MIN" -> <<CHOOSE v \in vals : \A x \in vals : v <= x, 1>>
        [] item.agg = "MAX" -> <<CHOOSE v \in vals : \A x \in vals : v >= x, 1>>

\* The rows asked for before ORDER BY and LIMIT, by what they stand for: a combination, or
\* with aggregates a group.  (GROUP BY without an aggregate groups nothing.)
Wanted(q) ==
  LET combos == Combos(q)
      key(c) == [g \in DOMAIN q.group_by |-> CellOf(q, c, q.group_by[g])]
      row(cs) == [i \in DOMAIN q.select |->
                    IF q.select[i].agg # "" THEN Aggregate(q, q.select[i], cs)
                    ELSE <<CellOf(q, CHOOSE c \in cs : TRUE, q.select[i]), 1>>]
  IN  IF \A i \in DOMAIN q.select : q.select[i].agg = "" THEN [c \in combos |-> row({c})]
      ELSE [k \in {key(c) : c \in combos} |-> row({c \in combos : key(c) = k})]

Occurrences(f, row) == Cardinality({x \in DOMAIN f : f[x] = row})

\* rows answers q: as many as asked for, each wanted, in order, and none left out that
\* comes before one of them.
AnswersBy(rows, q, wanted) ==
  LET total == Cardinality(DOMAIN wanted)
      order == q.order_by[1]
  IN  /\ Len(rows) = IF q.limit # <<>> /\ q.limit[1] < total THEN q.limit[1] ELSE total
      /\ \A r \in ToSet(rows) : Occurrences(rows, r) <= Occurrences(wanted, r)
      /\ q.order_by # <<>> =>
           /\ \A i, k \in DOMAIN rows : i < k => ~Before(rows[k], rows[i], order)
           /\ \A x \in DOMAIN wanted : Occurrences(rows, wanted[x]) < Occurrences(wanted, wanted[x]) =>
                \A i \in DOMAIN rows : ~Before(wanted[x], rows[i], order)

Answers(rows, q) == AnswersBy(rows, q, Wanted(q))

-----------------------------------------------------------------------------
(* Properties.                                                              *)

\* Whatever was pruned, whichever join strategy was chosen, whichever thread took which
\* morsel and in whichever order partial results came in: the answer is what was asked for
\* (of a join, if its ON is about both sides).
RowsExact ==
  stage = "answered" => Plannable(query) /\ (Sided(query) => Answers(answer, query))

\* plan() refuses only what cannot be planned, and the engine panics only on the three kinds
\* of query that plan() should have refused.
FailsOnlyInvalid ==
  /\ stage = "rejected" => ~Plannable(query)
  /\ stage = "panicked" => Mistyped(query) \/ SelectsUngrouped(query) \/ OrdersPastList(query)

\* The plan reads every file that holds a row the scan's predicates select: pruning by
\* manifest bounds loses nothing.
PrunedFilesHoldNothing ==
  plan.ok /\ ~Mistyped(query) =>
    \A s \in DOMAIN plan.scans :
      LET table == Tables[plan.scans[s].table] IN
      \A f \in DOMAIN table.files :
        Catalog[plan.scans[s].table].files[f] \notin ToSet(plan.scans[s].files) =>
          \A i \in DOMAIN table.files[f][1].vals : \E p \in ToSet(plan.scans[s].preds) :
             ~Satisfies(table.files[f][p.col_idx].vals[i], p.op, p.lit.v)

\* The rows of a scan that pass its predicates.
Selected(s) ==
  LET scan == plan.scans[s]
      rows == RowsOf(scan.table)
      hits == Only(rows, {r \in ToSet(rows) :
                            \A p \in ToSet(scan.preds) : Satisfies(r[p.col_idx], p.op, p.lit.v)})
  IN  [i \in DOMAIN hits |-> [c \in DOMAIN scan.cols |-> hits[i][scan.cols[c]]]]

SideIn(side) ==
  FlattenSeq([p \in 1..Partitions |-> IF side = "build" THEN exchange[p].build ELSE exchange[p].probe])

\* When the second ramp of a shuffle begins, the exchange buffers hold every selected row of
\* both sides once: no thread still has rows to put there, and none was lost or put twice.
ExchangeComplete ==
  stage = "join" =>
    LET sides == {<<"build", JoinOf(plan).build>>, <<"probe", JoinOf(plan).probe>>} IN
    \A s \in sides :
      /\ Len(SideIn(s[1])) = Len(Selected(s[2]))
      /\ \A r \in ToSet(Selected(s[2])) : Occurrences(SideIn(s[1]), r) = Occurrences(Selected(s[2]), r)

\* The rows of a source that pass the query's predicates on it.
Passing(q, s) ==
  LET rows == RowsOf(Sources(q)[s].table)
  IN  {i \in DOMAIN rows : \A p \in ToSet(q.preds) :
         Meaning(q, p)[1] = s => Satisfies(rows[i][Meaning(q, p)[2]], p.op, p.lit.v)}

\* The counters of the result: rows that passed the scans of the ramps, and pairs joined.
CountsExact ==
  stage = "answered" /\ Sided(query) =>
    LET sum(Of(_)) == FoldLeft(LAMBDA n, p : n + Of(p), 0, partials) IN
    /\ sum(LAMBDA p : p.joined) = IF plan.join = NoJoin THEN 0 ELSE Cardinality(Combos(query))
    /\ sum(LAMBDA p : p.scanned) =
         IF plan.join = NoJoin THEN Cardinality(Passing(query, 1))
         ELSE IF JoinOf(plan).strategy = "Broadcast"
         THEN Cardinality(Passing(query, JoinOf(plan).probe))
         ELSE Cardinality(Passing(query, 1)) + Cardinality(Passing(query, 2))

\* A query's result is exact: its rows and its counters.
AnswerExact == RowsExact /\ CountsExact

=============================================================================
