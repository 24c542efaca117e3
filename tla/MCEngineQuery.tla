--------------------------- MODULE MCEngineQuery ---------------------------
(***************************************************************************)
(* EngineQuery for TLC: two small tables, a fact table of three files and  *)
(* a dimension with strings, and queries that differ in what they prune,   *)
(* join, aggregate and order, with some that cannot be answered.           *)
(***************************************************************************)
EXTENDS EngineQuery, TableFiles, SqlFront

Nums(v) == [dtype |-> "Int64", vals |-> v]
Strs(v) == [dtype |-> "Utf8", vals |-> v]
F(id, name, dtype) == [id |-> id, name |-> name, dtype |-> dtype]

\* sales: values at both ends of the range, a file of two row groups, the first of two
\* pages that are pruned one by one, an empty file.  regions: duplicate keys and strings that repeat.
MCTables ==
  ("sales" :> [fields |-> <<F(1, "gid", "Int64"), F(2, "amount", "Int64")>>,
               files |-> << <<Nums(<<2, 2, 1, 1>>), Nums(<<3, 3, I64Min, I64Max>>)>>,
                            <<Nums(<<-1>>), Nums(<<5>>)>>,
                            <<Nums(<<>>), Nums(<<>>)>> >>])
  @@
  ("regions" :> [fields |-> <<F(1, "id", "Int64"), F(2, "region", "Utf8")>>,
                 files |-> << <<Nums(<<1, 2>>), Strs(<<7, 8>>)>>, <<Nums(<<1, -1>>), Strs(<<8, 7>>)>> >>])

N(q, c) == [qual |-> q, col |-> c]
Col(q, c) == [agg |-> "", qual |-> q, col |-> c]
Agg(f, q, c) == [agg |-> f, qual |-> q, col |-> c]
P(q, c, op, v) == [qual |-> q, col |-> c, op |-> op, lit |-> [dtype |-> "Int64", v |-> v]]
PS(q, c, op, v) == [qual |-> q, col |-> c, op |-> op, lit |-> [dtype |-> "Utf8", v |-> v]]
By1(pos, desc) == <<[pos |-> pos, desc |-> desc]>>

Ask(select, preds, group, order, limit) ==
  [select |-> select, table |-> "sales", alias |-> "sales", joins |-> <<>>, preds |-> preds,
   group_by |-> group, order_by |-> order, limit |-> limit]
On(l, r) == [table |-> "regions", alias |-> "r", lqual |-> l[1], lcol |-> l[2], rqual |-> r[1],
             rcol |-> r[2]]
AskJoin(select, joins, preds, group, order, limit) ==
  [select |-> select, table |-> "sales", alias |-> "s", joins |-> joins, preds |-> preds,
   group_by |-> group, order_by |-> order, limit |-> limit]

Joined == <<On(<<"s", "gid">>, <<"r", "id">>)>>

Scans ==
  {Ask(<<Col("", "amount"), Col("sales", "gid")>>, preds, <<>>, order, limit) :
     preds \in {<<>>, <<P("", "gid", "Eq", 1), P("", "amount", "Lt", 3)>>,
                <<P("", "amount", "Gt", I64Min), P("", "amount", "Le", 5)>>},
     order \in {NoOrder, By1(0, TRUE)}, limit \in {NoLimit, <<1>>}}
  \cup {Ask(<<Col("", "amount")>>, <<P("", "amount", op, v)>>, <<>>, NoOrder, NoLimit) :
          op \in CmpOps, v \in {I64Min, 3, I64Max}}
  \cup {Ask(<<Col("", "gid")>>, <<>>, <<N("", "gid")>>, By1(0, FALSE), <<0>>)}
Aggregates ==
  {Ask(<<Col("", "gid"), Agg("SUM", "", "amount"), Agg("MAX", "", "amount"), Agg("AVG", "", "amount"),
         Agg("COUNT", "", "*")>>, preds, <<N("", "gid")>>, By1(3, desc), <<2>>) :
     preds \in {<<>>, <<P("", "amount", "Gt", 0)>>}, desc \in BOOLEAN}
  \cup {Ask(<<Agg("SUM", "", "amount"), Agg("MIN", "", "amount"), Agg("COUNT", "", "gid")>>,
            <<P("", "amount", op, 0)>>, <<>>, NoOrder, NoLimit) : op \in {"Lt", "Gt", "Eq"}}
  \cup {Ask(<<Agg("COUNT", "", "*"), Col("", "amount"), Col("", "gid")>>, <<>>,
            <<N("", "gid"), N("", "amount")>>, NoOrder, NoLimit)}
JoinQueries ==
  {AskJoin(<<Col("r", "region"), Col("s", "amount")>>, Joined, preds, <<>>, By1(1, FALSE), NoLimit) :
     preds \in {<<>>, <<PS("r", "region", "Eq", 8)>>, <<PS("", "region", "Eq", 9)>>,
                <<P("s", "amount", "Ge", 4)>>, <<P("r", "id", "Le", -1), P("s", "gid", "Lt", 2)>>}}
  \cup {AskJoin(<<Col("", "region"), Agg("SUM", "", "amount")>>, Joined, <<>>, <<N("", "region")>>,
                NoOrder, NoLimit),
        AskJoin(<<Agg("COUNT", "", "*")>>, <<On(<<"r", "id">>, <<"s", "gid">>)>>,
                <<PS("", "region", "Eq", 7)>>, <<>>, NoOrder, NoLimit),
        AskJoin(<<Col("s", "amount")>>, <<On(<<"s", "gid">>, <<"sales", "gid">>)>>, <<>>, <<>>,
                NoOrder, NoLimit)}
Refused ==
  {AskJoin(<<Col("", "region")>>, Joined \o Joined, <<>>, <<>>, NoOrder, NoLimit),
   AskJoin(<<Col("", "region")>>, <<On(<<"s", "gid">>, <<"r", "region">>)>>, <<>>, <<>>, NoOrder, NoLimit),
   AskJoin(<<Col("x", "region")>>, Joined, <<>>, <<>>, NoOrder, NoLimit),
   Ask(<<Col("", "price")>>, <<>>, <<>>, NoOrder, NoLimit),
   AskJoin(<<Agg("SUM", "", "region")>>, Joined, <<>>, <<>>, NoOrder, NoLimit),
   [Ask(<<Col("", "price")>>, <<>>, <<>>, NoOrder, NoLimit) EXCEPT !.table = "lost", !.alias = "lost"]}
Panicking ==
  {Ask(<<Col("", "gid")>>, <<PS("", "amount", "Eq", 8)>>, <<>>, NoOrder, NoLimit),
   AskJoin(<<Col("s", "gid")>>, Joined, <<PS("", "region", "Gt", 7)>>, <<>>, NoOrder, NoLimit),
   Ask(<<Col("", "amount"), Agg("COUNT", "", "*")>>, <<>>, <<N("", "gid")>>, NoOrder, NoLimit),
   Ask(<<Col("", "gid")>>, <<>>, <<>>, By1(1, FALSE), NoLimit)}

MCStatement(q) == Parse(Text(q))

\* Threads are alike.
Alike == Permutations(Threads)

MCQueries == Scans \cup Aggregates \cup JoinQueries \cup Refused \cup Panicking

=============================================================================
