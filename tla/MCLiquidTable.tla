--------------------------- MODULE MCLiquidTable ---------------------------
(* LiquidTable over tables of three columns: a key, one to group by, values. *)
EXTENDS LiquidTable, BlockSql

Row(a, b, c) == <<a, b, c>>

\* Keys that tie, groups inside the flat table and outside it, sums that wrap; in the
\* second table the span of the first column overflows.
MCTables ==
  {<<Row(3, 0, 2), Row(-2, 5, 7), Row(3, 1, 7), Row(0, 0, -3), Row(-2, 1, 1)>>,
   <<Row(7, 1, -8), Row(-8, 2, 7), Row(0, 1, 7), Row(6, -1, 0)>>}

Plain == [agg |-> "SUM", agg_col |-> 3, filter |-> <<>>, group_by |-> <<>>,
          order_by |-> <<>>, limit |-> <<>>]
By(q, c) == [q EXCEPT !.group_by = <<c>>]
Where(q, c, op, lit) == [q EXCEPT !.filter = <<[col |-> c, op |-> op, lit |-> lit]>>]
Top(q, asc, n) == [q EXCEPT !.order_by = <<[col |-> 2, asc |-> asc]>>, !.limit = <<n>>]

Queries ==
  {Plain, By(Plain, 2), Where(Plain, 1, "Gt", 0), Where(Plain, 1, "Le", -2),
   By(Where(Plain, 3, "Ge", 2), 2), By(Where([Plain EXCEPT !.agg = "MAX"], 1, "Lt", 3), 2),
   Where(Plain, 2, "Eq", 1), Top(By(Plain, 2), FALSE, 2), Top(By(Plain, 2), TRUE, 1),
   [By(Where(Plain, 2, "Ge", 0), 1) EXCEPT !.limit = <<1>>]}

\* A text of nested statements: parse drops the parentheses, refuses the CTE, and takes
\* SELECT for the name of a table.
Nested(with) ==
  LET inner == <<Punct("(")>> \o Text(Where(Plain, 1, "Gt", 0)) \o <<Punct(")")>>
      outer == <<Word("SELECT"), Word("SUM"), <<"col", 3>>, Word("FROM")>>
  IN  IF with THEN <<Word("WITH"), Word("X"), Word("AS")>> \o inner \o outer \o <<Word("X")>>
      ELSE outer \o inner

MCStatements ==
  {[text |-> Text(q), meant |-> <<q>>] : q \in Queries}
    \cup {[text |-> Nested(with), meant |-> <<>>] : with \in BOOLEAN}

=============================================================================
