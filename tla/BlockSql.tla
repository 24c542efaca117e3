------------------------------ MODULE BlockSql ------------------------------
(***************************************************************************)
(* The SQL of blitz-exec: parse() of blitz-sql, and the resolution of CTEs *)
(* and subqueries into a scan of a table.  A text is a sequence of tokens  *)
(* <<kind, value>>; keywords and names have the kind "word" and are in     *)
(* upper case, parentheses and commas are "punct", numbers "num",          *)
(* comparisons "op" and columns cN "col".  A table source is <<kind, name,*)
(* subquery>>, the subquery an option.                                     *)
(***************************************************************************)
EXTENDS Integers, Sequences, SequencesExt

CONSTANT MaxDepth     \* 32: levels of nesting that are resolved

ASSUME BlockSqlAssumption == MaxDepth \in Nat \ {0}

Word(w) == <<"word", w>>
Punct(c) == <<"punct", c>>

Refused == [ok |-> FALSE]
LOCAL NoTok == <<"end", "">>
LOCAL At(t, i) == IF i \in DOMAIN t THEN t[i] ELSE NoTok
LOCAL IsWord(t, i, w) == At(t, i) = Word(w)

\* The position of the parenthesis that closes one opened before i, or past the text.
RECURSIVE Closing(_, _, _)
Closing(t, i, depth) ==
  IF i > Len(t) THEN i
  ELSE IF t[i] = Punct(")") THEN IF depth = 1 THEN i ELSE Closing(t, i + 1, depth - 1)
  ELSE Closing(t, i + 1, IF t[i] = Punct("(") THEN depth + 1 ELSE depth)

\* Clauses in any order, the last of a kind counts; other tokens end the statement unread.
\* Variant: DESC is not consumed, and ends the statement.
RECURSIVE ClausesKeepDesc(_, _, _)
ClausesKeepDesc(t, i, q) ==
  LET by == IsWord(t, i + 1, "BY") /\ At(t, i + 2)[1] = "col" IN
  CASE IsWord(t, i, "WHERE") ->
         IF At(t, i + 1)[1] = "col" /\ At(t, i + 2)[1] = "op" /\ At(t, i + 3)[1] = "num"
         THEN ClausesKeepDesc(t, i + 4, [q EXCEPT !.filter =
                <<[col |-> t[i + 1][2], op |-> t[i + 2][2], lit |-> t[i + 3][2]]>>])
         ELSE Refused
    [] IsWord(t, i, "GROUP") ->
         IF by THEN ClausesKeepDesc(t, i + 3, [q EXCEPT !.group_by = <<t[i + 2][2]>>]) ELSE Refused
    [] IsWord(t, i, "ORDER") ->
         IF by THEN ClausesKeepDesc(t, i + 3, [q EXCEPT !.order_by =
                      <<[col |-> t[i + 2][2], asc |-> ~IsWord(t, i + 3, "DESC")]>>])
         ELSE Refused
    [] IsWord(t, i, "LIMIT") ->
         IF At(t, i + 1)[1] = "num" /\ t[i + 1][2] >= 0
         THEN ClausesKeepDesc(t, i + 2, [q EXCEPT !.limit = <<t[i + 1][2]>>])
         ELSE Refused
    [] OTHER -> [ok |-> TRUE, q |-> q]
RECURSIVE Clauses(_, _, _)
Clauses(t, i, q) ==
  LET by == IsWord(t, i + 1, "BY") /\ At(t, i + 2)[1] = "col"
      direction == IsWord(t, i + 3, "DESC") \/ IsWord(t, i + 3, "ASC")
  IN
  CASE IsWord(t, i, "WHERE") ->
         IF At(t, i + 1)[1] = "col" /\ At(t, i + 2)[1] = "op" /\ At(t, i + 3)[1] = "num"
         THEN Clauses(t, i + 4, [q EXCEPT !.filter =
                <<[col |-> t[i + 1][2], op |-> t[i + 2][2], lit |-> t[i + 3][2]]>>])
         ELSE Refused
    [] IsWord(t, i, "GROUP") ->
         IF by THEN Clauses(t, i + 3, [q EXCEPT !.group_by = <<t[i + 2][2]>>]) ELSE Refused
    [] IsWord(t, i, "ORDER") ->
         IF by THEN Clauses(t, IF direction THEN i + 4 ELSE i + 3, [q EXCEPT !.order_by =
                      <<[col |-> t[i + 2][2], asc |-> ~IsWord(t, i + 3, "DESC")]>>])
         ELSE Refused
    [] IsWord(t, i, "LIMIT") ->
         IF At(t, i + 1)[1] = "num" /\ t[i + 1][2] >= 0
         THEN Clauses(t, i + 2, [q EXCEPT !.limit = <<t[i + 1][2]>>])
         ELSE Refused
    [] OTHER -> [ok |-> TRUE, q |-> q]

\* parse_with_clause and parse_inner_query: the CTEs, the aggregate, the table source and
\* its clauses.  A CTE is [name, body].
RECURSIVE InnerQuery(_)
RECURSIVE WithClause(_, _, _)
WithClause(t, i, ctes) ==
  LET close == Closing(t, i + 3, 1)
      body == InnerQuery(SubSeq(t, i + 3, close - 1))
      more == Append(ctes, [name |-> At(t, i), body |-> body.q])
  IN  IF ~IsWord(t, i + 1, "AS") \/ At(t, i + 2) # Punct("(") \/ close > Len(t) THEN Refused
      ELSE IF ~body.ok THEN Refused
      ELSE IF At(t, close + 1) = Punct(",") THEN WithClause(t, close + 2, more)
      ELSE [ok |-> TRUE, i |-> close + 1, ctes |-> more]
InnerQuery(t) ==
  LET with == IF IsWord(t, 1, "WITH") THEN WithClause(t, 2, <<>>)
              ELSE [ok |-> TRUE, i |-> 1, ctes |-> <<>>]
      s == with.i
      close == Closing(t, s + 5, 1)
      sub == InnerQuery(SubSeq(t, s + 5, close - 1))
      \* an alias is taken even if it is a keyword
      after == IF IsWord(t, close + 1, "AS") THEN close + 3 ELSE close + 2
      query(source) ==
        [agg |-> t[s + 1][2], agg_col |-> t[s + 2][2], table |-> source, filter |-> <<>>,
         group_by |-> <<>>, order_by |-> <<>>, limit |-> <<>>, ctes |-> with.ctes]
      cte == \E k \in DOMAIN with.ctes : with.ctes[k].name = At(t, s + 4)
  IN  IF ~with.ok THEN Refused
      ELSE IF ~(/\ IsWord(t, s, "SELECT") /\ At(t, s + 1)[1] = "word" /\ At(t, s + 2)[1] = "col"
                /\ IsWord(t, s + 3, "FROM") /\ s + 4 <= Len(t))
      THEN Refused
      ELSE IF t[s + 4] # Punct("(")
      THEN Clauses(t, s + 5, query(<<IF cte THEN "cte" ELSE "table", t[s + 4], <<>> >>))
      ELSE IF ~sub.ok THEN Refused
      ELSE Clauses(t, after, query(<<"subquery", NoTok, <<sub.q>> >>))

\* parse(): parentheses and commas separate tokens, and are dropped like blanks.
Parse(text) == InnerQuery(SelectSeq(text, LAMBDA tok : tok[1] # "punct"))

\* The first of two options that is there.
LOCAL Either(a, b) == IF a # <<>> THEN a ELSE b

\* One level of resolve_table_source: aggregate and source from inside, the outer clauses
\* win; ORDER BY and LIMIT are taken from a CTE but not from a subquery.
Level(q, inner, cte) ==
  [q EXCEPT !.table = inner.table, !.agg = inner.agg, !.agg_col = inner.agg_col,
            !.filter = Either(@, inner.filter), !.group_by = Either(@, inner.group_by),
            !.order_by = IF cte THEN Either(@, inner.order_by) ELSE @,
            !.limit = IF cte THEN Either(@, inner.limit) ELSE @,
            !.ctes = inner.ctes]

RECURSIVE Resolve(_, _)
Resolve(q, depth) ==
  IF depth = 0 THEN Refused
  ELSE CASE q.table[1] = "table" -> [ok |-> TRUE, q |-> q]
         [] q.table[1] = "subquery" -> Resolve(Level(q, q.table[3][1], FALSE), depth - 1)
         [] q.table[1] = "cte" ->
              LET k == SelectInSeq(q.ctes, LAMBDA c : c.name = q.table[2])
              IN  IF k = 0 THEN Refused ELSE Resolve(Level(q, q.ctes[k].body, TRUE), depth - 1)
ResolveTableSource(q) == Resolve(q, MaxDepth)

\* From a text to a scan of a table.
Understand(text) ==
  LET parsed == Parse(text) IN IF parsed.ok THEN ResolveTableSource(parsed.q) ELSE Refused

-----------------------------------------------------------------------------
(* What a statement is meant to say: the tokens of a plain query.           *)

Text(q) ==
  <<Word("SELECT"), Word(q.agg), Punct("("), <<"col", q.agg_col>>, Punct(")"), Word("FROM"), Word("T")>>
    \o (IF q.filter = <<>> THEN <<>>
        ELSE <<Word("WHERE"), <<"col", q.filter[1].col>>, <<"op", q.filter[1].op>>,
               <<"num", q.filter[1].lit>> >>)
    \o (IF q.group_by = <<>> THEN <<>> ELSE <<Word("GROUP"), Word("BY"), <<"col", q.group_by[1]>> >>)
    \o (IF q.order_by = <<>> THEN <<>>
        ELSE <<Word("ORDER"), Word("BY"), <<"col", q.order_by[1].col>> >>
               \o (IF q.order_by[1].asc THEN <<>> ELSE <<Word("DESC")>>))
    \o (IF q.limit = <<>> THEN <<>> ELSE <<Word("LIMIT"), <<"num", q.limit[1]>> >>)

=============================================================================
