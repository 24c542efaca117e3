------------------------------ MODULE SqlFront ------------------------------
(***************************************************************************)
(* The parser of blitz-plan.  A statement is a sequence of tokens          *)
(* [k |-> kind, v |-> value]; the kinds are "id", "num", "str", "sym" and  *)
(* "op".  Cutting the text into tokens is left out, and keywords are the   *)
(* identifiers in KEYWORDS, written in upper case (the code compares them  *)
(* ignoring case).  A parsing operator takes the tokens and a position and *)
(* returns a result [ok, i, v]: whether it succeeded, where it stopped and *)
(* what it read.                                                           *)
(***************************************************************************)
EXTENDS Integers, Sequences, SequencesExt

Keywords == {"FROM", "JOIN", "ON", "WHERE", "GROUP", "ORDER", "LIMIT", "AND", "BY", "DESC",
             "ASC", "AS", "SELECT", "INNER"}
AggFns == {"SUM", "COUNT", "MIN", "MAX", "AVG"}

Id(w) == [k |-> "id", v |-> w]
Sym(c) == [k |-> "sym", v |-> c]
Op(o) == [k |-> "op", v |-> o]

Done(i, v) == [ok |-> TRUE, i |-> i, v |-> v]
Error == [ok |-> FALSE, i |-> 0, v |-> <<>>]

None == [k |-> "none", v |-> "none"]
Peek(t, i) == IF i \in DOMAIN t THEN t[i] ELSE None

\* kw: is the next token this keyword?  It is consumed if so, by the caller.
Kw(t, i, w) == Peek(t, i).k = "id" /\ Peek(t, i).v = w
After(t, i, w) == IF Kw(t, i, w) THEN i + 1 ELSE i

IsSym(t, i, c) == Peek(t, i).k = "sym" /\ Peek(t, i).v = c

Ident(t, i) == IF Peek(t, i).k = "id" THEN Done(i + 1, t[i].v) ELSE Error

\* qual: a.b or b, as a record of qualifier ("" if none) and column.
Qual(t, i) ==
  LET a == Ident(t, i) IN
  IF ~a.ok THEN Error
  ELSE IF ~IsSym(t, a.i, ".") THEN Done(a.i, [qual |-> "", col |-> a.v])
  ELSE LET b == Ident(t, a.i + 1)
       IN  IF b.ok THEN Done(b.i, [qual |-> a.v, col |-> b.v]) ELSE Error

\* An aggregate call or a column; agg is "" for a column.
SelectItem(t, i) ==
  LET isAgg == Peek(t, i).k = "id" /\ t[i].v \in AggFns
      name == IF isAgg THEN Qual(t, i + 2) ELSE Qual(t, i)
  IN  IF ~name.ok \/ (isAgg /\ ~(IsSym(t, i + 1, "(") /\ IsSym(t, name.i, ")"))) THEN Error
      ELSE IF isAgg THEN Done(name.i + 1, [agg |-> t[i].v, qual |-> name.v.qual, col |-> name.v.col])
      ELSE Done(name.i, [agg |-> "", qual |-> name.v.qual, col |-> name.v.col])

\* One or more items read by Item, as long as More holds after an item.
RECURSIVE ListOf(_, _, _, _, _)
ListOf(t, i, Item(_, _), More(_, _), read) ==
  LET it == Item(t, i) IN
  IF ~it.ok THEN Error
  ELSE IF More(t, it.i) THEN ListOf(t, it.i + 1, Item, More, Append(read, it.v))
  ELSE Done(it.i, Append(read, it.v))
Comma(t, i) == IsSym(t, i, ",")
AndKw(t, i) == Kw(t, i, "AND")

\* A table and its alias, which is any identifier that is no keyword.
TableRef(t, i) ==
  LET name == Ident(t, i) IN
  IF ~name.ok THEN Error
  ELSE IF Peek(t, name.i).k = "id" /\ t[name.i].v \notin Keywords
  THEN Done(name.i + 1, [table |-> name.v, alias |-> t[name.i].v])
  ELSE Done(name.i, [table |-> name.v, alias |-> name.v])

\* ON a.x = b.y after a join's table.
JoinOn(t, i, ref) ==
  LET l == Qual(t, i + 1)
      r == Qual(t, l.i + 1)
  IN  IF Kw(t, i, "ON") /\ l.ok /\ Peek(t, l.i).k = "op" /\ t[l.i].v = "=" /\ r.ok
      THEN Done(r.i, [table |-> ref.table, alias |-> ref.alias, lqual |-> l.v.qual,
                      lcol |-> l.v.col, rqual |-> r.v.qual, rcol |-> r.v.col])
      ELSE Error

\* INNER is consumed whether JOIN follows or not.
RECURSIVE Joins(_, _, _)
Joins(t, i, read) ==
  LET inner == After(t, i, "INNER")
      ref == TableRef(t, inner + 1)
      on == JoinOn(t, ref.i, ref.v)
  IN  IF ~Kw(t, inner, "JOIN") THEN Done(inner, read)
      ELSE IF ~ref.ok \/ ~on.ok THEN Error
      ELSE Joins(t, on.i, Append(read, on.v))

CmpOf(o) == CASE o = ">" -> "Gt" [] o = "<" -> "Lt" [] o = ">=" -> "Ge" [] o = "<=" -> "Le"
              [] o \in {"=", "=="} -> "Eq" [] OTHER -> "bad"

Pred(t, i) ==
  LET name == Qual(t, i)
      op == Peek(t, name.i)
      lit == Peek(t, name.i + 1)
  IN  IF name.ok /\ op.k = "op" /\ CmpOf(op.v) # "bad" /\ lit.k \in {"num", "str"}
      THEN Done(name.i + 2,
                [qual |-> name.v.qual, col |-> name.v.col, op |-> CmpOf(op.v),
                 lit |-> [dtype |-> IF lit.k = "num" THEN "Int64" ELSE "Utf8", v |-> lit.v]])
      ELSE Error

\* An optional clause that starts with a keyword: absent, it reads v.
Clause(t, i, w, v, Read(_, _)) == IF Kw(t, i, w) THEN Read(t, i + 1) ELSE Done(i, v)

\* One or more predicates.
Preds(t, i) == ListOf(t, i, Pred, AndKw, <<>>)

By(t, i, Read(_, _)) == IF Kw(t, i, "BY") THEN Read(t, i + 1) ELSE Error

NoOrder == <<>>
GroupNames(t, i) == By(t, i, LAMBDA u, j : ListOf(u, j, Qual, Comma, <<>>))

\* Position in the select list, from 0: a number from 1 on, or the first item with this
\* name.  A position past the list is not refused; a negative number, as usize, is one.
PastTheList == 10000
OrderKey(t, i, select) ==
  LET named == SelectInSeq(select, LAMBDA it : it.col = t[i].v) IN
  IF Peek(t, i).k = "num"
  THEN Done(i + 1, IF t[i].v > 0 THEN t[i].v - 1 ELSE IF t[i].v = 0 THEN 0 ELSE PastTheList)
  ELSE IF Peek(t, i).k = "id" /\ named > 0 THEN Done(i + 1, named - 1)
  ELSE Error
OrderBy(t, i, select) ==
  LET pos == OrderKey(t, i, select)
      desc == Kw(t, pos.i, "DESC")
  IN  IF ~pos.ok THEN Error
      ELSE Done(IF desc THEN pos.i + 1 ELSE After(t, pos.i, "ASC"), <<[pos |-> pos.v, desc |-> desc]>>)

\* A negative limit, as usize, is more rows than there are.
NoLimit == <<>>
LimitN(t, i) ==
  IF Peek(t, i).k # "num" THEN Error
  ELSE Done(i + 1, IF t[i].v < 0 THEN NoLimit ELSE <<t[i].v>>)

\* The parts of a statement in the order in which parse() reads them.
Parts == <<"select", "from", "joins", "preds", "group_by", "order_by", "limit">>

ReadPart(t, i, part, read) ==
  CASE part = "select" -> IF Kw(t, i, "SELECT") THEN ListOf(t, i + 1, SelectItem, Comma, <<>>) ELSE Error
    [] part = "from" -> IF Kw(t, i, "FROM") THEN TableRef(t, i + 1) ELSE Error
    [] part = "joins" -> Joins(t, i, <<>>)
    [] part = "preds" -> Clause(t, i, "WHERE", <<>>, Preds)
    [] part = "group_by" -> Clause(t, i, "GROUP", <<>>, GroupNames)
    [] part = "order_by" -> Clause(t, i, "ORDER", NoOrder,
                                   LAMBDA u, j : By(u, j, LAMBDA x, y : OrderBy(x, y, read.select)))
    [] part = "limit" -> Clause(t, i, "LIMIT", NoLimit, LimitN)

Ast(read) ==
  [select |-> read.select, table |-> read.from.table, alias |-> read.from.alias, joins |-> read.joins,
   preds |-> read.preds, group_by |-> read.group_by, order_by |-> read.order_by, limit |-> read.limit]

\* Part after part until one fails; what follows the last one is not looked at.
Then(st, part, got) == [ok |-> got.ok, i |-> got.i, v |-> [st.v EXCEPT ![part] = got.v]]
ReadParts(t) ==
  FoldLeft(LAMBDA st, part : IF st.ok THEN Then(st, part, ReadPart(t, st.i, part, st.v)) ELSE st,
           Done(1, [part \in ToSet(Parts) |-> <<>>]), Parts)

\* parse()
Parsed(st) == IF st.ok THEN Done(st.i, Ast(st.v)) ELSE Error
Parse(t) == Parsed(ReadParts(t))

-----------------------------------------------------------------------------
(* What a statement is meant to say: the tokens that write a syntax tree.   *)

NameText(qual, col) == IF qual = "" THEN <<Id(col)>> ELSE <<Id(qual), Sym("."), Id(col)>>

ItemText(it) ==
  IF it.agg = "" THEN NameText(it.qual, it.col)
  ELSE <<Id(it.agg), Sym("(")>> \o NameText(it.qual, it.col) \o <<Sym(")")>>

TableText(table, alias) == IF alias = table THEN <<Id(table)>> ELSE <<Id(table), Id(alias)>>

JoinText(j) ==
  <<Id("JOIN")>> \o TableText(j.table, j.alias) \o <<Id("ON")>> \o NameText(j.lqual, j.lcol)
    \o <<Op("=")>> \o NameText(j.rqual, j.rcol)

PredText(p) ==
  NameText(p.qual, p.col)
    \o <<Op(CHOOSE o \in {">", "<", ">=", "<=", "="} : CmpOf(o) = p.op),
         [k |-> IF p.lit.dtype = "Int64" THEN "num" ELSE "str", v |-> p.lit.v]>>

\* The texts of the items with a separator between them, after the words that start the
\* clause; nothing for a clause without items.
ClauseText(words, items, separator, TextOf(_)) ==
  IF items = <<>> THEN <<>>
  ELSE [w \in DOMAIN words |-> Id(words[w])]
         \o FlattenSeq([k \in DOMAIN items |-> (IF k = 1 THEN <<>> ELSE separator) \o TextOf(items[k])])

Text(ast) ==
  ClauseText(<<"SELECT">>, ast.select, <<Sym(",")>>, ItemText)
    \o <<Id("FROM")>> \o TableText(ast.table, ast.alias)
    \o FlattenSeq([k \in DOMAIN ast.joins |-> JoinText(ast.joins[k])])
    \o ClauseText(<<"WHERE">>, ast.preds, <<Id("AND")>>, PredText)
    \o ClauseText(<<"GROUP", "BY">>, ast.group_by, <<Sym(",")>>, LAMBDA g : NameText(g.qual, g.col))
    \o ClauseText(<<"ORDER", "BY">>, ast.order_by, <<>>,
                  LAMBDA o : <<[k |-> "num", v |-> o.pos + 1]>>
                               \o (IF o.desc THEN <<Id("DESC")>> ELSE <<>>))
    \o ClauseText(<<"LIMIT">>, ast.limit, <<>>, LAMBDA n : <<[k |-> "num", v |-> n]>>)

=============================================================================
