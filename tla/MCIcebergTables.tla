-------------------------- MODULE MCIcebergTables --------------------------
(* IcebergTables with two small tables, and files of other engines. *)
EXTENDS IcebergTables, Avro

Ints64(vals) == [dtype |-> "Int64", vals |-> vals]
Texts(vals) == [dtype |-> "Utf8", vals |-> vals]

\* Two files of two columns with negative values; one file with a text column.
MCTables ==
  <<[fields |-> <<[id |-> 1, name |-> "id", dtype |-> "Int64"], [id |-> 2, name |-> "ts", dtype |-> "Int64"]>>,
     files |-> <<<<Ints64(<<3, -2>>), Ints64(<<100, 9>>)>>, <<Ints64(<<4>>), Ints64(<<-120>>)>>>>],
    [fields |-> <<[id |-> 1, name |-> "region", dtype |-> "Utf8"], [id |-> 2, name |-> "id", dtype |-> "Int64"]>>,
     files |-> <<<<Texts(<<"emea", "apac">>), Ints64(<<0, 1>>)>>>>]>>

\* A schema with every type, and rows with the extreme values.
Everything ==
  Record("all",
    <<<<"n", <<"null">>>>, <<"b", <<"boolean">>>>, <<"i", <<"int">>>>, <<"l", <<"long">>>>,
      <<"f", <<"float">>>>, <<"d", <<"double">>>>, <<"s", <<"string">>>>, <<"y", <<"bytes">>>>,
      <<"a", <<"array", Optional(<<"long">>)>>>>, <<"m", <<"map", <<"array", <<"int">>>>>>>>,
      <<"r", Record("inner", <<<<"x", <<"long">>>>>>)>>>>)
RowOf(long, int, items, map) ==
  Value("record",
    <<<<"n", <<"null">>>>, <<"b", <<"boolean", long > 0>>>>, <<"i", Value("int", int)>>, <<"l", Value("long", long)>>,
      <<"f", Value("float", <<1, 7, 0, 3>>)>>, <<"d", Value("double", <<1, 2, 3, 4, 5, 6, 7, 0>>)>>,
      <<"s", Value("string", <<5, 6>>)>>, <<"y", Value("bytes", <<>>)>>,
      <<"a", Value("array", items)>>, <<"m", Value("map", map)>>,
      <<"r", Value("record", <<<<"x", Value("long", -long - 1)>>>>)>>>>)
Some(x) == <<"union", 1, Value("long", x)>>
Absent == <<"union", 0, <<"null">>>>
Ints32(vals) == Value("array", [i \in DOMAIN vals |-> Value("int", vals[i])])
Rows ==
  <<RowOf(I64Max, 7, <<Some(1), Absent, Some(-64)>>, <<<<<<1>>, Ints32(<<-8, 7>>)>>, <<<<2, 3>>, Ints32(<<>>)>>>>),
    RowOf(I64Min, -8, <<>>, <<>>), RowOf(0, 0, <<Absent>>, <<<<<<>>, Ints32(<<0>>)>>>>), RowOf(-1, -1, <<Some(63)>>, <<>>)>>

\* Another engine: arrays and maps cut into blocks that give their size in bytes, no
\* compression, a block for every row, primitives as objects.
RECURSIVE OtherEncode(_, _)
OtherEncode(v, s) ==
  LET block(items, item) ==
        FlattenSeq([i \in DOMAIN items |->
          LET bytes == OtherEncode(items[i], item) IN PutLong(-1) \o PutLong(Len(bytes)) \o bytes]) \o PutLong(0)
  IN CASE s[1] = "record" -> FlattenSeq([i \in DOMAIN v[2] |-> OtherEncode(v[2][i][2], s[3][i][2])])
       [] s[1] = "array" -> block(v[2], s[2])
       [] s[1] = "map" -> block(v[2], <<"entry", s[2]>>)
       [] s[1] = "entry" -> Counted(v[1]) \o OtherEncode(v[2], s[2])
       [] s[1] = "union" -> PutLong(v[2]) \o OtherEncode(v[3], s[2][v[2] + 1])
       [] s[1] \notin {"record", "array", "map", "entry", "union"} -> Encode(v, s)
OtherSchema(s) ==
  <<"obj", [type |-> "record", name |-> s[2],
            fields |-> [i \in DOMAIN s[3] |->
              [name |-> s[3][i][1],
               type |-> IF s[3][i][2][1] \in Primitives THEN <<"obj", [type |-> s[3][i][2][1]]>>
                        ELSE SchemaToJson(s[3][i][2])]]]>>
OtherFile(s, rows) ==
  <<[schema |-> OtherSchema(s), codec |-> "null"]>>
    \o [i \in DOMAIN rows |-> [count |-> 1, data |-> OtherEncode(rows[i], s)]]

Sample(rows) ==
  {[schema |-> Everything, rows |-> rows, file |-> f] : f \in {<<>>, OtherFile(Everything, rows)}}
MCSamples ==
  UNION {Sample([i \in 1..n |-> Rows[i]]) : n \in 1..4} \cup UNION {Sample(<<Rows[i]>>) : i \in 2..4}

=============================================================================
