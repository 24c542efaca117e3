-------------------------------- MODULE Avro --------------------------------
(***************************************************************************)
(* The Avro codec of blitz-avro, over the values of AvroValues.  A varint  *)
(* carries ByteBits - 1 bits per byte; a text is a sequence of characters, *)
(* one byte each; a float or a double is the 4 or 8 bytes of its bit       *)
(* pattern.                                                                *)
(***************************************************************************)
EXTENDS AvroValues

CONSTANT IntBits

ASSUME AvroAssumption ==
  ByteBits \in Nat \ {0, 1} /\ W % ByteBits = 0 /\ IntBits \in 1..W

Primitives == {"null", "boolean", "int", "long", "float", "double", "bytes", "string"}

\* parse_schema.  An object whose type is a primitive stands for that primitive.
RECURSIVE ParseSchema(_)
ParseSchema(j) ==
  CASE j[1] = "str" -> <<j[2]>>
    [] j[1] = "arr" -> <<"union", [i \in DOMAIN j[2] |-> ParseSchema(j[2][i])]>>
    [] j[1] = "obj" ->
         LET o == j[2] IN
         CASE o.type = "record" ->
                <<"record", o.name,
                  [i \in DOMAIN o.fields |-> <<o.fields[i].name, ParseSchema(o.fields[i].type)>>]>>
           [] o.type = "array" -> <<"array", ParseSchema(o.items)>>
           [] o.type = "map" -> <<"map", ParseSchema(o.values)>>
           [] o.type \in Primitives -> <<o.type>>

RECURSIVE SchemaToJson(_)
SchemaToJson(s) ==
  CASE s[1] \in Primitives -> <<"str", s[1]>>
    [] s[1] = "record" ->
         <<"obj", [type |-> "record", name |-> s[2],
                   fields |-> [i \in DOMAIN s[3] |->
                                 [name |-> s[3][i][1], type |-> SchemaToJson(s[3][i][2])]]]>>
    [] s[1] = "array" -> <<"obj", [type |-> "array", items |-> SchemaToJson(s[2])]>>
    [] s[1] = "map" -> <<"obj", [type |-> "map", values |-> SchemaToJson(s[2])]>>
    [] s[1] = "union" -> <<"arr", [i \in DOMAIN s[2] |-> SchemaToJson(s[2][i])]>>

----------------------------------------------------------------------------
Digit == 2^(ByteBits - 1)

\* The low digits of v first, each but the last with the high bit set.
RECURSIVE Varint(_)
Varint(v) == IF v < Digit THEN <<v>> ELSE <<(v % Digit) + Digit>> \o Varint(v \div Digit)

PutLong(n) == Varint(IF n >= 0 THEN 2 * n ELSE -2 * n - 1)

RECURSIVE Unvarint(_, _)
Unvarint(buf, pos) ==
  IF buf[pos + 1] < Digit THEN [v |-> buf[pos + 1], pos |-> pos + 1]
  ELSE LET more == Unvarint(buf, pos + 1)
       IN  [v |-> (buf[pos + 1] - Digit) + Digit * more.v, pos |-> more.pos]

\* A decoder starts behind the first pos bytes and says where it stopped.
GetLong(buf, pos) ==
  LET u == Unvarint(buf, pos)
  IN  [v |-> IF u.v % 2 = 0 THEN u.v \div 2 ELSE -(u.v \div 2) - 1, pos |-> u.pos]

\* as i32
AsInt(n) == LET half == 2^(IntBits - 1) IN ((n + half) % 2^IntBits) - half

----------------------------------------------------------------------------
Counted(bytes) == PutLong(Len(bytes)) \o bytes

RECURSIVE Encode(_, _)
Encode(v, s) ==
  LET all(items, Schema(_)) == FlattenSeq([i \in DOMAIN items |-> Encode(items[i], Schema(i))])
      block(items, item) ==
        (IF items = <<>> THEN <<>> ELSE PutLong(Len(items)) \o all(items, LAMBDA i : item)) \o PutLong(0)
  IN CASE s[1] = "null" -> <<>>
       [] s[1] = "boolean" -> <<IF v[2] THEN 1 ELSE 0>>
       [] s[1] \in {"int", "long"} -> PutLong(v[2])
       [] s[1] \in {"float", "double"} -> v[2]
       [] s[1] \in {"bytes", "string"} -> Counted(v[2])
       [] s[1] = "record" ->
            all([i \in DOMAIN v[2] |-> v[2][i][2]], LAMBDA i : s[3][i][2])
       [] s[1] = "array" -> block(v[2], s[2])
       [] s[1] = "map" -> block(v[2], <<"entry", s[2]>>)
       [] s[1] = "entry" -> Counted(v[1]) \o Encode(v[2], s[2])
       [] s[1] = "union" -> PutLong(v[2]) \o Encode(v[3], s[2][v[2] + 1])

\* A block with a negative count gives its size in bytes, which is skipped.
BlockCount(buf, pos) ==
  LET n == GetLong(buf, pos)
  IN  IF n.v < 0 THEN [v |-> Wrap(-n.v), pos |-> GetLong(buf, n.pos).pos] ELSE n

RECURSIVE Decode(_, _, _)
\* One value after the other, of the given schemas, behind those of got.
From(pos) == [v |-> <<>>, pos |-> pos]
Behind(got, d) == [v |-> Append(got.v, d.v), pos |-> d.pos]
DecodeAll(schemas, buf, got) ==
  FoldLeft(LAMBDA before, s : Behind(before, Decode(s, buf, before.pos)), got, schemas)

RECURSIVE DecodeBlocks(_, _, _)
DecodeBlocks(item, buf, got) ==
  LET n == BlockCount(buf, got.pos)
      next == [got EXCEPT !.pos = n.pos]
  IN  IF n.v = 0 THEN next
      ELSE DecodeBlocks(item, buf, DecodeAll([i \in 1..n.v |-> item], buf, next))

Named(fields, got) == [got EXCEPT !.v = [i \in DOMAIN fields |-> <<fields[i][1], @[i]>>]]

Decode(s, buf, pos) ==
  LET long == GetLong(buf, pos)
      bytes(from, n) == [v |-> <<s[1], SubSeq(buf, from + 1, from + n)>>, pos |-> from + n]
      tagged(got) == [got EXCEPT !.v = <<s[1], @>>]
  IN CASE s[1] = "null" -> [v |-> <<"null">>, pos |-> pos]
       [] s[1] = "boolean" -> [v |-> <<"boolean", buf[pos + 1] # 0>>, pos |-> pos + 1]
       [] s[1] = "int" -> [v |-> <<"int", AsInt(long.v)>>, pos |-> long.pos]
       [] s[1] = "long" -> tagged(long)
       [] s[1] = "float" -> bytes(pos, 4)
       [] s[1] = "double" -> bytes(pos, 8)
       [] s[1] \in {"bytes", "string"} -> bytes(long.pos, long.v)
       [] s[1] = "record" ->
            tagged(Named(s[3], DecodeAll([i \in DOMAIN s[3] |-> s[3][i][2]], buf, From(pos))))
       [] s[1] = "array" -> tagged(DecodeBlocks(s[2], buf, From(pos)))
       [] s[1] = "map" -> tagged(DecodeBlocks(<<"entry", s[2]>>, buf, From(pos)))
       [] s[1] = "entry" ->
            [Decode(s[2], buf, long.pos + long.v) EXCEPT
               !.v = <<SubSeq(buf, long.pos + 1, long.pos + long.v), @>>]
       [] s[1] = "union" ->
            [Decode(s[2][long.v + 1], buf, long.pos) EXCEPT !.v = <<"union", long.v, @>>]

----------------------------------------------------------------------------
\* write_container's header and its one block, deflated; sizes and sync markers are left
\* out.
Header(schema) == [schema |-> SchemaToJson(schema), codec |-> "deflate"]
Block(schema, rows) ==
  [count |-> Len(rows),
   data |-> <<"deflate", FlattenSeq([i \in DOMAIN rows |-> Encode(rows[i], schema)])>>]

\* miniz_oxide
Inflate(data) == data[2]

\* The blocks that have been written.  Variant: the first one.
FirstBlock(file) == SubSeq(file, 2, 2)
Blocks(file) == Tail(file)

\* read_container: a file without its header panics; one without its block has no rows.
ReadContainer(file) ==
  IF file = <<>> THEN [how |-> "panic", schema |-> <<"null">>, rows |-> <<>>]
  ELSE LET schema == ParseSchema(file[1].schema)
           raw(b) == IF file[1].codec = "deflate" THEN Inflate(b.data) ELSE b.data
           rows(b) == DecodeAll([i \in 1..b.count |-> schema], raw(b), From(0)).v
       IN  [how |-> "ok", schema |-> schema,
            rows |-> FlattenSeq([i \in DOMAIN Blocks(file) |-> rows(Blocks(file)[i])])]

=============================================================================
