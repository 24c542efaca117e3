----------------------------- MODULE AvroValues -----------------------------
(***************************************************************************)
(* Avro values, as the codec and those who read its containers see them.   *)
(* Schemas, values and JSON are tuples that begin with their kind:         *)
(*   <<"long">>, <<"record", name, <<<<field, schema>>, ...>>>>,           *)
(*   <<"array", items>>, <<"map", values>>, <<"union", schemas>>;          *)
(*   <<"long", 3>>, <<"record", <<<<field, value>>, ...>>>>,               *)
(*   <<"union", index, value>>, with the index from 0;                     *)
(*   <<"str", s>>, <<"arr", seq>>, <<"obj", record>>.                      *)
(* A byte is a digit of ByteBits bits, 8 in the code.                      *)
(***************************************************************************)
EXTENDS Words, Sequences, SequencesExt

CONSTANT ByteBits

\* The value inside a union.  A union of Avro has no union directly inside it, so that
\* one step ends flat.
Flat(v) == IF v[1] = "union" THEN v[3] ELSE v

\* The first field of that name.
FieldOf(v, name) == v[2][Min({i \in DOMAIN v[2] : v[2][i][1] = name})][2]

=============================================================================
