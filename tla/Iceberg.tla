------------------------------- MODULE Iceberg -------------------------------
(***************************************************************************)
(* The metadata files of blitz-iceberg: what metadata.json, a manifest     *)
(* list and a manifest hold, and how a scan reads them back.  A file       *)
(* system is a function from paths to files; a file is the sequence of the *)
(* parts of it that have been written (see Container).  The bytes in a     *)
(* container are blitz-avro's: AvroHeader, AvroBlock and AvroRead are      *)
(* Header, Block and ReadContainer of Avro where containers are run.       *)
(*                                                                         *)
(*   table     [uuid, location, fields : Seq([id, name, dtype]),           *)
(*              current : <<>> or <<id>>, snapshots : Seq([id, list]),     *)
(*              last_sequence_number]                                      *)
(*   data file [path, file_size, record_count,                             *)
(*              bounds : Seq([id, lo, hi])], with lo and hi as bytes       *)
(***************************************************************************)
EXTENDS AvroValues

CONSTANTS AvroHeader(_), AvroBlock(_, _), AvroRead(_)

\* write_container: a file of two parts.
Container(schema, rows) == <<AvroHeader(schema), AvroBlock(schema, rows)>>

\* The elements of s at the indices I, in their order.
Pick(s, I) ==
  [j \in 1..Cardinality(I) |-> s[CHOOSE i \in I : Cardinality({h \in I : h <= i}) = j]]

Value(kind, v) == <<kind, v>>

\* ser_long and de_long: W bits, the low byte first.
SerLong(v) == [i \in 1..(W \div ByteBits) |-> ((v % 2^W) \div 2^(ByteBits * (i - 1))) % 2^ByteBits]
DeLong(b) == Wrap(FoldLeft(LAMBDA sum, i : sum + b[i] * 2^(ByteBits * (i - 1)), 0,
                           [i \in DOMAIN b |-> i]))

----------------------------------------------------------------------------
\* metadata.json, without the fields that are the same in all of them and never read.
TypeStr(dtype) == IF dtype = "Int64" THEN "long" ELSE "string"
TypeOf(s) == IF s = "long" THEN "Int64" ELSE "Utf8"

Metadata(table) ==
  <<[format |-> 2, uuid |-> table.uuid, location |-> table.location,
     last_sequence_number |-> table.last_sequence_number,
     current_schema_id |-> 0,
     schemas |-> <<[schema_id |-> 0,
                    fields |-> [i \in DOMAIN table.fields |->
                                  [id |-> table.fields[i].id, name |-> table.fields[i].name,
                                   type |-> TypeStr(table.fields[i].dtype)]]]>>,
     current_snapshot_id |-> table.current,
     snapshots |-> [i \in DOMAIN table.snapshots |->
                      [id |-> table.snapshots[i].id, sequence_number |-> i,
                       list |-> table.snapshots[i].list]]]>>

NoTable ==
  [uuid |-> <<>>, location |-> 0, fields |-> <<>>, current |-> <<>>, snapshots |-> <<>>,
   last_sequence_number |-> 0]

\* read_metadata: a file that is not complete is not JSON.
ReadMetadata(fs, path) ==
  IF path \notin DOMAIN fs \/ fs[path] = <<>> THEN [how |-> "err", table |-> NoTable]
  ELSE LET doc == fs[path][1]
           schema == doc.schemas[Min({i \in DOMAIN doc.schemas :
                                         doc.schemas[i].schema_id = doc.current_schema_id})]
       IN  [how |-> "ok",
            table |-> [uuid |-> doc.uuid, location |-> doc.location,
                       fields |-> [i \in DOMAIN schema.fields |->
                                     [id |-> schema.fields[i].id, name |-> schema.fields[i].name,
                                      dtype |-> TypeOf(schema.fields[i].type)]],
                       current |-> doc.current_snapshot_id,
                       snapshots |-> [i \in DOMAIN doc.snapshots |->
                                        [id |-> doc.snapshots[i].id, list |-> doc.snapshots[i].list]],
                       last_sequence_number |-> doc.last_sequence_number]]

----------------------------------------------------------------------------
\* The Avro schemas.
Record(name, fields) == <<"record", name, fields>>
Optional(s) == <<"union", <<<<"null">>, s>>>>

BoundsSchema == <<"array", Record("k_v", <<<<"key", <<"int">>>>, <<"value", <<"bytes">>>>>>)>>

ManifestEntrySchema ==
  Record("manifest_entry",
    <<<<"status", <<"int">>>>,
      <<"snapshot_id", Optional(<<"long">>)>>,
      <<"data_file", Record("r2",
          <<<<"content", <<"int">>>>, <<"file_path", <<"string">>>>, <<"file_format", <<"string">>>>,
            <<"partition", Record("r102", <<>>)>>,
            <<"record_count", <<"long">>>>, <<"file_size_in_bytes", <<"long">>>>,
            <<"lower_bounds", Optional(BoundsSchema)>>, <<"upper_bounds", Optional(BoundsSchema)>>>>)>>>>)

Longs(names) == [i \in DOMAIN names |-> <<names[i], <<"long">>>>]
Ints(names) == [i \in DOMAIN names |-> <<names[i], <<"int">>>>]
ManifestFileSchema ==
  Record("manifest_file",
    <<<<"manifest_path", <<"string">>>>, <<"manifest_length", <<"long">>>>>>
      \o Ints(<<"partition_spec_id", "content">>)
      \o Longs(<<"sequence_number", "min_sequence_number", "added_snapshot_id">>)
      \o Ints(<<"added_files_count", "existing_files_count", "deleted_files_count">>)
      \o Longs(<<"added_rows_count", "existing_rows_count", "deleted_rows_count">>))

----------------------------------------------------------------------------
\* The rows written.
BoundsValue(b) ==
  <<"union", 1,
    Value("array", [i \in DOMAIN b |->
      Value("record", <<<<"key", Value("int", b[i][1])>>, <<"value", Value("bytes", b[i][2])>>>>)])>>

Blitzcol == <<0>>     \* the text BLITZCOL
Added == 1
Deleted == 2

ManifestEntry(snapshot, f) ==
  Value("record",
    <<<<"status", Value("int", Added)>>,
      <<"snapshot_id", <<"union", 1, Value("long", snapshot)>>>>,
      <<"data_file", Value("record",
          <<<<"content", Value("int", 0)>>, <<"file_path", Value("string", f.path)>>,
            <<"file_format", Value("string", Blitzcol)>>, <<"partition", Value("record", <<>>)>>,
            <<"record_count", Value("long", f.record_count)>>,
            <<"file_size_in_bytes", Value("long", f.file_size)>>,
            <<"lower_bounds", BoundsValue([i \in DOMAIN f.bounds |-> <<f.bounds[i].id, f.bounds[i].lo>>])>>,
            <<"upper_bounds", BoundsValue([i \in DOMAIN f.bounds |-> <<f.bounds[i].id, f.bounds[i].hi>>])>>>>)>>>>)

\* write_manifest
ManifestRows(snapshot, files) == [i \in DOMAIN files |-> ManifestEntry(snapshot, files[i])]
Manifest(snapshot, files) == Container(ManifestEntrySchema, ManifestRows(snapshot, files))

\* Its length, as far as the model has one.
ManifestLength(snapshot, files) == Len(Manifest(snapshot, files)[2].data[2])

\* write_manifest_list, of manifests [path, length, rows].
ListRows(snapshot, seq, manifests) ==
  LET values(m) ==
        <<Value("string", m.path), Value("long", m.length), Value("int", 0), Value("int", 0),
          Value("long", seq), Value("long", seq), Value("long", snapshot),
          Value("int", 1), Value("int", 0), Value("int", 0),
          Value("long", m.rows), Value("long", 0), Value("long", 0)>>
  IN  [i \in DOMAIN manifests |->
         Value("record", [k \in DOMAIN ManifestFileSchema[3] |->
                            <<ManifestFileSchema[3][k][1], values(manifests[i])[k]>>])]
ManifestList(snapshot, seq, manifests) ==
  Container(ManifestFileSchema, ListRows(snapshot, seq, manifests))

----------------------------------------------------------------------------
\* plan_files, in the steps in which it reads files.  A result has a "how": "ok", "err"
\* for an io::Error, "panic" for a read_container that panicked.
ReadFile(fs, path) ==
  IF path \notin DOMAIN fs THEN [how |-> "err", schema |-> <<"null">>, rows |-> <<>>]
  ELSE AvroRead(fs[path])

\* The manifest list of a snapshot: the first entry with its id.
ListPathOf(table, id) ==
  table.snapshots[Min({i \in DOMAIN table.snapshots : table.snapshots[i].id = id})].list

\* The manifests of a manifest list.
ManifestPaths(rows) == [i \in DOMAIN rows |-> FieldOf(rows[i], "manifest_path")[2]]

ParseBounds(v) ==
  LET items == Flat(v) IN
  IF items[1] # "array" THEN <<>>
  ELSE [i \in DOMAIN items[2] |->
          <<Flat(FieldOf(items[2][i], "key"))[2], Flat(FieldOf(items[2][i], "value"))[2]>>]

\* A lower bound goes with the upper bound of the same field, if there is one.
PairBounds(lows, highs) ==
  LET of(id) == {h \in DOMAIN highs : highs[h][1] = id}
      kept == Pick(lows, {l \in DOMAIN lows : of(lows[l][1]) # {}})
  IN  [i \in DOMAIN kept |->
         [id |-> kept[i][1], lo |-> kept[i][2], hi |-> highs[Min(of(kept[i][1]))][2]]]

\* The data files that the entries of a manifest add.
FileOf(df) ==
  [path |-> FieldOf(df, "file_path")[2],
   file_size |-> Flat(FieldOf(df, "file_size_in_bytes"))[2],
   record_count |-> Flat(FieldOf(df, "record_count"))[2],
   bounds |-> PairBounds(ParseBounds(FieldOf(df, "lower_bounds")),
                         ParseBounds(FieldOf(df, "upper_bounds")))]
DataFiles(rows) ==
  LET live == Pick(rows, {i \in DOMAIN rows : Flat(FieldOf(rows[i], "status"))[2] # Deleted})
  IN  [i \in DOMAIN live |-> FileOf(FieldOf(live[i], "data_file"))]

\* The scan of one snapshot, as plan_files does it for the current one.
ScanManifest(fs, got, path) ==
  LET m == ReadFile(fs, path) IN
  IF got.how # "ok" THEN got
  ELSE [how |-> m.how, files |-> got.files \o DataFiles(m.rows)]
Scan(fs, table, id) ==
  LET list == ReadFile(fs, ListPathOf(table, id))
  IN  FoldLeft(LAMBDA got, path : ScanManifest(fs, got, path),
               [how |-> list.how, files |-> <<>>], ManifestPaths(list.rows))

PlanFiles(fs, table) ==
  IF table.current = <<>> THEN [how |-> "ok", files |-> <<>>]
  ELSE Scan(fs, table, table.current[1])

\* commit_append, in memory; the caller writes the metadata.
\* Variant: the table's current snapshot stays what it was.
AppendedNotCurrent(table, id, list) ==
  [table EXCEPT !.last_sequence_number = @ + 1, !.snapshots = Append(@, [id |-> id, list |-> list])]
Appended(table, id, list) ==
  [table EXCEPT !.last_sequence_number = @ + 1,
                !.snapshots = Append(@, [id |-> id, list |-> list]),
                !.current = <<id>>]

=============================================================================
