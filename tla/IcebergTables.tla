---------------------------- MODULE IcebergTables ----------------------------
(***************************************************************************)
(* The programs that write Iceberg tables, and those that scan them.       *)
(*                                                                         *)
(*   iceberg_demo   writes the data files of each table, its manifest, its *)
(*                  manifest list and its metadata (create_table), and     *)
(*                  then commits each table's pointer to the catalog;      *)
(*                  Readers are other clients of that catalog, which load  *)
(*                  a pointer and scan the table.                          *)
(*   stream_demo    part D: epochs over a stream, each appended to one     *)
(*                  table as a snapshot (append_epoch_sink).               *)
(*   avro_file      a container is written by write_container or by        *)
(*                  another engine, and read back.                         *)
(*                                                                         *)
(* One of the three runs.  A file is created empty and then written, part  *)
(* by part; every I/O error ends the program, as a crash does, and the     *)
(* program may be run again.  The catalog and the stream are in the        *)
(* program's own process and end with it; the files stay, until the next   *)
(* run removes them.  run_epoch is StreamEpoch's, with a store of offsets  *)
(* in memory: it hands every unit to its callback and commits.             *)
(***************************************************************************)
EXTENDS Iceberg, FiniteSetsExt

CONSTANTS
  Tables,        \* iceberg_demo's tables: a sequence of [fields, files : Seq(columns)]
  Readers,
  Partitions, PerUnit, MaxEpochs,       \* stream_demo
  Samples,       \* avro_file's: [schema, rows, file], file being <<>> for write_container
  SnapBase,      \* 1000
  MaxRecords, MaxRuns                   \* bounds of the model

I64 == I64Min..I64Max
ASSUME BoundsAssumption ==
  /\ IsFiniteSet(Partitions) /\ Partitions \subseteq Nat
  /\ PerUnit \in Nat \ {0} /\ SnapBase \in Nat
  /\ MaxEpochs \in Nat /\ MaxRecords \in Nat /\ MaxRuns \in Nat
\* There is a table; the columns of a table have ids of their own, and its files have all
\* of them.
IsSeq(s) == Len(s) \in Nat /\ DOMAIN s = 1..Len(s)
IsFields(fields) ==
  /\ IsSeq(fields)
  /\ fields = [i \in DOMAIN fields |->
                 [id |-> fields[i].id, name |-> fields[i].name, dtype |-> fields[i].dtype]]
  /\ \A i \in DOMAIN fields : fields[i].dtype \in {"Int64", "Utf8"}
ASSUME TablesAssumption ==
  /\ IsSeq(Tables) /\ Len(Tables) > 0
  /\ \A n \in DOMAIN Tables :
       LET fields == Tables[n].fields IN
       /\ IsFields(fields)
       /\ \A i, j \in DOMAIN fields : fields[i].id = fields[j].id => i = j
       /\ IsSeq(Tables[n].files)
       /\ \A f \in DOMAIN Tables[n].files : DOMAIN Tables[n].files[f] = DOMAIN fields

VARIABLES
  program, run, pc,
  fs, writing,          \* the files, and the one that is being written
  t, k, files,          \* the table, the next file of it, the data files so far
  table, version,       \* its TableMeta and its metadata version
  log, offsets, epoch, batches, appended,   \* stream_demo; appended is history
  catalog, reader, sample

disk == <<fs, writing>>
build == <<t, k, files, table, version>>
stream == <<log, offsets, epoch, batches, appended>>
vars == <<program, run, pc, disk, build, stream, catalog, reader, sample>>

TableNos == DOMAIN Tables
SinkNo == 0
SamplePath == <<0>>

\* Paths, as texts.
DataPath(n, f) == <<1, n, f>>
MetadataPath(n, v) == <<2, n, v>>
ManifestPath(n, snap) == <<3, n, snap>>
ListPath(n, snap) == <<4, n, snap>>
\* Variant: the files of an epoch are named by partition only.
EpochPathNoEpoch(e, p) == <<5, p>>
EpochPath(e, p) == <<5, e, p>>

\* i64_bounds
Bounds(id, vals) ==
  LET lo == IF vals = <<>> THEN 0 ELSE Min(ToSet(vals))
      hi == IF vals = <<>> THEN 0 ELSE Max(ToSet(vals))
  IN  [id |-> id, lo |-> SerLong(lo), hi |-> SerLong(hi)]

\* The entry of a data file with these columns [dtype, vals], in which Int64 columns have
\* bounds.  Its size is one part per row.
EntryOf(path, fields, cols) ==
  LET int64 == Pick([c \in DOMAIN cols |-> c], {c \in DOMAIN cols : cols[c].dtype = "Int64"})
  IN  [path |-> path, file_size |-> Len(cols[1].vals), record_count |-> Len(cols[1].vals),
       bounds |-> [i \in DOMAIN int64 |-> Bounds(fields[int64[i]].id, cols[int64[i]].vals)]]

EmptyTable(n, fields) ==
  [uuid |-> <<n>>, location |-> n, fields |-> fields, current |-> <<>>, snapshots |-> <<>>,
   last_sequence_number |-> 0]
SinkFields ==
  <<[id |-> 1, name |-> "key", dtype |-> "Int64"], [id |-> 2, name |-> "value", dtype |-> "Int64"]>>
----------------------------------------------------------------------------
\* The logs of the stream, with MaxRecords records at most.
Logs == {l \in [Partitions -> 0..MaxRecords] : FoldFunction(+, 0, l) <= MaxRecords}

\* The units of the records of partition p from one offset to another.
Units(p, from, to) ==
  {[part |-> p, start |-> s, end |-> Min({s + PerUnit, to})] :
     s \in {o \in from..(to - 1) : (o - from) % PerUnit = 0}}
AllUnits(from, to) == UNION {Units(p, from[p], to[p]) : p \in Partitions}

\* The columns of a unit: record o of partition p has a key and a value of its own.
Key(p, o) == o * Cardinality(Partitions) + p
Columns(u) ==
  LET column(scale) == [dtype |-> "Int64",
                        vals |-> [i \in 1..(u.end - u.start) |-> scale * Key(u.part, u.start + i - 1)]]
  IN  <<column(1), column(3)>>

\* The file of a unit of epoch e, as its manifest lists it.
SinkEntry(e, u) == EntryOf(EpochPath(e, u.part), SinkFields, Columns(u))

\* The manifest of an append, as its manifest list has it.
ManifestOf(n, snap, listed) ==
  [path |-> ManifestPath(n, snap), length |-> ManifestLength(snap, listed),
   rows |-> FoldLeft(LAMBDA sum, f : sum + f.record_count, 0, listed)]

\* The data files of a built table.
Built(n) ==
  [i \in DOMAIN Tables[n].files |-> EntryOf(DataPath(n, i), Tables[n].fields, Tables[n].files[i])]

\* The batches that an epoch may have, and what the programs append: to which table, as
\* which snapshot, with which sequence number, and the files.
Batches ==
  UNION {SetToSeqs(AllUnits(from, to)) : from \in [Partitions -> 0..MaxRecords], to \in Logs}
Appends ==
  {[n |-> n, snap |-> SnapBase + 1, seq |-> 1, files |-> Built(n)] : n \in TableNos}
    \cup {[n |-> SinkNo, snap |-> SnapBase + e, seq |-> e,
           files |-> [i \in DOMAIN b |-> SinkEntry(e, b[i])]] : e \in 1..(MaxEpochs + 1), b \in Batches}

\* What the stream holds are longs, which to_le_bytes and from_le_bytes keep.
ASSUME StreamAssumption ==
  /\ \A scale \in {1, 3}, p \in Partitions, o \in 0..MaxRecords : scale * Key(p, o) \in I64
  /\ \A x \in I64 : DeLong(SerLong(x)) = x
\* The containers of manifests and manifest lists are read as they were written.
ReadsBack(schema, rows) ==
  AvroRead(Container(schema, rows)) = [how |-> "ok", schema |-> schema, rows |-> rows]
ASSUME ContainersAssumption ==
  \A a \in Appends :
    /\ ReadsBack(ManifestEntrySchema, ManifestRows(a.snap, a.files))
    /\ ReadsBack(ManifestFileSchema, ListRows(a.snap, a.seq, <<ManifestOf(a.n, a.snap, a.files)>>))
----------------------------------------------------------------------------
NoWrite == [path |-> <<>>, parts |-> <<>>]
NoFiles == [p \in {} |-> <<>>]
IdleReader == [pc |-> "idle", t |-> 0, run |-> 0, path |-> <<>>, table |-> NoTable,
               todo |-> <<>>, files |-> <<>>, how |-> "ok"]
NoSample == [schema |-> <<"null">>, rows |-> <<>>, file |-> <<>>]

Init ==
  /\ program \in {"iceberg_demo", "stream_demo", "avro_file"}
  /\ run = 0 /\ pc = "failed"
  /\ fs = NoFiles /\ writing = NoWrite
  /\ t = SinkNo /\ k = 1 /\ files = <<>> /\ table = NoTable /\ version = 0
  /\ log = [p \in Partitions |-> 0] /\ offsets = [p \in Partitions |-> 0]
  /\ epoch = 0 /\ batches = <<>> /\ appended = <<>>
  /\ catalog = [n \in TableNos |-> <<>>]
  /\ reader = [r \in Readers |-> IdleReader]
  /\ sample = NoSample
----------------------------------------------------------------------------
\* Files::create truncates the file; then it is written.  A program does nothing else
\* until it is.
Idle == writing = NoWrite
Created(f, path) == [p \in DOMAIN f \cup {path} |-> IF p = path THEN <<>> ELSE f[p]]
Write(path, parts, then) ==
  /\ Idle
  /\ fs' = Created(fs, path)
  /\ writing' = [path |-> path, parts |-> parts]
  /\ pc' = then

WritePart ==
  /\ ~Idle
  /\ fs' = [fs EXCEPT ![writing.path] = Append(@, Head(writing.parts))]
  /\ writing' = IF Len(writing.parts) = 1 THEN NoWrite ELSE [writing EXCEPT !.parts = Tail(@)]
  /\ UNCHANGED <<program, run, pc, build, stream, catalog, reader, sample>>

\* An error that is unwrapped, or a kill; the catalog was in the process.
Crash ==
  /\ pc # "failed"
  /\ pc' = "failed" /\ writing' = NoWrite
  /\ catalog' = [n \in TableNos |-> <<>>]
  /\ UNCHANGED <<program, run, fs, build, stream, reader, sample>>

\* A run begins; MaxRuns bounds the model.
Begin(which) == program = which /\ pc = "failed" /\ run < MaxRuns /\ run' = run + 1
----------------------------------------------------------------------------
\* iceberg_demo
StartBuild ==
  /\ Begin("iceberg_demo")
  /\ fs' = NoFiles
  /\ pc' = "data" /\ t' = 1 /\ k' = 1 /\ files' = <<>> /\ table' = NoTable /\ version' = 0
  /\ UNCHANGED <<program, writing, stream, catalog, reader, sample>>

WriteDataFile ==
  LET cols == Tables[t].files[k]
  IN  /\ pc = "data" /\ k <= Len(Tables[t].files)
      /\ Write(DataPath(t, k), <<cols>>, "data")
      /\ files' = Append(files, EntryOf(DataPath(t, k), Tables[t].fields, cols))
      /\ k' = k + 1
      /\ UNCHANGED <<program, run, t, table, version, stream, catalog, reader, sample>>

\* create_table, whose first version is empty.
CreateTable ==
  /\ pc = "data" /\ k > Len(Tables[t].files)
  /\ table' = EmptyTable(t, Tables[t].fields)
  /\ version' = 1
  /\ Write(MetadataPath(t, 1), Metadata(table'), "manifest")
  /\ UNCHANGED <<program, run, t, k, files, stream, catalog, reader, sample>>

\* create_table and append_epoch_sink.
Snap == IF t = SinkNo THEN SnapBase + epoch ELSE SnapBase + 1

WriteManifest ==
  /\ pc = "manifest"
  /\ Write(ManifestPath(t, Snap), Manifest(Snap, files), "list")
  /\ UNCHANGED <<program, run, build, stream, catalog, reader, sample>>

WriteManifestList ==
  LET seq == IF t = SinkNo THEN version + 1 ELSE 1
  IN  /\ pc = "list"
      /\ Write(ListPath(t, Snap), ManifestList(Snap, seq, <<ManifestOf(t, Snap, files)>>), "append")
      /\ UNCHANGED <<program, run, build, stream, catalog, reader, sample>>

\* commit_append of create_table, and on to the next table.
AppendFiles ==
  /\ pc = "append" /\ t # SinkNo
  /\ table' = Appended(table, Snap, ListPath(t, Snap))
  /\ version' = 2
  /\ Write(MetadataPath(t, 2), Metadata(table'), IF t < Len(Tables) THEN "data" ELSE "commit")
  /\ t' = IF t < Len(Tables) THEN t + 1 ELSE 1
  /\ k' = 1 /\ files' = <<>>
  /\ UNCHANGED <<program, run, stream, catalog, reader, sample>>

\* commit_table of each table; one that is not committed is only reported.
\* Variant: the pointer of a table is committed while its data is being appended.
CommitPointerEarly ==
  /\ pc \in {"append", "commit"}
  /\ t # SinkNo
  /\ Idle
  /\ \/ catalog' = [catalog EXCEPT ![t] = MetadataPath(t, version)]
     \/ UNCHANGED catalog
  /\ t' = IF pc = "commit" THEN t + 1 ELSE t
  /\ pc' = IF t' > Len(Tables) THEN "done" ELSE pc
  /\ UNCHANGED <<program, run, disk, k, files, table, version, stream, reader, sample>>
CommitPointer ==
  /\ pc = "commit"
  /\ Idle
  /\ \/ catalog' = [catalog EXCEPT ![t] = MetadataPath(t, 2)]
     \/ UNCHANGED catalog
  /\ t' = t + 1
  /\ pc' = IF t' > Len(Tables) THEN "done" ELSE "commit"
  /\ UNCHANGED <<program, run, disk, k, files, table, version, stream, reader, sample>>

Build ==
  \/ StartBuild \/ WriteDataFile \/ CreateTable \/ AppendFiles \/ CommitPointer
----------------------------------------------------------------------------
\* A reader: load_table, read_metadata, and plan_files file by file.
Ask(r) ==
  /\ reader[r].pc \in {"idle", "done"}
  /\ \E n \in TableNos :
       /\ catalog[n] # <<>>
       /\ reader' = [reader EXCEPT ![r] =
                       [IdleReader EXCEPT !.pc = "metadata", !.t = n, !.run = run, !.path = catalog[n]]]
  /\ UNCHANGED <<program, run, pc, disk, build, stream, catalog, sample>>

Reads(r, at, next) ==
  /\ reader[r].pc = at
  /\ reader' = [reader EXCEPT ![r] = next]
  /\ UNCHANGED <<program, run, pc, disk, build, stream, catalog, sample>>

ReadMeta(r) ==
  LET m == ReadMetadata(fs, reader[r].path)
  IN  Reads(r, "metadata",
        [reader[r] EXCEPT !.how = m.how, !.table = m.table,
                          !.pc = IF m.how = "ok" /\ m.table.current # <<>> THEN "list" ELSE "done"])

ReadList(r) ==
  LET list == ReadFile(fs, ListPathOf(reader[r].table, reader[r].table.current[1]))
  IN  reader[r].pc = "list" /\
      Reads(r, "list",
        [reader[r] EXCEPT !.how = list.how, !.todo = ManifestPaths(list.rows),
                          !.pc = IF list.rows = <<>> THEN "done" ELSE "manifests"])

ReadManifest(r) ==
  LET m == ReadFile(fs, Head(reader[r].todo))
  IN  reader[r].pc = "manifests" /\
      Reads(r, "manifests",
        [reader[r] EXCEPT !.how = m.how, !.files = @ \o DataFiles(m.rows), !.todo = Tail(@),
                          !.pc = IF m.how # "ok" \/ Len(reader[r].todo) = 1 THEN "done" ELSE @])

Read(r) == Ask(r) \/ ReadMeta(r) \/ ReadList(r) \/ ReadManifest(r)
----------------------------------------------------------------------------
\* stream_demo
StartSink ==
  /\ Begin("stream_demo")
  /\ table' = EmptyTable(SinkNo, SinkFields)
  /\ fs' = Created(NoFiles, MetadataPath(SinkNo, 0))
  /\ writing' = [path |-> MetadataPath(SinkNo, 0), parts |-> Metadata(table')]
  /\ pc' = "epoch" /\ version' = 0 /\ t' = SinkNo /\ k' = 1 /\ files' = <<>>
  /\ log' = [p \in Partitions |-> 0] /\ offsets' = [p \in Partitions |-> 0]
  /\ epoch' = 0 /\ batches' = <<>> /\ appended' = <<>>
  /\ UNCHANGED <<program, catalog, reader, sample>>

\* The records the stream is given; the demo gives it all of them before the first epoch.
Push(p) ==
  /\ program = "stream_demo" /\ pc \notin {"failed", "done"}
  /\ log' = [log EXCEPT ![p] = @ + 1]
  /\ log' \in Logs
  /\ UNCHANGED <<program, run, pc, disk, build, offsets, epoch, batches, appended, catalog, reader, sample>>

\* run_epoch: the callback is given the units in the order the threads happen to have.
RunEpoch ==
  LET units == AllUnits(offsets, log)
      reached(p) == Max({offsets[p]} \cup {u.end : u \in {u \in units : u.part = p}})
  IN  /\ pc = "epoch" /\ Idle
      /\ epoch' = epoch + 1
      /\ batches' \in SetToSeqs(units)
      /\ offsets' = [p \in Partitions |-> reached(p)]
      /\ pc' = IF units = {} THEN "done" ELSE "sink"
      /\ k' = 1 /\ files' = <<>>
      /\ UNCHANGED <<program, run, disk, t, table, version, log, appended, catalog, reader, sample>>

SinkUnit ==
  LET u == batches[k]
  IN  /\ pc = "sink" /\ k <= Len(batches)
      /\ Write(EpochPath(epoch, u.part), <<Columns(u)>>, IF k = Len(batches) THEN "manifest" ELSE "sink")
      /\ files' = Append(files, SinkEntry(epoch, u))
      /\ k' = k + 1
      /\ UNCHANGED <<program, run, t, table, version, stream, catalog, reader, sample>>

\* Variant: the version is not counted.
SinkAppendSameVersion ==
  /\ pc = "append" /\ t = SinkNo
  /\ table' = Appended(table, Snap, ListPath(t, Snap))
  /\ Write(MetadataPath(t, version), Metadata(table'), IF epoch > MaxEpochs THEN "done" ELSE "epoch")
  /\ appended' = Append(appended, [batches |-> batches, files |-> files])
  /\ UNCHANGED <<program, run, t, k, files, version, log, offsets, epoch, batches, catalog, reader, sample>>
SinkAppend ==
  /\ pc = "append" /\ t = SinkNo
  /\ table' = Appended(table, Snap, ListPath(t, Snap))
  /\ version' = version + 1
  /\ Write(MetadataPath(t, version + 1), Metadata(table'), IF epoch > MaxEpochs THEN "done" ELSE "epoch")
  /\ appended' = Append(appended, [batches |-> batches, files |-> files])
  /\ UNCHANGED <<program, run, t, k, files, log, offsets, epoch, batches, catalog, reader, sample>>

Sink ==
  \/ StartSink \/ RunEpoch \/ SinkUnit \/ SinkAppend
  \/ \E p \in Partitions : Push(p)
----------------------------------------------------------------------------
\* avro_file
WriteSample ==
  /\ Begin("avro_file")
  /\ \E s \in Samples :
       /\ sample' = s
       /\ fs' = Created(NoFiles, SamplePath)
       /\ writing' = [path |-> SamplePath,
                      parts |-> IF s.file = <<>> THEN Container(s.schema, s.rows) ELSE s.file]
  /\ pc' = "done"
  /\ UNCHANGED <<program, build, stream, catalog, reader>>

\* Every run is over, and every reader has read.
Rest ==
  /\ pc = "failed" /\ run = MaxRuns
  /\ \A r \in Readers : reader[r].pc \in {"idle", "done"}
  /\ UNCHANGED vars

Next ==
  \/ Build \/ Sink \/ WriteManifest \/ WriteManifestList \/ WriteSample
  \/ WritePart \/ Crash
  \/ \E r \in Readers : Read(r)
  \/ Rest

Spec == Init /\ [][Next]_vars
----------------------------------------------------------------------------
(* Properties.                                                             *)

\* What write_container or another engine has written reads back as it was: schema and
\* rows (blitz-avro: "it reads manifests produced by other engines").
ContainersReadBack ==
  program = "avro_file" /\ pc = "done" /\ Idle =>
    AvroRead(fs[SamplePath]) = [how |-> "ok", schema |-> sample.schema, rows |-> sample.rows]

\* A pointer that is in the catalog leads to a complete table: its metadata, its lists
\* and its data files are all there (create_table's order of writes, and only then
\* commit_table).
PointersComplete ==
  \A n \in TableNos :
    catalog[n] # <<>> =>
      LET m == ReadMetadata(fs, catalog[n]) IN
      /\ m.how = "ok"
      /\ PlanFiles(fs, m.table) = [how |-> "ok", files |-> Built(n)]
      /\ \A i \in DOMAIN Tables[n].files : fs[DataPath(n, i)] = <<Tables[n].files[i]>>

\* A reader that has scanned a table while no other run of the program removed and wrote
\* it anew has found exactly its data files, with their counts and bounds.
ReadersExact ==
  \A r \in Readers :
    reader[r].pc = "done" /\ reader[r].run = run =>
      reader[r].how = "ok" /\ reader[r].files = Built(reader[r].t)

\* What is published is complete, and found to be so by whoever reads it meanwhile.
PublishedTables == PointersComplete /\ ReadersExact

\* Whatever the program was doing when it ended: every version of the sink's table whose
\* metadata is complete has the snapshots of the epochs up to it, each of which scans to
\* the files that its epoch listed, and the last of which is current.
SnapshotsScan ==
  program = "stream_demo" =>
    \A v \in 0..version :
      LET m == ReadMetadata(fs, MetadataPath(SinkNo, v))
          snapshots == m.table.snapshots
      IN  m.how = "ok" =>
            /\ Len(snapshots) = v /\ m.table.last_sequence_number = v
            /\ v > 0 => m.table.current = <<snapshots[v].id>>
            /\ \A i \in 1..v :
                 Scan(fs, m.table, snapshots[i].id) = [how |-> "ok", files |-> appended[i].files]

\* The rows of a unit are in the file its epoch listed for it, and inside the bounds
\* listed, for as long as the table is there: provided that the epoch had one unit only
\* of each partition (append_epoch_sink names files by epoch and partition).
SinkFaithful ==
  \A e \in DOMAIN appended :
    LET units == appended[e].batches
        listed == appended[e].files
        vals(i, c) == ToSet(fs[listed[i].path][1][c].vals)
    IN  IsInjective([i \in DOMAIN units |-> units[i].part]) =>
          \A i \in DOMAIN units :
            /\ fs[listed[i].path] = <<Columns(units[i])>>
            /\ listed[i].record_count = units[i].end - units[i].start
            /\ \A c \in 1..2 : \A x \in vals(i, c) :
                 DeLong(listed[i].bounds[c].lo) <= x /\ x <= DeLong(listed[i].bounds[c].hi)

\* No run changes a metadata file, a manifest or a list that it has written: a version or
\* a snapshot that someone has read stays what it was.
IsData(path) == path[1] \in {1, 5}
WrittenOnce ==
  [][run' = run =>
       \A path \in DOMAIN fs :
         path # writing.path /\ ~IsData(path) => fs'[path] = fs[path]]_fs
=============================================================================
