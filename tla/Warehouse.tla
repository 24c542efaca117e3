------------------------------ MODULE Warehouse ------------------------------
(***************************************************************************)
(* What the manifests say of the data files that the demos write: the      *)
(* number of their rows and the bounds of their Int64 columns.             *)
(***************************************************************************)
EXTENDS Sequences, SequencesExt, Words

\* i64_bounds: 0 and 0 for no rows at all.
Int64Bounds(vals) == IF vals = <<>> THEN <<0, 0>> ELSE <<MinOf(vals), MaxOf(vals)>>

\* write_data_file's DataFile: bounds by field id, of the Int64 columns only.
\* Variant: the bounds leave out the last row.
DataFileShort(path, fields, cols) ==
  [path |-> path, record_count |-> Len(cols[1].vals),
   bounds |-> [id \in {fields[c].id : c \in {c \in DOMAIN cols : cols[c].dtype = "Int64"}} |->
                 LET c == CHOOSE c \in DOMAIN fields : fields[c].id = id
                 IN  Int64Bounds(SubSeq(cols[c].vals, 1, Len(cols[c].vals) - 1))]]
DataFile(path, fields, cols) ==
  [path |-> path, record_count |-> Len(cols[1].vals),
   bounds |-> [id \in {fields[c].id : c \in {c \in DOMAIN cols : cols[c].dtype = "Int64"}} |->
                 LET c == CHOOSE c \in DOMAIN fields : fields[c].id = id
                 IN  Int64Bounds(cols[c].vals)]]

=============================================================================
