----------------------------- MODULE TableFiles -----------------------------
(***************************************************************************)
(* The data files of a table as the demos write them and the engine opens  *)
(* them: one column file, in row groups.                                   *)
(***************************************************************************)
EXTENDS ColumnFile

CONSTANT RowgroupRows

ASSUME WarehouseAssumption == RowgroupRows \in Nat \ {0}

\* The columns of rows from..to (from 1) of a file.
Slice(cols, from, to) ==
  [c \in DOMAIN cols |-> [dtype |-> cols[c].dtype, vals |-> SubSeq(cols[c].vals, from, to)]]

\* write_data_file: the file, row group after row group.
DataFileBytes(fields, cols) ==
  LET n == Len(cols[1].vals)
      groups == (n + RowgroupRows - 1) \div RowgroupRows
      end(g) == IF g * RowgroupRows < n THEN g * RowgroupRows ELSE n
      schema == [c \in DOMAIN fields |-> [name |-> fields[c].name, dtype |-> fields[c].dtype]]
  IN  Finish(FoldLeft(LAMBDA w, g : WriteRowgroup(w, Slice(cols, (g - 1) * RowgroupRows + 1, end(g))),
                      CreateWriter(schema), [g \in 1..groups |-> g]))

\* And opened again by the engine.
Opened(fields, cols) == Open(DataFileBytes(fields, cols))

=============================================================================
