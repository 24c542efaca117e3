------------------------------ MODULE ZoneMaps ------------------------------
(***************************************************************************)
(* Comparisons and the zone-map test.  The same five-way test on a minimum *)
(* and a maximum is written four times in the repository: for the blocks   *)
(* of a clustered table, for the pages and row groups of a column file,    *)
(* and for the data files of an Iceberg table.                             *)
(***************************************************************************)
EXTENDS Integers

CmpOps == {"Gt", "Lt", "Ge", "Le", "Eq"}

Satisfies(v, op, lit) ==
  \/ op = "Gt" /\ v > lit
  \/ op = "Lt" /\ v < lit
  \/ op = "Ge" /\ v >= lit
  \/ op = "Le" /\ v <= lit
  \/ op = "Eq" /\ v = lit

\* No value from mn to mx satisfies the comparison.
BoundsPrune(op, mn, mx, lit) ==
  \/ op = "Gt" /\ mx <= lit
  \/ op = "Ge" /\ mx < lit
  \/ op = "Lt" /\ mn >= lit
  \/ op = "Le" /\ mn > lit
  \/ op = "Eq" /\ (lit < mn \/ lit > mx)

=============================================================================
