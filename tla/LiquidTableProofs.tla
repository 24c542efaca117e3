-------------------------- MODULE LiquidTableProofs --------------------------
(***************************************************************************)
(* A clustered table for all tables, block sizes and texts.  The zone-map  *)
(* test skips exactly the ranges in which no value satisfies the           *)
(* comparison; however often a table is reclustered it holds the rows it   *)
(* was made of, along the curve of the columns it was clustered by; and a  *)
(* block that is pruned holds no row that the filter lets through.         *)
(***************************************************************************)
EXTENDS LiquidTable, WellFoundedInduction, SequenceTheorems, FiniteSetTheorems, TLAPS

\* A range that is skipped holds no value that satisfies the comparison, whatever the bounds are
\* (block_matches, prune_bounds, prune_int, bounds_prune).
THEOREM SkippedHoldsNothing ==
  ASSUME NEW op \in CmpOps, NEW mn \in Int, NEW mx \in Int, NEW lit \in Int,
         BoundsPrune(op, mn, mx, lit)
  PROVE  \A v \in mn..mx : ~Satisfies(v, op, lit)
BY DEF CmpOps, BoundsPrune, Satisfies

\* A range that is read has a value between its bounds that satisfies the comparison, so that a
\* sharper test on a minimum and a maximum of integers does not exist.
THEOREM ReadMayHoldSomething ==
  ASSUME NEW op \in CmpOps, NEW mn \in Int, NEW mx \in Int, NEW lit \in Int, mn <= mx,
         ~BoundsPrune(op, mn, mx, lit)
  PROVE  \E v \in mn..mx : Satisfies(v, op, lit)
<1>1. mn \in mn..mx /\ mx \in mn..mx  OBVIOUS
<1>2. CASE op \in {"Gt", "Ge"}
  <2>1. Satisfies(mx, op, lit)  BY <1>2 DEF BoundsPrune, Satisfies
  <2> QED  BY <1>1, <2>1
<1>3. CASE op \in {"Lt", "Le"}
  <2>1. Satisfies(mn, op, lit)  BY <1>3 DEF BoundsPrune, Satisfies
  <2> QED  BY <1>1, <2>1
<1>4. CASE op = "Eq"
  <2>1. lit \in mn..mx /\ Satisfies(lit, op, lit)  BY <1>4 DEF BoundsPrune, Satisfies
  <2> QED  BY <2>1
<1> QED  BY <1>2, <1>3, <1>4 DEF CmpOps

-----------------------------------------------------------------------------
(* The least element of a set, and the sequences that FlattenSeq joins.      *)

\* Every set of natural numbers that is not empty has a least element.
LEMMA NatOrder ==
  \E R : IsWellFoundedOn(R, Nat) /\ \A x, y \in Nat : y < x => <<y, x>> \in R
<1>1. \A x, y \in Nat : y < x => <<y, x>> \in OpToRel(<, Nat)
  BY DEF OpToRel
<1>2. QED
  BY <1>1, NatLessThanWellFounded, Zenon

LEMMA LeastNat ==
  ASSUME NEW T, T \subseteq Nat, T # {}
  PROVE  \E x \in T : \A y \in T : x <= y
<1>1. PICK R : IsWellFoundedOn(R, Nat) /\ \A x, y \in Nat : y < x => <<y, x>> \in R
  BY NatOrder
<1>2. PICK x \in T : \A y \in T : ~(<<y, x>> \in R)
  BY <1>1, WFMin
<1>3. ASSUME NEW y \in T PROVE x <= y
  <2>1. x \in Nat /\ y \in Nat
    OBVIOUS
  <2>2. ~(y < x)
    BY <1>1, <1>2, <2>1
  <2>3. QED
    BY <2>1, <2>2
<1>4. QED
  BY <1>3

\* The minimum and the maximum of values that have a bound.
LEMMA Least ==
  ASSUME NEW lb \in Int, NEW S, S # {}, \A v \in S : v \in Int /\ v >= lb
  PROVE  Min(S) \in S /\ \A v \in S : Min(S) <= v
<1> DEFINE T == {v - lb : v \in S}
<1>1. T \subseteq Nat /\ T # {}
  OBVIOUS
<1>2. PICK x \in T : \A y \in T : x <= y
  BY <1>1, LeastNat
<1>3. PICK m \in S : x = m - lb
  BY <1>2
<1>4. \A v \in S : v - lb \in T
  OBVIOUS
<1> HIDE DEF T
<1>5. \A v \in S : m <= v
  BY <1>2, <1>3, <1>4
<1>6. QED
  BY <1>5 DEF Min

LEMMA Greatest ==
  ASSUME NEW ub \in Int, NEW S, S # {}, \A v \in S : v \in Int /\ v <= ub
  PROVE  Max(S) \in S /\ \A v \in S : Max(S) >= v
<1> DEFINE T == {ub - v : v \in S}
<1>1. T \subseteq Nat /\ T # {}
  OBVIOUS
<1>2. PICK x \in T : \A y \in T : x <= y
  BY <1>1, LeastNat
<1>3. PICK m \in S : x = ub - m
  BY <1>2
<1>4. \A v \in S : ub - v \in T
  OBVIOUS
<1> HIDE DEF T
<1>5. \A v \in S : m >= v
  BY <1>2, <1>3, <1>4
<1>6. QED
  BY <1>5 DEF Max

\* f holds the concatenations of the first parts of s.
IsJoin(f, s, n) ==
  f = [i \in 1..n |-> IF i = 1 THEN s[i] ELSE f[i - 1] \o s[i]]
Joins(S, s, n) == \E f \in [1..n -> Seq(S)] : IsJoin(f, s, n)

LEMMA JoinExtends ==
  ASSUME NEW S, NEW k \in Nat \ {0}, NEW s, Joins(S, s, k), s[k + 1] \in Seq(S)
  PROVE  Joins(S, s, k + 1)
<1>1. PICK f \in [1..k -> Seq(S)] : IsJoin(f, s, k)
  BY DEF Joins
<1> DEFINE g == [i \in 1..(k + 1) |-> IF i = k + 1 THEN f[k] \o s[k + 1] ELSE f[i]]
<1>2. f[k] \in Seq(S)
  BY <1>1
<1>3. f[k] \o s[k + 1] \in Seq(S)
  BY <1>2, ConcatProperties
<1>4. g \in [1..(k + 1) -> Seq(S)]
  BY <1>1, <1>3
<1>5. \A i \in 1..k : f[i] = IF i = 1 THEN s[i] ELSE f[i - 1] \o s[i]
  BY <1>1 DEF IsJoin
<1>6. /\ \A i \in 1..k : g[i] = f[i] /\ i \in 1..(k + 1)
      /\ g[k + 1] = f[k] \o s[k + 1]
  <2>1. \A i \in 1..k : i \in 1..(k + 1) /\ i # k + 1
    OBVIOUS
  <2>2. k + 1 \in 1..(k + 1)
    OBVIOUS
  <2>3. QED
    BY <2>1, <2>2, Zenon
<1> HIDE DEF g
<1>7. ASSUME NEW i \in 1..(k + 1)
      PROVE  g[i] = IF i = 1 THEN s[i] ELSE g[i - 1] \o s[i]
  <2>1. CASE i = k + 1
    <3>1. i # 1 /\ i - 1 = k /\ k \in 1..k
      BY <2>1
    <3>2. QED
      BY <1>6, <2>1, <3>1
  <2>2. CASE i = 1
    <3>1. 1 \in 1..k
      OBVIOUS
    <3>2. QED
      BY <1>5, <1>6, <2>2, <3>1
  <2>3. CASE i # 1 /\ i # k + 1
    <3>1. i \in 1..k /\ i - 1 \in 1..k
      BY <2>3
    <3>2. g[i] = f[i] /\ g[i - 1] = f[i - 1] /\ f[i] = f[i - 1] \o s[i]
      BY <1>5, <1>6, <2>3, <3>1
    <3>3. QED
      BY <2>3, <3>2
  <2>4. QED
    BY <2>1, <2>2, <2>3
<1>8. IsJoin(g, s, k + 1)
  BY <1>4, <1>7 DEF IsJoin
<1>9. QED
  BY <1>4, <1>8 DEF Joins

LEMMA JoinExists ==
  ASSUME NEW S, NEW n \in Nat \ {0}, NEW s \in [1..n -> Seq(S)]
  PROVE  Joins(S, s, n)
<1> DEFINE Bad == {k \in 1..n : ~Joins(S, s, k)}
<1>1. Joins(S, s, 1)
  <2> DEFINE f == [i \in 1..1 |-> s[1]]
  <2>1. s[1] \in Seq(S)
    OBVIOUS
  <2>2. f \in [1..1 -> Seq(S)]
    BY <2>1
  <2>3. f = [i \in 1..1 |-> IF i = 1 THEN s[i] ELSE f[i - 1] \o s[i]]
    OBVIOUS
  <2> HIDE DEF f
  <2>4. QED
    BY <2>2, <2>3 DEF Joins, IsJoin
<1>2. SUFFICES ASSUME Bad # {} PROVE FALSE
  OBVIOUS
<1>3. Bad \subseteq Nat
  OBVIOUS
<1>4. PICK k \in Bad : \A j \in Bad : k <= j
  <2> HIDE DEF Bad
  <2>1. QED
    BY <1>2, <1>3, LeastNat
<1>5. k \in 1..n /\ ~Joins(S, s, k) /\ k # 1
  BY <1>1
<1>6. k - 1 \in Nat \ {0} /\ k - 1 \in 1..n /\ (k - 1) + 1 = k
  BY <1>5
<1>7. k - 1 \notin Bad
  BY <1>4, <1>6
<1>8. Joins(S, s, k - 1)
  BY <1>6, <1>7
<1>9. s[k] \in Seq(S)
  BY <1>5
<1>10. QED
  BY <1>5, <1>6, <1>8, <1>9, JoinExtends

\* There is only one such function.
LEMMA JoinUnique ==
  ASSUME NEW n \in Nat \ {0}, NEW s, NEW f, NEW g, IsJoin(f, s, n), IsJoin(g, s, n)
  PROVE  f = g
<1> DEFINE Bad == {k \in 1..n : f[k] # g[k]}
<1>1. \A i \in 1..n : /\ f[i] = IF i = 1 THEN s[i] ELSE f[i - 1] \o s[i]
                      /\ g[i] = IF i = 1 THEN s[i] ELSE g[i - 1] \o s[i]
  BY DEF IsJoin
<1>2. CASE Bad # {}
  <2>1. Bad \subseteq Nat
    OBVIOUS
  <2>2. PICK k \in Bad : \A j \in Bad : k <= j
    <3> HIDE DEF Bad
    <3>1. QED
      BY <1>2, <2>1, LeastNat
  <2>3. k \in 1..n /\ f[k] # g[k]
    OBVIOUS
  <2>4. k # 1
    BY <1>1, <2>3
  <2>5. k - 1 \in 1..n /\ k - 1 \notin Bad
    BY <2>2, <2>3, <2>4
  <2>6. f[k - 1] = g[k - 1]
    BY <2>5
  <2>7. QED
    BY <1>1, <2>3, <2>4, <2>6
<1>3. CASE Bad = {}
  <2>1. \A k \in 1..n : f[k] = g[k]
    BY <1>3
  <2>2. f = [i \in 1..n |-> f[i]] /\ g = [i \in 1..n |-> g[i]]
    BY DEF IsJoin
  <2>3. QED
    BY <2>1, <2>2
<1>4. QED
  BY <1>2, <1>3

\* FlattenSeq is the last of the concatenations.
LEMMA FlattenIs ==
  ASSUME NEW n \in Nat \ {0}, NEW s, DOMAIN s = 1..n, Len(s) = n, NEW f, IsJoin(f, s, n)
  PROVE  FlattenSeq(s) = f[n]
<1> DEFINE c == CHOOSE h : h = [i \in 1..Len(s) |-> IF i = 1 THEN s[i] ELSE h[i - 1] \o s[i]]
<1>1. c = [i \in 1..Len(s) |-> IF i = 1 THEN s[i] ELSE c[i - 1] \o s[i]]
  BY DEF IsJoin
<1>2. FlattenSeq(s) = c[n]
  BY DEF FlattenSeq
<1> HIDE DEF c
<1>3. IsJoin(c, s, n)
  BY <1>1 DEF IsJoin
<1>4. c = f
  BY <1>3, JoinUnique
<1>5. QED
  BY <1>2, <1>4

-----------------------------------------------------------------------------
(* Blocks and rows.                                                         *)

Rows == Seq([Columns -> I64])

LEMMA Bounds == I64Min \in Int /\ I64Max \in Int
BY WordsAssumption DEF I64Min, I64Max

\* The rows a block takes from a table.
EndOf(rows, b) == IF BlockRows * b < Len(rows) THEN BlockRows * b ELSE Len(rows)
Part(rows, b) == SubSeq(rows, BlockRows * (b - 1) + 1, EndOf(rows, b))
BlocksOf(rows) == (Len(rows) + BlockRows - 1) \div BlockRows

LEMMA BlockCount ==
  ASSUME NEW k \in Nat \ {0}, NEW x \in Nat \ {0}
  PROVE  LET n == (x + k - 1) \div k
         IN  n \in Nat \ {0} /\ k * n >= x /\ k * (n - 1) < x
<1> DEFINE n == (x + k - 1) \div k
<1>1. n \in Nat /\ k * n >= x /\ k * (n - 1) < x
  OBVIOUS
<1>2. n # 0
  BY <1>1
<1>3. QED
  BY <1>1, <1>2

LEMMA PartType ==
  ASSUME NEW S, NEW rows \in Seq(S), NEW b \in Nat \ {0}
  PROVE  Part(rows, b) \in Seq(S)
<1>1. BlockRows * (b - 1) + 1 \in Nat \ {0} /\ BlockRows * b \in Nat
  BY LiquidTableAssumption
<1>2. Len(rows) \in Nat /\ EndOf(rows, b) \in Nat /\ EndOf(rows, b) <= Len(rows)
  BY <1>1 DEF EndOf
<1>3. \A i \in (BlockRows * (b - 1) + 1)..EndOf(rows, b) : rows[i] \in S
  BY <1>1, <1>2
<1>4. QED
  BY <1>1, <1>2, <1>3, SubSeqProperties DEF Part

\* What Chunks makes of rows: for each part its columns.
LEMMA ChunksAre ==
  ASSUME NEW rows \in Rows
  PROVE  /\ DOMAIN Chunks(rows) = 1..BlocksOf(rows)
         /\ \A b \in 1..BlocksOf(rows) :
              Chunks(rows)[b] =
                [c \in Columns |-> [i \in DOMAIN Part(rows, b) |-> Part(rows, b)[i][c]]]
BY DEF Chunks, BlocksOf, Part, EndOf

\* A table has a first column.
LEMMA FirstColumn ==
  ASSUME loaded \in Tables
  PROVE  /\ 1 \in Columns
         /\ loaded \in Rows /\ Len(loaded) \in Nat \ {0}
<1>1. /\ loaded \in Seq(Seq(I64)) /\ loaded # <<>>
      /\ \A i \in DOMAIN loaded : loaded[i] # <<>> /\ Len(loaded[i]) = Len(loaded[1])
  BY TablesAssumption
<1>2. Len(loaded) \in Nat \ {0} /\ DOMAIN loaded = 1..Len(loaded)
  BY <1>1, EmptySeq
<1>3. \A i \in DOMAIN loaded : loaded[i] \in Seq(I64)
  BY <1>1
<1>4. 1 \in DOMAIN loaded
  BY <1>2
<1>5. loaded[1] \in Seq(I64) /\ loaded[1] # <<>>
  BY <1>1, <1>3, <1>4
<1>6. Len(loaded[1]) \in Nat \ {0} /\ Columns = 1..Len(loaded[1])
  BY <1>5, EmptySeq DEF Columns
<1>7. \A i \in DOMAIN loaded : loaded[i] \in [Columns -> I64]
  BY <1>1, <1>3, <1>6, LenProperties
<1>8. loaded \in Rows
  <2>1. loaded \in [1..Len(loaded) -> [Columns -> I64]]
    BY <1>1, <1>2, <1>7, LenProperties
  <2>2. QED
    BY <1>2, <2>1 DEF Rows
<1>9. QED
  BY <1>2, <1>6, <1>8

\* A block read row by row is the part of the table it was made of.
LEMMA RowsOfPart ==
  ASSUME loaded \in Tables, NEW rows \in Rows, NEW b \in 1..BlocksOf(rows), b \in Nat \ {0}
  PROVE  RowsOf(Chunks(rows)[b]) = Part(rows, b)
<1> DEFINE part == Part(rows, b)
<1>1. Chunks(rows)[b] = [c \in Columns |-> [i \in DOMAIN part |-> part[i][c]]]
  BY ChunksAre
<1>2. part \in Seq([Columns -> I64])
  BY PartType DEF Rows
<1> HIDE DEF part
<1>3. 1 \in Columns
  BY FirstColumn
<1>4. RowsOf(Chunks(rows)[b]) = [i \in DOMAIN part |-> [c \in Columns |-> part[i][c]]]
  BY <1>1, <1>3 DEF RowsOf
<1>5. DOMAIN part = 1..Len(part) /\ \A i \in DOMAIN part : part[i] \in [Columns -> I64]
  BY <1>2
<1>6. \A i \in DOMAIN part : [c \in Columns |-> part[i][c]] = part[i]
  BY <1>5
<1>7. [i \in DOMAIN part |-> [c \in Columns |-> part[i][c]]] = [i \in DOMAIN part |-> part[i]]
  BY <1>6
<1>8. [i \in DOMAIN part |-> part[i]] = part
  BY <1>2
<1>9. QED
  BY <1>4, <1>7, <1>8 DEF part

\* The parts follow each other.
LEMMA PartsJoin ==
  ASSUME NEW S, NEW rows \in Seq(S), Len(rows) \in Nat \ {0}
  PROVE  /\ BlocksOf(rows) \in Nat \ {0}
         /\ IsJoin([b \in 1..BlocksOf(rows) |-> SubSeq(rows, 1, EndOf(rows, b))],
                   [b \in 1..BlocksOf(rows) |-> Part(rows, b)], BlocksOf(rows))
         /\ SubSeq(rows, 1, EndOf(rows, BlocksOf(rows))) = rows
<1> DEFINE n == BlocksOf(rows)
           k == BlockRows
           f == [b \in 1..n |-> SubSeq(rows, 1, EndOf(rows, b))]
<1>0. k \in Nat \ {0}
  BY LiquidTableAssumption
<1>1. n \in Nat \ {0} /\ k * n >= Len(rows) /\ k * (n - 1) < Len(rows)
  BY <1>0, BlockCount DEF BlocksOf
<1> HIDE DEF n, k
<1>2. EndOf(rows, n) = Len(rows)
  BY <1>0, <1>1 DEF EndOf, k
<1>3. ASSUME NEW b \in 1..n, b # 1
      PROVE  SubSeq(rows, 1, EndOf(rows, b)) = SubSeq(rows, 1, EndOf(rows, b - 1)) \o Part(rows, b)
  <2>1. b - 1 \in Nat /\ b - 1 <= n - 1 /\ b \in Nat
    BY <1>1
  <2>2. k * (b - 1) <= k * (n - 1)
    BY <1>0, <1>1, <2>1
  <2>3. k * (b - 1) \in Nat /\ k * (b - 1) < Len(rows) /\ k * b \in Nat /\ k * (b - 1) <= k * b
    BY <1>0, <1>1, <2>1, <2>2
  <2>4. EndOf(rows, b - 1) = k * (b - 1)
    BY <2>3 DEF EndOf, k
  <2>5. EndOf(rows, b) \in (k * (b - 1))..Len(rows)
    BY <2>3 DEF EndOf, k
  <2>6. k * (b - 1) \in 0..Len(rows)
    BY <2>3
  <2>7. 1 \in 1..(Len(rows) + 1) /\ k * (b - 1) \in (1 - 1)..Len(rows)
    BY <2>6
  <2>8. SubSeq(rows, 1, k * (b - 1)) \o SubSeq(rows, k * (b - 1) + 1, EndOf(rows, b))
          = SubSeq(rows, 1, EndOf(rows, b))
    BY <2>5, <2>7, ConcatAdjacentSubSeq
  <2>9. QED
    BY <2>4, <2>8 DEF Part, k
<1>4. SubSeq(rows, 1, EndOf(rows, 1)) = Part(rows, 1)
  <2>1. k * (1 - 1) + 1 = 1
    BY <1>0
  <2>2. QED
    BY <2>1 DEF Part, k
<1>5. ASSUME NEW b \in 1..n
      PROVE  f[b] = IF b = 1 THEN [x \in 1..n |-> Part(rows, x)][b]
                    ELSE f[b - 1] \o [x \in 1..n |-> Part(rows, x)][b]
  <2>1. CASE b = 1
    BY <1>4, <2>1
  <2>2. CASE b # 1
    <3>1. b - 1 \in 1..n
      BY <1>1, <2>2
    <3>2. f[b] = SubSeq(rows, 1, EndOf(rows, b)) /\ f[b - 1] = SubSeq(rows, 1, EndOf(rows, b - 1))
      BY <3>1
    <3>3. QED
      BY <1>3, <2>2, <3>2
  <2>3. QED
    BY <2>1, <2>2
<1>6. IsJoin(f, [b \in 1..n |-> Part(rows, b)], n)
  BY <1>5 DEF IsJoin
<1>7. SubSeq(rows, 1, EndOf(rows, n)) = rows
  BY <1>2, SubSeqFull
<1>8. QED
  BY <1>1, <1>6, <1>7 DEF n

\* All blocks, read row by row, are the rows they were made of.
LEMMA ReadBack ==
  ASSUME loaded \in Tables, NEW rows \in Rows, Len(rows) \in Nat \ {0}, NEW bs, bs = Chunks(rows)
  PROVE  FlattenSeq([b \in DOMAIN bs |-> RowsOf(bs[b])]) = rows
<1> DEFINE n == BlocksOf(rows)
           parts == [b \in 1..n |-> Part(rows, b)]
<1>1. /\ n \in Nat \ {0}
      /\ IsJoin([b \in 1..n |-> SubSeq(rows, 1, EndOf(rows, b))], parts, n)
      /\ SubSeq(rows, 1, EndOf(rows, n)) = rows
  BY PartsJoin DEF Rows
<1>2. DOMAIN bs = 1..n
  BY ChunksAre
<1>3. \A b \in 1..n : RowsOf(bs[b]) = Part(rows, b)
  BY <1>1, RowsOfPart
<1>4. [b \in DOMAIN bs |-> RowsOf(bs[b])] = parts
  BY <1>2, <1>3
<1>5. parts \in Seq(Seq([Columns -> I64]))
  <2>1. \A b \in 1..n : Part(rows, b) \in Seq([Columns -> I64])
    BY <1>1, PartType DEF Rows
  <2>2. QED
    BY <1>1, <2>1, IsASeq
<1>6. DOMAIN parts = 1..n /\ Len(parts) = n
  BY <1>1, <1>5
<1> HIDE DEF n, parts
<1>7. FlattenSeq(parts) = [b \in 1..n |-> SubSeq(rows, 1, EndOf(rows, b))][n]
  BY <1>1, <1>6, FlattenIs
<1>8. FlattenSeq(parts) = rows
  BY <1>1, <1>7
<1>9. QED
  BY <1>4, <1>8

-----------------------------------------------------------------------------
(* Zone maps.                                                               *)

\* The zone map of some values encloses them.
LEMMA ZoneEncloses ==
  ASSUME NEW data, \A i \in DOMAIN data : data[i] \in I64
  PROVE  /\ Build(data).min \in Int /\ Build(data).max \in Int
         /\ \A i \in DOMAIN data : data[i] \in Build(data).min..Build(data).max
<1> DEFINE A == Range(data) \cup {I64Max}
           B == Range(data) \cup {I64Min}
           lb == IF I64Min < I64Max THEN I64Min ELSE I64Max
           ub == IF I64Min < I64Max THEN I64Max ELSE I64Min
<1>1. I64Min \in Int /\ I64Max \in Int /\ lb \in Int /\ ub \in Int
  BY Bounds
<1>2. \A v \in Range(data) : v \in Int /\ I64Min <= v /\ v <= I64Max
  BY <1>1 DEF Range, I64
<1>3. \A v \in A : v \in Int /\ v >= lb
  BY <1>1, <1>2
<1>4. \A v \in B : v \in Int /\ v <= ub
  BY <1>1, <1>2
<1>5. A # {} /\ B # {} /\ Range(data) \subseteq A /\ Range(data) \subseteq B
  OBVIOUS
<1>6. Build(data).min = Min(A) /\ Build(data).max = Max(B)
  BY DEF Build
<1> HIDE DEF A, B, lb, ub
<1>7. Min(A) \in Int /\ \A v \in A : Min(A) <= v
  BY <1>1, <1>3, <1>5, Least
<1>8. Max(B) \in Int /\ \A v \in B : Max(B) >= v
  BY <1>1, <1>4, <1>5, Greatest
<1>9. \A i \in DOMAIN data : data[i] \in Range(data)
  BY DEF Range
<1>10. QED
  BY <1>2, <1>5, <1>6, <1>7, <1>8, <1>9

-----------------------------------------------------------------------------
(* The curve.                                                               *)

LEMMA KeyBounds ==
  /\ KeyMax \in Nat \ {0} /\ KeyMax <= I64Max /\ 2^KeyBits = KeyMax + 1
  /\ I64Min \in Int /\ I64Max \in Nat /\ I64Min <= 0
<1>1. KeyMax \in Int /\ 1 <= KeyMax /\ KeyMax <= I64Max /\ I64Max \in Int
  BY KeysAssumption, LiquidTableAssumption, Bounds DEF KeyMax
<1>2. 2^KeyBits = KeyMax + 1
  BY LiquidTableAssumption DEF KeyMax
<1>3. I64Min = -(I64Max + 1)
  BY WordsAssumption DEF I64Min, I64Max
<1>4. QED
  BY <1>1, <1>2, <1>3

LEMMA WrapKeeps ==
  ASSUME NEW x \in I64Min..I64Max
  PROVE  Wrap(x) = x
BY KeyBounds DEF Wrap

\* f spreads the bits of the numbers up to k.
IsSpread(f, k) == f = [x \in 0..k |-> IF x = 0 THEN 0 ELSE (x % 2) + 4 * f[x \div 2]]
Spreads(k) == \E f : IsSpread(f, k)

LEMMA SpreadExtends ==
  ASSUME NEW k \in Nat, Spreads(k)
  PROVE  Spreads(k + 1)
<1>1. PICK f : IsSpread(f, k)
  BY DEF Spreads
<1> DEFINE new == ((k + 1) % 2) + 4 * f[(k + 1) \div 2]
           g == [x \in 0..(k + 1) |-> IF x = k + 1 THEN new ELSE f[x]]
<1>2. /\ g[k + 1] = new
      /\ \A x \in 0..k : g[x] = f[x]
  <2>1. k + 1 \in 0..(k + 1) /\ \A x \in 0..k : x \in 0..(k + 1) /\ x # k + 1
    OBVIOUS
  <2> HIDE DEF new
  <2>2. QED
    BY <2>1, Zenon
<1>3. g = [x \in 0..(k + 1) |-> g[x]]
  OBVIOUS
<1>4. \A x \in 0..k : f[x] = IF x = 0 THEN 0 ELSE (x % 2) + 4 * f[x \div 2]
  BY <1>1 DEF IsSpread
<1> HIDE DEF g
<1>5. ASSUME NEW x \in 0..(k + 1)
      PROVE  g[x] = IF x = 0 THEN 0 ELSE (x % 2) + 4 * g[x \div 2]
  <2>1. CASE x = k + 1
    <3>1. x # 0 /\ x \div 2 \in 0..k
      BY <2>1
    <3>2. QED
      BY <1>2, <2>1, <3>1
  <2>2. CASE x # k + 1
    <3>1. x \in 0..k /\ x \div 2 \in 0..k
      BY <2>2
    <3>2. QED
      BY <1>2, <1>4, <3>1
  <2>3. QED
    BY <2>1, <2>2
<1>6. IsSpread(g, k + 1)
  BY <1>3, <1>5 DEF IsSpread
<1>7. QED
  BY <1>6 DEF Spreads

LEMMA SpreadExists ==
  ASSUME NEW n \in Nat
  PROVE  Spreads(n)
<1> DEFINE Bad == {k \in 0..n : ~Spreads(k)}
<1>1. Spreads(0)
  <2> DEFINE f == [x \in 0..0 |-> 0]
  <2>1. f = [x \in 0..0 |-> IF x = 0 THEN 0 ELSE (x % 2) + 4 * f[x \div 2]]
    OBVIOUS
  <2> HIDE DEF f
  <2>2. QED
    BY <2>1 DEF Spreads, IsSpread
<1>2. SUFFICES ASSUME Bad # {} PROVE FALSE
  OBVIOUS
<1>3. Bad \subseteq Nat
  OBVIOUS
<1>4. PICK k \in Bad : \A j \in Bad : k <= j
  <2> HIDE DEF Bad
  <2>1. QED
    BY <1>2, <1>3, LeastNat
<1>5. k \in 0..n /\ ~Spreads(k) /\ k # 0
  BY <1>1
<1>6. k - 1 \in Nat /\ k - 1 \in 0..n /\ (k - 1) + 1 = k
  BY <1>5
<1>7. k - 1 \notin Bad
  BY <1>4, <1>6
<1>8. Spreads(k - 1)
  BY <1>6, <1>7
<1>9. QED
  BY <1>5, <1>6, <1>8, SpreadExtends

LEMMA SpreadIs ==
  \A x \in 0..KeyMax : Spread[x] = IF x = 0 THEN 0 ELSE (x % 2) + 4 * Spread[x \div 2]
<1>1. PICK f : IsSpread(f, KeyMax)
  BY KeyBounds, SpreadExists DEF Spreads
<1>2. Spread = [x \in 0..KeyMax |-> IF x = 0 THEN 0 ELSE (x % 2) + 4 * Spread[x \div 2]]
  BY <1>1 DEF Spread, IsSpread
<1>3. QED
  BY <1>2

LEMMA SpreadType == \A x \in 0..KeyMax : Spread[x] \in Nat
<1> DEFINE Bad == {x \in 0..KeyMax : Spread[x] \notin Nat}
<1>1. SUFFICES ASSUME Bad # {} PROVE FALSE
  OBVIOUS
<1>2. Bad \subseteq Nat
  BY KeyBounds
<1>3. PICK x \in Bad : \A y \in Bad : x <= y
  <2> HIDE DEF Bad
  <2>1. QED
    BY <1>1, <1>2, LeastNat
<1>4. x \in 0..KeyMax /\ Spread[x] \notin Nat /\ x # 0
  BY SpreadIs, KeyBounds
<1>5. x \div 2 \in 0..KeyMax /\ x \div 2 < x
  BY <1>4, KeyBounds
<1>6. Spread[x \div 2] \in Nat
  BY <1>3, <1>4, <1>5, KeyBounds
<1>7. x % 2 \in Nat
  BY <1>4, KeyBounds
<1>8. QED
  BY <1>4, <1>6, <1>7, SpreadIs

\* Spreading keeps the order: the highest bit in which two numbers differ decides.
LEMMA SpreadIncreases ==
  \A y \in 0..KeyMax : \A x \in 0..(y - 1) : Spread[x] < Spread[y]
<1> DEFINE Bad == {y \in 0..KeyMax : ~(\A x \in 0..(y - 1) : Spread[x] < Spread[y])}
<1>1. SUFFICES ASSUME Bad # {} PROVE FALSE
  OBVIOUS
<1>2. Bad \subseteq Nat
  BY KeyBounds
<1>3. PICK y \in Bad : \A z \in Bad : y <= z
  <2> HIDE DEF Bad
  <2>1. QED
    BY <1>1, <1>2, LeastNat
<1>4. PICK x \in 0..(y - 1) : ~(Spread[x] < Spread[y])
  OBVIOUS
<1>5. y \in 0..KeyMax /\ y \in Nat /\ y # 0 /\ x \in 0..KeyMax /\ x < y
  BY <1>4, KeyBounds
<1> DEFINE hx == x \div 2
           hy == y \div 2
<1>6. /\ hx \in 0..KeyMax /\ hy \in 0..KeyMax /\ hx <= hy /\ hy < y
      /\ x = 2 * hx + (x % 2) /\ y = 2 * hy + (y % 2) /\ x % 2 \in 0..1 /\ y % 2 \in 0..1
  BY <1>5, KeyBounds
<1>7. hy \notin Bad
  BY <1>3, <1>5, <1>6
<1>8. \A z \in 0..(hy - 1) : Spread[z] < Spread[hy]
  BY <1>6, <1>7
<1>9. Spread[y] = (y % 2) + 4 * Spread[hy]
  BY <1>5, SpreadIs
<1>10. Spread[x] = IF x = 0 THEN 0 ELSE (x % 2) + 4 * Spread[hx]
  BY <1>5, SpreadIs
<1>11. Spread[hx] \in Nat /\ Spread[hy] \in Nat /\ Spread[0] = 0
  BY <1>6, SpreadType, SpreadIs, KeyBounds
<1> HIDE DEF hx, hy, Bad
<1>12. hx < hy => Spread[hx] < Spread[hy]
  BY <1>6, <1>8, KeyBounds
<1>13. x # 0 \/ hx = 0
  BY <1>6, KeyBounds DEF hx
<1>14. Spread[x] = (x % 2) + 4 * Spread[hx]
  BY <1>6, <1>10, <1>11, <1>13
<1>15. Spread[x] < Spread[y]
  <2>1. CASE hx < hy
    BY <1>6, <1>9, <1>11, <1>12, <1>14, <2>1
  <2>2. CASE hx = hy
    BY <1>5, <1>6, <1>9, <1>11, <1>14, <2>2
  <2>3. QED
    BY <1>6, <2>1, <2>2, KeyBounds
<1>16. QED
  BY <1>4, <1>15

\* A point that is at least another in both keys, and beyond it in one, lies behind it.
LEMMA ZorderIncreases ==
  ASSUME NEW a \in 0..KeyMax, NEW b \in 0..KeyMax, NEW x \in 0..KeyMax, NEW y \in 0..KeyMax,
         a <= x, b <= y, a < x \/ b < y
  PROVE  Zorder(a, b) \in Nat /\ Zorder(x, y) \in Nat /\ Zorder(a, b) < Zorder(x, y)
<1>1. /\ Spread[a] \in Nat /\ Spread[b] \in Nat /\ Spread[x] \in Nat /\ Spread[y] \in Nat
  BY SpreadType
<1>2. (a < x => Spread[a] < Spread[x]) /\ (b < y => Spread[b] < Spread[y])
  BY SpreadIncreases, KeyBounds
<1>3. (a = x => Spread[a] = Spread[x]) /\ (b = y => Spread[b] = Spread[y])
  OBVIOUS
<1>4. (a < x \/ a = x) /\ (b < y \/ b = y)
  BY KeyBounds
<1>5. QED
  BY <1>1, <1>2, <1>3, <1>4 DEF Zorder

\* Values that are apart by no more than the keys are scaled to different keys.
LEMMA ScaleIncreases ==
  ASSUME NEW k \in Nat \ {0}, NEW span \in 1..k, NEW x \in 0..span, NEW y \in 0..span
  PROVE  /\ (x * k) \div span \in 0..k
         /\ x < y => (x * k) \div span < (y * k) \div span
<1>1. span \in Nat \ {0} /\ span <= k /\ x \in Nat /\ y \in Nat /\ x <= span /\ y <= span
  OBVIOUS
<1> DEFINE p == x * k
           q == y * k
<1>2. p \in Nat /\ q \in Nat /\ p <= span * k
  BY <1>1
<1>3. x < y => q >= p + span
  <2> SUFFICES ASSUME x < y PROVE q >= p + span
    OBVIOUS
  <2>1. y >= x + 1
    BY <1>1
  <2>2. y * k >= (x + 1) * k
    BY <1>1, <2>1
  <2>3. (x + 1) * k = p + k
    BY <1>1
  <2>4. QED
    BY <1>1, <1>2, <2>2, <2>3
<1> HIDE DEF p, q
<1>4. p \div span \in Nat /\ span * (p \div span) <= p /\ p < span * (p \div span) + span
  BY <1>1, <1>2
<1>5. q \div span \in Nat /\ q < span * (q \div span) + span
  BY <1>1, <1>2
<1>6. p \div span <= k
  <2> DEFINE d == p \div span
  <2>1. SUFFICES ASSUME d >= k + 1 PROVE FALSE
    BY <1>4
  <2> HIDE DEF d
  <2>2. d \in Nat /\ span * d <= span * k
    BY <1>1, <1>2, <1>4 DEF d
  <2>3. span * d >= span * (k + 1)
    BY <1>1, <2>1, <2>2
  <2>4. span * (k + 1) = span * k + span
    BY <1>1
  <2>5. QED
    BY <1>1, <2>2, <2>3, <2>4
<1>7. x < y => p \div span < q \div span
  <2> DEFINE d == p \div span
             e == q \div span
  <2> HIDE DEF d, e
  <2>1. SUFFICES ASSUME x < y, e <= d PROVE FALSE
    BY <1>4, <1>5 DEF d, e
  <2>2. d \in Nat /\ e \in Nat /\ span * d <= p /\ q < span * e + span
    BY <1>4, <1>5 DEF d, e
  <2>3. span * e <= span * d
    BY <1>1, <2>1, <2>2
  <2>4. QED
    BY <1>1, <1>2, <1>3, <2>1, <2>2, <2>3
<1>8. QED
  BY <1>4, <1>6, <1>7 DEF p, q

\* The bounds of a column that is not empty are values of it.
LEMMA ZoneAttained ==
  ASSUME NEW data, \A i \in DOMAIN data : data[i] \in I64, DOMAIN data # {}
  PROVE  /\ \E i \in DOMAIN data : Build(data).min = data[i]
         /\ \E i \in DOMAIN data : Build(data).max = data[i]
<1> DEFINE A == Range(data) \cup {I64Max}
           B == Range(data) \cup {I64Min}
<1>1. Build(data).min = Min(A) /\ Build(data).max = Max(B)
  BY DEF Build
<1>2. \A v \in Range(data) : v \in Int /\ I64Min <= v /\ v <= I64Max
  BY KeyBounds DEF Range, I64
<1>3. \A v \in A : v \in Int /\ v >= I64Min
  BY <1>2, KeyBounds
<1>4. \A v \in B : v \in Int /\ v <= I64Max
  BY <1>2, KeyBounds
<1>5. PICK k \in DOMAIN data : TRUE
  OBVIOUS
<1>6. data[k] \in Range(data)
  BY DEF Range
<1>7. A # {} /\ B # {} /\ data[k] \in A /\ data[k] \in B
  BY <1>6
<1>8. \A v \in A : v \in Range(data) \/ v = I64Max
  OBVIOUS
<1>9. \A v \in B : v \in Range(data) \/ v = I64Min
  OBVIOUS
<1> HIDE DEF A, B
<1>10. Min(A) \in A /\ Min(A) <= data[k]
  BY <1>3, <1>7, KeyBounds, Least
<1>11. Max(B) \in B /\ Max(B) >= data[k]
  BY <1>4, <1>7, KeyBounds, Greatest
<1>12. Min(A) \in Range(data)
  BY <1>2, <1>3, <1>6, <1>8, <1>10, KeyBounds
<1>13. Max(B) \in Range(data)
  BY <1>2, <1>4, <1>6, <1>9, <1>11, KeyBounds
<1>14. QED
  BY <1>1, <1>12, <1>13 DEF Range

\* The values of a column are apart by no more than the keys.
Fits(rows, c) == \A i, j \in DOMAIN rows : rows[i][c] - rows[j][c] \in -KeyMax..KeyMax

LEMMA NormIncreases ==
  ASSUME NEW rows, NEW c, \A i \in DOMAIN rows : rows[i][c] \in I64, Fits(rows, c),
         NEW i \in DOMAIN rows, NEW j \in DOMAIN rows
  PROVE  /\ Norm(rows, c, rows[i][c]) \in 0..KeyMax
         /\ rows[i][c] < rows[j][c] => Norm(rows, c, rows[i][c]) < Norm(rows, c, rows[j][c])
         /\ rows[i][c] = rows[j][c] => Norm(rows, c, rows[i][c]) = Norm(rows, c, rows[j][c])
<1> DEFINE data == [x \in DOMAIN rows |-> rows[x][c]]
           zone == Build(data)
           lo == zone.min
           hi == zone.max
           d == hi - lo
           span == IF d > 1 THEN d ELSE 1
<1>1. DOMAIN data = DOMAIN rows /\ \A x \in DOMAIN rows : data[x] = rows[x][c]
  OBVIOUS
<1> HIDE DEF data
<1>2. \A x \in DOMAIN data : data[x] \in I64
  BY <1>1
<1>3. /\ lo \in Int /\ hi \in Int
      /\ \A x \in DOMAIN rows : rows[x][c] \in Int /\ lo <= rows[x][c] /\ rows[x][c] <= hi
  <2>1. lo \in Int /\ hi \in Int /\ \A x \in DOMAIN data : data[x] \in lo..hi
    BY <1>2, ZoneEncloses
  <2> HIDE DEF zone
  <2>2. QED
    BY <1>1, <2>1
<1>4. PICK a \in DOMAIN rows : lo = rows[a][c]
  BY <1>1, <1>2, ZoneAttained
<1>5. PICK b \in DOMAIN rows : hi = rows[b][c]
  BY <1>1, <1>2, ZoneAttained
<1> HIDE DEF zone
<1>6. d \in 0..KeyMax
  BY <1>3, <1>4, <1>5, KeyBounds DEF Fits
<1>7. Wrap(hi - lo) = d
  BY <1>6, KeyBounds, WrapKeeps
<1>8. span \in 1..KeyMax
  BY <1>6, KeyBounds
<1>9. ASSUME NEW x \in DOMAIN rows
      PROVE  /\ rows[x][c] - lo \in 0..span
             /\ Norm(rows, c, rows[x][c]) = ((rows[x][c] - lo) * KeyMax) \div span
             /\ Norm(rows, c, rows[x][c]) \in 0..KeyMax
  <2> DEFINE v == rows[x][c]
  <2>1. v - lo \in 0..span
    BY <1>3, <1>6, KeyBounds
  <2>2. Wrap(v - lo) = v - lo
    <3>1. v - lo \in I64Min..I64Max
      BY <1>8, <2>1, KeyBounds
    <3>2. QED
      BY <3>1, WrapKeeps
  <2> DEFINE key == ((v - lo) * KeyMax) \div span
  <2>3. key \in 0..KeyMax
    <3> HIDE DEF span
    <3>1. QED
      BY <1>8, <2>1, KeyBounds, ScaleIncreases
  <2>4. Norm(rows, c, v) = IF key < 0 THEN 0 ELSE IF key > KeyMax THEN KeyMax ELSE key
    BY <1>7, <2>2 DEF Norm, data, zone
  <2> HIDE DEF key
  <2>5. Norm(rows, c, v) = key /\ key \in 0..KeyMax
    BY <2>3, <2>4, KeyBounds
  <2>6. QED
    BY <2>1, <2>5 DEF key
<1> DEFINE u == rows[i][c] - lo
           w == rows[j][c] - lo
<1>10. rows[i][c] < rows[j][c] => u < w
  BY <1>3
<1>11. u \in 0..span /\ w \in 0..span
  BY <1>9
<1> HIDE DEF u, w, span
<1>12. u < w => (u * KeyMax) \div span < (w * KeyMax) \div span
  BY <1>8, <1>11, KeyBounds, ScaleIncreases
<1>13. QED
  BY <1>9, <1>10, <1>12 DEF u, w

\* The column c of rows of TableInv holds numbers.
LEMMA RowValues ==
  ASSUME NEW rows \in Rows, NEW i \in DOMAIN rows, NEW c \in Columns
  PROVE  rows[i][c] \in I64
<1>1. rows[i] \in [Columns -> I64]
  BY DEF Rows
<1>2. QED
  BY <1>1

LEMMA CurveIncreases ==
  ASSUME NEW rows \in Rows, NEW n \in {1, 2}, NEW keys \in [1..n -> Columns],
         \A c \in Range(keys) : Fits(rows, c),
         NEW i \in DOMAIN rows, NEW j \in DOMAIN rows,
         \A c \in Range(keys) : rows[j][c] <= rows[i][c],
         \E c \in Range(keys) : rows[j][c] < rows[i][c]
  PROVE  /\ CurvePosition(rows, keys, rows[i]) \in Int
         /\ CurvePosition(rows, keys, rows[j]) \in Int
         /\ CurvePosition(rows, keys, rows[j]) < CurvePosition(rows, keys, rows[i])
<1> DEFINE N(k, x) == Norm(rows, keys[k], rows[x][keys[k]])
<1>1. \A k \in 1..n : keys[k] \in Range(keys) /\ keys[k] \in Columns
  BY DEF Range
<1>2. \A c \in Range(keys) : \E k \in 1..n : c = keys[k]
  BY DEF Range
<1>3. ASSUME NEW k \in 1..n
      PROVE  /\ N(k, i) \in 0..KeyMax /\ N(k, j) \in 0..KeyMax
             /\ rows[j][keys[k]] < rows[i][keys[k]] => N(k, j) < N(k, i)
             /\ N(k, j) <= N(k, i)
  <2> DEFINE c == keys[k]
  <2>1. c \in Columns /\ Fits(rows, c) /\ rows[j][c] <= rows[i][c]
    BY <1>1
  <2> HIDE DEF c
  <2>2. \A x \in DOMAIN rows : rows[x][c] \in I64
    BY <2>1, RowValues
  <2>3. /\ Norm(rows, c, rows[i][c]) \in 0..KeyMax /\ Norm(rows, c, rows[j][c]) \in 0..KeyMax
        /\ rows[j][c] < rows[i][c] => Norm(rows, c, rows[j][c]) < Norm(rows, c, rows[i][c])
        /\ rows[j][c] = rows[i][c] => Norm(rows, c, rows[j][c]) = Norm(rows, c, rows[i][c])
    BY <2>1, <2>2, NormIncreases
  <2>4. rows[i][c] \in Int /\ rows[j][c] \in Int
    BY <2>2, Bounds DEF I64
  <2>5. Norm(rows, c, rows[j][c]) <= Norm(rows, c, rows[i][c])
    BY <2>1, <2>3, <2>4, KeyBounds
  <2>6. QED
    BY <2>3, <2>5 DEF c
<1>4. PICK s \in 1..n : rows[j][keys[s]] < rows[i][keys[s]]
  BY <1>2
<1> HIDE DEF N
<1>5. N(s, j) < N(s, i)
  BY <1>3, <1>4
<1>6. DOMAIN keys = 1..n /\ Len(keys) = n
  <2>1. n \in Nat
    OBVIOUS
  <2>2. QED
    BY <2>1, LenProperties
<1>7. CASE n = 1
  <2>1. \A x \in {i, j} : CurvePosition(rows, keys, rows[x]) = N(1, x) * (KeyMax + 1)
    BY <1>6, <1>7, KeyBounds DEF CurvePosition, N
  <2>2. s = 1 /\ N(1, i) \in Nat /\ N(1, j) \in Nat /\ N(1, j) < N(1, i)
    BY <1>3, <1>5, <1>7, KeyBounds
  <2> DEFINE a == N(1, j)
             b == N(1, i)
             m == KeyMax + 1
  <2>3. m \in Nat \ {0}
    BY KeyBounds
  <2>4. a \in Nat /\ b \in Nat /\ a < b
    BY <2>2
  <2> HIDE DEF a, b, m
  <2>5. a * m \in Nat /\ b * m \in Nat /\ a * m < b * m
    BY <2>3, <2>4
  <2>6. QED
    BY <2>1, <2>5 DEF a, b, m
<1>8. CASE n = 2
  <2>1. \A x \in {i, j} : CurvePosition(rows, keys, rows[x]) = Zorder(N(1, x), N(2, x))
    BY <1>6, <1>8 DEF CurvePosition, N
  <2>2. /\ N(1, i) \in 0..KeyMax /\ N(2, i) \in 0..KeyMax
        /\ N(1, j) \in 0..KeyMax /\ N(2, j) \in 0..KeyMax
        /\ N(1, j) <= N(1, i) /\ N(2, j) <= N(2, i)
    BY <1>3, <1>8
  <2>3. s = 1 \/ s = 2
    BY <1>8
  <2>4. N(1, j) < N(1, i) \/ N(2, j) < N(2, i)
    BY <1>5, <2>3
  <2>5. QED
    BY <2>1, <2>2, <2>4, ZorderIncreases
<1>9. QED
  BY <1>7, <1>8

LEMMA CurveType ==
  ASSUME NEW rows \in Rows, NEW n \in {1, 2}, NEW keys \in [1..n -> Columns],
         \A c \in Range(keys) : Fits(rows, c), NEW i \in DOMAIN rows
  PROVE  CurvePosition(rows, keys, rows[i]) \in Int
<1>1. ASSUME NEW k \in 1..n PROVE Norm(rows, keys[k], rows[i][keys[k]]) \in 0..KeyMax
  <2> DEFINE c == keys[k]
  <2>1. c \in Columns /\ Fits(rows, c)
    BY DEF Range
  <2> HIDE DEF c
  <2>2. \A x \in DOMAIN rows : rows[x][c] \in I64
    BY <2>1, RowValues
  <2>3. Norm(rows, c, rows[i][c]) \in 0..KeyMax
    BY <2>1, <2>2, NormIncreases
  <2>4. QED
    BY <2>3 DEF c
<1>2. DOMAIN keys = 1..n /\ Len(keys) = n
  <2>1. n \in Nat
    OBVIOUS
  <2>2. QED
    BY <2>1, LenProperties
<1>3. CASE n = 1
  <2>1. CurvePosition(rows, keys, rows[i]) = Norm(rows, keys[1], rows[i][keys[1]]) * (KeyMax + 1)
    BY <1>2, <1>3, KeyBounds DEF CurvePosition
  <2>2. Norm(rows, keys[1], rows[i][keys[1]]) \in 0..KeyMax
    BY <1>1, <1>3
  <2>3. QED
    BY <2>1, <2>2, KeyBounds
<1>4. CASE n = 2
  <2>1. CurvePosition(rows, keys, rows[i]) =
          Zorder(Norm(rows, keys[1], rows[i][keys[1]]), Norm(rows, keys[2], rows[i][keys[2]]))
    BY <1>2, <1>4 DEF CurvePosition
  <2>2. /\ Norm(rows, keys[1], rows[i][keys[1]]) \in 0..KeyMax
        /\ Norm(rows, keys[2], rows[i][keys[2]]) \in 0..KeyMax
    BY <1>1, <1>4
  <2>3. QED
    BY <2>1, <2>2, SpreadType DEF Zorder
<1>5. QED
  BY <1>3, <1>4

\* What ascends from each place to the next ascends.
LEMMA Ascending ==
  ASSUME NEW n \in Nat, NEW f, \A i \in 1..n : f[i] \in Int,
         \A i \in 1..(n - 1) : f[i] <= f[i + 1]
  PROVE  \A i, j \in 1..n : i <= j => f[i] <= f[j]
<1> SUFFICES ASSUME NEW i \in 1..n PROVE \A j \in 1..n : i <= j => f[i] <= f[j]
  OBVIOUS
<1> DEFINE Bad == {j \in 1..n : i <= j /\ ~(f[i] <= f[j])}
<1>1. SUFFICES ASSUME Bad # {} PROVE FALSE
  OBVIOUS
<1>2. Bad \subseteq Nat
  OBVIOUS
<1>3. PICK j \in Bad : \A k \in Bad : j <= k
  <2> HIDE DEF Bad
  <2>1. QED
    BY <1>1, <1>2, LeastNat
<1>4. j \in 1..n /\ i < j /\ ~(f[i] <= f[j])
  OBVIOUS
<1>5. j - 1 \in 1..n /\ i <= j - 1 /\ j - 1 \in 1..(n - 1) /\ (j - 1) + 1 = j
  BY <1>4
<1>6. f[i] <= f[j - 1]
  BY <1>3, <1>5
<1>7. f[j - 1] <= f[j]
  BY <1>5
<1>8. f[i] \in Int /\ f[j] \in Int /\ f[j - 1] \in Int
  BY <1>4, <1>5
<1>9. QED
  BY <1>4, <1>6, <1>7, <1>8

\* Rows sorted by columns whose values fit the keys lie along the curve.
Behind(rows, cols, i, j) ==
  /\ \A c \in cols : rows[j][c] <= rows[i][c]
  /\ \E c \in cols : rows[j][c] < rows[i][c]

LEMMA SortedAlong ==
  ASSUME NEW rows \in Rows, NEW n \in {1, 2}, NEW keys \in [1..n -> Columns],
         NEW new \in Sorted(rows, keys), \A c \in Range(keys) : Fits(new, c),
         NEW i \in DOMAIN new, NEW j \in DOMAIN new, i < j
  PROVE  ~Behind(new, Range(keys), i, j)
<1> DEFINE at == [x \in DOMAIN rows |-> CurvePosition(rows, keys, rows[x])]
<1>1. PICK p \in [DOMAIN rows -> DOMAIN rows] :
        /\ \A x \in 1..(Len(rows) - 1) : at[p[x]] <= at[p[x + 1]]
        /\ IsInjective(p)
        /\ new = [x \in DOMAIN rows |-> rows[p[x]]]
  BY Zenon DEF Sorted
<1>2. Len(rows) \in Nat /\ DOMAIN rows = 1..Len(rows)
  BY LenProperties DEF Rows
<1>3. \A t \in DOMAIN rows : \E s \in DOMAIN rows : p[s] = t
  <2>1. IsFiniteSet(DOMAIN rows)
    BY <1>2, FS_Interval
  <2>2. p \in Injection(DOMAIN rows, DOMAIN rows)
    BY <1>1 DEF Injection
  <2>3. p \in Surjection(DOMAIN rows, DOMAIN rows)
    BY <2>1, <2>2, FS_Injection
  <2>4. QED
    BY <2>3 DEF Surjection
<1>4. DOMAIN new = DOMAIN rows /\ \A x \in DOMAIN rows : new[x] = rows[p[x]] /\ p[x] \in DOMAIN rows
  BY <1>1
<1>5. ASSUME NEW c \in Range(keys) PROVE Fits(rows, c)
  <2> SUFFICES ASSUME NEW x \in DOMAIN rows, NEW y \in DOMAIN rows
               PROVE  rows[x][c] - rows[y][c] \in -KeyMax..KeyMax
    BY DEF Fits
  <2>1. PICK s \in DOMAIN rows : p[s] = x
    BY <1>3
  <2>2. PICK t \in DOMAIN rows : p[t] = y
    BY <1>3
  <2>3. new[s][c] - new[t][c] \in -KeyMax..KeyMax
    BY <1>4 DEF Fits
  <2>4. QED
    BY <1>4, <2>1, <2>2, <2>3
<1>6. \A x \in DOMAIN rows : at[x] \in Int
  BY <1>5, CurveType
<1> DEFINE f == [x \in 1..Len(rows) |-> at[p[x]]]
<1>7. \A x \in 1..Len(rows) : f[x] \in Int /\ f[x] = at[p[x]]
  BY <1>2, <1>4, <1>6
<1>8. \A x \in 1..(Len(rows) - 1) : f[x] <= f[x + 1]
  <2>1. \A x \in 1..(Len(rows) - 1) : x \in 1..Len(rows) /\ x + 1 \in 1..Len(rows)
    BY <1>2
  <2> HIDE DEF at
  <2>2. QED
    BY <1>1, <2>1
<1> HIDE DEF f
<1>9. f[i] <= f[j]
  <2>1. i \in 1..Len(rows) /\ j \in 1..Len(rows) /\ i <= j
    BY <1>2, <1>4
  <2>2. QED
    BY <1>2, <1>7, <1>8, <2>1, Ascending
<1>10. at[p[i]] <= at[p[j]]
  BY <1>2, <1>4, <1>7, <1>9
<1> DEFINE a == p[i]
           b == p[j]
<1>11. a \in DOMAIN rows /\ b \in DOMAIN rows /\ new[i] = rows[a] /\ new[j] = rows[b]
  BY <1>4
<1> HIDE DEF a, b
<1>12. /\ CurvePosition(rows, keys, rows[a]) <= CurvePosition(rows, keys, rows[b])
       /\ CurvePosition(rows, keys, rows[a]) \in Int /\ CurvePosition(rows, keys, rows[b]) \in Int
  BY <1>6, <1>10, <1>11 DEF a, b
<1>13. SUFFICES ASSUME Behind(new, Range(keys), i, j) PROVE FALSE
  OBVIOUS
<1>14. /\ \A c \in Range(keys) : rows[b][c] <= rows[a][c]
       /\ \E c \in Range(keys) : rows[b][c] < rows[a][c]
  BY <1>11, <1>13 DEF Behind
<1>15. CurvePosition(rows, keys, rows[b]) < CurvePosition(rows, keys, rows[a])
  BY <1>5, <1>11, <1>14, CurveIncreases
<1>16. QED
  BY <1>12, <1>15

-----------------------------------------------------------------------------
(* Reclustering.                                                            *)

\* The rows of the table in another order.
Rearranged(rows, orig) ==
  \E p \in [DOMAIN orig -> DOMAIN orig] :
    IsInjective(p) /\ rows = [i \in DOMAIN orig |-> orig[p[i]]]

FilterFits(filter) ==
  filter # <<>> => /\ filter[1].op \in CmpOps /\ filter[1].lit \in I64
                   /\ filter[1].col \in Columns

TableInv ==
  /\ loaded \in Tables
  /\ \E rows \in Rows : Rearranged(rows, loaded) /\ blocks = Chunks(rows)
  /\ zones = BuildZones(blocks)
  /\ run # Idle =>
       /\ run = [stmt |-> run.stmt, q |-> run.q, queue |-> run.queue, result |-> run.result,
                 done |-> run.done]
       /\ FilterFits(run.q.filter)

LEMMA InitTable == Init => TableInv
<1> SUFFICES ASSUME Init PROVE TableInv
  OBVIOUS
<1>1. loaded \in Tables /\ blocks = Chunks(loaded) /\ zones = BuildZones(blocks) /\ run = Idle
  BY DEF Init
<1>2. loaded \in Rows
  BY <1>1, FirstColumn
<1>3. Rearranged(loaded, loaded)
  <2> DEFINE p == [i \in DOMAIN loaded |-> i]
  <2>1. p \in [DOMAIN loaded -> DOMAIN loaded] /\ IsInjective(p)
    BY DEF IsInjective
  <2>2. loaded = [i \in DOMAIN loaded |-> loaded[p[i]]]
    BY <1>2 DEF Rows
  <2> HIDE DEF p
  <2>3. QED
    BY <2>1, <2>2 DEF Rearranged
<1>4. QED
  BY <1>1, <1>2, <1>3 DEF TableInv

\* Rows rearranged once more.
LEMMA RearrangedAgain ==
  ASSUME NEW a, NEW b, NEW c, Rearranged(b, a), Rearranged(c, b)
  PROVE  Rearranged(c, a)
<1>1. PICK p \in [DOMAIN a -> DOMAIN a] : IsInjective(p) /\ b = [i \in DOMAIN a |-> a[p[i]]]
  BY DEF Rearranged
<1>2. DOMAIN b = DOMAIN a
  BY <1>1
<1>3. PICK q \in [DOMAIN a -> DOMAIN a] : IsInjective(q) /\ c = [i \in DOMAIN a |-> b[q[i]]]
  BY <1>2 DEF Rearranged
<1> DEFINE r == [i \in DOMAIN a |-> p[q[i]]]
<1>4. r \in [DOMAIN a -> DOMAIN a]
  BY <1>1, <1>3
<1>5. IsInjective(r)
  BY <1>1, <1>3 DEF IsInjective
<1>6. c = [i \in DOMAIN a |-> a[r[i]]]
  BY <1>1, <1>3
<1> HIDE DEF r
<1>7. QED
  BY <1>4, <1>5, <1>6 DEF Rearranged

\* Rearranged rows are rows.
LEMMA RearrangedRows ==
  ASSUME NEW S, NEW a \in Seq(S), NEW b, Rearranged(b, a)
  PROVE  b \in Seq(S) /\ Len(b) = Len(a)
<1>1. PICK p \in [DOMAIN a -> DOMAIN a] : b = [i \in DOMAIN a |-> a[p[i]]]
  BY DEF Rearranged
<1>2. Len(a) \in Nat /\ DOMAIN a = 1..Len(a) /\ \A i \in DOMAIN a : a[i] \in S
  BY LenProperties
<1>3. b \in [1..Len(a) -> S]
  BY <1>1, <1>2
<1>4. QED
  BY <1>2, <1>3, LenProperties

LEMMA SortedRearranges ==
  ASSUME NEW S, NEW rows \in Seq(S), NEW keys, NEW new \in Sorted(rows, keys)
  PROVE  Rearranged(new, rows)
BY DEF Sorted, Rearranged

\* What the table holds, in terms of the rows of TableInv.
LEMMA HeldRows ==
  ASSUME TableInv
  PROVE  AllRows \in Rows /\ Rearranged(AllRows, loaded) /\ blocks = Chunks(AllRows)
<1>1. PICK rows \in Rows : Rearranged(rows, loaded) /\ blocks = Chunks(rows)
  BY DEF TableInv
<1>2. loaded \in Tables /\ loaded \in Rows /\ Len(loaded) \in Nat \ {0}
  BY FirstColumn DEF TableInv
<1>3. Len(rows) \in Nat \ {0}
  BY <1>1, <1>2, RearrangedRows DEF Rows
<1>4. AllRows = rows
  BY <1>1, <1>2, <1>3, ReadBack DEF AllRows
<1>5. QED
  BY <1>1, <1>4

LEMMA ReclusterTable ==
  ASSUME TableInv, Recluster
  PROVE  TableInv'
<1>1. run = Idle /\ run' = run /\ loaded' = loaded
  BY DEF Recluster, vars
<1>2. CASE UNCHANGED vars
  BY <1>2 DEF vars, TableInv, Rows, Columns, Chunks, FilterFits
<1>3. ASSUME NEW keys, NEW rows \in Sorted(AllRows, keys),
             blocks' = Chunks(rows), zones' = BuildZones(blocks')
      PROVE  TableInv'
  <2>1. AllRows \in Rows /\ Rearranged(AllRows, loaded)
    BY HeldRows
  <2>2. Rearranged(rows, AllRows)
    BY <1>3, <2>1, SortedRearranges DEF Rows
  <2>3. rows \in Rows /\ Rearranged(rows, loaded)
    BY <2>1, <2>2, RearrangedRows, RearrangedAgain DEF Rows
  <2>4. Rows' = Rows /\ Chunks(rows)' = Chunks(rows)
    BY <1>1 DEF Rows, Columns, Chunks
  <2>5. rows \in Rows' /\ Rearranged(rows, loaded') /\ blocks' = Chunks(rows)'
    BY <1>1, <1>3, <2>3, <2>4
  <2>6. loaded' \in Tables
    BY <1>1 DEF TableInv
  <2>7. QED
    BY <1>1, <1>3, <2>5, <2>6 DEF TableInv
<1>4. QED
  BY <1>2, <1>3 DEF Recluster

LEMMA NextTable == TableInv /\ [Next]_vars => TableInv'
<1> SUFFICES ASSUME TableInv, [Next]_vars PROVE TableInv'
  OBVIOUS
<1> DEFINE RunFits(r) ==
      r # Idle =>
        /\ r = [stmt |-> r.stmt, q |-> r.q, queue |-> r.queue, result |-> r.result, done |-> r.done]
        /\ FilterFits(r.q.filter)
<1>0. ASSUME UNCHANGED <<loaded, blocks, zones>>, RunFits(run') PROVE TableInv'
  BY <1>0 DEF TableInv, Rows, Columns, Chunks, FilterFits
<1>1. RunFits(run)
  BY DEF TableInv
<1>2. ASSUME NEW c \in Columns, RecordPredicate(c) PROVE TableInv'
  BY <1>0, <1>1, <1>2 DEF RecordPredicate
<1>3. CASE Recluster
  BY <1>3, ReclusterTable
<1>4. ASSUME NEW stmt \in Statements, Ask(stmt) PROVE TableInv'
  <2> DEFINE read == Understood(stmt.text)
  <2>1. /\ read.ok /\ UNCHANGED <<loaded, blocks, zones>>
        /\ run' = [stmt |-> <<stmt>>, q |-> read.q, queue |-> PrunedMorsels(read.q.filter),
                   result |-> PartialDefault, done |-> FALSE]
    BY <1>4 DEF Ask
  <2>2. FilterFits(read.q.filter)
    BY <2>1, StatementsAssumption DEF FilterFits, TableInv, Columns
  <2> HIDE DEF read
  <2>3. RunFits(run')
    BY <2>1, <2>2
  <2>4. QED
    BY <1>0, <2>1, <2>3
<1>5. ASSUME NEW mode \in Modes, RunMorsel(mode) PROVE TableInv'
  <2>1. /\ UNCHANGED <<loaded, blocks, zones>> /\ run # Idle
        /\ \E a, b : run' = [run EXCEPT !.queue = a, !.result = b]
    BY <1>5, Zenon DEF RunMorsel, Running
  <2>2. RunFits(run')
    BY <1>1, <2>1
  <2>3. QED
    BY <1>0, <2>1, <2>2
<1>6. CASE Answer
  <2>1. /\ UNCHANGED <<loaded, blocks, zones>> /\ run # Idle
        /\ \E a : run' = [run EXCEPT !.result = a, !.done = TRUE]
    BY <1>6, Zenon DEF Answer, Running
  <2>2. RunFits(run')
    BY <1>1, <2>1
  <2>3. QED
    BY <1>0, <2>1, <2>2
<1>7. CASE Done \/ UNCHANGED vars
  <2>1. UNCHANGED <<loaded, blocks, zones>> /\ (run' = Idle \/ run' = run)
    BY <1>7 DEF Done, vars
  <2>2. RunFits(run')
    BY <1>1, <2>1
  <2>3. QED
    BY <1>0, <2>1, <2>2
<1>8. QED
  BY <1>2, <1>3, <1>4, <1>5, <1>6, <1>7 DEF Next

LEMMA TableInvariant == Spec => []TableInv
BY InitTable, NextTable, PTL DEF Spec

\* The clustering keys are one or two columns that predicates were recorded for.
LEMMA KeysChosen ==
  ASSUME TableInv, DOMAIN predicate_hits \subseteq Columns, NEW keys \in ChooseKeys, keys # <<>>
  PROVE  \E n \in {1, 2} : keys \in [1..n -> Columns]
<1> DEFINE cols == DOMAIN predicate_hits
           n == IF Cardinality(cols) < 2 THEN Cardinality(cols) ELSE 2
<1>1. keys \in [1..n -> cols]
  BY DEF ChooseKeys
<1>2. Cardinality(cols) \in Nat
  <2>1. loaded[1] \in Seq(I64)
    <3>1. loaded \in Seq(Seq(I64)) /\ loaded # <<>>
      BY TablesAssumption DEF TableInv
    <3>2. QED
      BY <3>1, EmptySeq
  <2>2. IsFiniteSet(Columns)
    BY <2>1, LenProperties, FS_Interval DEF Columns
  <2>3. QED
    BY <2>2, FS_Subset, FS_CardinalityType
<1>3. n \in 0..2
  BY <1>2
<1> HIDE DEF n
<1>4. n # 0
  <2> SUFFICES ASSUME n = 0 PROVE FALSE
    OBVIOUS
  <2>1. keys \in [1..0 -> cols]
    BY <1>1
  <2>2. keys \in Seq(cols) /\ Len(keys) = 0
    BY <2>1, LenProperties
  <2>3. QED
    BY <2>2, EmptySeq
<1>5. QED
  BY <1>1, <1>3, <1>4

CurveInv ==
  /\ DOMAIN predicate_hits \subseteq Columns
  /\ AlongTheCurve

LEMMA InitCurve == Init => CurveInv
<1> SUFFICES ASSUME Init PROVE CurveInv
  OBVIOUS
<1>1. DOMAIN predicate_hits = {} /\ Range(cluster_keys) = {}
  BY DEF Init, Range
<1>2. AlongTheCurve
  BY <1>1, Zenon DEF AlongTheCurve
<1>3. QED
  BY <1>1, <1>2 DEF CurveInv

LEMMA NextCurve == TableInv /\ CurveInv /\ [Next]_vars => CurveInv'
<1> SUFFICES ASSUME TableInv, CurveInv, [Next]_vars PROVE CurveInv'
  OBVIOUS
<1>0. TableInv'
  BY NextTable
<1>1. ASSUME UNCHANGED <<loaded, blocks, cluster_keys, predicate_hits>> PROVE CurveInv'
  <2>1. AllRows' = AllRows
    BY <1>1 DEF AllRows, RowsOf
  <2>2. AlongTheCurve'
    BY <1>1, <2>1 DEF CurveInv, AlongTheCurve
  <2>3. (DOMAIN predicate_hits \subseteq Columns)'
    BY <1>1 DEF CurveInv, Columns
  <2>4. QED
    BY <2>2, <2>3 DEF CurveInv
<1>2. ASSUME NEW c \in Columns, RecordPredicate(c) PROVE CurveInv'
  <2>1. /\ UNCHANGED <<loaded, blocks, cluster_keys>>
        /\ DOMAIN predicate_hits' = DOMAIN predicate_hits \cup {c}
    BY <1>2 DEF RecordPredicate
  <2>2. (DOMAIN predicate_hits \subseteq Columns)'
    BY <2>1 DEF CurveInv, Columns
  <2>3. AlongTheCurve'
    BY <2>1 DEF CurveInv, AlongTheCurve, AllRows, RowsOf
  <2>4. QED
    BY <2>2, <2>3 DEF CurveInv
<1>3. CASE Recluster
  <2>1. CASE UNCHANGED vars
    BY <1>1, <2>1 DEF vars
  <2>2. ASSUME NEW keys \in ChooseKeys, keys # <<>>, NEW rows \in Sorted(AllRows, keys),
               blocks' = Chunks(rows), cluster_keys' = keys, UNCHANGED <<loaded, predicate_hits>>
        PROVE  CurveInv'
    <3>1. PICK n \in {1, 2} : keys \in [1..n -> Columns]
      BY <2>2, KeysChosen DEF CurveInv
    <3>2. AllRows \in Rows
      BY HeldRows
    <3>3. AllRows' = rows
      <4>1. Rearranged(rows, AllRows) /\ Rearranged(AllRows, loaded)
        BY <2>2, <3>2, HeldRows, SortedRearranges DEF Rows
      <4>2. rows \in Rows /\ Rearranged(rows, loaded)
        BY <3>2, <4>1, RearrangedRows, RearrangedAgain DEF Rows
      <4>3. loaded \in Tables /\ loaded \in Rows /\ Len(loaded) \in Nat \ {0}
        BY FirstColumn DEF TableInv
      <4>4. Len(rows) \in Nat \ {0}
        BY <4>2, <4>3, RearrangedRows DEF Rows
      <4>5. QED
        BY <2>2, <4>2, <4>3, <4>4, ReadBack DEF AllRows, RowsOf
    <3>4. \A c \in Range(keys) : Fits(rows, c) <=>
            \A i, j \in DOMAIN rows : rows[i][c] - rows[j][c] \in -KeyMax..KeyMax
      BY DEF Fits
    <3>5. AlongTheCurve'
      <4> SUFFICES ASSUME \A c \in Range(keys) : Fits(rows, c), NEW i \in DOMAIN rows,
                          NEW j \in DOMAIN rows, i < j
                   PROVE  ~Behind(rows, Range(keys), i, j)
        BY <2>2, <3>3 DEF AlongTheCurve, Fits, Behind
      <4>1. QED
        BY <2>2, <3>1, <3>2, SortedAlong
    <3>6. QED
      BY <2>2, <3>5 DEF CurveInv, Columns
  <2>3. QED
    BY <1>3, <2>1, <2>2 DEF Recluster
<1>4. ASSUME NEW stmt \in Statements, Ask(stmt) PROVE CurveInv'
  BY <1>1, <1>4 DEF Ask
<1>5. ASSUME NEW mode \in Modes, RunMorsel(mode) PROVE CurveInv'
  BY <1>1, <1>5 DEF RunMorsel
<1>6. CASE Answer
  BY <1>1, <1>6 DEF Answer
<1>7. CASE Done \/ UNCHANGED vars
  BY <1>1, <1>7 DEF Done, vars
<1>8. QED
  BY <1>2, <1>3, <1>4, <1>5, <1>6, <1>7 DEF Next

-----------------------------------------------------------------------------
(* The theorems.                                                            *)

\* The columns of the blocks hold numbers.
LEMMA BlockValues ==
  ASSUME TableInv, NEW b \in DOMAIN blocks
  PROVE  /\ DOMAIN blocks[b] = Columns /\ 1 \in Columns
         /\ \A c \in Columns : /\ DOMAIN blocks[b][c] = DOMAIN blocks[b][1]
                               /\ \A i \in DOMAIN blocks[b][c] : blocks[b][c][i] \in I64
<1>1. AllRows \in Rows /\ blocks = Chunks(AllRows)
  BY HeldRows
<1> DEFINE rows == AllRows
           part == Part(rows, b)
<1>2. 1 \in Columns /\ loaded \in Rows /\ Len(loaded) \in Nat \ {0}
  BY FirstColumn DEF TableInv
<1>3. Len(rows) \in Nat \ {0}
  BY <1>2, HeldRows, RearrangedRows DEF Rows
<1>4. b \in 1..BlocksOf(rows) /\ BlocksOf(rows) \in Nat
  BY <1>1, <1>3, ChunksAre, PartsJoin DEF Rows
<1>5. b \in Nat \ {0}
  BY <1>4
<1>6. blocks[b] = [c \in Columns |-> [i \in DOMAIN part |-> part[i][c]]]
  BY <1>1, <1>4, ChunksAre
<1>7. part \in Seq([Columns -> I64])
  BY <1>1, <1>5, PartType DEF Rows
<1> HIDE DEF part
<1>8. \A i \in DOMAIN part : part[i] \in [Columns -> I64]
  BY <1>7
<1>9. QED
  BY <1>2, <1>6, <1>8

\* A block that pruned_morsels leaves out holds no row that the filter lets through, also
\* after reclusterings that moved rows between blocks.
THEOREM PrunedBlocksAreUseless == Spec => []PrunedBlocksHoldNothing
<1>1. TableInv => PrunedBlocksHoldNothing
  <2> SUFFICES ASSUME TableInv, Running, NEW b \in DOMAIN blocks, run.q.filter # <<>>,
                      b \notin PrunedMorsels(run.q.filter), NEW i \in DOMAIN blocks[b][1]
               PROVE  ~Satisfies(blocks[b][run.q.filter[1].col][i], run.q.filter[1].op,
                                 run.q.filter[1].lit)
    BY Zenon DEF PrunedBlocksHoldNothing
  <2> DEFINE f == run.q.filter[1]
             data == blocks[b][f.col]
  <2>1. f.op \in CmpOps /\ f.lit \in Int /\ f.col \in Columns
    BY Bounds DEF TableInv, FilterFits, Running, I64
  <2>2. zones[b][f.col] = Build(data)
    BY <2>1, BlockValues DEF TableInv, BuildZones
  <2>3. BoundsPrune(f.op, Build(data).min, Build(data).max, f.lit)
    BY <2>2 DEF PrunedMorsels
  <2>4. i \in DOMAIN data /\ \A k \in DOMAIN data : data[k] \in I64
    BY <2>1, BlockValues
  <2> HIDE DEF f, data
  <2>5. /\ Build(data).min \in Int /\ Build(data).max \in Int
        /\ data[i] \in Build(data).min..Build(data).max
    BY <2>4, ZoneEncloses
  <2>6. ~Satisfies(data[i], f.op, f.lit)
    BY <2>1, <2>3, <2>5, SkippedHoldsNothing
  <2>7. QED
    BY <2>6 DEF f, data
<1>2. QED
  BY <1>1, TableInvariant, PTL

\* Rearranged rows are the same rows, each as often.
LEMMA SameBag ==
  ASSUME NEW S, NEW a \in Seq(S), NEW b, Rearranged(b, a)
  PROVE  RowBag(b) = RowBag(a)
<1> DEFINE D == DOMAIN a
           At(rows, r) == {i \in DOMAIN rows : rows[i] = r}
<1>1. PICK p \in [D -> D] : IsInjective(p) /\ b = [i \in D |-> a[p[i]]]
  BY DEF Rearranged
<1>2. IsFiniteSet(D)
  <2>1. Len(a) \in Nat /\ D = 1..Len(a)
    BY LenProperties
  <2>2. QED
    BY <2>1, FS_Interval
<1>3. p \in Injection(D, D)
  BY <1>1 DEF Injection
<1>4. \A t \in D : \E s \in D : p[s] = t
  <2>1. p \in Surjection(D, D)
    BY <1>2, <1>3, FS_Injection
  <2>2. QED
    BY <2>1 DEF Surjection
<1>5. DOMAIN b = D
  BY <1>1
<1>6. Range(b) = Range(a)
  BY <1>1, <1>4, <1>5 DEF Range
<1>7. ASSUME NEW r PROVE Cardinality(At(b, r)) = Cardinality(At(a, r))
  <2> DEFINE g == [i \in At(b, r) |-> p[i]]
  <2>1. g \in [At(b, r) -> At(a, r)]
    BY <1>1, <1>5
  <2>2. IsInjective(g)
    BY <1>1, <1>5 DEF IsInjective
  <2>3. \A t \in At(a, r) : \E s \in At(b, r) : g[s] = t
    BY <1>1, <1>4, <1>5
  <2>4. IsFiniteSet(At(b, r))
    BY <1>2, <1>5, FS_Subset
  <2> HIDE DEF g
  <2>5. g \in Bijection(At(b, r), At(a, r))
    BY <2>1, <2>2, <2>3 DEF Bijection, Injection, Surjection
  <2> HIDE DEF At
  <2>6. ExistsBijection(At(b, r), At(a, r))
    BY <2>5 DEF ExistsBijection
  <2>7. QED
    BY <2>4, <2>6, FS_Bijection
<1>8. QED
  BY <1>6, <1>7 DEF RowBag

\* However often a table is reclustered, along whatever columns and with whatever order among
\* equal keys, it holds the rows it was made of, each as often: the short last block is not
\* lost, and nothing is written twice.  And they lie along the curve of the columns it was
\* last clustered by, when their values fit the keys (recluster).
THEOREM ReclusteringSorts == Spec => []Reclustered
<1>1. TableInv => RowsKept
  BY HeldRows, FirstColumn, SameBag DEF RowsKept, TableInv, Rows
<1>2. TableInv /\ CurveInv => Reclustered
  BY <1>1 DEF Reclustered, CurveInv
<1>3. QED
  BY <1>2, InitCurve, NextCurve, TableInvariant, PTL DEF Spec

=============================================================================
