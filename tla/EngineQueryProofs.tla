-------------------------- MODULE EngineQueryProofs --------------------------
(***************************************************************************)
(* Queries over all tables, in two parts.                                  *)
(*                                                                         *)
(* A plan reads every data file that holds a row its scans' predicates     *)
(* select.  The passes of the planner keep each scan's table, fields and   *)
(* files and bind a predicate to a field of it; and the bounds a manifest  *)
(* states enclose the values of the file.                                  *)
(*                                                                         *)
(* The exchange of a shuffle join gets every selected row of both sides    *)
(* once.  At every moment of the first ramp, what the claimed tasks found  *)
(* is in the buffers and in the threads' pockets, one for one.             *)
(***************************************************************************)
EXTENDS EngineQuery, WellFoundedInduction, SequenceTheorems, FiniteSetTheorems, TLAPS

-----------------------------------------------------------------------------
(* The least element of a set.                                              *)

\* Every set of natural numbers that is not empty has a least element.
LEMMA NatOrder ==
  \E R : IsWellFoundedOn(R, Nat) /\ \A x, y \in Nat : y < x => <<y, x>> \in R
<1>1. \A x, y \in Nat : y < x => <<y, x>> \in OpToRel(<, Nat)
  BY DEF OpToRel
<1>2. QED
  BY <1>1, NatLessThanWellFounded, Zenon

LEMMA LeastNat ==
  ASSUME NEW T, T \subseteq Nat, T # {}
  PROVE  \E x \in T : \A y \in T : x <= y
<1>1. PICK R : IsWellFoundedOn(R, Nat) /\ \A x, y \in Nat : y < x => <<y, x>> \in R
  BY NatOrder
<1>2. PICK x \in T : \A y \in T : ~(<<y, x>> \in R)
  BY <1>1, WFMin
<1>3. ASSUME NEW y \in T PROVE x <= y
  <2>1. x \in Nat /\ y \in Nat
    OBVIOUS
  <2>2. ~(y < x)
    BY <1>1, <1>2, <2>1
  <2>3. QED
    BY <2>1, <2>2
<1>4. QED
  BY <1>3

\* Min of positions is one of them.
LEMMA FirstPosition ==
  ASSUME NEW T, T \subseteq Nat, T # {}
  PROVE  Min(T) \in T
<1>1. PICK x \in T : \A y \in T : x <= y
  BY LeastNat
<1>2. QED
  BY <1>1 DEF Min

-----------------------------------------------------------------------------
(* What retain keeps.                                                       *)

IsKept(f, s, S, n) ==
  f = [k \in 0..n |->
         IF k = 0 THEN <<>> ELSE IF s[k] \in S THEN Append(f[k - 1], s[k]) ELSE f[k - 1]]
Keepable(s, S, n) == \E f : IsKept(f, s, S, n)

LEMMA KeptExtends ==
  ASSUME NEW s, NEW S, NEW k \in Nat, Keepable(s, S, k)
  PROVE  Keepable(s, S, k + 1)
<1>1. PICK f : IsKept(f, s, S, k)
  BY DEF Keepable
<1> DEFINE new == IF s[k + 1] \in S THEN Append(f[k], s[k + 1]) ELSE f[k]
           g == [x \in 0..(k + 1) |-> IF x = k + 1 THEN new ELSE f[x]]
<1>2. /\ g[k + 1] = new
      /\ \A x \in 0..k : g[x] = f[x]
  <2>1. k + 1 \in 0..(k + 1) /\ \A x \in 0..k : x \in 0..(k + 1) /\ x # k + 1
    OBVIOUS
  <2> HIDE DEF new
  <2>2. QED
    BY <2>1, Zenon
<1>3. g = [x \in 0..(k + 1) |-> g[x]]
  OBVIOUS
<1>4. \A x \in 0..k :
        f[x] = IF x = 0 THEN <<>> ELSE IF s[x] \in S THEN Append(f[x - 1], s[x]) ELSE f[x - 1]
  BY <1>1 DEF IsKept
<1> HIDE DEF g
<1>5. ASSUME NEW x \in 0..(k + 1)
      PROVE  g[x] = IF x = 0 THEN <<>> ELSE IF s[x] \in S THEN Append(g[x - 1], s[x]) ELSE g[x - 1]
  <2>1. CASE x = k + 1
    <3>1. x # 0 /\ x - 1 = k /\ k \in 0..k
      BY <2>1
    <3>2. QED
      BY <1>2, <2>1, <3>1
  <2>2. CASE x = 0
    <3>1. 0 \in 0..k
      OBVIOUS
    <3>2. QED
      BY <1>2, <1>4, <2>2, <3>1
  <2>3. CASE x # k + 1 /\ x # 0
    <3>1. x \in 0..k /\ x - 1 \in 0..k
      BY <2>3
    <3>2. QED
      BY <1>2, <1>4, <3>1
  <2>4. QED
    BY <2>1, <2>2, <2>3
<1>6. IsKept(g, s, S, k + 1)
  BY <1>3, <1>5 DEF IsKept
<1>7. QED
  BY <1>6 DEF Keepable

LEMMA KeptExists ==
  ASSUME NEW s, NEW S, NEW n \in Nat
  PROVE  Keepable(s, S, n)
<1> DEFINE Bad == {k \in 0..n : ~Keepable(s, S, k)}
<1>1. Keepable(s, S, 0)
  <2> DEFINE f == [x \in 0..0 |-> <<>>]
  <2>1. f = [k \in 0..0 |-> IF k = 0 THEN <<>>
                            ELSE IF s[k] \in S THEN Append(f[k - 1], s[k]) ELSE f[k - 1]]
    OBVIOUS
  <2> HIDE DEF f
  <2>2. QED
    BY <2>1 DEF Keepable, IsKept
<1>2. SUFFICES ASSUME Bad # {} PROVE FALSE
  OBVIOUS
<1>3. Bad \subseteq Nat
  OBVIOUS
<1>4. PICK k \in Bad : \A j \in Bad : k <= j
  <2> HIDE DEF Bad
  <2>1. QED
    BY <1>2, <1>3, LeastNat
<1>5. k \in 0..n /\ ~Keepable(s, S, k) /\ k # 0
  BY <1>1
<1>6. k - 1 \in Nat /\ k - 1 \in 0..n /\ (k - 1) + 1 = k
  BY <1>5
<1>7. k - 1 \notin Bad
  BY <1>4, <1>6
<1>8. Keepable(s, S, k - 1)
  BY <1>6, <1>7
<1>9. QED
  BY <1>5, <1>6, <1>8, KeptExtends

LEMMA SameEnd == \A a, b \in Nat : 1..a = 1..b => a = b
<1>1. ASSUME NEW a \in Nat, NEW b \in Nat, 1..a = 1..b, a < b PROVE FALSE
  <2>1. b \in 1..b /\ b \notin 1..a
    BY <1>1
  <2>2. QED
    BY <1>1, <2>1, Zenon
<1>2. ASSUME NEW a \in Nat, NEW b \in Nat, 1..a = 1..b PROVE a = b
  <2>1. ~(a < b) /\ ~(b < a)
    BY <1>1, <1>2
  <2>2. QED
    BY <2>1
<1>3. QED
  BY <1>2

\* J has the positions up to k of the members of S in s, in order, and e the members.
IsPick(J, e, s, S, k) ==
  /\ DOMAIN J = DOMAIN e
  /\ \A i \in DOMAIN J : J[i] \in 1..k /\ e[i] = s[J[i]] /\ s[J[i]] \in S
  /\ \A i, j \in DOMAIN J : i < j => J[i] < J[j]
  /\ \A i \in 1..k : s[i] \in S => \E j \in DOMAIN J : J[j] = i
PickedSoFar(f, s, S, T, k) == f[k] \in Seq(T) /\ \E J \in Seq(Nat) : IsPick(J, f[k], s, S, k)

LEMMA PickedStep ==
  ASSUME NEW T, NEW s \in Seq(T), NEW S, NEW n \in Nat, NEW f, IsKept(f, s, S, n),
         NEW k \in 1..n, n <= Len(s), PickedSoFar(f, s, S, T, k - 1)
  PROVE  PickedSoFar(f, s, S, T, k)
<1>1. s[k] \in T /\ k - 1 \in Nat /\ k \in Nat
  <2>1. Len(s) \in Nat
    BY LenProperties
  <2>2. k \in 1..Len(s) /\ k - 1 \in Nat
    BY <2>1
  <2>3. QED
    BY <2>1, <2>2, ElementOfSeq
<1>2. f[k] = IF s[k] \in S THEN Append(f[k - 1], s[k]) ELSE f[k - 1]
  <2>1. k \in 0..n /\ k # 0
    OBVIOUS
  <2>2. QED
    BY <2>1 DEF IsKept
<1> DEFINE e == f[k - 1]
<1>3. e \in Seq(T)
  BY DEF PickedSoFar
<1>4. PICK J \in Seq(Nat) : IsPick(J, e, s, S, k - 1)
  BY DEF PickedSoFar
<1> HIDE DEF e
<1>5. /\ DOMAIN J = DOMAIN e
      /\ \A i \in DOMAIN J : J[i] \in 1..(k - 1) /\ e[i] = s[J[i]] /\ s[J[i]] \in S
      /\ \A i, j \in DOMAIN J : i < j => J[i] < J[j]
      /\ \A i \in 1..(k - 1) : s[i] \in S => \E j \in DOMAIN J : J[j] = i
  BY <1>4 DEF IsPick
<1>6. /\ \A i : i \in 1..k <=> i = k \/ i \in 1..(k - 1)
      /\ \A i \in 1..(k - 1) : i < k
  BY <1>1
<1>7. CASE s[k] \notin S
  <2>1. f[k] = e
    BY <1>2, <1>7 DEF e
  <2>2. IsPick(J, e, s, S, k)
    BY <1>5, <1>6, <1>7 DEF IsPick
  <2>3. QED
    BY <1>3, <2>1, <2>2 DEF PickedSoFar
<1>8. CASE s[k] \in S
  <2> DEFINE e1 == Append(e, s[k])
             J1 == Append(J, k)
             m == Len(J)
  <2>1. f[k] = e1
    BY <1>2, <1>8 DEF e
  <2>2. e1 \in Seq(T) /\ J1 \in Seq(Nat)
    BY <1>1, <1>3, AppendProperties
  <2>3. m \in Nat /\ DOMAIN J = 1..m
    BY LenProperties
  <2>4. DOMAIN e = 1..Len(e) /\ Len(e) \in Nat
    BY <1>3, LenProperties
  <2>5. Len(e) = m
    <3> HIDE DEF m
    <3>1. 1..Len(e) = 1..m
      BY <1>5, <2>3, <2>4, Zenon
    <3>2. QED
      BY <2>3, <2>4, <3>1, SameEnd
  <2>6. /\ DOMAIN J1 = 1..(m + 1) /\ J1[m + 1] = k /\ \A i \in 1..m : J1[i] = J[i]
    <3>1. Len(J1) = m + 1 /\ J1[m + 1] = k /\ \A i \in 1..m : J1[i] = J[i]
      BY <1>1, AppendProperties
    <3>2. DOMAIN J1 = 1..Len(J1)
      BY <2>2, LenProperties
    <3>3. QED
      BY <3>1, <3>2
  <2>7. /\ DOMAIN e1 = 1..(Len(e) + 1) /\ e1[Len(e) + 1] = s[k] /\ \A i \in 1..Len(e) : e1[i] = e[i]
    <3>1. Len(e1) = Len(e) + 1 /\ e1[Len(e) + 1] = s[k] /\ \A i \in 1..Len(e) : e1[i] = e[i]
      BY <1>1, <1>3, AppendProperties
    <3>2. DOMAIN e1 = 1..Len(e1)
      BY <2>2, LenProperties
    <3>3. QED
      BY <3>1, <3>2
  <2>8. DOMAIN e1 = 1..(m + 1) /\ e1[m + 1] = s[k] /\ \A i \in 1..m : e1[i] = e[i]
    BY <2>5, <2>7, Zenon
  <2> HIDE DEF e1, J1, m
  <2>9. \A i : i \in 1..(m + 1) <=> i = m + 1 \/ i \in 1..m
    BY <2>3
  <2>10. \A i \in 1..m : i < m + 1 /\ ~(m + 1 < i)
    BY <2>3
  <2>11. \A i \in DOMAIN J1 : J1[i] \in 1..k /\ e1[i] = s[J1[i]] /\ s[J1[i]] \in S
    <3>1. ASSUME NEW i \in DOMAIN J1 PROVE J1[i] \in 1..k /\ e1[i] = s[J1[i]] /\ s[J1[i]] \in S
      <4>1. CASE i = m + 1
        BY <1>1, <1>6, <1>8, <2>6, <2>8, <4>1
      <4>2. CASE i \in 1..m
        BY <1>5, <1>6, <2>3, <2>6, <2>8, <4>2
      <4>3. QED
        BY <2>6, <2>9, <4>1, <4>2
    <3>2. QED
      BY <3>1
  <2>12. \A i, j \in DOMAIN J1 : i < j => J1[i] < J1[j]
    <3>1. ASSUME NEW i \in 1..(m + 1), NEW j \in 1..(m + 1), i < j PROVE J1[i] < J1[j]
      <4>1. i \in 1..m
        BY <2>3, <3>1
      <4>2. CASE j = m + 1
        BY <1>5, <1>6, <2>3, <2>6, <4>1, <4>2
      <4>3. CASE j \in 1..m
        BY <1>5, <2>3, <2>6, <3>1, <4>1, <4>3
      <4>4. QED
        BY <2>9, <4>2, <4>3
    <3>2. QED
      BY <2>6, <3>1
  <2>13. \A i \in 1..k : s[i] \in S => \E j \in DOMAIN J1 : J1[j] = i
    <3>1. ASSUME NEW i \in 1..k, s[i] \in S PROVE \E j \in DOMAIN J1 : J1[j] = i
      <4>1. CASE i = k
        <5>1. m + 1 \in DOMAIN J1
          BY <2>6, <2>9
        <5>2. QED
          BY <2>6, <4>1, <5>1
      <4>2. CASE i \in 1..(k - 1)
        <5>1. PICK j \in 1..m : J[j] = i
          BY <1>5, <2>3, <3>1, <4>2
        <5>2. QED
          BY <2>6, <2>9, <5>1
      <4>3. QED
        BY <1>6, <4>1, <4>2
    <3>2. QED
      BY <3>1
  <2>14. IsPick(J1, e1, s, S, k)
    BY <2>6, <2>8, <2>11, <2>12, <2>13 DEF IsPick
  <2>15. QED
    BY <2>1, <2>2, <2>14 DEF PickedSoFar
<1>9. QED
  BY <1>7, <1>8

LEMMA PickedHolds ==
  ASSUME NEW T, NEW s \in Seq(T), NEW S, NEW f, IsKept(f, s, S, Len(s))
  PROVE  PickedSoFar(f, s, S, T, Len(s))
<1> DEFINE n == Len(s)
           Bad == {k \in 0..n : ~PickedSoFar(f, s, S, T, k)}
<1>1. n \in Nat
  BY LenProperties
<1>2. PickedSoFar(f, s, S, T, 0)
  <2>1. 0 \in 0..n
    BY <1>1
  <2>2. f[0] = <<>>
    BY <2>1 DEF IsKept
  <2>3. IsPick(<<>>, <<>>, s, S, 0)
    BY DEF IsPick
  <2>4. <<>> \in Seq(Nat) /\ <<>> \in Seq(T)
    OBVIOUS
  <2>5. QED
    BY <2>2, <2>3, <2>4 DEF PickedSoFar
<1>3. ASSUME Bad # {} PROVE FALSE
  <2>1. Bad \subseteq Nat
    OBVIOUS
  <2>2. PICK k \in Bad : \A j \in Bad : k <= j
    <3> HIDE DEF Bad
    <3>1. QED
      BY <1>3, <2>1, LeastNat
  <2>3. k \in 0..n /\ ~PickedSoFar(f, s, S, T, k) /\ k # 0
    BY <1>2
  <2>4. k \in 1..n /\ k - 1 \in 0..n /\ k - 1 \notin Bad
    BY <1>1, <2>2, <2>3
  <2>5. PickedSoFar(f, s, S, T, k - 1)
    BY <2>4
  <2>6. QED
    BY <1>1, <2>3, <2>4, <2>5, PickedStep
<1>4. n \in 0..n
  BY <1>1
<1>5. QED
  BY <1>3, <1>4

\* Only keeps the elements in S, in their order.
LEMMA OnlyPicks ==
  ASSUME NEW T, NEW s \in Seq(T), NEW S
  PROVE  Only(s, S) \in Seq(T) /\ \E J \in Seq(Nat) : IsPick(J, Only(s, S), s, S, Len(s))
<1> DEFINE f == CHOOSE f : IsKept(f, s, S, Len(s))
<1>1. Len(s) \in Nat
  BY LenProperties
<1>2. IsKept(f, s, S, Len(s))
  BY <1>1, KeptExists DEF Keepable
<1>3. Only(s, S) = f[Len(s)]
  BY DEF Only, IsKept
<1> HIDE DEF f
<1>4. PickedSoFar(f, s, S, T, Len(s))
  BY <1>2, PickedHolds
<1>5. QED
  BY <1>3, <1>4 DEF PickedSoFar

\* Only keeps the members of S, all of them.
LEMMA OnlyKeeps ==
  ASSUME NEW T, NEW s \in Seq(T), NEW S
  PROVE  \A x : x \in ToSet(Only(s, S)) <=> x \in ToSet(s) /\ x \in S
<1>1. PICK J \in Seq(Nat) : IsPick(J, Only(s, S), s, S, Len(s))
  BY OnlyPicks
<1>2. DOMAIN s = 1..Len(s)
  BY LenProperties
<1> DEFINE e == Only(s, S)
<1> HIDE DEF e
<1>3. QED
  BY <1>1, <1>2 DEF IsPick, ToSet, e

\* What is kept of a list that ascends ascends.
LEMMA OnlyAscends ==
  ASSUME NEW T, T \subseteq Int, NEW s \in Seq(T), NEW S, Ascends(s)
  PROVE  Ascends(Only(s, S))
<1>1. PICK J \in Seq(Nat) : IsPick(J, Only(s, S), s, S, Len(s))
  BY OnlyPicks
<1>2. DOMAIN s = 1..Len(s)
  BY LenProperties
<1> DEFINE e == Only(s, S)
<1>3. \A i, j \in DOMAIN s : i < j => s[i] < s[j]
  BY DEF Ascends
<1>4. /\ DOMAIN J = DOMAIN e
      /\ \A i \in DOMAIN J : J[i] \in DOMAIN s /\ e[i] = s[J[i]]
      /\ \A i, j \in DOMAIN J : i < j => J[i] < J[j]
  BY <1>1, <1>2 DEF IsPick
<1> HIDE DEF e
<1>5. \A i, j \in DOMAIN e : i < j => e[i] < e[j]
  BY <1>3, <1>4
<1>6. QED
  BY <1>5 DEF Ascends, e

-----------------------------------------------------------------------------
(* Bounds.                                                                  *)

LEMMA Limits == I64Min \in Int /\ I64Max \in Int
<1>1. W - 1 \in Nat
  BY WordsAssumption
<1>2. 2^(W - 1) \in Int
  BY <1>1
<1>3. QED
  BY <1>2 DEF I64Min, I64Max

\* MinOf and MaxOf enclose the values of an Int64 column.
LEMMA Enclosed ==
  ASSUME NEW vals, \A i \in DOMAIN vals : vals[i] \in I64Min..I64Max, NEW i \in DOMAIN vals
  PROVE  /\ MinOf(vals) \in Int /\ MaxOf(vals) \in Int
         /\ MinOf(vals) <= vals[i] /\ vals[i] <= MaxOf(vals)
<1> DEFINE lo == I64Min
           hi == I64Max
           A == {vals[k] : k \in DOMAIN vals} \cup {hi}
           B == {vals[k] : k \in DOMAIN vals} \cup {lo}
           T == {v - lo : v \in A}
           U == {hi - v : v \in B}
<1> HIDE DEF lo, hi
<1>1. lo \in Int /\ hi \in Int /\ lo <= vals[i] /\ vals[i] <= hi
  BY Limits DEF lo, hi
<1>2. /\ \A v \in A : v \in Int /\ lo <= v
      /\ \A v \in B : v \in Int /\ v <= hi
      /\ vals[i] \in A /\ vals[i] \in B
  BY <1>1 DEF lo, hi
<1> HIDE DEF A, B
<1>3. T \subseteq Nat /\ T # {} /\ U \subseteq Nat /\ U # {}
  BY <1>1, <1>2
<1>4. PICK m \in A : \A v \in A : m <= v
  <2>1. PICK x \in T : \A y \in T : x <= y
    BY <1>3, LeastNat
  <2>2. PICK m \in A : x = m - lo
    BY <2>1
  <2>3. \A v \in A : v - lo \in T
    OBVIOUS
  <2> HIDE DEF T
  <2>4. QED
    BY <1>1, <1>2, <2>1, <2>2, <2>3
<1>5. PICK n \in B : \A v \in B : n >= v
  <2>1. PICK x \in U : \A y \in U : x <= y
    BY <1>3, LeastNat
  <2>2. PICK n \in B : x = hi - n
    BY <2>1
  <2>3. \A v \in B : hi - v \in U
    OBVIOUS
  <2> HIDE DEF U
  <2>4. QED
    BY <1>1, <1>2, <2>1, <2>2, <2>3
<1>6. MinOf(vals) \in A /\ \A v \in A : MinOf(vals) <= v
  <2>1. MinOf(vals) = CHOOSE x \in A : \A v \in A : x <= v
    BY DEF MinOf, A, hi
  <2>2. QED
    BY <1>4, <2>1
<1>7. MaxOf(vals) \in B /\ \A v \in B : MaxOf(vals) >= v
  <2>1. MaxOf(vals) = CHOOSE x \in B : \A v \in B : x >= v
    BY DEF MaxOf, B, lo
  <2>2. QED
    BY <1>5, <2>1
<1>8. QED
  BY <1>2, <1>6, <1>7

-----------------------------------------------------------------------------
(* The files of the catalog.                                                *)

\* A table's fields and its files' columns, as TablesAssumption has them.
LEMMA TableShape ==
  ASSUME NEW n \in DOMAIN Tables
  PROVE  /\ DOMAIN Tables[n].fields = 1..Len(Tables[n].fields) /\ Len(Tables[n].fields) \in Nat
         /\ \A c, d \in DOMAIN Tables[n].fields : Tables[n].fields[c].id = Tables[n].fields[d].id => c = d
         /\ DOMAIN Tables[n].files = 1..Len(Tables[n].files) /\ Len(Tables[n].files) \in Nat
<1>1. /\ Tables[n].fields \in Seq([id : Int, name : STRING, dtype : {"Int64", "Utf8"}])
      /\ \A c, d \in DOMAIN Tables[n].fields : Tables[n].fields[c].id = Tables[n].fields[d].id => c = d
      /\ Tables[n].files \in Seq(Seq([dtype : {"Int64", "Utf8"}, vals : Seq(Int)]))
  BY TablesAssumption
<1>2. QED
  BY <1>1, LenProperties

LEMMA FileShape ==
  ASSUME NEW n \in DOMAIN Tables, NEW f \in DOMAIN Tables[n].files, NEW c \in DOMAIN Tables[n].fields
  PROVE  LET cols == Tables[n].files[f] IN
         /\ DOMAIN cols = DOMAIN Tables[n].fields
         /\ cols[c].dtype = Tables[n].fields[c].dtype
         /\ DOMAIN cols[c].vals = DOMAIN cols[1].vals
         /\ \A i \in DOMAIN cols[c].vals : cols[c].vals[i] \in I64Min..I64Max
<1> DEFINE cols == Tables[n].files[f]
           R == [dtype : {"Int64", "Utf8"}, vals : Seq(Int)]
<1>1. /\ Tables[n].files \in Seq(Seq(R))
      /\ DOMAIN cols = DOMAIN Tables[n].fields
      /\ cols[c].dtype = Tables[n].fields[c].dtype
      /\ Len(cols[c].vals) = Len(cols[1].vals)
      /\ \A i \in DOMAIN cols[c].vals : cols[c].vals[i] \in I64Min..I64Max
  BY TablesAssumption
<1>2. cols \in Seq(R)
  BY <1>1, TableShape, ElementOfSeq
<1>3. DOMAIN cols = 1..Len(cols) /\ Len(cols) \in Nat
  BY <1>2, LenProperties
<1>4. c \in 1..Len(cols) /\ 1 \in 1..Len(cols)
  BY <1>1, <1>3
<1>5. cols[c] \in R /\ cols[1] \in R
  BY <1>2, <1>4, ElementOfSeq
<1>6. cols[c].vals \in Seq(Int) /\ cols[1].vals \in Seq(Int)
  BY <1>5
<1>7. DOMAIN cols[c].vals = DOMAIN cols[1].vals
  BY <1>1, <1>6, LenProperties
<1>8. QED
  BY <1>1, <1>7

LEMMA CatalogShape ==
  ASSUME NEW n \in DOMAIN Tables
  PROVE  /\ n \in DOMAIN Catalog
         /\ Catalog[n].fields = Tables[n].fields
         /\ Catalog[n].files \in Seq(ToSet(Catalog[n].files))
         /\ DOMAIN Catalog[n].files = DOMAIN Tables[n].files
         /\ \A f \in DOMAIN Tables[n].files :
              Catalog[n].files[f] = DataFile(<<n, f>>, Tables[n].fields, Tables[n].files[f])
<1> DEFINE files == [f \in DOMAIN Tables[n].files |->
                       DataFile(<<n, f>>, Tables[n].fields, Tables[n].files[f])]
<1>1. Catalog[n].fields = Tables[n].fields /\ Catalog[n].files = files /\ n \in DOMAIN Catalog
  BY DEF Catalog
<1>2. files \in Seq(ToSet(files))
  <2>1. DOMAIN files = 1..Len(Tables[n].files) /\ Len(Tables[n].files) \in Nat
    BY TableShape
  <2>2. files = [f \in DOMAIN files |-> files[f]]
    OBVIOUS
  <2> HIDE DEF files
  <2>3. \A f \in DOMAIN files : files[f] \in ToSet(files)
    BY DEF ToSet
  <2>4. files \in [1..Len(Tables[n].files) -> ToSet(files)]
    BY <2>1, <2>2, <2>3
  <2>5. QED
    BY <2>1, <2>4, SeqDef
<1>3. QED
  BY <1>1, <1>2

\* A file that a bound predicate prunes holds no value that satisfies it (file_prunes).
LEMMA FilePrunesSoundly ==
  ASSUME NEW n \in DOMAIN Tables, NEW f \in DOMAIN Tables[n].files,
         NEW c \in DOMAIN Tables[n].fields, NEW op, NEW lit,
         lit.dtype = "Int64" => lit.v \in Int,
         FilePrunes(Catalog[n].files[f], Tables[n].fields[c].id, Tables[n].fields[c].dtype, op, lit),
         NEW i \in DOMAIN Tables[n].files[f][1].vals
  PROVE  ~Satisfies(Tables[n].files[f][c].vals[i], op, lit.v)
<1> DEFINE fields == Tables[n].fields
           cols == Tables[n].files[f]
           file == Catalog[n].files[f]
           ids == {fields[d].id : d \in {d \in DOMAIN cols : cols[d].dtype = "Int64"}}
           at(id) == CHOOSE d \in DOMAIN fields : fields[d].id = id
<1>1. file = DataFile(<<n, f>>, fields, cols)
  BY CatalogShape
<1> DEFINE bounds == [id \in ids |-> Int64Bounds(cols[at(id)].vals)]
<1>2. file.bounds = bounds
  <2>1. DataFile(<<n, f>>, fields, cols)
          = [path |-> <<n, f>>, record_count |-> Len(cols[1].vals), bounds |-> bounds]
    BY Zenon DEF DataFile
  <2> HIDE DEF bounds, file, cols
  <2>2. QED
    BY <1>1, <2>1
<1>3. fields[c].id \in ids
  <2>1. DOMAIN bounds = ids
    BY Zenon
  <2> HIDE DEF bounds
  <2>2. QED
    BY <1>2, <2>1 DEF FilePrunes, HasBounds
<1>4. /\ DOMAIN cols = DOMAIN fields
      /\ cols[c].dtype = fields[c].dtype
      /\ DOMAIN cols[c].vals = DOMAIN cols[1].vals
      /\ \A k \in DOMAIN cols[c].vals : cols[c].vals[k] \in I64Min..I64Max
      /\ \A d, e \in DOMAIN fields : fields[d].id = fields[e].id => d = e
  BY FileShape, TableShape
<1>5. at(fields[c].id) = c
  BY <1>4
<1>6. fields[c].dtype = "Int64"
  <2>1. PICK d \in DOMAIN cols : cols[d].dtype = "Int64" /\ fields[d].id = fields[c].id
    BY <1>3
  <2>2. d = c
    BY <1>4, <2>1
  <2>3. QED
    BY <1>4, <2>1, <2>2
<1> DEFINE vals == cols[c].vals
<1>7. file.bounds[fields[c].id] = Int64Bounds(vals)
  <2>1. bounds[fields[c].id] = Int64Bounds(vals)
    BY <1>3, <1>5, Zenon
  <2> HIDE DEF bounds, file, vals
  <2>2. QED
    BY <1>2, <2>1
<1>8. i \in DOMAIN vals
  BY <1>4
<1>9. vals # <<>>
  BY <1>8
<1>10. file.bounds[fields[c].id][1] = MinOf(vals) /\ file.bounds[fields[c].id][2] = MaxOf(vals)
  <2> HIDE DEF vals, file, bounds
  <2>1. Int64Bounds(vals) = <<MinOf(vals), MaxOf(vals)>>
    BY <1>9 DEF Int64Bounds
  <2>2. QED
    BY <1>7, <2>1
<1>11. BoundsPrune(op, MinOf(vals), MaxOf(vals), lit.v) /\ lit.v \in Int
  BY <1>6, <1>10 DEF FilePrunes
<1>12. /\ MinOf(vals) \in Int /\ MaxOf(vals) \in Int /\ vals[i] \in Int
       /\ MinOf(vals) <= vals[i] /\ vals[i] <= MaxOf(vals)
  <2>1. vals[i] \in Int
    BY <1>4, <1>8, Limits
  <2>2. QED
    BY <1>4, <1>8, <2>1, Enclosed
<1> HIDE DEF vals
<1>13. ~Satisfies(vals[i], op, lit.v)
  BY <1>11, <1>12 DEF BoundsPrune, Satisfies
<1>14. QED
  BY <1>13 DEF vals

-----------------------------------------------------------------------------
(* The passes of the planner.                                               *)

ScanKeys == {"table", "alias", "fields", "cols", "preds", "files", "est", "pruned"}
StateKeys == {"ok", "keys", "output", "group_by", "scans"}

\* A predicate of the statement, bound to one of the fields.
PredsFor(ast, fields) ==
  {[col_idx |-> c, field_id |-> fields[c].id, op |-> ast.preds[k].op, lit |-> ast.preds[k].lit] :
     c \in DOMAIN fields, k \in DOMAIN ast.preds}

\* A scan of a table with predicates of the statement, its files not yet pruned.
BoundScan(ast, scan) ==
  /\ DOMAIN scan = ScanKeys
  /\ scan.table \in DOMAIN Tables
  /\ scan.fields = Tables[scan.table].fields
  /\ scan.files = Catalog[scan.table].files
  /\ scan.cols \in Seq(DOMAIN scan.fields)
  /\ scan.preds \in Seq(PredsFor(ast, scan.fields))

BoundScans(ast, scans) ==
  DOMAIN scans \subseteq Nat \ {0} /\ \A s \in DOMAIN scans : BoundScan(ast, scans[s])

\* The keys of a join are columns of their scans, and stay that when a scan needs more columns.
KeyIn(scans, key) == key.scan \in DOMAIN scans /\ key.pos \in DOMAIN scans[key.scan].cols
KeysIn(scans, keys) == keys = <<>> \/ (KeyIn(scans, keys[1]) /\ KeyIn(scans, keys[2]))
HasCol(scans, at) ==
  at.scan \in DOMAIN scans /\ \E i \in DOMAIN scans[at.scan].cols : scans[at.scan].cols[i] = at.idx
Grown(scans, new) ==
  /\ DOMAIN new = DOMAIN scans
  /\ \A s \in DOMAIN scans : \A i \in DOMAIN scans[s].cols :
       i \in DOMAIN new[s].cols /\ new[s].cols[i] = scans[s].cols[i]

BoundState(ast, st) ==
  DOMAIN st = StateKeys /\ BoundScans(ast, st.scans) /\ KeysIn(st.scans, st.keys)

LEMMA GrownKeys ==
  ASSUME NEW scans, NEW new, Grown(scans, new)
  PROVE  /\ \A keys : KeysIn(scans, keys) => KeysIn(new, keys)
         /\ \A at : HasCol(scans, at) => HasCol(new, at)
BY DEF Grown, KeyIn, KeysIn, HasCol

LEMMA ColumnAt ==
  ASSUME NEW ast, NEW scans, BoundScans(ast, scans), NEW at, HasCol(scans, at)
  PROVE  KeyIn(scans, [scan |-> at.scan, pos |-> PosOf(scans, at)])
<1> DEFINE cols == scans[at.scan].cols
           I == {i \in 1..Len(cols) : cols[i] = at.idx}
           pos == PosOf(scans, at)
<1>1. at.scan \in DOMAIN scans /\ \E i \in DOMAIN cols : cols[i] = at.idx
  BY DEF HasCol
<1>2. cols \in Seq(DOMAIN scans[at.scan].fields)
  BY <1>1 DEF BoundScans, BoundScan
<1>3. DOMAIN cols = 1..Len(cols) /\ Len(cols) \in Nat
  BY <1>2, LenProperties
<1>4. pos = IF I # {} THEN Min(I) ELSE 0
  BY Zenon DEF PosOf, SelectInSeq
<1> HIDE DEF cols, pos
<1>5. I \subseteq Nat /\ I # {} /\ I \subseteq DOMAIN cols
  BY <1>1, <1>3
<1>6. pos \in I
  <2> HIDE DEF I
  <2>1. QED
    BY <1>4, <1>5, FirstPosition
<1>7. pos \in DOMAIN scans[at.scan].cols
  BY <1>5, <1>6 DEF cols
<1>8. KeyIn(scans, [scan |-> at.scan, pos |-> pos])
  BY <1>1, <1>7 DEF KeyIn
<1>9. QED
  BY <1>8 DEF pos

\* A name that is resolved is a field of a scan.
LEMMA ResolvedAt ==
  ASSUME NEW ast, NEW scans, BoundScans(ast, scans), NEW qual, NEW col,
         Resolve(scans, qual, col).ok
  PROVE  /\ Resolve(scans, qual, col).scan \in DOMAIN scans
         /\ Resolve(scans, qual, col).idx
              \in DOMAIN scans[Resolve(scans, qual, col).scan].fields
<1> DEFINE hits == {s \in DOMAIN scans :
                      IF qual = "" THEN HasColumn(scans[s], col)
                      ELSE scans[s].alias = qual \/ scans[s].table = qual}
           s == FindScan(scans, qual, col)
           I == {i \in 1..Len(scans[s].fields) : scans[s].fields[i].name = col}
           idx == SelectInSeq(scans[s].fields, LAMBDA f : f.name = col)
<1>1. s = IF hits = {} \/ (qual = "" /\ \E t, u \in hits : t # u) THEN 0 ELSE Min(hits)
  BY Zenon DEF FindScan
<1>2. Resolve(scans, qual, col)
        = IF s = 0 \/ (s # 0 /\ ~HasColumn(scans[s], col))
          THEN [ok |-> FALSE, scan |-> 0, idx |-> 0] ELSE [ok |-> TRUE, scan |-> s, idx |-> idx]
  BY Zenon DEF Resolve
<1>3. idx = IF I # {} THEN Min(I) ELSE 0
  BY Zenon DEF SelectInSeq
<1>4. hits \subseteq DOMAIN scans /\ DOMAIN scans \subseteq Nat
  BY DEF BoundScans
<1> HIDE DEF hits, s, idx
<1>5. s # 0 /\ HasColumn(scans[s], col) /\ Resolve(scans, qual, col).scan = s
        /\ Resolve(scans, qual, col).idx = idx
  BY <1>2
<1>6. s \in hits
  BY <1>1, <1>4, <1>5, FirstPosition
<1>7. BoundScan(ast, scans[s])
  BY <1>4, <1>6 DEF BoundScans
<1>8. DOMAIN scans[s].fields = 1..Len(scans[s].fields) /\ Len(scans[s].fields) \in Nat
  BY <1>7, TableShape DEF BoundScan
<1>9. I # {} /\ I \subseteq Nat
  BY <1>5, <1>8 DEF HasColumn
<1>10. idx \in I
  <2> HIDE DEF I
  <2>1. QED
    BY <1>3, <1>9, FirstPosition
<1>11. QED
  BY <1>4, <1>5, <1>6, <1>8, <1>10

LEMMA NeedColKeeps ==
  ASSUME NEW ast, NEW scans, BoundScans(ast, scans), NEW at, at.scan \in DOMAIN scans,
         at.idx \in DOMAIN scans[at.scan].fields
  PROVE  /\ BoundScans(ast, NeedCol(scans, at))
         /\ Grown(scans, NeedCol(scans, at))
         /\ \A s \in DOMAIN scans : NeedCol(scans, at)[s].fields = scans[s].fields
         /\ HasCol(NeedCol(scans, at), at)
<1> DEFINE cols == scans[at.scan].cols
           fields == scans[at.scan].fields
           more == Append(cols, at.idx)
           new == [scans EXCEPT ![at.scan].cols = Append(@, at.idx)]
           need == NeedCol(scans, at)
           here == need[at.scan].cols
<1>1. BoundScan(ast, scans[at.scan])
  BY DEF BoundScans
<1>2. cols \in Seq(DOMAIN fields)
  BY <1>1 DEF BoundScan
<1>3. DOMAIN cols = 1..Len(cols) /\ Len(cols) \in Nat
  BY <1>2, LenProperties
<1>4. /\ BoundScans(ast, need) /\ Grown(scans, need)
      /\ \A s \in DOMAIN scans : need[s].fields = scans[s].fields
      /\ \E i \in DOMAIN here : here[i] = at.idx
  <2>1. CASE Contains(cols, at.idx)
    <3>1. need = scans
      BY <2>1 DEF NeedCol
    <3>2. PICK i \in 1..Len(cols) : cols[i] = at.idx
      BY <2>1 DEF Contains
    <3>3. Grown(scans, scans)
      BY DEF Grown
    <3> HIDE DEF need
    <3>4. QED
      BY <1>3, <3>1, <3>2, <3>3
  <2>2. CASE ~Contains(cols, at.idx)
    <3>1. need = new
      BY <2>2 DEF NeedCol
    <3>2. /\ DOMAIN new = DOMAIN scans
          /\ \A s \in DOMAIN scans : s # at.scan => new[s] = scans[s]
          /\ new[at.scan] = [scans[at.scan] EXCEPT !.cols = Append(@, at.idx)]
      OBVIOUS
    <3> HIDE DEF new
    <3>3. /\ DOMAIN new[at.scan] = ScanKeys
          /\ new[at.scan].table = scans[at.scan].table
          /\ new[at.scan].fields = scans[at.scan].fields
          /\ new[at.scan].files = scans[at.scan].files
          /\ new[at.scan].preds = scans[at.scan].preds
          /\ new[at.scan].cols = more
      BY <1>1, <3>2 DEF BoundScan, ScanKeys
    <3>4. /\ more \in Seq(DOMAIN fields) /\ Len(more) = Len(cols) + 1 /\ more[Len(cols) + 1] = at.idx
      <4> DEFINE c == at.idx
      <4>1. c \in DOMAIN fields
        OBVIOUS
      <4> HIDE DEF c, fields, cols
      <4>2. Append(cols, c) \in Seq(DOMAIN fields)
        BY <1>2, <4>1, AppendProperties
      <4>3. Len(Append(cols, c)) = Len(cols) + 1 /\ Append(cols, c)[Len(cols) + 1] = c
        BY <1>2, <4>1, AppendProperties
      <4>4. QED
        BY <4>2, <4>3 DEF c
    <3> HIDE DEF more, cols
    <3>5. BoundScan(ast, new[at.scan])
      BY <1>1, <3>3, <3>4 DEF BoundScan
    <3>6. BoundScans(ast, new)
      BY <3>2, <3>5 DEF BoundScans
    <3>7. DOMAIN more = 1..Len(more)
      BY <3>4, LenProperties
    <3> DEFINE k == Len(cols)
    <3> HIDE DEF k
    <3>8. DOMAIN cols \subseteq DOMAIN more /\ k + 1 \in DOMAIN more
      BY <1>3, <3>4, <3>7 DEF k
    <3>9. Grown(scans, new)
      <4>1. \A i \in DOMAIN cols : i \in DOMAIN more /\ more[i] = cols[i]
        BY <1>2, <1>3, <3>8, AppendProperties DEF more
      <4>3. \A i \in DOMAIN scans[at.scan].cols :
              i \in DOMAIN new[at.scan].cols /\ new[at.scan].cols[i] = scans[at.scan].cols[i]
        BY <3>3, <4>1 DEF cols
      <4>2. QED
        BY <3>2, <4>3 DEF Grown
    <3>10. \A s \in DOMAIN scans : new[s].fields = scans[s].fields
      BY <3>2, <3>3
    <3>11. here = more
      BY <3>1, <3>3
    <3>12. \E i \in DOMAIN here : here[i] = at.idx
      BY <3>4, <3>8, <3>11 DEF k
    <3> HIDE DEF need, here
    <3>14. QED
      BY <3>1, <3>6, <3>9, <3>10, <3>12
  <2>3. QED
    BY <2>1, <2>2
<1>5. HasCol(need, at)
  BY <1>4 DEF HasCol, Grown
<1>6. QED
  BY <1>4, <1>5

\* A refused statement, and bound columns.
LEMMA RefusedKeeps ==
  ASSUME NEW ast, NEW st, BoundState(ast, st)
  PROVE  BoundState(ast, [st EXCEPT !.ok = FALSE])
<1> DEFINE new == [st EXCEPT !.ok = FALSE]
<1>1. DOMAIN new = StateKeys /\ new.scans = st.scans /\ new.keys = st.keys
  BY DEF BoundState, StateKeys
<1> HIDE DEF new
<1>2. BoundState(ast, new)
  BY <1>1 DEF BoundState
<1>3. QED
  BY <1>2 DEF new

LEMMA BoundKeeps ==
  ASSUME NEW ast, NEW st, BoundState(ast, st), NEW at, at.ok, at.scan \in DOMAIN st.scans,
         at.idx \in DOMAIN st.scans[at.scan].fields
  PROVE  /\ BoundState(ast, Bound(st, at))
         /\ Bound(st, at).scans = NeedCol(st.scans, at)
<1> DEFINE new == Bound(st, at)
           need == NeedCol(st.scans, at)
<1>1. DOMAIN new = StateKeys /\ new.scans = need /\ new.keys = st.keys
  BY DEF BoundState, StateKeys, Bound
<1> HIDE DEF new
<1>2. BoundScans(ast, need) /\ Grown(st.scans, need)
  BY NeedColKeeps DEF BoundState
<1> HIDE DEF need
<1>3. KeysIn(need, st.keys)
  BY <1>2, GrownKeys DEF BoundState
<1>4. BoundState(ast, new)
  BY <1>1, <1>2, <1>3 DEF BoundState
<1>5. QED
  BY <1>1, <1>4 DEF new, need

LEMMA PushPredKeeps ==
  ASSUME NEW ast, NEW st, BoundState(ast, st), NEW k \in DOMAIN ast.preds
  PROVE  BoundState(ast, PushPred(st, ast.preds[k]))
<1> DEFINE p == ast.preds[k]
           at == Resolve(st.scans, p.qual, p.col)
           bound == Bound(st, at)
           pred == [col_idx |-> at.idx, field_id |-> st.scans[at.scan].fields[at.idx].id,
                    op |-> p.op, lit |-> p.lit]
           new == [bound EXCEPT !.scans[at.scan].preds = Append(@, pred)]
<1>1. PushPred(st, p) = IF ~st.ok \/ ~at.ok THEN [st EXCEPT !.ok = FALSE] ELSE new
  BY Zenon DEF PushPred
<1>2. CASE ~st.ok \/ ~at.ok
  BY <1>1, <1>2, RefusedKeeps
<1>3. CASE ~(~st.ok \/ ~at.ok)
  <2>1. BoundScans(ast, st.scans)
    BY DEF BoundState
  <2>2. at.ok /\ at.scan \in DOMAIN st.scans /\ at.idx \in DOMAIN st.scans[at.scan].fields
    BY <1>3, <2>1, ResolvedAt
  <2>3. PushPred(st, p) = new
    BY <1>1, <1>3
  <2> HIDE DEF at
  <2>4. pred \in PredsFor(ast, st.scans[at.scan].fields)
    <3> DEFINE fields == st.scans[at.scan].fields
               c == at.idx
    <3>1. c \in DOMAIN fields
      BY <2>2
    <3> HIDE DEF fields, c
    <3>2. [col_idx |-> c, field_id |-> fields[c].id, op |-> ast.preds[k].op, lit |-> ast.preds[k].lit]
            \in PredsFor(ast, fields)
      BY <3>1 DEF PredsFor
    <3>3. QED
      BY <3>2 DEF fields, c
  <2> HIDE DEF pred
  <2>5. BoundState(ast, bound) /\ bound.scans = NeedCol(st.scans, at)
    BY <2>2, BoundKeeps
  <2>6. /\ BoundScans(ast, bound.scans)
        /\ DOMAIN bound.scans = DOMAIN st.scans
        /\ bound.scans[at.scan].fields = st.scans[at.scan].fields
    BY <2>1, <2>2, <2>5, NeedColKeeps DEF Grown
  <2> HIDE DEF bound
  <2>7. DOMAIN bound = StateKeys
    BY <2>5 DEF BoundState
  <2>8. /\ DOMAIN new = StateKeys
        /\ new.scans = [bound.scans EXCEPT ![at.scan].preds = Append(@, pred)]
        /\ new.keys = bound.keys
    BY <2>7 DEF StateKeys
  <2> DEFINE scans == new.scans
  <2>9. /\ DOMAIN scans = DOMAIN bound.scans
        /\ \A s \in DOMAIN bound.scans : s # at.scan => scans[s] = bound.scans[s]
        /\ scans[at.scan] = [bound.scans[at.scan] EXCEPT !.preds = Append(@, pred)]
    BY <2>2, <2>6, <2>8
  <2> HIDE DEF scans
  <2>10. BoundScan(ast, bound.scans[at.scan])
    BY <2>2, <2>6 DEF BoundScans
  <2>11. /\ DOMAIN scans[at.scan] = ScanKeys
         /\ scans[at.scan].table = bound.scans[at.scan].table
         /\ scans[at.scan].fields = bound.scans[at.scan].fields
         /\ scans[at.scan].files = bound.scans[at.scan].files
         /\ scans[at.scan].cols = bound.scans[at.scan].cols
         /\ scans[at.scan].preds = Append(bound.scans[at.scan].preds, pred)
    BY <2>9, <2>10 DEF BoundScan, ScanKeys
  <2>12. Append(bound.scans[at.scan].preds, pred) \in Seq(PredsFor(ast, bound.scans[at.scan].fields))
    BY <2>4, <2>6, <2>10, AppendProperties DEF BoundScan
  <2>13. BoundScan(ast, scans[at.scan])
    BY <2>10, <2>11, <2>12 DEF BoundScan
  <2>14. BoundScans(ast, scans)
    <3>1. DOMAIN scans \subseteq Nat \ {0}
      BY <2>6, <2>9 DEF BoundScans
    <3>2. ASSUME NEW s \in DOMAIN scans PROVE BoundScan(ast, scans[s])
      BY <2>6, <2>9, <2>13 DEF BoundScans
    <3>3. QED
      BY <3>1, <3>2 DEF BoundScans
  <2>15. KeysIn(scans, bound.keys)
    <3>1. Grown(bound.scans, scans)
      <4>1. \A s \in DOMAIN bound.scans : scans[s].cols = bound.scans[s].cols
        BY <2>9, <2>11
      <4>2. QED
        BY <2>9, <4>1 DEF Grown
    <3>2. QED
      BY <2>5, <3>1, GrownKeys DEF BoundState
  <2> HIDE DEF new
  <2>16. BoundState(ast, new)
    BY <2>8, <2>14, <2>15 DEF BoundState, scans
  <2>17. QED
    BY <2>3, <2>16
<1>4. QED
  BY <1>2, <1>3

LEMMA BindJoinKeeps ==
  ASSUME NEW ast, NEW st, BoundState(ast, st), NEW joins
  PROVE  BoundState(ast, BindJoin(st, joins))
<1> DEFINE j == joins[1]
           l == Resolve(st.scans, j.lqual, j.lcol)
           r == Resolve(st.scans, j.rqual, j.rcol)
           scans == NeedCol(NeedCol(st.scans, l), r)
           keys == <<[scan |-> l.scan, pos |-> PosOf(scans, l)], [scan |-> r.scan, pos |-> PosOf(scans, r)]>>
           new == [st EXCEPT !.scans = scans, !.keys = keys]
<1>1. BindJoin(st, joins)
        = IF joins = <<>> \/ ~st.ok THEN st
          ELSE IF Len(joins) > 1 \/ ~l.ok \/ ~r.ok THEN [st EXCEPT !.ok = FALSE]
          ELSE IF TypeAt(st.scans, l) # "Int64" \/ TypeAt(st.scans, r) # "Int64"
          THEN [st EXCEPT !.ok = FALSE]
          ELSE new
  BY Zenon DEF BindJoin
<1>2. BoundScans(ast, st.scans)
  BY DEF BoundState
<1>3. ASSUME l.ok, r.ok PROVE BoundState(ast, new)
  <2>1. /\ l.scan \in DOMAIN st.scans /\ l.idx \in DOMAIN st.scans[l.scan].fields
        /\ r.scan \in DOMAIN st.scans /\ r.idx \in DOMAIN st.scans[r.scan].fields
    BY <1>2, <1>3, ResolvedAt
  <2> DEFINE left == NeedCol(st.scans, l)
             lkey == [scan |-> l.scan, pos |-> PosOf(scans, l)]
             rkey == [scan |-> r.scan, pos |-> PosOf(scans, r)]
  <2> HIDE DEF l, r
  <2>2. /\ BoundScans(ast, left) /\ Grown(st.scans, left)
        /\ \A s \in DOMAIN st.scans : left[s].fields = st.scans[s].fields
        /\ HasCol(left, l)
    BY <1>2, <2>1, NeedColKeeps
  <2> HIDE DEF left
  <2>3. BoundScans(ast, scans) /\ Grown(left, scans) /\ HasCol(scans, r)
    <3>1. scans = NeedCol(left, r)
      BY DEF left
    <3>2. r.scan \in DOMAIN left /\ r.idx \in DOMAIN left[r.scan].fields
      BY <2>1, <2>2 DEF Grown
    <3> HIDE DEF scans
    <3>3. QED
      BY <2>2, <3>1, <3>2, NeedColKeeps
  <2> HIDE DEF scans
  <2>6. KeyIn(scans, lkey) /\ KeyIn(scans, rkey)
    <3>1. HasCol(scans, l)
      BY <2>2, <2>3, GrownKeys
    <3>2. QED
      BY <2>3, <3>1, ColumnAt
  <2> HIDE DEF scans, lkey, rkey
  <2>4. DOMAIN new = StateKeys /\ new.scans = scans /\ new.keys = <<lkey, rkey>>
    BY DEF BoundState, StateKeys, lkey, rkey
  <2>7. KeysIn(scans, <<lkey, rkey>>)
    BY <2>6 DEF KeysIn
  <2> HIDE DEF new
  <2>5. QED
    BY <2>3, <2>4, <2>7 DEF BoundState
<1> HIDE DEF l, r, new
<1>4. QED
  BY <1>1, <1>3, RefusedKeeps

LEMMA BindItemKeeps ==
  ASSUME NEW ast, NEW st, BoundState(ast, st), NEW it
  PROVE  BoundState(ast, BindItem(st, it))
<1> DEFINE at == Resolve(st.scans, it.qual, it.col)
           scans == NeedCol(st.scans, at)
           all == Append(st.output, [agg |-> it.agg, scan |-> 1, pos |-> 0])
           output == Append(st.output, [agg |-> it.agg, scan |-> at.scan, pos |-> PosOf(scans, at)])
           any == [st EXCEPT !.output = all]
           new == [st EXCEPT !.scans = scans, !.output = output]
<1>1. BindItem(st, it)
        = IF it.agg # "" /\ it.col = "*" THEN any
          ELSE IF ~st.ok \/ ~at.ok THEN [st EXCEPT !.ok = FALSE]
          ELSE IF it.agg # "" /\ TypeAt(st.scans, at) # "Int64" THEN [st EXCEPT !.ok = FALSE]
          ELSE new
  BY Zenon DEF BindItem
<1>2. BoundScans(ast, st.scans)
  BY DEF BoundState
<1>3. BoundState(ast, any)
  <2> HIDE DEF all
  <2>1. DOMAIN any = StateKeys /\ any.scans = st.scans /\ any.keys = st.keys
    BY DEF BoundState, StateKeys
  <2> HIDE DEF any
  <2>2. QED
    BY <1>2, <2>1 DEF BoundState
<1>4. ASSUME at.ok PROVE BoundState(ast, new)
  <2>1. at.scan \in DOMAIN st.scans /\ at.idx \in DOMAIN st.scans[at.scan].fields
    BY <1>2, <1>4, ResolvedAt
  <2> HIDE DEF at
  <2>2. BoundScans(ast, scans) /\ Grown(st.scans, scans)
    BY <1>2, <2>1, NeedColKeeps
  <2> HIDE DEF scans, output
  <2>3. DOMAIN new = StateKeys /\ new.scans = scans /\ new.keys = st.keys
    BY DEF BoundState, StateKeys
  <2> HIDE DEF new
  <2>4. KeysIn(scans, st.keys)
    BY <2>2, GrownKeys DEF BoundState
  <2>5. QED
    BY <2>2, <2>3, <2>4 DEF BoundState
<1> HIDE DEF at, new, any
<1>5. \/ BindItem(st, it) = any
      \/ BindItem(st, it) = [st EXCEPT !.ok = FALSE]
      \/ at.ok /\ BindItem(st, it) = new
  BY <1>1, Zenon
<1>6. QED
  BY <1>3, <1>4, <1>5, RefusedKeeps

LEMMA BindGroupKeeps ==
  ASSUME NEW ast, NEW st, BoundState(ast, st), NEW name
  PROVE  BoundState(ast, BindGroup(st, name))
<1> DEFINE at == Resolve(st.scans, name.qual, name.col)
           bound == Bound(st, at)
           group == Append(bound.group_by, [scan |-> at.scan, pos |-> PosOf(bound.scans, at)])
           new == [bound EXCEPT !.group_by = group]
<1>1. BindGroup(st, name) = IF ~st.ok \/ ~at.ok THEN [st EXCEPT !.ok = FALSE] ELSE new
  BY Zenon DEF BindGroup
<1>2. BoundScans(ast, st.scans)
  BY DEF BoundState
<1>3. ASSUME at.ok PROVE BoundState(ast, new)
  <2>1. at.scan \in DOMAIN st.scans /\ at.idx \in DOMAIN st.scans[at.scan].fields
    BY <1>2, <1>3, ResolvedAt
  <2> HIDE DEF at
  <2>2. BoundState(ast, bound)
    BY <1>3, <2>1, BoundKeeps
  <2> HIDE DEF bound, group
  <2>3. DOMAIN new = StateKeys /\ new.scans = bound.scans /\ new.keys = bound.keys
    BY <2>2 DEF BoundState, StateKeys
  <2> HIDE DEF new
  <2>4. QED
    BY <2>2, <2>3 DEF BoundState
<1> HIDE DEF at, new
<1>4. QED
  BY <1>1, <1>3, RefusedKeeps

\* The parts of a statement that the passes bind.
Steps(ast) ==
  {[part |-> "pred", of |-> ast.preds[k]] : k \in DOMAIN ast.preds}
    \cup {[part |-> "joins", of |-> ast.joins]}
    \cup {[part |-> "item", of |-> ast.select[k]] : k \in DOMAIN ast.select}
    \cup {[part |-> "group", of |-> ast.group_by[k]] : k \in DOMAIN ast.group_by}

LEMMA BindKeeps ==
  ASSUME NEW ast, NEW st, BoundState(ast, st), NEW step \in Steps(ast)
  PROVE  BoundState(ast, Bind(st, step))
<1>1. CASE step \in {[part |-> "pred", of |-> ast.preds[k]] : k \in DOMAIN ast.preds}
  <2>1. PICK k \in DOMAIN ast.preds : step = [part |-> "pred", of |-> ast.preds[k]]
    BY <1>1
  <2>2. Bind(st, step) = PushPred(st, ast.preds[k])
    BY <2>1 DEF Bind
  <2>3. QED
    BY <2>2, PushPredKeeps
<1>2. CASE step = [part |-> "joins", of |-> ast.joins]
  <2>1. Bind(st, step) = BindJoin(st, ast.joins)
    BY <1>2 DEF Bind
  <2>2. QED
    BY <2>1, BindJoinKeeps
<1>3. CASE step \in {[part |-> "item", of |-> ast.select[k]] : k \in DOMAIN ast.select}
  <2>1. PICK k \in DOMAIN ast.select : step = [part |-> "item", of |-> ast.select[k]]
    BY <1>3
  <2>2. Bind(st, step) = BindItem(st, ast.select[k])
    BY <2>1 DEF Bind
  <2>3. QED
    BY <2>2, BindItemKeeps
<1>4. CASE step \in {[part |-> "group", of |-> ast.group_by[k]] : k \in DOMAIN ast.group_by}
  <2>1. PICK k \in DOMAIN ast.group_by : step = [part |-> "group", of |-> ast.group_by[k]]
    BY <1>4
  <2>2. Bind(st, step) = BindGroup(st, ast.group_by[k])
    BY <2>1 DEF Bind
  <2>3. QED
    BY <2>2, BindGroupKeeps
<1>5. QED
  BY <1>1, <1>2, <1>3, <1>4 DEF Steps

\* All steps in turn, one after the other.
IsBound(f, bound, steps, n) ==
  f = [k \in 0..n |-> IF k = 0 THEN bound ELSE Bind(f[k - 1], steps[k])]
Bindable(bound, steps, n) == \E f : IsBound(f, bound, steps, n)

LEMMA BoundExtends ==
  ASSUME NEW bound, NEW steps, NEW k \in Nat, Bindable(bound, steps, k)
  PROVE  Bindable(bound, steps, k + 1)
<1>1. PICK f : IsBound(f, bound, steps, k)
  BY DEF Bindable
<1> DEFINE new == Bind(f[k], steps[k + 1])
           g == [x \in 0..(k + 1) |-> IF x = k + 1 THEN new ELSE f[x]]
<1>2. /\ g[k + 1] = new
      /\ \A x \in 0..k : g[x] = f[x]
  <2>1. k + 1 \in 0..(k + 1) /\ \A x \in 0..k : x \in 0..(k + 1) /\ x # k + 1
    OBVIOUS
  <2> HIDE DEF new
  <2>2. QED
    BY <2>1, Zenon
<1>3. g = [x \in 0..(k + 1) |-> g[x]]
  OBVIOUS
<1>4. \A x \in 0..k : f[x] = IF x = 0 THEN bound ELSE Bind(f[x - 1], steps[x])
  BY <1>1 DEF IsBound
<1> HIDE DEF g
<1>5. ASSUME NEW x \in 0..(k + 1)
      PROVE  g[x] = IF x = 0 THEN bound ELSE Bind(g[x - 1], steps[x])
  <2>1. CASE x = k + 1
    <3>1. x # 0 /\ x - 1 = k /\ k \in 0..k
      BY <2>1
    <3>2. QED
      BY <1>2, <2>1, <3>1
  <2>2. CASE x = 0
    <3>1. 0 \in 0..k
      OBVIOUS
    <3>2. QED
      BY <1>2, <1>4, <2>2, <3>1
  <2>3. CASE x # k + 1 /\ x # 0
    <3>1. x \in 0..k /\ x - 1 \in 0..k
      BY <2>3
    <3>2. QED
      BY <1>2, <1>4, <3>1
  <2>4. QED
    BY <2>1, <2>2, <2>3
<1>6. IsBound(g, bound, steps, k + 1)
  BY <1>3, <1>5 DEF IsBound
<1>7. QED
  BY <1>6 DEF Bindable

LEMMA BoundExists ==
  ASSUME NEW bound, NEW steps, NEW n \in Nat
  PROVE  Bindable(bound, steps, n)
<1> DEFINE Bad == {k \in 0..n : ~Bindable(bound, steps, k)}
<1>1. Bindable(bound, steps, 0)
  <2> DEFINE f == [x \in 0..0 |-> bound]
  <2>1. f = [k \in 0..0 |-> IF k = 0 THEN bound ELSE Bind(f[k - 1], steps[k])]
    OBVIOUS
  <2> HIDE DEF f
  <2>2. QED
    BY <2>1 DEF Bindable, IsBound
<1>2. SUFFICES ASSUME Bad # {} PROVE FALSE
  OBVIOUS
<1>3. Bad \subseteq Nat
  OBVIOUS
<1>4. PICK k \in Bad : \A j \in Bad : k <= j
  <2> HIDE DEF Bad
  <2>1. QED
    BY <1>2, <1>3, LeastNat
<1>5. k \in 0..n /\ ~Bindable(bound, steps, k) /\ k # 0
  BY <1>1
<1>6. k - 1 \in Nat /\ k - 1 \in 0..n /\ (k - 1) + 1 = k
  BY <1>5
<1>7. k - 1 \notin Bad
  BY <1>4, <1>6
<1>8. Bindable(bound, steps, k - 1)
  BY <1>6, <1>7
<1>9. QED
  BY <1>5, <1>6, <1>8, BoundExtends

\* The lists of a statement are sequences.
Lists(ast) ==
  \A list \in {ast.preds, ast.joins, ast.select, ast.group_by} : list \in Seq(ToSet(list))

LEMMA StepsAre ==
  ASSUME NEW ast, Lists(ast)
  PROVE  BindSteps(ast) \in Seq(Steps(ast))
<1> DEFINE each(part, items) == [i \in DOMAIN items |-> [part |-> part, of |-> items[i]]]
           S == Steps(ast)
<1>1. ASSUME NEW items, items \in Seq(ToSet(items)), NEW part,
             \A i \in DOMAIN items : [part |-> part, of |-> items[i]] \in S
      PROVE  each(part, items) \in Seq(S)
  <2>1. DOMAIN items = 1..Len(items) /\ Len(items) \in Nat
    BY <1>1, LenProperties
  <2> HIDE DEF S
  <2>2. each(part, items) \in [1..Len(items) -> S]
    BY <1>1, <2>1
  <2>3. QED
    BY <2>1, <2>2, SeqDef
<1>2. each("pred", ast.preds) \in Seq(S)
  <2>1. \A i \in DOMAIN ast.preds : [part |-> "pred", of |-> ast.preds[i]] \in S
    BY DEF Steps
  <2>2. ast.preds \in Seq(ToSet(ast.preds))
    BY DEF Lists
  <2> HIDE DEF S, each
  <2>3. QED
    BY <1>1, <2>1, <2>2
<1>3. each("joins", <<ast.joins>>) \in Seq(S)
  <2> DEFINE joins == <<ast.joins>>
  <2>1. joins \in Seq(ToSet(joins)) /\ DOMAIN joins = {1} /\ joins[1] = ast.joins
    BY DEF ToSet
  <2>2. [part |-> "joins", of |-> ast.joins] \in S
    BY DEF Steps
  <2> HIDE DEF S, each, joins
  <2>3. \A i \in DOMAIN joins : [part |-> "joins", of |-> joins[i]] \in S
    BY <2>1, <2>2
  <2>4. each("joins", joins) \in Seq(S)
    BY <1>1, <2>1, <2>3
  <2>5. QED
    BY <2>4 DEF joins
<1>4. each("item", ast.select) \in Seq(S)
  <2>1. \A i \in DOMAIN ast.select : [part |-> "item", of |-> ast.select[i]] \in S
    BY DEF Steps
  <2>2. ast.select \in Seq(ToSet(ast.select))
    BY DEF Lists
  <2> HIDE DEF S, each
  <2>3. QED
    BY <1>1, <2>1, <2>2
<1>5. each("group", ast.group_by) \in Seq(S)
  <2>1. \A i \in DOMAIN ast.group_by : [part |-> "group", of |-> ast.group_by[i]] \in S
    BY DEF Steps
  <2>2. ast.group_by \in Seq(ToSet(ast.group_by))
    BY DEF Lists
  <2> HIDE DEF S, each
  <2>3. QED
    BY <1>1, <2>1, <2>2
<1>6. BindSteps(ast) = each("pred", ast.preds) \o each("joins", <<ast.joins>>)
                         \o each("item", ast.select) \o each("group", ast.group_by)
  BY Zenon DEF BindSteps
<1> HIDE DEF S, each
<1>7. BindSteps(ast) \in Seq(S)
  BY <1>2, <1>3, <1>4, <1>5, <1>6, ConcatProperties
<1>8. QED
  BY <1>7 DEF S

\* All passes keep what BoundState says.
LEMMA BindAllKeeps ==
  ASSUME NEW ast, Lists(ast), NEW bound, BoundState(ast, bound)
  PROVE  BoundState(ast, BindAll(bound, ast))
<1> DEFINE steps == BindSteps(ast)
           n == Len(steps)
           f == CHOOSE f : IsBound(f, bound, steps, n)
           Bad == {k \in 0..n : ~BoundState(ast, f[k])}
<1>1. steps \in Seq(Steps(ast)) /\ n \in Nat
  BY StepsAre, LenProperties
<1> HIDE DEF steps
<1>2. IsBound(f, bound, steps, n)
  BY <1>1, BoundExists DEF Bindable
<1>3. BindAll(bound, ast) = f[n]
  BY Zenon DEF BindAll, IsBound, steps
<1> HIDE DEF f
<1>4. \A k \in 0..n : f[k] = IF k = 0 THEN bound ELSE Bind(f[k - 1], steps[k])
  BY <1>2 DEF IsBound
<1>5. ASSUME Bad # {} PROVE FALSE
  <2>1. Bad \subseteq Nat
    OBVIOUS
  <2>2. PICK k \in Bad : \A j \in Bad : k <= j
    <3> HIDE DEF Bad
    <3>1. QED
      BY <1>5, <2>1, LeastNat
  <2>3. k \in 0..n /\ ~BoundState(ast, f[k])
    OBVIOUS
  <2>4. k # 0
    BY <1>4, <2>3
  <2>5. k \in 1..n /\ k - 1 \in 0..n /\ k - 1 \notin Bad
    BY <1>1, <2>2, <2>3, <2>4
  <2>6. BoundState(ast, f[k - 1])
    BY <2>5
  <2>7. steps[k] \in Steps(ast)
    BY <1>1, <2>5, ElementOfSeq
  <2>8. f[k] = Bind(f[k - 1], steps[k])
    BY <1>4, <2>3, <2>4
  <2>9. QED
    BY <2>3, <2>6, <2>7, <2>8, BindKeeps
<1>6. n \in 0..n
  BY <1>1
<1>7. QED
  BY <1>3, <1>5, <1>6

-----------------------------------------------------------------------------
(* Pruning.                                                                 *)

\* What PrunedFilesHoldNothing says of one scan.
NothingLost(scan) ==
  LET table == Tables[scan.table] IN
  \A f \in DOMAIN table.files :
    Catalog[scan.table].files[f] \notin ToSet(scan.files) =>
      \A i \in DOMAIN table.files[f][1].vals : \E p \in ToSet(scan.preds) :
         ~Satisfies(table.files[f][p.col_idx].vals[i], p.op, p.lit.v)

\* A scan whose columns and predicates are bound and whose files are pruned.
ReadyScan(ast, scan) ==
  /\ scan.table \in DOMAIN Tables
  /\ scan.cols \in Seq(DOMAIN Tables[scan.table].fields)
  /\ scan.preds \in Seq(PredsFor(ast, Tables[scan.table].fields))
  /\ \E S : scan.files = Only(Catalog[scan.table].files, S)
  /\ NothingLost(scan)

\* The integer literals of a statement.
Literals(ast) ==
  \A k \in DOMAIN ast.preds : ast.preds[k].lit.dtype = "Int64" => ast.preds[k].lit.v \in Int

LEMMA PrunedByWhat ==
  ASSUME NEW ast, Literals(ast), NEW scan, BoundScan(ast, scan),
         NEW f \in DOMAIN Tables[scan.table].files, PrunedBy(scan, Catalog[scan.table].files[f]),
         NEW i \in DOMAIN Tables[scan.table].files[f][1].vals
  PROVE  \E p \in ToSet(scan.preds) :
           ~Satisfies(Tables[scan.table].files[f][p.col_idx].vals[i], p.op, p.lit.v)
<1> DEFINE n == scan.table
           fields == Tables[n].fields
           file == Catalog[n].files[f]
<1>1. n \in DOMAIN Tables /\ scan.fields = fields /\ scan.preds \in Seq(PredsFor(ast, fields))
  BY DEF BoundScan
<1>2. PICK k \in DOMAIN scan.preds :
        FilePrunes(file, scan.preds[k].field_id, PredOn(scan, scan.preds[k]).dtype,
                   scan.preds[k].op, scan.preds[k].lit)
  BY Zenon DEF PrunedBy
<1> DEFINE p == scan.preds[k]
<1>3. p \in PredsFor(ast, fields) /\ p \in ToSet(scan.preds)
  <2>1. DOMAIN scan.preds = 1..Len(scan.preds)
    BY <1>1, LenProperties
  <2>2. QED
    BY <1>1, <2>1, ElementOfSeq DEF ToSet
<1>4. PICK c \in DOMAIN fields, m \in DOMAIN ast.preds :
        p = [col_idx |-> c, field_id |-> fields[c].id, op |-> ast.preds[m].op, lit |-> ast.preds[m].lit]
  BY <1>3 DEF PredsFor
<1> HIDE DEF p, fields
<1>5. p.col_idx = c /\ p.field_id = fields[c].id /\ p.op = ast.preds[m].op /\ p.lit = ast.preds[m].lit
  BY <1>4
<1>6. \A d, e \in DOMAIN fields : fields[d].id = fields[e].id => d = e
  BY <1>1, TableShape DEF fields
<1>7. PredOn(scan, p) = fields[c]
  <2>1. fields[c] \in ToSet(fields) /\ \A x \in ToSet(fields) : \E d \in DOMAIN fields : x = fields[d]
    BY DEF ToSet
  <2>2. \A x \in ToSet(fields) : x.id = p.field_id => x = fields[c]
    BY <1>5, <1>6, <2>1
  <2>3. fields[c] \in ToSet(fields) /\ fields[c].id = p.field_id
    BY <1>5, <2>1
  <2>4. QED
    BY <1>1, <2>2, <2>3, Zenon DEF PredOn
<1>8. FilePrunes(file, fields[c].id, fields[c].dtype, p.op, p.lit)
  BY <1>2, <1>5, <1>7 DEF p
<1>9. p.lit.dtype = "Int64" => p.lit.v \in Int
  BY <1>5 DEF Literals
<1>10. ~Satisfies(Tables[n].files[f][c].vals[i], p.op, p.lit.v)
  BY <1>1, <1>8, <1>9, FilePrunesSoundly DEF fields
<1>11. QED
  BY <1>3, <1>5, <1>10

LEMMA PruneFilesSoundly ==
  ASSUME NEW ast, Literals(ast), NEW scan, BoundScan(ast, scan)
  PROVE  ReadyScan(ast, PruneFiles(scan)) /\ PruneFiles(scan).cols = scan.cols
<1> DEFINE n == scan.table
           files == scan.files
           S == {f \in ToSet(files) : ~PrunedBy(scan, f)}
           kept == Only(files, S)
           lost == Len(files) - Len(kept)
           est == Estimate(kept, scan.preds)
           new == [scan EXCEPT !.files = kept, !.pruned = lost, !.est = est]
<1>1. PruneFiles(scan) = new
  BY Zenon DEF PruneFiles
<1>2. n \in DOMAIN Tables /\ files = Catalog[n].files
  BY DEF BoundScan
<1>3. files \in Seq(ToSet(files)) /\ DOMAIN files = DOMAIN Tables[n].files
  BY <1>2, CatalogShape
<1>4. ASSUME NEW f \in DOMAIN Tables[n].files, files[f] \notin ToSet(kept)
      PROVE  PrunedBy(scan, files[f])
  <2>1. files[f] \in ToSet(files)
    BY <1>3 DEF ToSet
  <2>2. files[f] \notin S
    <3> HIDE DEF S
    <3>1. QED
      BY <1>3, <1>4, <2>1, OnlyKeeps
  <2>3. QED
    BY <2>1, <2>2
<1> HIDE DEF kept, est, lost
<1>5. new.table = n /\ new.preds = scan.preds /\ new.files = kept /\ new.cols = scan.cols
  BY DEF BoundScan, ScanKeys
<1>k. \E R : kept = Only(files, R)
  BY DEF kept
<1> HIDE DEF new, files
<1>6. ASSUME NEW f \in DOMAIN Tables[n].files, Catalog[n].files[f] \notin ToSet(kept),
             NEW i \in DOMAIN Tables[n].files[f][1].vals
      PROVE  \E p \in ToSet(scan.preds) :
               ~Satisfies(Tables[n].files[f][p.col_idx].vals[i], p.op, p.lit.v)
  BY <1>2, <1>4, <1>6, PrunedByWhat
<1>7. NothingLost(new)
  BY <1>5, <1>6 DEF NothingLost
<1>8. ReadyScan(ast, new)
  <2>1. \E R : new.files = Only(Catalog[n].files, R)
    BY <1>2, <1>5, <1>k
  <2>2. /\ scan.cols \in Seq(DOMAIN Tables[n].fields)
        /\ scan.preds \in Seq(PredsFor(ast, Tables[n].fields))
    BY DEF BoundScan
  <2> HIDE DEF n
  <2>3. QED
    BY <1>2, <1>5, <1>7, <2>1, <2>2 DEF ReadyScan
<1>9. QED
  BY <1>1, <1>5, <1>8

\* The scans of a plan lose nothing, and its join is on columns of two of them.
JoinOn(scans, j) ==
  /\ KeyIn(scans, [scan |-> j.build, pos |-> j.build_key])
  /\ KeyIn(scans, [scan |-> j.probe, pos |-> j.probe_key])
PlanSound(ast, p) ==
  p.ok => /\ \A s \in DOMAIN p.scans : ReadyScan(ast, p.scans[s])
          /\ p.join = NoJoin \/ JoinOn(p.scans, p.join[1])

LEMMA JoinChosen ==
  ASSUME NEW scans, NEW keys, KeysIn(scans, keys)
  PROVE  ChooseJoin(scans, keys) = NoJoin \/ JoinOn(scans, ChooseJoin(scans, keys)[1])
<1> DEFINE l == keys[1]
           r == keys[2]
           left == AtMost(scans[l.scan].est, scans[r.scan].est)
           build == IF left THEN l ELSE r
           probe == IF left THEN r ELSE l
           small == ~AtMost(<<BroadcastThreshold, 1>>, Times(scans[build.scan].est, <<RowWidth, 1>>))
           how == IF small THEN "Broadcast" ELSE "Shuffle"
           j == [build |-> build.scan, probe |-> probe.scan, build_key |-> build.pos,
                 probe_key |-> probe.pos, strategy |-> how]
<1>1. ChooseJoin(scans, keys) = IF keys = <<>> THEN NoJoin ELSE <<j>>
  BY Zenon DEF ChooseJoin
<1>2. CASE keys = <<>>
  BY <1>1, <1>2
<1>3. CASE keys # <<>>
  <2>1. KeyIn(scans, l) /\ KeyIn(scans, r)
    BY <1>3 DEF KeysIn
  <2> HIDE DEF l, r, left, how
  <2>2. KeyIn(scans, build) /\ KeyIn(scans, probe)
    BY <2>1
  <2> HIDE DEF build, probe
  <2>3. /\ j.build = build.scan /\ j.build_key = build.pos
        /\ j.probe = probe.scan /\ j.probe_key = probe.pos
    OBVIOUS
  <2> HIDE DEF j
  <2>4. JoinOn(scans, j)
    BY <2>2, <2>3 DEF JoinOn, KeyIn
  <2>5. ChooseJoin(scans, keys)[1] = j
    BY <1>1, <1>3
  <2>6. QED
    BY <2>4, <2>5
<1>4. QED
  BY <1>2, <1>3

LEMMA PlansAreSound ==
  ASSUME NEW ast, Lists(ast), Literals(ast)
  PROVE  PlanSound(ast, Plan(ast, Catalog))
<1> DEFINE names == <<[table |-> ast.table, alias |-> ast.alias]>>
                      \o [k \in DOMAIN ast.joins |-> [table |-> ast.joins[k].table,
                                                      alias |-> ast.joins[k].alias]]
           scans == [k \in DOMAIN names |-> BindTable(Catalog, names[k].table, names[k].alias)]
           bound == [ok |-> TRUE, keys |-> <<>>, output |-> <<>>, group_by |-> <<>>, scans |-> scans]
           st == BindAll(bound, ast)
<1>1. Plan(ast, Catalog) = IF \E k \in DOMAIN names : names[k].table \notin DOMAIN Catalog
                           THEN NoPlan ELSE Chosen(st, ast)
  BY Zenon DEF Plan
<1>2. PlanSound(ast, NoPlan)
  BY DEF PlanSound, NoPlan
<1>3. DOMAIN names \subseteq Nat \ {0}
  <2> DEFINE first == <<[table |-> ast.table, alias |-> ast.alias]>>
             more == [k \in DOMAIN ast.joins |-> [table |-> ast.joins[k].table,
                                                  alias |-> ast.joins[k].alias]]
             T == ToSet(first) \cup ToSet(more)
  <2>1. ast.joins \in Seq(ToSet(ast.joins))
    BY DEF Lists
  <2>2. DOMAIN ast.joins = 1..Len(ast.joins) /\ Len(ast.joins) \in Nat
    BY <2>1, LenProperties
  <2>3. first \in Seq(T)
    <3>1. first[1] \in T
      BY DEF ToSet
    <3>2. QED
      BY <3>1
  <2>4. more \in Seq(T)
    <3>1. more = [k \in DOMAIN ast.joins |-> more[k]] /\ DOMAIN more = DOMAIN ast.joins
      OBVIOUS
    <3> HIDE DEF more
    <3>2. \A k \in DOMAIN more : more[k] \in T
      BY DEF ToSet
    <3>3. more \in [1..Len(ast.joins) -> T]
      BY <2>2, <3>1, <3>2
    <3>4. QED
      BY <2>2, <3>3, SeqDef
  <2>5. names = first \o more
    OBVIOUS
  <2> HIDE DEF first, more, T, names
  <2>6. names \in Seq(T)
    BY <2>3, <2>4, <2>5, ConcatProperties
  <2>7. DOMAIN names = 1..Len(names) /\ Len(names) \in Nat
    BY <2>6, LenProperties
  <2>8. QED
    BY <2>7
<1> HIDE DEF names
<1>4. ASSUME \A k \in DOMAIN names : names[k].table \in DOMAIN Catalog
      PROVE  BoundState(ast, bound)
  <2>1. ASSUME NEW k \in DOMAIN names PROVE BoundScan(ast, scans[k])
    <3> DEFINE n == names[k].table
               count == <<RecordCount(Catalog[n].files), 1>>
               scan == BindTable(Catalog, n, names[k].alias)
    <3>1. n \in DOMAIN Tables
      BY <1>4, <2>1 DEF Catalog
    <3>2. scan = [table |-> n, alias |-> names[k].alias, fields |-> Catalog[n].fields, cols |-> <<>>,
                  preds |-> <<>>, files |-> Catalog[n].files, est |-> count, pruned |-> 0]
      BY Zenon DEF BindTable
    <3>3. scans[k] = scan
      BY <2>1
    <3> HIDE DEF count, n
    <3>4. Catalog[n].fields = Tables[n].fields
      BY <3>1, CatalogShape
    <3>5. BoundScan(ast, scan)
      BY <3>1, <3>2, <3>4 DEF BoundScan, ScanKeys
    <3>6. QED
      BY <3>3, <3>5 DEF n
  <2>2. DOMAIN scans = DOMAIN names
    OBVIOUS
  <2> HIDE DEF scans
  <2>3. BoundScans(ast, scans)
    BY <1>3, <2>1, <2>2 DEF BoundScans
  <2>4. KeysIn(scans, <<>>)
    BY DEF KeysIn
  <2>5. QED
    BY <2>3, <2>4 DEF BoundState, StateKeys
<1> HIDE DEF bound
<1>5. ASSUME BoundState(ast, st) PROVE PlanSound(ast, Chosen(st, ast))
  <2> HIDE DEF st
  <2> DEFINE pruned == [s \in DOMAIN st.scans |-> PruneFiles(st.scans[s])]
  <2>1. Chosen(st, ast) = IF st.ok THEN Strategy(pruned, st, ast) ELSE NoPlan
    BY Zenon DEF Chosen
  <2>2. /\ DOMAIN pruned = DOMAIN st.scans
        /\ \A s \in DOMAIN pruned : ReadyScan(ast, pruned[s]) /\ pruned[s].cols = st.scans[s].cols
    <3>1. ASSUME NEW s \in DOMAIN st.scans
          PROVE  ReadyScan(ast, PruneFiles(st.scans[s])) /\ PruneFiles(st.scans[s]).cols = st.scans[s].cols
      <4>1. BoundScan(ast, st.scans[s])
        BY <1>5 DEF BoundState, BoundScans
      <4>2. QED
        BY <4>1, PruneFilesSoundly
    <3>2. QED
      BY <3>1
  <2> HIDE DEF pruned
  <2>3. KeysIn(pruned, st.keys)
    <3>1. Grown(st.scans, pruned)
      BY <2>2 DEF Grown
    <3>2. QED
      BY <1>5, <3>1, GrownKeys DEF BoundState
  <2>4. ChooseJoin(pruned, st.keys) = NoJoin \/ JoinOn(pruned, ChooseJoin(pruned, st.keys)[1])
    BY <2>3, JoinChosen
  <2>5. Strategy(pruned, st, ast).scans = pruned /\ Strategy(pruned, st, ast).join = ChooseJoin(pruned, st.keys)
    BY DEF Strategy
  <2>6. PlanSound(ast, Strategy(pruned, st, ast))
    BY <2>2, <2>4, <2>5 DEF PlanSound
  <2>7. QED
    BY <1>2, <2>1, <2>6
<1>6. QED
  BY <1>1, <1>2, <1>4, <1>5, BindAllKeeps

-----------------------------------------------------------------------------
(* Every query.                                                             *)

IsAst(ast) == \E q \in Queries : StatementOf(q).ok /\ ast = StatementOf(q).v
PlanInv ==
  /\ query \in Queries
  /\ plan.ok => StatementOf(query).ok
  /\ PlanSound(StatementOf(query).v, plan)

LEMMA InitPlan == Init => PlanInv
BY DEF Init, PlanInv, PlanSound, NoPlan

LEMMA NextPlan == PlanInv /\ [Next]_vars => PlanInv'
<1> SUFFICES ASSUME PlanInv, [Next]_vars PROVE PlanInv'
  OBVIOUS
<1>1. CASE PlanQuery
  <2> DEFINE st == StatementOf(query)
             new == PlanOf(st)
  <2>1. query \in Queries /\ query' = query
    BY <1>1 DEF PlanQuery, PlanInv
  <2>2. plan' = new
    BY <1>1 DEF PlanQuery, Begin, Broadcast
  <2>3. PlanSound(st.v, new) /\ (new.ok => st.ok)
    <3>1. CASE st.ok
      <4>1. Lists(st.v) /\ Literals(st.v)
        BY <2>1, <3>1, StatementsAssumption DEF Lists, Literals
      <4>2. new = Plan(st.v, Catalog)
        BY <3>1 DEF PlanOf
      <4>3. QED
        BY <3>1, <4>1, <4>2, PlansAreSound
    <3>2. CASE ~st.ok
      BY <3>2 DEF PlanOf, PlanSound, NoPlan
    <3>3. QED
      BY <3>1, <3>2
  <2> HIDE DEF new
  <2>4. PlanInv'
    BY <2>1, <2>2, <2>3, Zenon DEF PlanInv
  <2>5. QED
    BY <2>4
<1>2. CASE UNCHANGED <<query, plan>>
  BY <1>2, Zenon DEF PlanInv
<1>3. ASSUME NEW t \in Threads, Claim(t) \/ Flush(t) \/ HandIn(t) PROVE UNCHANGED <<query, plan>>
  BY <1>3 DEF Claim, Flush, HandIn
<1>4. ASSUME EndRamp \/ Merge \/ Rest \/ UNCHANGED vars PROVE UNCHANGED <<query, plan>>
  BY <1>4 DEF EndRamp, Merge, Rest, vars
<1>5. QED
  BY <1>1, <1>2, <1>3, <1>4 DEF Next

\* Pruning by the bounds in the manifests loses nothing: every data file that a plan leaves out
\* holds only rows that one of the scan's predicates refuses (plan, file_prunes,
\* write_data_file), for all tables and statements.
THEOREM PrunedFilesAreUseless == Spec => []PrunedFilesHoldNothing
<1>1. PlanInv => PrunedFilesHoldNothing
  BY DEF PlanInv, PlanSound, ReadyScan, NothingLost, PrunedFilesHoldNothing
<1>2. QED
  BY <1>1, InitPlan, NextPlan, PTL DEF Spec

-----------------------------------------------------------------------------
(* Rows in many lists: in each of two families of lists there are the same  *)
(* rows, one for one, in whatever order.                                    *)

\* The places <<d, i>> of the lists G[d], d \in D; the row there; a run of m places.
Places(G, D) == {x \in D \X Nat : x[2] \in 1..Len(G[x[1]])}
RowAt(G, x) == G[x[1]][x[2]]
Run(d, n, m) == {d} \X ((n + 1)..(n + m))

\* b pairs the rows at places P of G with those at places Q of H.
Pairs(b, G, P, H, Q) ==
  /\ b \in [P -> Q]
  /\ \A x, y \in P : b[x] = b[y] => x = y
  /\ \A z \in Q : \E x \in P : b[x] = z
  /\ \A x \in P : RowAt(H, b[x]) = RowAt(G, x)
Same(G, P, H, Q) == \E b : Pairs(b, G, P, H, Q)

LEMMA SameAs ==
  ASSUME NEW G, NEW H, NEW P, \A x \in P : RowAt(H, x) = RowAt(G, x)
  PROVE  Same(G, P, H, P)
<1> DEFINE b == [x \in P |-> x]
<1>1. Pairs(b, G, P, H, P)
  BY DEF Pairs
<1>2. QED
  BY <1>1 DEF Same

LEMMA SameSym ==
  ASSUME NEW G, NEW P, NEW H, NEW Q, Same(G, P, H, Q)
  PROVE  Same(H, Q, G, P)
<1>1. PICK b : Pairs(b, G, P, H, Q)
  BY DEF Same
<1> DEFINE c == [z \in Q |-> CHOOSE x \in P : b[x] = z]
<1>2. \A z \in Q : c[z] \in P /\ b[c[z]] = z
  BY <1>1 DEF Pairs
<1>3. c \in [Q -> P]
  BY <1>2
<1>4. \A x \in P : b[x] \in Q
  BY <1>1 DEF Pairs
<1> HIDE DEF c
<1>5. \A x \in P : c[b[x]] = x
  BY <1>1, <1>2, <1>4 DEF Pairs
<1>6. \A z \in Q : RowAt(G, c[z]) = RowAt(H, z)
  BY <1>1, <1>2 DEF Pairs
<1>7. Pairs(c, H, Q, G, P)
  BY <1>2, <1>3, <1>4, <1>5, <1>6 DEF Pairs
<1>8. QED
  BY <1>7 DEF Same

LEMMA SameTrans ==
  ASSUME NEW G, NEW P, NEW H, NEW Q, NEW I, NEW R, Same(G, P, H, Q), Same(H, Q, I, R)
  PROVE  Same(G, P, I, R)
<1>1. PICK b : Pairs(b, G, P, H, Q)
  BY DEF Same
<1>2. PICK c : Pairs(c, H, Q, I, R)
  BY DEF Same
<1> DEFINE d == [x \in P |-> c[b[x]]]
<1>3. \A x \in P : b[x] \in Q
  BY <1>1 DEF Pairs
<1>4. \A x \in P : d[x] \in R
  BY <1>2, <1>3 DEF Pairs
<1>5. d \in [P -> R]
  BY <1>4
<1>6. \A x \in P : d[x] = c[b[x]]
  OBVIOUS
<1> HIDE DEF d
<1>7. ASSUME NEW x \in P, NEW y \in P, d[x] = d[y] PROVE x = y
  BY <1>1, <1>2, <1>3, <1>6, <1>7 DEF Pairs
<1>8. ASSUME NEW z \in R PROVE \E x \in P : d[x] = z
  <2>1. PICK y \in Q : c[y] = z
    BY <1>2 DEF Pairs
  <2>2. PICK x \in P : b[x] = y
    BY <1>1 DEF Pairs
  <2>3. QED
    BY <1>6, <2>1, <2>2
<1>9. ASSUME NEW x \in P PROVE RowAt(I, d[x]) = RowAt(G, x)
  BY <1>1, <1>2, <1>3, <1>6 DEF Pairs
<1>10. Pairs(d, G, P, I, R)
  BY <1>5, <1>7, <1>8, <1>9 DEF Pairs
<1>11. QED
  BY <1>10 DEF Same

LEMMA SameUnion ==
  ASSUME NEW G, NEW P, NEW H, NEW Q, NEW O, NEW R, Same(G, P, H, Q), Same(G, O, H, R),
         P \cap O = {}, Q \cap R = {}
  PROVE  Same(G, P \cup O, H, Q \cup R)
<1>1. PICK b : Pairs(b, G, P, H, Q)
  BY DEF Same
<1>2. PICK c : Pairs(c, G, O, H, R)
  BY DEF Same
<1> DEFINE d == [x \in P \cup O |-> IF x \in P THEN b[x] ELSE c[x]]
<1>3. /\ \A x \in P : d[x] = b[x] /\ d[x] \in Q
      /\ \A x \in O : d[x] = c[x] /\ d[x] \in R
  <2>1. \A x \in O : x \notin P
    OBVIOUS
  <2>2. (\A x \in P : b[x] \in Q) /\ \A x \in O : c[x] \in R
    BY <1>1, <1>2 DEF Pairs
  <2>3. QED
    BY <2>1, <2>2
<1>4. d \in [P \cup O -> Q \cup R]
  BY <1>3
<1> HIDE DEF d
<1>5. ASSUME NEW x \in P \cup O, NEW y \in P \cup O, d[x] = d[y] PROVE x = y
  <2>1. x \in P /\ y \in P => x = y
    BY <1>1, <1>3, <1>5 DEF Pairs
  <2>2. x \in O /\ y \in O => x = y
    BY <1>2, <1>3, <1>5 DEF Pairs
  <2>3. ~(d[x] \in Q /\ d[x] \in R)
    OBVIOUS
  <2>4. ~(x \in P /\ y \in O) /\ ~(x \in O /\ y \in P)
    BY <1>3, <1>5, <2>3
  <2>5. QED
    BY <2>1, <2>2, <2>4
<1>6. ASSUME NEW z \in Q \cup R PROVE \E x \in P \cup O : d[x] = z
  <2>1. z \in Q => \E x \in P : d[x] = z
    BY <1>1, <1>3 DEF Pairs
  <2>2. z \in R => \E x \in O : d[x] = z
    BY <1>2, <1>3 DEF Pairs
  <2>3. QED
    BY <2>1, <2>2
<1>7. ASSUME NEW x \in P \cup O PROVE RowAt(H, d[x]) = RowAt(G, x)
  BY <1>1, <1>2, <1>3 DEF Pairs
<1>8. Pairs(d, G, P \cup O, H, Q \cup R)
  BY <1>4, <1>5, <1>6, <1>7 DEF Pairs
<1>9. QED
  BY <1>8 DEF Same

\* C is D and E.
Parts(C, D, E) == C = D \cup E /\ D \cap E = {}

LEMMA SameParts ==
  ASSUME NEW G, NEW P, NEW H, NEW Q, NEW O, NEW R, NEW U, NEW V,
         Same(G, P, H, Q), Same(G, O, H, R), Parts(U, P, O), Parts(V, Q, R)
  PROVE  Same(G, U, H, V)
<1>1. Same(G, P \cup O, H, Q \cup R)
  BY SameUnion, Zenon DEF Parts
<1>2. U = P \cup O /\ V = Q \cup R
  BY Zenon DEF Parts
<1>3. QED
  BY <1>1, <1>2, Zenon

\* Of the rows on both sides, those in S.
Having(G, P, S) == {x \in P : RowAt(G, x) \in S}

LEMMA SameWhere ==
  ASSUME NEW G, NEW P, NEW H, NEW Q, NEW S, Same(G, P, H, Q)
  PROVE  Same(G, Having(G, P, S), H, Having(H, Q, S))
<1>1. PICK b : Pairs(b, G, P, H, Q)
  BY DEF Same
<1> DEFINE O == Having(G, P, S)
           R == Having(H, Q, S)
           c == [x \in O |-> b[x]]
<1>2. \A x \in O : x \in P /\ b[x] \in R /\ c[x] = b[x]
  BY <1>1 DEF Pairs, Having
<1>3. c \in [O -> R]
  BY <1>2
<1>4. \A z \in R : \E x \in O : b[x] = z
  BY <1>1 DEF Pairs, Having
<1> HIDE DEF c
<1>5. \A x, y \in O : c[x] = c[y] => x = y
  BY <1>1, <1>2 DEF Pairs
<1>6. \A x \in O : RowAt(H, c[x]) = RowAt(G, x)
  BY <1>1, <1>2 DEF Pairs
<1>7. \A z \in R : \E x \in O : c[x] = z
  BY <1>2, <1>4
<1>8. Pairs(c, G, O, H, R)
  BY <1>3, <1>5, <1>6, <1>7 DEF Pairs
<1>9. QED
  BY <1>8 DEF Same

\* Of each row some columns.
LEMMA SameColumns ==
  ASSUME NEW G, NEW P, NEW H, NEW Q, NEW I, NEW J, NEW cols, Same(G, P, H, Q),
         \A x \in P : RowAt(I, x) = [c \in DOMAIN cols |-> RowAt(G, x)[cols[c]]],
         \A x \in Q : RowAt(J, x) = [c \in DOMAIN cols |-> RowAt(H, x)[cols[c]]]
  PROVE  Same(I, P, J, Q)
<1>1. PICK b : Pairs(b, G, P, H, Q)
  BY DEF Same
<1>2. ASSUME NEW x \in P PROVE RowAt(J, b[x]) = RowAt(I, x)
  <2>1. b[x] \in Q /\ RowAt(H, b[x]) = RowAt(G, x)
    BY <1>1 DEF Pairs
  <2>2. RowAt(I, x) = [c \in DOMAIN cols |-> RowAt(G, x)[cols[c]]]
    OBVIOUS
  <2>3. RowAt(J, b[x]) = [c \in DOMAIN cols |-> RowAt(H, b[x])[cols[c]]]
    BY <2>1
  <2>4. QED
    BY <2>1, <2>2, <2>3
<1>3. Pairs(b, I, P, J, Q)
  BY <1>1, <1>2 DEF Pairs
<1>4. QED
  BY <1>3 DEF Same

\* A run of rows, elsewhere.
Alike(G, d, n, H, e, k, m) == \A i \in 1..m : H[e][k + i] = G[d][n + i]

LEMMA SameRun ==
  ASSUME NEW G, NEW H, NEW d, NEW e, NEW n \in Nat, NEW k \in Nat, NEW m \in Nat,
         Alike(G, d, n, H, e, k, m)
  PROVE  Same(G, Run(d, n, m), H, Run(e, k, m))
<1> DEFINE P == Run(d, n, m)
           Q == Run(e, k, m)
           b == [x \in P |-> <<e, x[2] - n + k>>]
<1>1. \A x \in P : x = <<d, x[2]>> /\ x[2] \in (n + 1)..(n + m)
  BY DEF Run
<1>2. \A i \in (n + 1)..(n + m) : <<d, i>> \in P
  BY DEF Run
<1>3. \A i \in (k + 1)..(k + m) : <<e, i>> \in Q
  BY DEF Run
<1>4. \A z \in Q : z = <<e, z[2]>> /\ z[2] \in (k + 1)..(k + m)
  BY DEF Run
<1> HIDE DEF P, Q
<1>5. \A x \in P : x[2] - n + k \in (k + 1)..(k + m)
  BY <1>1
<1>6. b \in [P -> Q]
  BY <1>3, <1>5
<1>7. \A x, y \in P : b[x] = b[y] => x = y
  <2>1. \A x, y \in P : b[x] = b[y] => x[2] - n + k = y[2] - n + k
    OBVIOUS
  <2>2. QED
    BY <1>1, <2>1
<1>8. ASSUME NEW z \in Q PROVE \E x \in P : b[x] = z
  <2> DEFINE i == z[2] - k + n
  <2>1. i \in (n + 1)..(n + m) /\ i - n + k = z[2]
    BY <1>4
  <2> HIDE DEF i
  <2>2. <<d, i>> \in P
    BY <1>2, <2>1
  <2>3. b[<<d, i>>] = <<e, i - n + k>>
    BY <2>2
  <2>4. QED
    BY <1>4, <2>1, <2>2, <2>3
<1>9. ASSUME NEW x \in P PROVE RowAt(H, b[x]) = RowAt(G, x)
  <2>1. PICK i \in 1..m : x[2] = n + i
    <3>1. x[2] - n \in 1..m /\ x[2] = n + (x[2] - n)
      BY <1>1
    <3>2. QED
      BY <3>1
  <2>2. b[x] = <<e, k + i>>
    BY <2>1
  <2>3. x = <<d, n + i>>
    BY <1>1, <2>1
  <2> HIDE DEF b
  <2>4. RowAt(H, b[x]) = H[e][k + i]
    BY <2>2 DEF RowAt
  <2>5. RowAt(G, x) = G[d][n + i]
    BY <2>3 DEF RowAt
  <2>6. QED
    BY <2>4, <2>5 DEF Alike
<1> HIDE DEF b
<1>10. Pairs(b, G, P, H, Q)
  BY <1>6, <1>7, <1>8, <1>9 DEF Pairs
<1>11. QED
  BY <1>10 DEF Same, P, Q

\* Lists, each of rows.
AreLists(G, D) == \A d \in D : Len(G[d]) \in Nat /\ DOMAIN G[d] = 1..Len(G[d])

LEMMA PlacesOfOne ==
  ASSUME NEW G, NEW d, Len(G[d]) \in Nat
  PROVE  Places(G, {d}) = Run(d, 0, Len(G[d]))
<1> DEFINE n == Len(G[d])
<1>1. \A i : i \in (0 + 1)..(0 + n) <=> i \in 1..n
  OBVIOUS
<1>2. 1..n \subseteq Nat
  OBVIOUS
<1>3. ASSUME NEW x \in Places(G, {d}) PROVE x \in Run(d, 0, n)
  <2>1. x \in {d} \X Nat /\ x[2] \in 1..Len(G[x[1]])
    BY <1>3 DEF Places
  <2>2. x[1] = d /\ x = <<d, x[2]>>
    BY <2>1
  <2>3. QED
    BY <1>1, <2>1, <2>2 DEF Run
<1>4. ASSUME NEW x \in Run(d, 0, n) PROVE x \in Places(G, {d})
  <2>1. x \in {d} \X ((0 + 1)..(0 + n))
    BY <1>4 DEF Run
  <2>2. x[1] = d /\ x[2] \in 1..n /\ x[2] \in Nat /\ x = <<d, x[2]>>
    BY <1>1, <1>2, <2>1
  <2>3. QED
    BY <2>2 DEF Places
<1>5. QED
  BY <1>3, <1>4

LEMMA PlacesParts ==
  ASSUME NEW G, NEW C, NEW D, NEW E, Parts(C, D, E)
  PROVE  Parts(Places(G, C), Places(G, D), Places(G, E))
BY DEF Places, Parts

LEMMA RunParts ==
  ASSUME NEW d, NEW n \in Nat, NEW m \in Nat
  PROVE  Parts(Run(d, 0, n + m), Run(d, 0, n), Run(d, n, m))
<1>1. /\ (0 + 1)..(0 + (n + m)) = ((0 + 1)..(0 + n)) \cup ((n + 1)..(n + m))
      /\ ((0 + 1)..(0 + n)) \cap ((n + 1)..(n + m)) = {}
  OBVIOUS
<1>2. QED
  BY <1>1 DEF Run, Parts

\* A part without places.
LEMMA PartsNone ==
  ASSUME NEW U, NEW P, Parts(U, P, {})
  PROVE  U = P
BY DEF Parts

\* A list is the same wherever it is.
LEMMA SameList ==
  ASSUME NEW G, NEW H, NEW d, NEW e, H[e] = G[d], Len(G[d]) \in Nat
  PROVE  Same(G, Places(G, {d}), H, Places(H, {e}))
<1> DEFINE m == Len(G[d])
<1>1. m \in Nat /\ Places(G, {d}) = Run(d, 0, m) /\ Places(H, {e}) = Run(e, 0, m)
  BY PlacesOfOne
<1>2. Alike(G, d, 0, H, e, 0, m)
  BY DEF Alike
<1> HIDE DEF m
<1>3. QED
  BY <1>1, <1>2, SameRun

\* Two families that differ on the lists E only.
LEMMA PlacesElsewhere ==
  ASSUME NEW G, NEW H, NEW D, \A d \in D : H[d] = G[d]
  PROVE  /\ Places(H, D) = Places(G, D)
         /\ \A x \in Places(G, D) : RowAt(H, x) = RowAt(G, x)
<1>1. ASSUME NEW x \in D \X Nat PROVE H[x[1]] = G[x[1]]
  OBVIOUS
<1>2. Places(H, D) = Places(G, D)
  BY <1>1 DEF Places
<1>3. \A x \in Places(G, D) : x \in D \X Nat
  BY DEF Places
<1>4. QED
  BY <1>1, <1>2, <1>3 DEF RowAt

LEMMA SameElsewhere ==
  ASSUME NEW G, NEW H, NEW D, \A d \in D : H[d] = G[d]
  PROVE  Same(H, Places(H, D), G, Places(G, D))
<1>1. Places(H, D) = Places(G, D) /\ \A x \in Places(H, D) : RowAt(G, x) = RowAt(H, x)
  BY PlacesElsewhere
<1>2. QED
  BY <1>1, SameAs

\* Empty lists have no places.
LEMMA NoPlaces ==
  ASSUME NEW G, NEW D, \A d \in D : G[d] = <<>>
  PROVE  Places(G, D) = {}
<1>1. ASSUME NEW x \in Places(G, D) PROVE FALSE
  <2>1. x[1] \in D /\ x[2] \in 1..Len(G[x[1]])
    BY <1>1 DEF Places
  <2>2. Len(G[x[1]]) = 0
    BY <2>1
  <2>3. QED
    BY <2>1, <2>2
<1>2. QED
  BY <1>1

\* The rows of one list go behind those of another.
LEMMA SameMove ==
  ASSUME NEW G, NEW H, NEW D, NEW a \in D, NEW z \in D, a # z, NEW A, NEW B,
         G[a] \in Seq(A), G[z] \in Seq(B), H[a] = G[a] \o G[z], H[z] = <<>>,
         \A d \in D \ {a, z} : H[d] = G[d]
  PROVE  Same(H, Places(H, D), G, Places(G, D))
<1> DEFINE E == D \ {a, z}
           E1 == E \cup {a}
           n == Len(G[a])
           m == Len(G[z])
<1>1. Parts(D, E1, {z}) /\ Parts(E1, E, {a}) /\ \A d \in E : H[d] = G[d]
  BY DEF Parts
<1>2. n \in Nat /\ m \in Nat
  BY LenProperties
<1>L. Len(G[a]) = n /\ Len(G[z]) = m
  OBVIOUS
<1> HIDE DEF E, E1, n, m
<1>3. /\ Len(H[a]) = n + m
      /\ \A i \in 1..n : H[a][i] = G[a][i]
      /\ \A i \in 1..m : H[a][n + i] = G[z][i]
  <2>1. G[a] \in Seq(A \cup B) /\ G[z] \in Seq(A \cup B)
    OBVIOUS
  <2>2. H[a] = G[a] \o G[z]
    OBVIOUS
  <2>3. /\ Len(G[a] \o G[z]) = n + m
        /\ \A i \in 1..(n + m) : (G[a] \o G[z])[i] = IF i <= n THEN G[a][i] ELSE G[z][i - n]
    <3>1. /\ Len(G[a] \o G[z]) = Len(G[a]) + Len(G[z])
          /\ \A i \in 1..(Len(G[a]) + Len(G[z])) :
               (G[a] \o G[z])[i] = IF i <= Len(G[a]) THEN G[a][i] ELSE G[z][i - Len(G[a])]
      BY <2>1, ConcatProperties
    <3>2. QED
      BY <3>1, <1>L, Zenon
  <2>4. \A i \in 1..n : i \in 1..(n + m) /\ i <= n
    BY <1>2
  <2>5. \A i \in 1..m : n + i \in 1..(n + m) /\ ~(n + i <= n) /\ (n + i) - n = i
    BY <1>2
  <2>6. QED
    BY <2>2, <2>3, <2>4, <2>5
<1>4. /\ Places(H, {a}) = Run(a, 0, n + m)
      /\ Places(G, {a}) = Run(a, 0, n) /\ Places(G, {z}) = Run(z, 0, m)
  <2>1. n + m \in Nat
    BY <1>2
  <2>2. Places(H, {a}) = Run(a, 0, n + m)
    <3>1. Len(H[a]) \in Nat
      BY <1>3, <2>1, Zenon
    <3>2. Places(H, {a}) = Run(a, 0, Len(H[a]))
      BY <3>1, PlacesOfOne, Zenon
    <3>3. QED
      BY <1>3, <3>2, Zenon
  <2>3. Places(G, {a}) = Run(a, 0, n) /\ Places(G, {z}) = Run(z, 0, m)
    <3>1. Len(G[a]) \in Nat /\ Len(G[z]) \in Nat
      BY <1>2, <1>L, Zenon
    <3>2. Places(G, {a}) = Run(a, 0, Len(G[a])) /\ Places(G, {z}) = Run(z, 0, Len(G[z]))
      BY <3>1, PlacesOfOne, Zenon
    <3>3. QED
      BY <1>L, <3>2, Zenon
  <2>4. QED
    BY <2>2, <2>3
<1>5. Places(H, {z}) = {}
  <2>1. \A d \in {z} : H[d] = <<>>
    OBVIOUS
  <2>2. QED
    BY <2>1, NoPlaces
<1>6. Same(H, Run(a, 0, n), G, Run(a, 0, n))
  <2>1. \A i \in 1..n : G[a][0 + i] = H[a][0 + i]
    <3>1. ASSUME NEW i \in 1..n PROVE G[a][0 + i] = H[a][0 + i]
      <4>1. 0 + i = i
        OBVIOUS
      <4>2. QED
        BY <1>3, <4>1, Zenon
    <3>2. QED
      BY <3>1
  <2>2. Alike(H, a, 0, G, a, 0, n)
    BY <2>1, Zenon DEF Alike
  <2>3. QED
    BY <1>2, <2>2, SameRun
<1>7. Same(H, Run(a, n, m), G, Run(z, 0, m))
  <2>2. \A i \in 1..m : G[z][0 + i] = H[a][n + i]
    <3>1. ASSUME NEW i \in 1..m PROVE G[z][0 + i] = H[a][n + i]
      <4>1. 0 + i = i
        OBVIOUS
      <4>2. QED
        BY <1>3, <4>1, Zenon
    <3>2. QED
      BY <3>1
  <2>3. Alike(H, a, n, G, z, 0, m)
    BY <2>2, Zenon DEF Alike
  <2>4. QED
    BY <1>2, <2>3, SameRun
<1>8. Same(H, Places(H, E), G, Places(G, E))
  BY <1>1, SameElsewhere
<1> DEFINE P == Places(H, E)
           U == P \cup Run(a, 0, n)
<1>9. /\ Parts(Places(H, D), Places(H, E1), {}) /\ Parts(Places(G, D), Places(G, E1), Run(z, 0, m))
      /\ Parts(Places(H, E1), P, Run(a, 0, n + m)) /\ Parts(Places(G, E1), Places(G, E), Run(a, 0, n))
  <2>1. /\ Parts(Places(H, D), Places(H, E1), Places(H, {z}))
        /\ Parts(Places(G, D), Places(G, E1), Places(G, {z}))
        /\ Parts(Places(H, E1), Places(H, E), Places(H, {a}))
        /\ Parts(Places(G, E1), Places(G, E), Places(G, {a}))
    BY <1>1, PlacesParts
  <2>2. QED
    BY <1>4, <1>5, <2>1
<1> HIDE DEF P
<1>10. Parts(Run(a, 0, n + m), Run(a, 0, n), Run(a, n, m))
  BY <1>2, RunParts
<1>11. Parts(U, P, Run(a, 0, n)) /\ Parts(Places(H, D), U, Run(a, n, m))
  BY <1>9, <1>10 DEF Parts
<1> HIDE DEF U
<1>12. Same(H, U, G, Places(G, E1))
  <2>1. Same(H, P, G, Places(G, E))
    BY <1>8 DEF P
  <2>2. QED
    BY <1>6, <1>9, <1>11, <2>1, SameParts
<1>13. QED
  BY <1>7, <1>9, <1>11, <1>12, SameParts

\* f holds the concatenations of the first parts of s.
IsJoin(f, s, n) ==
  f = [i \in 1..n |-> IF i = 1 THEN s[i] ELSE f[i - 1] \o s[i]]
Joins(S, s, n) == \E f \in [1..n -> Seq(S)] : IsJoin(f, s, n)

LEMMA JoinExtends ==
  ASSUME NEW S, NEW k \in Nat \ {0}, NEW s, Joins(S, s, k), s[k + 1] \in Seq(S)
  PROVE  Joins(S, s, k + 1)
<1>1. PICK f \in [1..k -> Seq(S)] : IsJoin(f, s, k)
  BY DEF Joins
<1> DEFINE g == [i \in 1..(k + 1) |-> IF i = k + 1 THEN f[k] \o s[k + 1] ELSE f[i]]
<1>2. f[k] \in Seq(S)
  BY <1>1
<1>3. f[k] \o s[k + 1] \in Seq(S)
  BY <1>2, ConcatProperties
<1>4. g \in [1..(k + 1) -> Seq(S)]
  BY <1>1, <1>3
<1>5. \A i \in 1..k : f[i] = IF i = 1 THEN s[i] ELSE f[i - 1] \o s[i]
  BY <1>1 DEF IsJoin
<1>6. /\ \A i \in 1..k : g[i] = f[i] /\ i \in 1..(k + 1)
      /\ g[k + 1] = f[k] \o s[k + 1]
  <2>1. \A i \in 1..k : i \in 1..(k + 1) /\ i # k + 1
    OBVIOUS
  <2>2. k + 1 \in 1..(k + 1)
    OBVIOUS
  <2>3. QED
    BY <2>1, <2>2, Zenon
<1> HIDE DEF g
<1>7. ASSUME NEW i \in 1..(k + 1)
      PROVE  g[i] = IF i = 1 THEN s[i] ELSE g[i - 1] \o s[i]
  <2>1. CASE i = k + 1
    <3>1. i # 1 /\ i - 1 = k /\ k \in 1..k
      BY <2>1
    <3>2. QED
      BY <1>6, <2>1, <3>1
  <2>2. CASE i = 1
    <3>1. 1 \in 1..k
      OBVIOUS
    <3>2. QED
      BY <1>5, <1>6, <2>2, <3>1
  <2>3. CASE i # 1 /\ i # k + 1
    <3>1. i \in 1..k /\ i - 1 \in 1..k
      BY <2>3
    <3>2. g[i] = f[i] /\ g[i - 1] = f[i - 1] /\ f[i] = f[i - 1] \o s[i]
      BY <1>5, <1>6, <2>3, <3>1
    <3>3. QED
      BY <2>3, <3>2
  <2>4. QED
    BY <2>1, <2>2, <2>3
<1>8. IsJoin(g, s, k + 1)
  BY <1>4, <1>7 DEF IsJoin
<1>9. QED
  BY <1>4, <1>8 DEF Joins

LEMMA JoinExists ==
  ASSUME NEW S, NEW n \in Nat \ {0}, NEW s \in [1..n -> Seq(S)]
  PROVE  Joins(S, s, n)
<1> DEFINE Bad == {k \in 1..n : ~Joins(S, s, k)}
<1>1. Joins(S, s, 1)
  <2> DEFINE f == [i \in 1..1 |-> s[1]]
  <2>1. s[1] \in Seq(S)
    OBVIOUS
  <2>2. f \in [1..1 -> Seq(S)]
    BY <2>1
  <2>3. f = [i \in 1..1 |-> IF i = 1 THEN s[i] ELSE f[i - 1] \o s[i]]
    OBVIOUS
  <2> HIDE DEF f
  <2>4. QED
    BY <2>2, <2>3 DEF Joins, IsJoin
<1>2. SUFFICES ASSUME Bad # {} PROVE FALSE
  OBVIOUS
<1>3. Bad \subseteq Nat
  OBVIOUS
<1>4. PICK k \in Bad : \A j \in Bad : k <= j
  <2> HIDE DEF Bad
  <2>1. QED
    BY <1>2, <1>3, LeastNat
<1>5. k \in 1..n /\ ~Joins(S, s, k) /\ k # 1
  BY <1>1
<1>6. k - 1 \in Nat \ {0} /\ k - 1 \in 1..n /\ (k - 1) + 1 = k
  BY <1>5
<1>7. k - 1 \notin Bad
  BY <1>4, <1>6
<1>8. Joins(S, s, k - 1)
  BY <1>6, <1>7
<1>9. s[k] \in Seq(S)
  BY <1>5
<1>10. QED
  BY <1>5, <1>6, <1>8, <1>9, JoinExtends

\* There is only one such function.
LEMMA JoinUnique ==
  ASSUME NEW n \in Nat \ {0}, NEW s, NEW f, NEW g, IsJoin(f, s, n), IsJoin(g, s, n)
  PROVE  f = g
<1> DEFINE Bad == {k \in 1..n : f[k] # g[k]}
<1>1. \A i \in 1..n : /\ f[i] = IF i = 1 THEN s[i] ELSE f[i - 1] \o s[i]
                      /\ g[i] = IF i = 1 THEN s[i] ELSE g[i - 1] \o s[i]
  BY DEF IsJoin
<1>2. CASE Bad # {}
  <2>1. Bad \subseteq Nat
    OBVIOUS
  <2>2. PICK k \in Bad : \A j \in Bad : k <= j
    <3> HIDE DEF Bad
    <3>1. QED
      BY <1>2, <2>1, LeastNat
  <2>3. k \in 1..n /\ f[k] # g[k]
    OBVIOUS
  <2>4. k # 1
    BY <1>1, <2>3
  <2>5. k - 1 \in 1..n /\ k - 1 \notin Bad
    BY <2>2, <2>3, <2>4
  <2>6. f[k - 1] = g[k - 1]
    BY <2>5
  <2>7. QED
    BY <1>1, <2>3, <2>4, <2>6
<1>3. CASE Bad = {}
  <2>1. \A k \in 1..n : f[k] = g[k]
    BY <1>3
  <2>2. f = [i \in 1..n |-> f[i]] /\ g = [i \in 1..n |-> g[i]]
    BY DEF IsJoin
  <2>3. QED
    BY <2>1, <2>2
<1>4. QED
  BY <1>2, <1>3

\* FlattenSeq is the last of the concatenations.
LEMMA FlattenIs ==
  ASSUME NEW n \in Nat \ {0}, NEW s, DOMAIN s = 1..n, Len(s) = n, NEW f, IsJoin(f, s, n)
  PROVE  FlattenSeq(s) = f[n]
<1> DEFINE c == CHOOSE h : h = [i \in 1..Len(s) |-> IF i = 1 THEN s[i] ELSE h[i - 1] \o s[i]]
<1>1. c = [i \in 1..Len(s) |-> IF i = 1 THEN s[i] ELSE c[i - 1] \o s[i]]
  BY DEF IsJoin
<1>2. FlattenSeq(s) = c[n]
  BY DEF FlattenSeq
<1> HIDE DEF c
<1>3. IsJoin(c, s, n)
  BY <1>1 DEF IsJoin
<1>4. c = f
  BY <1>3, JoinUnique
<1>5. QED
  BY <1>2, <1>4

\* f[n] is the concatenation of s[1] to s[n].
LEMMA JoinSame ==
  ASSUME NEW T, NEW n \in Nat \ {0}, NEW s \in [1..n -> Seq(T)], NEW f \in [1..n -> Seq(T)],
         IsJoin(f, s, n)
  PROVE  \A k \in 1..n : Same(f, Places(f, {k}), s, Places(s, 1..k))
<1> DEFINE Bad == {k \in 1..n : ~Same(f, Places(f, {k}), s, Places(s, 1..k))}
<1>1. \A i \in 1..n : f[i] = IF i = 1 THEN s[i] ELSE f[i - 1] \o s[i]
  BY DEF IsJoin
<1>2. Same(f, Places(f, {1}), s, Places(s, 1..1))
  <2>1. f[1] = s[1] /\ 1..1 = {1}
    BY <1>1
  <2>2. QED
    BY <2>1, SameElsewhere
<1>3. SUFFICES ASSUME Bad # {} PROVE FALSE
  OBVIOUS
<1>4. PICK k \in Bad : \A j \in Bad : k <= j
  <2>1. Bad \subseteq Nat
    OBVIOUS
  <2> HIDE DEF Bad
  <2>2. QED
    BY <1>3, <2>1, LeastNat
<1>5. k \in 1..n /\ k # 1 /\ ~Same(f, Places(f, {k}), s, Places(s, 1..k))
  BY <1>2
<1>6. k - 1 \in 1..n /\ k - 1 \notin Bad
  BY <1>4, <1>5
<1>7. Same(f, Places(f, {k - 1}), s, Places(s, 1..(k - 1)))
  BY <1>6
<1>8. f[k] = f[k - 1] \o s[k] /\ f[k - 1] \in Seq(T) /\ s[k] \in Seq(T)
  BY <1>1, <1>5, <1>6
\* As a family of two lists: what was joined so far, and the next.
<1> DEFINE g == [i \in {1, 2} |-> IF i = 1 THEN f[k - 1] ELSE s[k]]
           h == [i \in {1, 2} |-> IF i = 1 THEN f[k] ELSE <<>>]
           lf == Len(f[k - 1])
           ls == Len(s[k])
<1>9. g[1] = f[k - 1] /\ g[2] = s[k] /\ h[1] = f[k] /\ h[2] = <<>>
  OBVIOUS
<1> HIDE DEF g, h
<1>10. Same(h, Places(h, {1, 2}), g, Places(g, {1, 2}))
  <2>1. \A d \in {1, 2} \ {1, 2} : h[d] = g[d]
    OBVIOUS
  <2>2. h[1] = g[1] \o g[2] /\ g[1] \in Seq(T) /\ g[2] \in Seq(T)
    BY <1>8, <1>9
  <2>3. 1 \in {1, 2} /\ 2 \in {1, 2} /\ 1 # 2
    OBVIOUS
  <2>4. QED
    BY <1>9, <2>1, <2>2, <2>3, SameMove
<1>P. Parts({1, 2}, {1}, {2}) /\ Parts(1..k, 1..(k - 1), {k})
  BY <1>5 DEF Parts
<1>11. Places(h, {1, 2}) = Places(h, {1})
  <2>1. \A d \in {2} : h[d] = <<>>
    BY <1>9
  <2>2. Places(h, {2}) = {}
    BY <2>1, NoPlaces
  <2>3. Parts(Places(h, {1, 2}), Places(h, {1}), Places(h, {2}))
    BY <1>P, PlacesParts
  <2>4. QED
    BY <2>2, <2>3, PartsNone
<1>12. Len(f[k]) \in Nat /\ Len(g[1]) \in Nat /\ Len(g[2]) \in Nat
  BY <1>5, <1>8, <1>9, LenProperties
<1>13. Same(f, Places(f, {k}), h, Places(h, {1}))
  BY <1>9, <1>12, SameList
<1>14. Same(g, Places(g, {1}), f, Places(f, {k - 1}))
  BY <1>9, <1>12, SameList
<1>15. Same(g, Places(g, {2}), s, Places(s, {k}))
  BY <1>9, <1>12, SameList
<1>16. Same(g, Places(g, {1}), s, Places(s, 1..(k - 1)))
  BY <1>7, <1>14, SameTrans
<1>17. /\ Parts(Places(s, 1..k), Places(s, 1..(k - 1)), Places(s, {k}))
       /\ Parts(Places(g, {1, 2}), Places(g, {1}), Places(g, {2}))
  BY <1>P, PlacesParts
<1>19. Same(g, Places(g, {1, 2}), s, Places(s, 1..k))
  BY <1>15, <1>16, <1>17, SameParts
<1>20. Same(f, Places(f, {k}), g, Places(g, {1, 2}))
  BY <1>10, <1>11, <1>13, SameTrans
<1>21. Same(f, Places(f, {k}), s, Places(s, 1..k))
  BY <1>19, <1>20, SameTrans
<1>22. QED
  BY <1>5, <1>21

\* FlattenSeq has the rows of all lists.
LEMMA FlattenSame ==
  ASSUME NEW T, NEW s \in Seq(Seq(T))
  PROVE  /\ FlattenSeq(s) \in Seq(T)
         /\ Same(<<FlattenSeq(s)>>, Places(<<FlattenSeq(s)>>, {1}), s, Places(s, DOMAIN s))
<1> DEFINE n == Len(s)
           one == <<FlattenSeq(s)>>
<1>1. n \in Nat /\ DOMAIN s = 1..n /\ s \in [1..n -> Seq(T)]
  BY LenProperties
<1>2. one[1] = FlattenSeq(s)
  OBVIOUS
<1>3. CASE n = 0
  <2>1. FlattenSeq(s) = s /\ s = <<>>
    BY <1>1, <1>3, EmptySeq DEF FlattenSeq
  <2>2. DOMAIN s = {}
    BY <1>1, <1>3
  <2> HIDE DEF one
  <2>3. Places(one, {1}) = {} /\ Places(s, DOMAIN s) = {}
    BY <1>2, <2>1, <2>2, NoPlaces
  <2>4. Same(one, {}, s, {})
    BY SameAs
  <2>5. QED
    <3>1. <<>> \in Seq(T)
      OBVIOUS
    <3>2. QED
      BY <2>1, <2>3, <2>4, <3>1 DEF one
<1>4. CASE n # 0
  <2>1. n \in Nat \ {0}
    BY <1>1, <1>4
  <2>2. PICK f \in [1..n -> Seq(T)] : IsJoin(f, s, n)
    BY <1>1, <2>1, JoinExists DEF Joins
  <2>3. FlattenSeq(s) = f[n]
    BY <1>1, <2>1, <2>2, FlattenIs
  <2>4. n \in 1..n
    BY <2>1
  <2>5. f[n] \in Seq(T)
    BY <2>2, <2>4
  <2>6. Same(f, Places(f, {n}), s, Places(s, 1..n))
    BY <1>1, <2>1, <2>2, <2>4, JoinSame
  <2> HIDE DEF one
  <2>7. Same(one, Places(one, {1}), f, Places(f, {n}))
    <3>1. Len(one[1]) \in Nat
      BY <1>2, <2>3, <2>5, LenProperties
    <3>2. QED
      BY <1>2, <2>3, <3>1, SameList
  <2>8. Same(one, Places(one, {1}), s, Places(s, 1..n))
    BY <2>6, <2>7, SameTrans
  <2>9. QED
    BY <1>1, <2>3, <2>5, <2>8 DEF one
<1>5. QED
  BY <1>3, <1>4

\* The rows that are kept.
LEMMA OnlySame ==
  ASSUME NEW G, NEW H, NEW d, NEW e, NEW T, NEW S, H[e] \in Seq(T), G[d] = Only(H[e], S)
  PROVE  Same(G, Places(G, {d}), H, Having(H, Places(H, {e}), S))
<1> DEFINE s == H[e]
           k == Only(s, S)
           P == Places(G, {d})
           R == Having(H, Places(H, {e}), S)
<1>1. k \in Seq(T)
  BY OnlyPicks
<1>2. PICK J \in Seq(Nat) : IsPick(J, k, s, S, Len(s))
  BY OnlyPicks
<1>3. DOMAIN k = 1..Len(k) /\ Len(k) \in Nat /\ Len(s) \in Nat
  BY <1>1, LenProperties
<1> HIDE DEF s, k
<1>4. /\ \A i \in 1..Len(k) : J[i] \in 1..Len(s) /\ k[i] = s[J[i]] /\ s[J[i]] \in S
      /\ \A i, j \in 1..Len(k) : i < j => J[i] < J[j]
      /\ \A i \in 1..Len(s) : s[i] \in S => \E j \in 1..Len(k) : J[j] = i
  BY <1>2, <1>3 DEF IsPick
<1>5. \A i, j \in 1..Len(k) : J[i] = J[j] => i = j
  <2>1. ASSUME NEW i \in 1..Len(k), NEW j \in 1..Len(k), J[i] = J[j] PROVE i = j
    <3>1. J[i] \in Int /\ J[j] \in Int /\ i \in Int /\ j \in Int
      BY <1>3, <1>4
    <3>2. ~(i < j) /\ ~(j < i)
      BY <1>4, <2>1, <3>1
    <3>3. QED
      BY <3>1, <3>2
  <2>2. QED
    BY <2>1
<1>6. G[d] = k /\ H[e] = s
  BY DEF s, k
<1> DEFINE b == [x \in P |-> <<e, J[x[2]]>>]
<1>7. \A x \in P : x = <<d, x[2]>> /\ x[2] \in 1..Len(k)
  BY <1>6 DEF Places
<1>8. \A i \in 1..Len(k) : <<d, i>> \in P
  BY <1>6 DEF Places
<1>9. \A i \in 1..Len(k) : <<e, J[i]>> \in R
  <2>1. ASSUME NEW i \in 1..Len(k) PROVE <<e, J[i]>> \in R
    <3>1. J[i] \in 1..Len(s) /\ J[i] \in Nat /\ s[J[i]] \in S
      BY <1>3, <1>4
    <3>2. <<e, J[i]>> \in Places(H, {e}) /\ RowAt(H, <<e, J[i]>>) = s[J[i]]
      BY <1>6, <3>1 DEF Places, RowAt
    <3>3. QED
      BY <3>1, <3>2 DEF Having
  <2>2. QED
    BY <2>1
<1>10. \A z \in R : z = <<e, z[2]>> /\ z[2] \in 1..Len(s) /\ s[z[2]] \in S
  BY <1>6 DEF Places, RowAt, Having
<1> HIDE DEF P, R
<1>11. b \in [P -> R]
  BY <1>7, <1>9
<1>12. \A x, y \in P : b[x] = b[y] => x = y
  <2>1. \A x, y \in P : b[x] = b[y] => J[x[2]] = J[y[2]]
    OBVIOUS
  <2>2. QED
    BY <1>5, <1>7, <2>1
<1>13. ASSUME NEW z \in R PROVE \E x \in P : b[x] = z
  <2>1. PICK j \in 1..Len(k) : J[j] = z[2]
    BY <1>4, <1>10
  <2>2. <<d, j>> \in P
    BY <1>8
  <2>3. b[<<d, j>>] = <<e, J[j]>>
    BY <2>2
  <2>4. QED
    BY <1>10, <2>1, <2>2, <2>3
<1>14. ASSUME NEW x \in P PROVE RowAt(H, b[x]) = RowAt(G, x)
  <2>1. x[2] \in 1..Len(k) /\ b[x] = <<e, J[x[2]]>> /\ x = <<d, x[2]>>
    BY <1>7
  <2> HIDE DEF b
  <2>2. RowAt(H, b[x]) = s[J[x[2]]]
    BY <1>6, <2>1 DEF RowAt
  <2>3. RowAt(G, x) = k[x[2]]
    BY <1>6, <2>1 DEF RowAt
  <2>4. QED
    BY <1>4, <2>1, <2>2, <2>3
<1> HIDE DEF b
<1>15. Pairs(b, G, P, H, R)
  BY <1>11, <1>12, <1>13, <1>14 DEF Pairs
<1>16. QED
  BY <1>15 DEF Same, P, R

-----------------------------------------------------------------------------
(* Counting.                                                                *)

LEMMA SameCount ==
  ASSUME NEW G, NEW P, NEW H, NEW Q, IsFiniteSet(P), Same(G, P, H, Q)
  PROVE  IsFiniteSet(Q) /\ Cardinality(Q) = Cardinality(P)
<1>1. PICK b : Pairs(b, G, P, H, Q)
  BY DEF Same
<1>2. b \in Bijection(P, Q)
  BY <1>1 DEF Pairs, Bijection, Injection, Surjection, IsInjective
<1>3. ExistsBijection(P, Q)
  BY <1>2 DEF ExistsBijection
<1>4. QED
  BY <1>3, FS_Bijection

\* The places of a row in a list are as many as its occurrences.
LEMMA OccurrencesAt ==
  ASSUME NEW T, NEW s \in Seq(T), NEW G, G[1] = s, NEW row
  PROVE  LET P == Having(G, Places(G, {1}), {row})
         IN  IsFiniteSet(P) /\ Cardinality(P) = Occurrences(s, row)
<1> DEFINE D == {i \in DOMAIN s : s[i] = row}
           P == Having(G, Places(G, {1}), {row})
           b == [i \in D |-> <<1, i>>]
<1>1. Len(s) \in Nat /\ DOMAIN s = 1..Len(s)
  BY LenProperties
<1>2. IsFiniteSet(D)
  <2>1. IsFiniteSet(1..Len(s))
    BY <1>1, FS_Interval
  <2>2. D \in SUBSET (1..Len(s))
    BY <1>1
  <2>3. QED
    BY <2>1, <2>2, FS_Subset
<1>3. \A i \in D : <<1, i>> \in P
  <2>1. ASSUME NEW i \in D PROVE <<1, i>> \in P
    <3>1. i \in 1..Len(s) /\ i \in Nat /\ s[i] = row
      BY <1>1
    <3>2. <<1, i>> \in Places(G, {1}) /\ RowAt(G, <<1, i>>) = s[i]
      BY <3>1 DEF Places, RowAt
    <3>3. QED
      BY <3>1, <3>2 DEF Having
  <2>2. QED
    BY <2>1
<1>4. \A z \in P : z[2] \in D /\ z = <<1, z[2]>>
  BY <1>1 DEF Places, RowAt, Having
<1> HIDE DEF D, P
<1>5. b \in [D -> P]
  BY <1>3
<1>6. \A i, j \in D : b[i] = b[j] => i = j
  OBVIOUS
<1>7. \A z \in P : \E i \in D : b[i] = z
  BY <1>4
<1>8. DOMAIN b = D
  OBVIOUS
<1> HIDE DEF b
<1>9. b \in Bijection(D, P)
  BY <1>5, <1>6, <1>7, <1>8 DEF Bijection, Injection, Surjection, IsInjective
<1>10. ExistsBijection(D, P)
  BY <1>9 DEF ExistsBijection
<1>11. IsFiniteSet(P) /\ Cardinality(P) = Cardinality(D)
  BY <1>2, <1>10, FS_Bijection
<1>12. QED
  BY <1>11 DEF Occurrences, D, P

LEMMA PlacesAreLen ==
  ASSUME NEW T, NEW s \in Seq(T), NEW G, G[1] = s
  PROVE  IsFiniteSet(Places(G, {1})) /\ Cardinality(Places(G, {1})) = Len(s)
<1> DEFINE n == Len(s)
           P == Places(G, {1})
           b == [i \in 1..n |-> <<1, i>>]
<1>1. n \in Nat
  BY LenProperties
<1>2. IsFiniteSet(1..n) /\ Cardinality(1..n) = n
  BY <1>1, FS_Interval
<1>3. \A i \in 1..n : <<1, i>> \in P
  BY <1>1 DEF Places
<1>4. \A z \in P : z[2] \in 1..n /\ z = <<1, z[2]>>
  BY DEF Places
<1> HIDE DEF n, P
<1>5. b \in [1..n -> P]
  BY <1>3
<1>6. \A i, j \in 1..n : b[i] = b[j] => i = j
  OBVIOUS
<1>7. \A z \in P : \E i \in 1..n : b[i] = z
  BY <1>4
<1>8. DOMAIN b = 1..n
  OBVIOUS
<1> HIDE DEF b
<1>9. b \in Bijection(1..n, P)
  BY <1>5, <1>6, <1>7, <1>8 DEF Bijection, Injection, Surjection, IsInjective
<1>10. ExistsBijection(1..n, P)
  BY <1>9 DEF ExistsBijection
<1>11. IsFiniteSet(P) /\ Cardinality(P) = Cardinality(1..n)
  BY <1>2, <1>10, FS_Bijection
<1>12. QED
  BY <1>2, <1>11 DEF n, P

\* Two lists of the same rows are equally long and have each row equally often.
LEMMA SameOccurrences ==
  ASSUME NEW T, NEW s \in Seq(T), NEW U, NEW t \in Seq(U), NEW G, NEW H, G[1] = s, H[1] = t,
         Same(G, Places(G, {1}), H, Places(H, {1}))
  PROVE  Len(s) = Len(t) /\ \A row : Occurrences(s, row) = Occurrences(t, row)
<1>1. Len(s) = Len(t)
  BY PlacesAreLen, SameCount
<1>2. ASSUME NEW row PROVE Occurrences(s, row) = Occurrences(t, row)
  <2> DEFINE P == Having(G, Places(G, {1}), {row})
             Q == Having(H, Places(H, {1}), {row})
  <2>1. IsFiniteSet(P) /\ Cardinality(P) = Occurrences(s, row)
    BY OccurrencesAt
  <2>2. IsFiniteSet(Q) /\ Cardinality(Q) = Occurrences(t, row)
    BY OccurrencesAt
  <2>3. Same(G, P, H, Q)
    BY SameWhere
  <2> HIDE DEF P, Q
  <2>4. QED
    BY <2>1, <2>2, <2>3, SameCount
<1>3. QED
  BY <1>1, <1>2

-----------------------------------------------------------------------------
(* Rows by bucket.                                                          *)

\* No more is kept than there was.
LEMMA PickShort ==
  ASSUME NEW T, NEW e \in Seq(T), NEW J, NEW s, NEW S, NEW n \in Nat, IsPick(J, e, s, S, n)
  PROVE  Len(e) <= n
<1> DEFINE m == Len(e)
<1>1. m \in Nat /\ DOMAIN e = 1..m
  BY LenProperties
<1> HIDE DEF m
<1>2. /\ DOMAIN J = 1..m
      /\ \A i \in 1..m : J[i] \in 1..n
      /\ \A i, j \in 1..m : i < j => J[i] < J[j]
  BY <1>1 DEF IsPick
<1> DEFINE b == [i \in 1..m |-> J[i]]
<1>3. b \in [1..m -> 1..n]
  BY <1>2
<1>4. ASSUME NEW i \in 1..m, NEW j \in 1..m, b[i] = b[j] PROVE i = j
  <2>1. J[i] \in Int /\ J[j] \in Int /\ i \in Int /\ j \in Int /\ J[i] = J[j]
    BY <1>2, <1>4
  <2>2. ~(i < j) /\ ~(j < i)
    BY <1>2, <2>1
  <2>3. QED
    BY <2>1, <2>2
<1> HIDE DEF b
<1>5. b \in Injection(1..m, 1..n)
  BY <1>3, <1>4 DEF Injection, IsInjective
<1>6. IsFiniteSet(1..m) /\ IsFiniteSet(1..n) /\ Cardinality(1..m) = m /\ Cardinality(1..n) = n
  BY <1>1, FS_Interval
<1>7. Cardinality(1..m) <= Cardinality(1..n)
  BY <1>5, <1>6, FS_Injection DEF ExistsInjection
<1>8. QED
  BY <1>6, <1>7 DEF m

\* The rows of one bucket, and the buckets that have rows.
Bucket(key, rows, p) == {r \in ToSet(rows) : r[key] % Partitions = p - 1}
IsBuckets(J, out, side, key, rows) ==
  /\ DOMAIN J = DOMAIN out
  /\ \A k \in DOMAIN J :
       /\ J[k] \in 1..Partitions
       /\ out[k] = [part |-> J[k], side |-> side, rows |-> Only(rows, Bucket(key, rows, J[k]))]
  /\ \A i, k \in DOMAIN J : i < k => J[i] < J[k]
  /\ \A p \in 1..Partitions :
       Only(rows, Bucket(key, rows, p)) # <<>> => \E k \in DOMAIN J : J[k] = p

LEMMA BucketsAre ==
  ASSUME NEW T, NEW rows \in Seq(T), NEW key, NEW side
  PROVE  LET out == Buckets(side, key, rows) IN
         /\ out \in Seq([part : 1..Partitions, side : {side}, rows : Seq(T)])
         /\ Len(out) <= Partitions
         /\ \E J \in Seq(Nat) : IsBuckets(J, out, side, key, rows)
<1> DEFINE E == [part : 1..Partitions, side : {side}, rows : Seq(T)]
           of(p) == Only(rows, Bucket(key, rows, p))
           all == [p \in 1..Partitions |-> [part |-> p, side |-> side, rows |-> of(p)]]
           S == {b \in ToSet(all) : b.rows # <<>>}
           out == Only(all, S)
<1>1. Buckets(side, key, rows) = out
  BY DEF Buckets, Bucket
<1>2. \A p \in 1..Partitions : of(p) \in Seq(T)
  BY OnlyPicks
<1>3. Partitions \in Nat
  BY TablePlanAssumption
<1> HIDE DEF of
<1>4. all \in [1..Partitions -> E]
  BY <1>2
<1>5. \A p \in 1..Partitions : all[p] = [part |-> p, side |-> side, rows |-> of(p)]
  OBVIOUS
<1>6. all \in Seq(E) /\ Len(all) = Partitions /\ DOMAIN all = 1..Partitions
  <2> HIDE DEF all, E
  <2>1. all \in Seq(E)
    BY <1>3, <1>4, SeqDef
  <2>2. DOMAIN all = 1..Partitions
    BY <1>4
  <2>3. Len(all) \in Nat /\ DOMAIN all = 1..Len(all)
    BY <2>1, LenProperties
  <2>4. Len(all) = Partitions
    <3>1. 1..Len(all) = 1..Partitions
      BY <2>2, <2>3, Zenon
    <3>2. QED
      BY <1>3, <2>3, <3>1, SameEnd
  <2>5. QED
    BY <2>1, <2>2, <2>4
<1>7. \A p \in 1..Partitions : all[p] \in ToSet(all) /\ (all[p] \in S <=> of(p) # <<>>)
  BY <1>5, <1>6 DEF ToSet
<1> HIDE DEF all, S, E
<1>8. out \in Seq(E)
  BY <1>6, OnlyPicks
<1>9. PICK J \in Seq(Nat) : IsPick(J, out, all, S, Len(all))
  BY <1>6, OnlyPicks
<1>10. IsPick(J, out, all, S, Partitions)
  BY <1>6, <1>9, Zenon
<1> HIDE DEF out
<1>11. Len(out) <= Partitions
  BY <1>3, <1>8, <1>10, PickShort
<1>12. IsBuckets(J, out, side, key, rows)
  <2>1. ASSUME NEW k \in DOMAIN J
        PROVE  J[k] \in 1..Partitions /\ out[k] = [part |-> J[k], side |-> side, rows |-> of(J[k])]
    <3>1. J[k] \in 1..Partitions /\ out[k] = all[J[k]]
      BY <1>10 DEF IsPick
    <3>2. QED
      BY <1>5, <3>1
  <2>2. ASSUME NEW p \in 1..Partitions, of(p) # <<>> PROVE \E k \in DOMAIN J : J[k] = p
    BY <1>7, <1>10, <2>2 DEF IsPick
  <2>3. DOMAIN J = DOMAIN out /\ \A i, k \in DOMAIN J : i < k => J[i] < J[k]
    BY <1>10 DEF IsPick
  <2>4. QED
    BY <2>1, <2>2, <2>3, Zenon DEF IsBuckets, of
<1>13. QED
  BY <1>1, <1>8, <1>11, <1>12 DEF E

\* A number that ascends is not repeated.
LEMMA AscendsOnce ==
  ASSUME NEW J, DOMAIN J \subseteq Int, \A i \in DOMAIN J : J[i] \in Int,
         \A i, j \in DOMAIN J : i < j => J[i] < J[j]
  PROVE  \A i, j \in DOMAIN J : J[i] = J[j] => i = j
<1>1. ASSUME NEW i \in DOMAIN J, NEW j \in DOMAIN J, J[i] = J[j] PROVE i = j
  <2>1. J[i] \in Int /\ J[j] \in Int /\ i \in Int /\ j \in Int
    OBVIOUS
  <2>2. ~(i < j) /\ ~(j < i)
    BY <1>1, <2>1
  <2>3. QED
    BY <2>1, <2>2
<1>2. QED
  BY <1>1

\* What is in the buckets, wherever they are kept, is what was to be put into them.
NamesOf(h, out) == {h[k] : k \in DOMAIN out}

KeysAreInts(rows, key) == \A r \in ToSet(rows) : r[key] \in Int
Poured(out, H, h) ==
  /\ \A k \in DOMAIN out : H[h[k]] = out[k].rows
  /\ \A i, k \in DOMAIN out : h[i] = h[k] => i = k

LEMMA BucketsSame ==
  ASSUME NEW T, NEW rows \in Seq(T), NEW key, KeysAreInts(rows, key), NEW side,
         NEW out, out = Buckets(side, key, rows), NEW G, NEW d, G[d] = rows,
         NEW H, NEW h, Poured(out, H, h)
  PROVE  Same(H, Places(H, NamesOf(h, out)), G, Places(G, {d}))
<1> DEFINE of(p) == Only(rows, Bucket(key, rows, p))
           n == Len(rows)
           Picks(I, p) == IsPick(I, of(p), rows, Bucket(key, rows, p), n)
           II == [p \in 1..Partitions |-> CHOOSE I : I \in Seq(Nat) /\ Picks(I, p)]
           A == NamesOf(h, out)
           P == Places(H, A)
           Q == Places(G, {d})
<1>p. /\ \A k \in DOMAIN out : H[h[k]] = out[k].rows
      /\ \A i, k \in DOMAIN out : h[i] = h[k] => i = k
      /\ \A r \in ToSet(rows) : r[key] \in Int
  BY DEF Poured, KeysAreInts
<1> USE <1>p
<1>1. out \in Seq([part : 1..Partitions, side : {side}, rows : Seq(T)])
  BY BucketsAre
<1>2. PICK J \in Seq(Nat) : IsBuckets(J, out, side, key, rows)
  BY BucketsAre
<1>3. DOMAIN out = 1..Len(out) /\ Len(out) \in Nat /\ n \in Nat /\ DOMAIN rows = 1..n
  BY <1>1, LenProperties
<1>4. /\ \A k \in DOMAIN out : J[k] \in 1..Partitions /\ out[k].rows = of(J[k])
      /\ \A i, k \in DOMAIN out : J[i] = J[k] => i = k
      /\ \A p \in 1..Partitions : of(p) # <<>> => \E k \in DOMAIN out : J[k] = p
  <2> HIDE DEF of
  <2>1. /\ DOMAIN J = DOMAIN out
        /\ \A k \in DOMAIN J :
             J[k] \in 1..Partitions /\ out[k] = [part |-> J[k], side |-> side, rows |-> of(J[k])]
        /\ \A i, k \in DOMAIN J : i < k => J[i] < J[k]
        /\ \A p \in 1..Partitions : of(p) # <<>> => \E k \in DOMAIN J : J[k] = p
    BY <1>2, Zenon DEF IsBuckets, of
  <2>2. \A i, k \in DOMAIN J : J[i] = J[k] => i = k
    <3>1. DOMAIN J \subseteq Int /\ \A i \in DOMAIN J : J[i] \in Int
      BY <1>3, <2>1
    <3>2. QED
      BY <2>1, <3>1, AscendsOnce
  <2>3. QED
    BY <2>1, <2>2
<1>5. \A p \in 1..Partitions : of(p) \in Seq(T) /\ II[p] \in Seq(Nat) /\ Picks(II[p], p)
  <2>1. ASSUME NEW p \in 1..Partitions PROVE of(p) \in Seq(T) /\ \E I : I \in Seq(Nat) /\ Picks(I, p)
    BY OnlyPicks
  <2> HIDE DEF of, Picks
  <2>2. QED
    BY <2>1
<1>6. \A p \in 1..Partitions : \A r : r \in Bucket(key, rows, p) <=> r \in ToSet(rows) /\ r[key] % Partitions = p - 1
  BY DEF Bucket
<1>7. ASSUME NEW p \in 1..Partitions
      PROVE  /\ DOMAIN of(p) = 1..Len(of(p)) /\ Len(of(p)) \in Nat
             /\ \A i \in 1..Len(of(p)) :
                  II[p][i] \in 1..n /\ of(p)[i] = rows[II[p][i]] /\ rows[II[p][i]] \in Bucket(key, rows, p)
             /\ \A i, j \in 1..Len(of(p)) : II[p][i] = II[p][j] => i = j
             /\ \A i \in 1..n : rows[i] \in Bucket(key, rows, p) => \E j \in 1..Len(of(p)) : II[p][j] = i
  <2> DEFINE e == of(p)
             I == II[p]
  <2>1. e \in Seq(T) /\ IsPick(I, e, rows, Bucket(key, rows, p), n)
    BY <1>5
  <2> HIDE DEF e, I, n
  <2>2. DOMAIN e = 1..Len(e) /\ Len(e) \in Nat /\ DOMAIN I = DOMAIN e
    BY <2>1, LenProperties DEF IsPick
  <2>3. /\ \A i \in DOMAIN I : I[i] \in 1..n /\ e[i] = rows[I[i]] /\ rows[I[i]] \in Bucket(key, rows, p)
        /\ \A i \in 1..n : rows[i] \in Bucket(key, rows, p) => \E j \in DOMAIN I : I[j] = i
        /\ \A i, j \in DOMAIN I : i < j => I[i] < I[j]
    BY <2>1 DEF IsPick
  <2>4. \A i, j \in DOMAIN I : I[i] = I[j] => i = j
    <3>1. DOMAIN I \subseteq Int /\ \A i \in DOMAIN I : I[i] \in Int
      BY <1>3, <2>2, <2>3
    <3>2. QED
      BY <2>3, <3>1, AscendsOnce
  <2>5. QED
    BY <2>2, <2>3, <2>4 DEF e, I
<1> HIDE DEF of, II, Picks
\* The bucket at a holder.
<1> DEFINE K == [x \in A |-> CHOOSE k \in DOMAIN out : h[k] = x]
<1>8. \A x \in A : K[x] \in DOMAIN out /\ h[K[x]] = x
  BY DEF NamesOf
<1>9. \A k \in DOMAIN out : h[k] \in A /\ K[h[k]] = k
  <2>1. \A k \in DOMAIN out : h[k] \in A
    BY DEF NamesOf
  <2> HIDE DEF K, A
  <2>2. QED
    BY <1>8, <2>1
<1> HIDE DEF K, A
<1>10. ASSUME NEW x \in P
       PROVE  /\ x[1] \in A /\ x[2] \in 1..Len(of(J[K[x[1]]])) /\ x = <<x[1], x[2]>>
              /\ RowAt(H, x) = of(J[K[x[1]]])[x[2]]
  <2>1. x \in A \X Nat /\ x[2] \in 1..Len(H[x[1]])
    BY DEF Places
  <2>2. H[x[1]] = of(J[K[x[1]]])
    BY <1>4, <1>8, <2>1
  <2>3. QED
    BY <2>1, <2>2 DEF RowAt
<1>11. \A k \in DOMAIN out : \A i \in 1..Len(of(J[k])) : <<h[k], i>> \in P
  <2>1. ASSUME NEW k \in DOMAIN out, NEW i \in 1..Len(of(J[k])) PROVE <<h[k], i>> \in P
    <3>1. H[h[k]] = of(J[k]) /\ h[k] \in A /\ i \in Nat
      BY <1>4, <1>7, <1>9
    <3>2. QED
      BY <3>1 DEF Places
  <2>2. QED
    BY <2>1
<1>12. \A i \in 1..n : <<d, i>> \in Q /\ RowAt(G, <<d, i>>) = rows[i]
  BY <1>3 DEF Places, RowAt
<1>13. \A z \in Q : z = <<d, z[2]>> /\ z[2] \in 1..n
  BY DEF Places
<1> HIDE DEF P, Q
<1> DEFINE at(x) == II[J[K[x[1]]]][x[2]]
           b == [x \in P |-> <<d, at(x)>>]
<1>14. ASSUME NEW x \in P
       PROVE  /\ K[x[1]] \in DOMAIN out /\ J[K[x[1]]] \in 1..Partitions
              /\ at(x) \in 1..n /\ rows[at(x)] = RowAt(H, x)
              /\ rows[at(x)] \in Bucket(key, rows, J[K[x[1]]])
  <2>1. K[x[1]] \in DOMAIN out /\ J[K[x[1]]] \in 1..Partitions
    BY <1>4, <1>8, <1>10
  <2>2. QED
    BY <1>7, <1>10, <2>1 DEF at
<1>15. b \in [P -> Q]
  BY <1>12, <1>14
<1>16. \A x \in P : b[x] = <<d, at(x)>>
  OBVIOUS
<1> HIDE DEF b, at
<1>17. ASSUME NEW x \in P, NEW y \in P, b[x] = b[y] PROVE x = y
  <2> DEFINE p == J[K[x[1]]]
             q == J[K[y[1]]]
  <2>1. at(x) = at(y)
    BY <1>16, <1>17
  <2>2. p \in 1..Partitions /\ q \in 1..Partitions /\ rows[at(x)] \in Bucket(key, rows, p) /\ rows[at(x)] \in Bucket(key, rows, q)
    BY <1>14, <2>1
  <2> DEFINE r == rows[at(x)]
  <2>3. p = q
    <3> HIDE DEF p, q, r
    <3>1. r[key] % Partitions = p - 1 /\ r[key] % Partitions = q - 1
      BY <1>6, <2>2 DEF r
    <3>2. p - 1 = q - 1
      BY <3>1
    <3>3. QED
      BY <2>2, <3>2
  <2>4. J[K[x[1]]] = J[K[y[1]]]
    BY <2>3
  <2>5. K[x[1]] = K[y[1]]
    BY <1>4, <1>14, <2>4
  <2>6. x[1] = y[1]
    BY <1>8, <1>10, <2>5
  <2>7. x[2] = y[2]
    <3> HIDE DEF p, q
    <3>1. II[p][x[2]] = II[p][y[2]]
      BY <2>1, <2>3 DEF at, p, q
    <3>2. x[2] \in 1..Len(of(p)) /\ y[2] \in 1..Len(of(p))
      BY <1>10, <2>3 DEF p, q
    <3>3. QED
      BY <1>7, <2>2, <3>1, <3>2
  <2>8. x = <<x[1], x[2]>> /\ y = <<y[1], y[2]>>
    BY <1>10
  <2>9. QED
    BY <2>6, <2>7, <2>8, Zenon
<1>18. ASSUME NEW z \in Q PROVE \E x \in P : b[x] = z
  <2> DEFINE i == z[2]
             r == rows[i]
             p == (r[key] % Partitions) + 1
  <2>1. i \in 1..n /\ r \in ToSet(rows) /\ r[key] \in Int
    BY <1>3, <1>13 DEF ToSet
  <2>2. p \in 1..Partitions /\ r[key] % Partitions = p - 1
    <3> DEFINE v == r[key]
    <3>1. v \in Int /\ Partitions \in Nat \ {0}
      BY <2>1, TablePlanAssumption
    <3> HIDE DEF v
    <3>2. v % Partitions \in 0..(Partitions - 1)
      BY <3>1
    <3>3. (v % Partitions) + 1 \in 1..Partitions /\ v % Partitions = ((v % Partitions) + 1) - 1
      BY <3>1, <3>2
    <3>4. QED
      BY <3>3 DEF v
  <2>3. r \in Bucket(key, rows, p)
    BY <1>6, <2>1, <2>2
  <2> HIDE DEF p
  <2>4. PICK j \in 1..Len(of(p)) : II[p][j] = i
    BY <1>7, <2>1, <2>2, <2>3
  <2>5. of(p) # <<>>
    BY <2>4
  <2>6. PICK k \in DOMAIN out : J[k] = p
    BY <1>4, <2>2, <2>5
  <2> DEFINE x == <<h[k], j>>
  <2>7. x \in P
    BY <1>11, <2>4, <2>6
  <2>8. at(x) = i
    BY <1>9, <2>4, <2>6 DEF at
  <2> HIDE DEF x
  <2>9. b[x] = z
    <3>1. b[x] = <<d, at(x)>>
      BY <1>16, <2>7
    <3>2. z = <<d, z[2]>>
      BY <1>13
    <3>3. QED
      BY <2>8, <3>1, <3>2
  <2>10. QED
    BY <2>7, <2>9
<1>19. ASSUME NEW x \in P PROVE RowAt(G, b[x]) = RowAt(H, x)
  <2> DEFINE i == at(x)
  <2>1. i \in 1..n /\ rows[i] = RowAt(H, x) /\ b[x] = <<d, i>>
    BY <1>14, <1>16
  <2> HIDE DEF i
  <2>2. RowAt(G, <<d, i>>) = rows[i]
    BY <1>12, <2>1
  <2>3. QED
    BY <2>1, <2>2
<1>20. Pairs(b, H, P, G, Q)
  BY <1>15, <1>17, <1>18, <1>19 DEF Pairs
<1>21. QED
  BY <1>20 DEF Same, P, Q, A

-----------------------------------------------------------------------------
(* Lists by other names, and lists that come to the others.                 *)

\* h names each list of G as one of H.
LEMMA SameNames ==
  ASSUME NEW G, NEW D, NEW H, NEW E, NEW h, \A d \in D : h[d] \in E /\ H[h[d]] = G[d],
         \A c, d \in D : h[c] = h[d] => c = d, \A e \in E : \E d \in D : h[d] = e
  PROVE  Same(G, Places(G, D), H, Places(H, E))
<1> DEFINE P == Places(G, D)
           Q == Places(H, E)
           b == [x \in P |-> <<h[x[1]], x[2]>>]
<1>1. \A x \in P : x[1] \in D /\ x[2] \in Nat /\ x[2] \in 1..Len(G[x[1]]) /\ x = <<x[1], x[2]>>
  BY DEF Places
<1>2. \A d \in D, i \in Nat : i \in 1..Len(G[d]) => <<d, i>> \in P
  BY DEF Places
<1>3. \A e \in E, i \in Nat : i \in 1..Len(H[e]) => <<e, i>> \in Q
  BY DEF Places
<1>4. \A z \in Q : z[1] \in E /\ z[2] \in Nat /\ z[2] \in 1..Len(H[z[1]]) /\ z = <<z[1], z[2]>>
  BY DEF Places
<1> HIDE DEF P, Q
<1>5. b \in [P -> Q]
  BY <1>1, <1>3
<1>6. \A x \in P : b[x] = <<h[x[1]], x[2]>>
  OBVIOUS
<1> HIDE DEF b
<1>7. \A x, y \in P : b[x] = b[y] => x = y
  BY <1>1, <1>6
<1>8. ASSUME NEW z \in Q PROVE \E x \in P : b[x] = z
  <2>1. PICK d \in D : h[d] = z[1]
    BY <1>4
  <2>2. <<d, z[2]>> \in P
    BY <1>2, <1>4, <2>1
  <2>3. QED
    BY <1>4, <1>6, <2>1, <2>2
<1>9. \A x \in P : RowAt(H, b[x]) = RowAt(G, x)
  BY <1>1, <1>6 DEF RowAt
<1>10. Pairs(b, G, P, H, Q)
  BY <1>5, <1>7, <1>8, <1>9 DEF Pairs
<1>11. QED
  BY <1>10 DEF Same, P, Q

\* The lists A of G, empty so far, get the rows of the lists B of H, which come to E.
LEMMA SameMore ==
  ASSUME NEW G, NEW G1, NEW H, NEW D, NEW A, NEW E, NEW E1, NEW B, A \subseteq D,
         \A d \in A : G[d] = <<>>, \A d \in D \ A : G1[d] = G[d], Parts(E1, E, B),
         Same(G, Places(G, D), H, Places(H, E)), Same(G1, Places(G1, A), H, Places(H, B))
  PROVE  Same(G1, Places(G1, D), H, Places(H, E1))
<1> DEFINE D1 == D \ A
<1>1. Parts(D, D1, A) /\ \A d \in D1 : G1[d] = G[d]
  BY DEF Parts
<1> HIDE DEF D1
<1>2. Places(G, D) = Places(G, D1)
  <2>1. Places(G, A) = {} /\ Parts(Places(G, D), Places(G, D1), Places(G, A))
    BY <1>1, NoPlaces, PlacesParts
  <2>2. QED
    BY <2>1, PartsNone
<1>3. Same(G1, Places(G1, D1), G, Places(G, D))
  BY <1>1, <1>2, SameElsewhere
<1>4. Same(G1, Places(G1, D1), H, Places(H, E))
  BY <1>3, SameTrans
<1>5. /\ Parts(Places(G1, D), Places(G1, D1), Places(G1, A))
      /\ Parts(Places(H, E1), Places(H, E), Places(H, B))
  BY <1>1, PlacesParts
<1>6. QED
  BY <1>4, <1>5, SameParts

-----------------------------------------------------------------------------
(* The rows of a morsel.                                                    *)

IsSelect(f, r, rg, preds, n) ==
  f = [k \in 0..n |-> IF k = 0 THEN Unselected(r.rowgroups[rg].rows) ELSE Narrow(r, rg, f[k - 1], preds[k])]
Selectable(r, rg, preds, n) == \E f : IsSelect(f, r, rg, preds, n)

LEMMA SelectExtends ==
  ASSUME NEW r, NEW rg, NEW preds, NEW k \in Nat, Selectable(r, rg, preds, k)
  PROVE  Selectable(r, rg, preds, k + 1)
<1> DEFINE all == Unselected(r.rowgroups[rg].rows)
<1>1. PICK f : IsSelect(f, r, rg, preds, k)
  BY DEF Selectable
<1> DEFINE new == Narrow(r, rg, f[k], preds[k + 1])
           g == [x \in 0..(k + 1) |-> IF x = k + 1 THEN new ELSE f[x]]
<1>2. /\ g[k + 1] = new
      /\ \A x \in 0..k : g[x] = f[x]
  <2>1. k + 1 \in 0..(k + 1) /\ \A x \in 0..k : x \in 0..(k + 1) /\ x # k + 1
    OBVIOUS
  <2> HIDE DEF new
  <2>2. QED
    BY <2>1, Zenon
<1>3. g = [x \in 0..(k + 1) |-> g[x]]
  OBVIOUS
<1>4. \A x \in 0..k : f[x] = IF x = 0 THEN all ELSE Narrow(r, rg, f[x - 1], preds[x])
  BY <1>1 DEF IsSelect
<1> HIDE DEF g, all
<1>5. ASSUME NEW x \in 0..(k + 1)
      PROVE  g[x] = IF x = 0 THEN all ELSE Narrow(r, rg, g[x - 1], preds[x])
  <2>1. CASE x = k + 1
    <3>1. x # 0 /\ x - 1 = k /\ k \in 0..k
      BY <2>1
    <3>2. QED
      BY <1>2, <2>1, <3>1
  <2>2. CASE x = 0
    <3>1. 0 \in 0..k
      OBVIOUS
    <3>2. QED
      BY <1>2, <1>4, <2>2, <3>1
  <2>3. CASE x # k + 1 /\ x # 0
    <3>1. x \in 0..k /\ x - 1 \in 0..k
      BY <2>3
    <3>2. QED
      BY <1>2, <1>4, <3>1
  <2>4. QED
    BY <2>1, <2>2, <2>3
<1>6. IsSelect(g, r, rg, preds, k + 1)
  BY <1>3, <1>5 DEF IsSelect, all
<1>7. QED
  BY <1>6 DEF Selectable

LEMMA SelectExists ==
  ASSUME NEW r, NEW rg, NEW preds, NEW n \in Nat
  PROVE  Selectable(r, rg, preds, n)
<1> DEFINE Bad == {k \in 0..n : ~Selectable(r, rg, preds, k)}
<1>1. Selectable(r, rg, preds, 0)
  <2> DEFINE all == Unselected(r.rowgroups[rg].rows)
             f == [x \in 0..0 |-> all]
  <2> HIDE DEF all
  <2>1. f = [k \in 0..0 |-> IF k = 0 THEN all ELSE Narrow(r, rg, f[k - 1], preds[k])]
    OBVIOUS
  <2> HIDE DEF f
  <2>2. QED
    BY <2>1 DEF Selectable, IsSelect, all
<1>2. SUFFICES ASSUME Bad # {} PROVE FALSE
  OBVIOUS
<1>3. Bad \subseteq Nat
  OBVIOUS
<1>4. PICK k \in Bad : \A j \in Bad : k <= j
  <2> HIDE DEF Bad
  <2>1. QED
    BY <1>2, <1>3, LeastNat
<1>5. k \in 0..n /\ ~Selectable(r, rg, preds, k) /\ k # 0
  BY <1>1
<1>6. k - 1 \in Nat /\ k - 1 \in 0..n /\ (k - 1) + 1 = k
  BY <1>5
<1>7. k - 1 \notin Bad
  BY <1>4, <1>6
<1>8. Selectable(r, rg, preds, k - 1)
  BY <1>6, <1>7
<1>9. QED
  BY <1>5, <1>6, <1>8, SelectExtends

\* Row i of a group, of columns cols from row from on, satisfies p.
Passes(cols, from, i, p) == Satisfies(cols[p.col_idx].vals[from + i + 1], p.op, p.lit.v)

\* After the first k predicates st.sel has the rows, of those below n, that satisfy them.
SelectedSoFar(st, n, cols, from, preds, k) ==
  /\ DOMAIN st = {"sel", "first", "stop", "panic"}
  /\ st.first \in BOOLEAN /\ st.stop \in BOOLEAN /\ st.panic \in BOOLEAN
  /\ st.panic => st.stop
  /\ ~st.panic =>
       /\ st.first => k = 0 /\ ~st.stop
       /\ st.stop => st.sel = <<>>
       /\ st.sel \in Seq(0..(n - 1)) /\ Ascends(st.sel)
       /\ \A i \in 0..(n - 1) : i \in ToSet(st.sel) <=> \A j \in 1..k : Passes(cols, from, i, preds[j])

LEMMA KeptIs ==
  ASSUME NEW sel
  PROVE  /\ DOMAIN Kept(sel) = {"sel", "first", "stop", "panic"}
         /\ Kept(sel).sel = sel /\ Kept(sel).first = FALSE /\ Kept(sel).panic = FALSE
         /\ Kept(sel).stop \in BOOLEAN /\ (Kept(sel).stop <=> sel = <<>>)
BY DEF Kept

LEMMA SelectStep ==
  ASSUME NEW r, NEW rg, NEW n, n = r.rowgroups[rg].rows, n \in Nat, NEW cols, NEW from, NEW preds,
         NEW k \in Nat \ {0}, NEW st, SelectedSoFar(st, n, cols, from, preds, k - 1),
         NEW p, p = preds[k], ComparesRight(r, rg, p.col_idx, cols[p.col_idx].vals, from, p)
  PROVE  SelectedSoFar(Narrow(r, rg, st, p), n, cols, from, preds, k)
<1> DEFINE w == RowsWhere(r, rg, p.col_idx, p.op, p.lit)
           bad == Panics(r.rowgroups[rg].chunks[p.col_idx], p.op, p.lit)
           sel == IF st.first THEN w ELSE IntersectSorted(st.sel, w)
<1>1. Narrow(r, rg, st, p)
        = IF st.stop THEN st ELSE IF bad THEN [st EXCEPT !.stop = TRUE, !.panic = TRUE] ELSE Kept(sel)
  BY Zenon DEF Narrow
<1>2. \A j : j \in 1..k <=> j \in 1..(k - 1) \/ j = k
  OBVIOUS
<1>3. bad \/ /\ w \in Seq(0..(n - 1)) /\ Ascends(w)
             /\ \A i : i \in ToSet(w) <=> i \in 0..(n - 1) /\ Passes(cols, from, i, p)
  BY DEF ComparesRight, Passes
<1> HIDE DEF w, bad, sel
<1>4. CASE st.stop
  <2>1. Narrow(r, rg, st, p) = st
    BY <1>1, <1>4
  <2>2. ToSet(<<>>) = {}
    BY DEF ToSet
  <2>3. ~st.panic => \A i \in 0..(n - 1) : i \notin ToSet(st.sel)
    BY <1>4, <2>2 DEF SelectedSoFar
  <2>4. ~st.panic => \A i \in 0..(n - 1) : ~(\A j \in 1..(k - 1) : Passes(cols, from, i, preds[j]))
    BY <2>3 DEF SelectedSoFar
  <2>5. ~st.panic => \A i \in 0..(n - 1) : ~(\A j \in 1..k : Passes(cols, from, i, preds[j]))
    BY <1>2, <2>4
  <2>6. ~st.panic => ~st.first
    BY <1>4 DEF SelectedSoFar
  <2>7. QED
    BY <1>4, <2>1, <2>3, <2>5, <2>6 DEF SelectedSoFar
<1>5. CASE ~st.stop /\ bad
  <2> DEFINE new == [st EXCEPT !.stop = TRUE, !.panic = TRUE]
  <2>1. Narrow(r, rg, st, p) = new
    BY <1>1, <1>5
  <2>2. DOMAIN new = DOMAIN st /\ new.stop = TRUE /\ new.panic = TRUE /\ new.first = st.first
    BY DEF SelectedSoFar
  <2> HIDE DEF new
  <2>3. QED
    BY <2>1, <2>2 DEF SelectedSoFar
<1>6. CASE ~st.stop /\ ~bad
  <2> DEFINE rows == 0..(n - 1)
  <2>1. Narrow(r, rg, st, p) = Kept(sel)
    BY <1>1, <1>6
  <2>2. ~st.panic
    BY <1>6 DEF SelectedSoFar
  <2>3. /\ st.sel \in Seq(rows) /\ Ascends(st.sel) /\ (st.first => k = 1)
        /\ \A i \in rows : i \in ToSet(st.sel) <=> \A j \in 1..(k - 1) : Passes(cols, from, i, preds[j])
    <3>1. st.first => k - 1 = 0
      BY <2>2 DEF SelectedSoFar
    <3>2. QED
      BY <2>2, <3>1 DEF SelectedSoFar
  <2>4. /\ w \in Seq(rows) /\ Ascends(w)
        /\ \A i : i \in ToSet(w) <=> i \in rows /\ Passes(cols, from, i, p)
    BY <1>3, <1>6
  <2>5. rows \subseteq Int
    OBVIOUS
  <2> HIDE DEF rows
  <2>6. /\ sel \in Seq(rows) /\ Ascends(sel)
        /\ \A i \in rows : i \in ToSet(sel) <=> \A j \in 1..k : Passes(cols, from, i, preds[j])
    <3>1. CASE st.first
      <4>1. sel = w /\ k = 1
        BY <2>3, <3>1 DEF sel
      <4>2. \A j : j \in 1..k <=> j = k
        BY <4>1
      <4>3. QED
        BY <2>4, <4>1, <4>2
    <3>2. CASE ~st.first
      <4>1. sel = Only(st.sel, ToSet(w))
        BY <3>2 DEF sel, IntersectSorted
      <4>2. sel \in Seq(rows)
        BY <2>3, <4>1, OnlyPicks
      <4>3. Ascends(sel)
        BY <2>3, <2>5, <4>1, OnlyAscends
      <4>4. \A i : i \in ToSet(sel) <=> i \in ToSet(st.sel) /\ i \in ToSet(w)
        BY <2>3, <4>1, OnlyKeeps
      <4>5. \A i \in rows : i \in ToSet(sel)
              <=> (\A j \in 1..(k - 1) : Passes(cols, from, i, preds[j])) /\ Passes(cols, from, i, p)
        BY <2>3, <2>4, <4>4
      <4>6. QED
        BY <1>2, <4>2, <4>3, <4>5
    <3>3. st.first \in BOOLEAN
      BY DEF SelectedSoFar
    <3>4. QED
      BY <3>1, <3>2, <3>3
  <2>7. SelectedSoFar(Kept(sel), n, cols, from, preds, k)
    BY <2>6, KeptIs DEF SelectedSoFar, rows
  <2>8. QED
    BY <2>1, <2>7
<1>7. QED
  BY <1>4, <1>5, <1>6 DEF SelectedSoFar

LEMMA UnselectedAll ==
  ASSUME NEW n \in Nat, NEW cols, NEW from, NEW preds
  PROVE  SelectedSoFar(Unselected(n), n, cols, from, preds, 0)
<1> DEFINE all == [k \in 1..n |-> k - 1]
           rows == 0..(n - 1)
<1>1. \A k \in 1..n : k - 1 \in rows /\ all[k] = k - 1
  OBVIOUS
<1>2. DOMAIN all = 1..n
  OBVIOUS
<1>3. \A i \in rows : i + 1 \in 1..n /\ (i + 1) - 1 = i
  OBVIOUS
<1>4. \A j : j \notin 1..0
  OBVIOUS
<1>5. all \in Seq(rows)
  <2>1. all \in [1..n -> rows]
    BY <1>1
  <2>2. QED
    BY <2>1, SeqDef
<1>6. /\ DOMAIN Unselected(n) = {"sel", "first", "stop", "panic"}
      /\ Unselected(n).sel = all /\ Unselected(n).first = TRUE
      /\ Unselected(n).stop = FALSE /\ Unselected(n).panic = FALSE
  <2> HIDE DEF all
  <2>1. Unselected(n) = [sel |-> all, first |-> TRUE, stop |-> FALSE, panic |-> FALSE]
    BY DEF Unselected, all
  <2>2. QED
    BY <2>1
<1> HIDE DEF all
<1>7. Ascends(all)
  <2>1. \A i, k \in 1..n : i < k => all[i] < all[k]
    BY <1>1
  <2>2. QED
    BY <1>2, <2>1 DEF Ascends
<1>8. \A i \in rows : i \in ToSet(all)
  <2>1. ASSUME NEW i \in rows PROVE i \in ToSet(all)
    <3>1. i + 1 \in DOMAIN all /\ all[i + 1] = i
      BY <1>1, <1>2, <1>3
    <3>2. QED
      BY <3>1, Zenon DEF ToSet
  <2>2. QED
    BY <2>1
<1>9. QED
  BY <1>4, <1>5, <1>6, <1>7, <1>8 DEF SelectedSoFar

\* Comparisons with the literals of these predicates are right.
Compare(r, rg, cols, from, preds) ==
  \A p \in ToSet(preds) : ComparesRight(r, rg, p.col_idx, cols[p.col_idx].vals, from, p)

\* sel has the rows, of n, that satisfy the predicates, in order.
Selects(sel, n, cols, from, preds) ==
  /\ sel \in Seq(0..(n - 1)) /\ Ascends(sel)
  /\ \A i \in 0..(n - 1) : i \in ToSet(sel) <=> \A p \in ToSet(preds) : Passes(cols, from, i, p)

\* Without a panic Select has the rows that satisfy all predicates, in order.
LEMMA SelectRight ==
  ASSUME NEW r, NEW rg, NEW n \in Nat, n = r.rowgroups[rg].rows, NEW cols, NEW from,
         NEW preds, preds \in Seq(ToSet(preds)),
         Compare(r, rg, cols, from, preds),
         ~Select(r, rg, preds).panic
  PROVE  Selects(Select(r, rg, preds).sel, n, cols, from, preds)
<1> DEFINE m == Len(preds)
           f == CHOOSE f : IsSelect(f, r, rg, preds, m)
           Bad == {k \in 0..m : ~SelectedSoFar(f[k], n, cols, from, preds, k)}
<1>1. m \in Nat /\ DOMAIN preds = 1..m
  BY LenProperties
<1>2. IsSelect(f, r, rg, preds, m)
  BY <1>1, SelectExists DEF Selectable
<1>3. Select(r, rg, preds) = f[m]
  BY Zenon DEF Select, IsSelect
<1> HIDE DEF f
<1>4. \A k \in 0..m : f[k] = IF k = 0 THEN Unselected(r.rowgroups[rg].rows) ELSE Narrow(r, rg, f[k - 1], preds[k])
  BY <1>2 DEF IsSelect
<1>5. ASSUME Bad # {} PROVE FALSE
  <2>1. Bad \subseteq Nat
    OBVIOUS
  <2>2. PICK k \in Bad : \A j \in Bad : k <= j
    <3> HIDE DEF Bad
    <3>1. QED
      BY <1>5, <2>1, LeastNat
  <2>3. k \in 0..m /\ ~SelectedSoFar(f[k], n, cols, from, preds, k)
    OBVIOUS
  <2>4. k # 0
    <3>1. f[0] = Unselected(n)
      BY <1>1, <1>4
    <3>2. QED
      BY <2>3, <3>1, UnselectedAll
  <2>5. k \in 1..m /\ k - 1 \in 0..m /\ k - 1 \notin Bad /\ k \in Nat \ {0}
    BY <1>1, <2>2, <2>3, <2>4
  <2>6. SelectedSoFar(f[k - 1], n, cols, from, preds, k - 1)
    BY <2>5
  <2>7. preds[k] \in ToSet(preds)
    BY <1>1, <2>5 DEF ToSet
  <2>8. f[k] = Narrow(r, rg, f[k - 1], preds[k])
    BY <1>4, <2>3, <2>4
  <2> DEFINE p == preds[k]
  <2>9. ComparesRight(r, rg, p.col_idx, cols[p.col_idx].vals, from, p)
    BY <2>7 DEF Compare
  <2> HIDE DEF p, Bad, m
  <2>10. p = preds[k]
    BY DEF p
  <2>11. SelectedSoFar(Narrow(r, rg, f[k - 1], p), n, cols, from, preds, k)
    BY <2>5, <2>6, <2>9, <2>10, SelectStep
  <2>12. QED
    BY <2>3, <2>8, <2>10, <2>11
<1>6. m \in 0..m
  BY <1>1
<1>7. SelectedSoFar(f[m], n, cols, from, preds, m)
  BY <1>5, <1>6
<1>8. \A i : (\A j \in 1..m : Passes(cols, from, i, preds[j])) <=> \A p \in ToSet(preds) : Passes(cols, from, i, p)
  BY <1>1 DEF ToSet
<1>9. QED
  BY <1>3, <1>7, <1>8 DEF SelectedSoFar, Selects

\* The cells in the rows of an ascending list.
LEMMA CellsRight ==
  ASSUME NEW r, NEW g, NEW c, NEW vals, NEW from, NEW sel, NEW n, n = r.rowgroups[g].rows,
         sel \in Seq(0..(n - 1)), Ascends(sel), GathersRight(r, g, c, vals, from)
  PROVE  Cells(r, g, c, sel) = [k \in 1..Len(sel) |-> vals[from + sel[k] + 1]]
<1> DEFINE m == Len(sel)
           S == ToSet(sel)
<1>1. m \in Nat /\ DOMAIN sel = 1..m /\ sel \in [1..m -> 0..(n - 1)]
  BY LenProperties
<1>2. S \in SUBSET (0..(n - 1))
  BY <1>1 DEF ToSet
<1>3. \A i, k \in 1..m : sel[i] = sel[k] => i = k
  <2>1. DOMAIN sel \subseteq Int /\ \A i \in DOMAIN sel : sel[i] \in Int
    BY <1>1
  <2>2. \A i, j \in DOMAIN sel : i < j => sel[i] < sel[j]
    BY DEF Ascends
  <2>3. QED
    BY <1>1, <2>1, <2>2, AscendsOnce
<1>4. sel \in [1..m -> S] /\ \A x \in S : \E i \in 1..m : sel[i] = x
  <2>1. \A i \in 1..m : sel[i] \in S
    BY <1>1 DEF ToSet
  <2>2. \A x \in S : \E i \in 1..m : sel[i] = x
    BY <1>1 DEF ToSet
  <2> HIDE DEF S
  <2>3. QED
    BY <1>1, <2>1, <2>2
<1> HIDE DEF m, S
<1>5. sel \in Bijection(1..m, S)
  BY <1>3, <1>4 DEF Bijection, Injection, Surjection, IsInjective
<1>6. Cardinality(S) = m
  <2>1. IsFiniteSet(1..m) /\ Cardinality(1..m) = m
    BY <1>1, FS_Interval
  <2>2. ExistsBijection(1..m, S)
    BY <1>5 DEF ExistsBijection
  <2>3. Cardinality(1..m) = Cardinality(S)
    BY <2>1, <2>2, FS_Bijection
  <2>4. QED
    BY <2>1, <2>3
<1>7. \A X \in SUBSET (0..(n - 1)) : \A s \in [1..Cardinality(X) -> X] :
        Ascends(s) => Cells(r, g, c, s) = [k \in 1..Cardinality(X) |-> vals[from + s[k] + 1]]
  BY Zenon DEF GathersRight
<1>8. sel \in [1..Cardinality(S) -> S]
  BY <1>4, <1>6
<1>9. Cells(r, g, c, sel) = [k \in 1..Cardinality(S) |-> vals[from + sel[k] + 1]]
  BY <1>2, <1>7, <1>8, Zenon
<1>10. QED
  BY <1>6, <1>9 DEF m

-----------------------------------------------------------------------------
(* The rows of a scan.                                                      *)

\* Row k of list G[m] is at place <<fi[m], at[m][k]>> of H.
Located(G, D, H, Q, fi, at) ==
  \A m \in D : \A k \in 1..Len(G[m]) :
    <<fi[m], at[m][k]>> \in Q /\ RowAt(H, <<fi[m], at[m][k]>>) = G[m][k]
Apart(G, D, fi, at) ==
  \A l, m \in D : \A i \in 1..Len(G[l]), k \in 1..Len(G[m]) :
    fi[l] = fi[m] /\ at[l][i] = at[m][k] => l = m /\ i = k
Reached(G, D, Q, fi, at) ==
  \A z \in Q : \E m \in D : \E k \in Nat : k \in 1..Len(G[m]) /\ z = <<fi[m], at[m][k]>>

LEMMA SamePlaces ==
  ASSUME NEW G, NEW D, NEW H, NEW Q, NEW fi, NEW at,
         Located(G, D, H, Q, fi, at), Apart(G, D, fi, at), Reached(G, D, Q, fi, at)
  PROVE  Same(G, Places(G, D), H, Q)
<1> DEFINE P == Places(G, D)
           to(x) == <<fi[x[1]], at[x[1]][x[2]]>>
           b == [x \in P |-> to(x)]
<1>1. \A x \in P : x[1] \in D /\ x[2] \in 1..Len(G[x[1]]) /\ x = <<x[1], x[2]>> /\ RowAt(G, x) = G[x[1]][x[2]]
  BY DEF Places, RowAt
<1>2. \A m \in D, k \in Nat : k \in 1..Len(G[m]) => <<m, k>> \in P
  BY DEF Places
<1> HIDE DEF P
<1>3. \A x \in P : to(x) \in Q /\ RowAt(H, to(x)) = RowAt(G, x)
  <2>1. ASSUME NEW x \in P PROVE to(x) \in Q /\ RowAt(H, to(x)) = RowAt(G, x)
    <3> DEFINE m == x[1]
               k == x[2]
    <3>1. m \in D /\ k \in 1..Len(G[m]) /\ RowAt(G, x) = G[m][k]
      BY <1>1
    <3> HIDE DEF m, k
    <3>2. <<fi[m], at[m][k]>> \in Q /\ RowAt(H, <<fi[m], at[m][k]>>) = G[m][k]
      BY <3>1 DEF Located
    <3>3. to(x) = <<fi[m], at[m][k]>>
      BY DEF m, k
    <3> HIDE DEF to
    <3>4. QED
      BY <3>1, <3>2, <3>3
  <2>2. QED
    BY <2>1
<1>4. \A x, y \in P : to(x) = to(y) => fi[x[1]] = fi[y[1]] /\ at[x[1]][x[2]] = at[y[1]][y[2]]
  OBVIOUS
<1>5. \A m, k : to(<<m, k>>) = <<fi[m], at[m][k]>>
  OBVIOUS
<1> HIDE DEF to
<1>6. b \in [P -> Q] /\ \A x \in P : b[x] = to(x)
  BY <1>3
<1> HIDE DEF b
<1>7. \A x, y \in P : b[x] = b[y] => x = y
  <2>1. ASSUME NEW x \in P, NEW y \in P, to(x) = to(y) PROVE x = y
    <3>1. fi[x[1]] = fi[y[1]] /\ at[x[1]][x[2]] = at[y[1]][y[2]]
      BY <1>4, <2>1
    <3>2. x[1] = y[1] /\ x[2] = y[2]
      BY <1>1, <3>1 DEF Apart
    <3>3. x = <<x[1], x[2]>> /\ y = <<y[1], y[2]>>
      BY <1>1
    <3>4. QED
      BY <3>2, <3>3
  <2>2. QED
    BY <1>6, <2>1
<1>8. ASSUME NEW z \in Q PROVE \E x \in P : b[x] = z
  <2>1. PICK m \in D, k \in Nat : k \in 1..Len(G[m]) /\ z = <<fi[m], at[m][k]>>
    BY DEF Reached
  <2>2. <<m, k>> \in P
    BY <1>2, <2>1
  <2>3. QED
    BY <1>5, <1>6, <2>1, <2>2
<1>9. \A x \in P : RowAt(H, b[x]) = RowAt(G, x)
  BY <1>3, <1>6
<1>10. Pairs(b, G, P, H, Q)
  BY <1>6, <1>7, <1>8, <1>9 DEF Pairs
<1>11. QED
  BY <1>10 DEF Same, P

\* A list whose elements are lists.
Listed(s) == Len(s) \in Nat /\ s = [i \in 1..Len(s) |-> s[i]]

LEMMA ListedSeq ==
  ASSUME NEW s, Listed(s), NEW T, \A i \in 1..Len(s) : s[i] \in T
  PROVE  s \in Seq(T) /\ DOMAIN s = 1..Len(s)
<1> DEFINE n == Len(s)
<1>1. n \in Nat /\ s = [i \in 1..n |-> s[i]]
  BY DEF Listed
<1> HIDE DEF n
<1>2. s \in [1..n -> T]
  BY <1>1 DEF n
<1>3. QED
  BY <1>1, <1>2, SeqDef DEF n

LEMMA SeqListed ==
  ASSUME NEW T, NEW s \in Seq(T)
  PROVE  Listed(s)
<1>1. Len(s) \in Nat /\ DOMAIN s = 1..Len(s)
  BY LenProperties
<1>2. s \in [1..Len(s) -> T]
  BY <1>1, SeqDef
<1>3. s = [i \in 1..Len(s) |-> s[i]]
  BY <1>2, Zenon
<1>4. QED
  BY <1>1, <1>3, Zenon DEF Listed

\* All lists are of elements of one set.
LEMMA ListsOfLists ==
  ASSUME NEW s, Listed(s), \A i \in 1..Len(s) : Listed(s[i])
  PROVE  \E T : s \in Seq(Seq(T))
<1> DEFINE P == {y \in (1..Len(s)) \X Nat : y[2] \in 1..Len(s[y[1]])}
           T == {s[x[1]][x[2]] : x \in P}
<1>1. ASSUME NEW i \in 1..Len(s) PROVE s[i] \in Seq(T)
  <2>1. ASSUME NEW k \in 1..Len(s[i]) PROVE s[i][k] \in T
    <3> DEFINE x == <<i, k>>
    <3>1. k \in Nat
      BY DEF Listed
    <3>2. x \in P
      BY <3>1
    <3>3. s[x[1]][x[2]] = s[i][k]
      OBVIOUS
    <3> HIDE DEF x, P
    <3>4. QED
      BY <3>2, <3>3
  <2> HIDE DEF T
  <2>2. QED
    BY <2>1, ListedSeq
<1> HIDE DEF T
<1>2. QED
  BY <1>1, ListedSeq

\* A function on 1..n.
LEMMA ListedFcn ==
  ASSUME NEW n \in Nat, NEW s, s = [i \in 1..n |-> s[i]]
  PROVE  Len(s) = n /\ Listed(s)
<1> DEFINE T == {s[i] : i \in 1..n}
<1>1. s \in [1..n -> T]
  OBVIOUS
<1>d. DOMAIN s = 1..n
  OBVIOUS
<1> HIDE DEF T
<1>2. s \in Seq(T)
  BY <1>1, SeqDef
<1>3. Len(s) \in Nat /\ DOMAIN s = 1..Len(s)
  BY <1>2, LenProperties
<1>4. 1..Len(s) = 1..n
  BY <1>d, <1>3, Zenon
<1>5. Len(s) = n
  BY <1>3, <1>4, SameEnd
<1>6. QED
  BY <1>5, Zenon DEF Listed

-----------------------------------------------------------------------------
(* Morsels.                                                                 *)

\* For each row group of each file there is one morsel.
LEMMA MorselsOnce ==
  ASSUME NEW scan, Listed(scan.files),
         \A j \in DOMAIN scan.files : LET groups == ReaderOf(scan.files[j]).rowgroups
                                      IN  DOMAIN groups = 1..Len(groups) /\ Len(groups) \in Nat
  PROVE  LET morsels == MorselsOf(scan) IN
         /\ morsels \in Seq([file : DOMAIN scan.files, rg : Nat])
         /\ \A m \in DOMAIN morsels :
              /\ morsels[m].file \in DOMAIN scan.files
              /\ morsels[m].rg \in DOMAIN ReaderOf(scan.files[morsels[m].file]).rowgroups
         /\ \A j \in DOMAIN scan.files : \A g \in DOMAIN ReaderOf(scan.files[j]).rowgroups :
              \E m \in DOMAIN morsels : morsels[m] = [file |-> j, rg |-> g]
         /\ \A l, m \in DOMAIN morsels : morsels[l] = morsels[m] => l = m
<1> DEFINE files == scan.files
           groups(j) == ReaderOf(files[j]).rowgroups
           of(j) == [g \in DOMAIN groups(j) |-> [file |-> j, rg |-> g]]
           all == [j \in DOMAIN files |-> of(j)]
           T == [file : DOMAIN files, rg : Nat]
           n == Len(files)
           morsels == FlattenSeq(all)
           one == <<morsels>>
<1>1. MorselsOf(scan) = morsels
  BY DEF MorselsOf
<1>2. n \in Nat /\ files = [i \in 1..n |-> files[i]]
  BY DEF Listed
<1>3. DOMAIN files = 1..n
  <2> HIDE DEF files, n
  <2>1. QED
    BY <1>2
<1>4. \A j \in DOMAIN files : DOMAIN groups(j) = 1..Len(groups(j)) /\ Len(groups(j)) \in Nat
  OBVIOUS
<1> HIDE DEF files, groups, n
<1>5. ASSUME NEW j \in DOMAIN files PROVE of(j) \in Seq(T) /\ Len(of(j)) = Len(groups(j)) /\ DOMAIN of(j) = DOMAIN groups(j)
  <2> DEFINE e == of(j)
             k == Len(groups(j))
  <2>1. k \in Nat /\ DOMAIN groups(j) = 1..k
    BY <1>4
  <2>2. DOMAIN e = 1..k /\ \A i \in 1..k : e[i] \in T
    BY <2>1
  <2>3. e = [i \in 1..k |-> e[i]]
    BY <2>1
  <2> HIDE DEF e, k, T
  <2>4. Len(e) = k /\ Listed(e)
    BY <2>1, <2>3, ListedFcn
  <2>5. e \in Seq(T)
    BY <2>2, <2>4, ListedSeq
  <2>6. QED
    BY <2>1, <2>2, <2>4, <2>5 DEF e, k
<1>6. \A j \in DOMAIN files : all[j] = of(j)
  OBVIOUS
<1>7. \A j \in DOMAIN files : \A g \in DOMAIN groups(j) : of(j)[g] = [file |-> j, rg |-> g]
  OBVIOUS
<1>8. all = [j \in 1..n |-> all[j]]
  BY <1>3
<1>d. DOMAIN all = DOMAIN files
  OBVIOUS
<1> HIDE DEF of, all
<1>9. all \in Seq(Seq(T))
  <2>1. Len(all) = n /\ Listed(all)
    BY <1>2, <1>8, ListedFcn
  <2>2. \A j \in 1..Len(all) : all[j] \in Seq(T)
    BY <1>3, <1>5, <1>6, <2>1
  <2> HIDE DEF T
  <2>3. QED
    BY <2>1, <2>2, ListedSeq
<1> DEFINE P == Places(one, {1})
           Q == Places(all, DOMAIN all)
<1>10. morsels \in Seq(T) /\ Same(one, P, all, Q)
  <2> HIDE DEF T
  <2>1. QED
    BY <1>9, FlattenSame
<1>11. PICK b : Pairs(b, one, P, all, Q)
  BY <1>10 DEF Same
<1>12. DOMAIN morsels = 1..Len(morsels) /\ Len(morsels) \in Nat
  BY <1>10, LenProperties
<1>13. \A m \in DOMAIN morsels : <<1, m>> \in P /\ RowAt(one, <<1, m>>) = morsels[m]
  <2> HIDE DEF morsels
  <2>1. QED
    BY <1>12 DEF Places, RowAt
<1>14. \A x \in P : x = <<1, x[2]>> /\ x[2] \in DOMAIN morsels
  <2> HIDE DEF morsels
  <2>1. QED
    BY <1>12 DEF Places
<1>15. \A z \in Q : /\ z = <<z[1], z[2]>> /\ z[1] \in DOMAIN files /\ z[2] \in DOMAIN groups(z[1])
                    /\ RowAt(all, z) = [file |-> z[1], rg |-> z[2]]
  <2>1. ASSUME NEW z \in Q
        PROVE  z = <<z[1], z[2]>> /\ z[1] \in DOMAIN files /\ z[2] \in 1..Len(all[z[1]])
    BY <1>d DEF Places
  <2>2. ASSUME NEW z \in Q
        PROVE  /\ z = <<z[1], z[2]>> /\ z[1] \in DOMAIN files /\ z[2] \in DOMAIN groups(z[1])
               /\ RowAt(all, z) = [file |-> z[1], rg |-> z[2]]
    <3>1. z = <<z[1], z[2]>> /\ z[1] \in DOMAIN files /\ z[2] \in 1..Len(all[z[1]])
      BY <2>1
    <3>2. all[z[1]] = of(z[1]) /\ z[2] \in DOMAIN groups(z[1])
      BY <1>4, <1>5, <1>6, <3>1
    <3>3. QED
      BY <1>7, <3>1, <3>2 DEF RowAt
  <2>3. QED
    BY <2>2
<1>16. \A j \in DOMAIN files : \A g \in DOMAIN groups(j) : <<j, g>> \in Q
  <2>1. ASSUME NEW j \in DOMAIN files, NEW g \in DOMAIN groups(j) PROVE <<j, g>> \in Q
    <3>1. j \in DOMAIN all /\ g \in 1..Len(all[j]) /\ g \in Nat
      BY <1>4, <1>5, <1>6, <1>d
    <3>2. QED
      BY <3>1 DEF Places
  <2>2. QED
    BY <2>1
<1> HIDE DEF P, Q, morsels, one
<1>17. \A m \in DOMAIN morsels : b[<<1, m>>] \in Q /\ morsels[m] = RowAt(all, b[<<1, m>>])
  BY <1>11, <1>13 DEF Pairs
<1>18. ASSUME NEW m \in DOMAIN morsels
       PROVE  morsels[m].file \in DOMAIN files /\ morsels[m].rg \in DOMAIN groups(morsels[m].file)
  <2>1. PICK z \in Q : morsels[m] = RowAt(all, z)
    BY <1>17
  <2>2. z[1] \in DOMAIN files /\ z[2] \in DOMAIN groups(z[1]) /\ morsels[m] = [file |-> z[1], rg |-> z[2]]
    BY <1>15, <2>1
  <2>3. QED
    BY <2>2
<1>19. ASSUME NEW j \in DOMAIN files, NEW g \in DOMAIN groups(j)
       PROVE  \E m \in DOMAIN morsels : morsels[m] = [file |-> j, rg |-> g]
  <2> DEFINE z == <<j, g>>
  <2>1. z \in Q /\ RowAt(all, z) = [file |-> j, rg |-> g]
    <3>1. z \in Q
      BY <1>16
    <3>2. RowAt(all, z) = [file |-> z[1], rg |-> z[2]]
      BY <1>15, <3>1
    <3>3. QED
      BY <3>1, <3>2
  <2> HIDE DEF z
  <2>2. PICK x \in P : b[x] = z
    BY <1>11, <2>1 DEF Pairs
  <2>3. x = <<1, x[2]>> /\ x[2] \in DOMAIN morsels
    BY <1>14
  <2>4. morsels[x[2]] = RowAt(all, z)
    BY <1>17, <2>2, <2>3
  <2>5. QED
    BY <2>1, <2>3, <2>4
<1>20. ASSUME NEW l \in DOMAIN morsels, NEW m \in DOMAIN morsels, morsels[l] = morsels[m] PROVE l = m
  <2> DEFINE y == b[<<1, l>>]
             z == b[<<1, m>>]
  <2>1. y \in Q /\ z \in Q /\ RowAt(all, y) = RowAt(all, z)
    BY <1>17, <1>20
  <2>2. /\ y = <<y[1], y[2]>> /\ RowAt(all, y) = [file |-> y[1], rg |-> y[2]]
        /\ z = <<z[1], z[2]>> /\ RowAt(all, z) = [file |-> z[1], rg |-> z[2]]
    BY <1>15, <2>1
  <2> HIDE DEF y, z
  <2>3. y = z
    <3>1. RowAt(all, y).file = y[1] /\ RowAt(all, y).rg = y[2]
      BY <2>2
    <3>2. RowAt(all, z).file = z[1] /\ RowAt(all, z).rg = z[2]
      BY <2>2
    <3>3. y[1] = z[1] /\ y[2] = z[2]
      BY <2>1, <3>1, <3>2
    <3>4. QED
      BY <2>2, <3>3
  <2>4. <<1, l>> \in P /\ <<1, m>> \in P /\ b[<<1, l>>] = b[<<1, m>>]
    BY <1>13, <2>3 DEF y, z
  <2>5. <<1, l>> = <<1, m>>
    BY <1>11, <2>4 DEF Pairs
  <2>6. QED
    BY <2>5
<1>21. QED
  BY <1>1, <1>10, <1>18, <1>19, <1>20 DEF files, groups

\* Where the row groups of a file begin.
IsBase(base, n, f) ==
  base \in [DOMAIN Readers[n][f].rowgroups -> Nat] /\ ReadsBack(Readers[n][f], Tables[n].files[f], base)
BaseOf(n, f) == CHOOSE base : IsBase(base, n, f)

LEMMA FileReadsBack ==
  ASSUME NEW n \in DOMAIN Tables, NEW f \in DOMAIN Tables[n].files, DOMAIN Tables[n].fields # {}
  PROVE  IsBase(BaseOf(n, f), n, f)
<1> DEFINE r == Readers[n][f]
           cols == Tables[n].files[f]
<1>1. DOMAIN cols = DOMAIN Tables[n].fields
  BY TablesAssumption
<1>2. cols # <<>>
  BY <1>1
<1>3. \E base \in [DOMAIN r.rowgroups -> 0..Len(cols[1].vals)] : ReadsBack(r, cols, base)
  BY <1>2, ReadersAssumption
<1>4. \A m : 0..m \subseteq Nat
  OBVIOUS
<1> HIDE DEF r, cols
<1>5. \E base \in [DOMAIN r.rowgroups -> Nat] : ReadsBack(r, cols, base)
  BY <1>3, <1>4
<1>6. QED
  BY <1>5 DEF IsBase, BaseOf, r, cols

\* A predicate of a scan compares the column it is bound to.
LEMMA PredOfScan ==
  ASSUME NEW ast, IsAst(ast), NEW n \in DOMAIN Tables, NEW f \in DOMAIN Tables[n].files, NEW base,
         IsBase(base, n, f), NEW g \in DOMAIN Readers[n][f].rowgroups,
         NEW p \in PredsFor(ast, Tables[n].fields)
  PROVE  /\ p.col_idx \in DOMAIN Tables[n].fields
         /\ ComparesRight(Readers[n][f], g, p.col_idx, Tables[n].files[f][p.col_idx].vals, base[g], p)
<1> DEFINE fields == Tables[n].fields
           r == Readers[n][f]
           cols == Tables[n].files[f]
<1>1. PICK c \in DOMAIN fields, k \in DOMAIN ast.preds :
        p = [col_idx |-> c, field_id |-> fields[c].id, op |-> ast.preds[k].op, lit |-> ast.preds[k].lit]
  BY DEF PredsFor
<1> DEFINE o == ast.preds[k]
           id == fields[c].id
<1>2. p.col_idx = c /\ p.op = o.op /\ p.lit = o.lit
  <2>1. p = [col_idx |-> c, field_id |-> id, op |-> o.op, lit |-> o.lit]
    BY <1>1
  <2> HIDE DEF o, id
  <2>2. QED
    BY <2>1
<1>3. DOMAIN cols = DOMAIN fields
  BY TablesAssumption
<1>4. PICK q \in Queries : StatementOf(q).ok /\ ast = StatementOf(q).v
  BY DEF IsAst
<1>5. o \in ToSet(StatementOf(q).v.preds)
  BY <1>4 DEF ToSet
<1>6. ComparesRight(r, g, c, cols[c].vals, base[g], o)
  BY <1>3, <1>4, <1>5, Zenon DEF IsBase, ReadsBack
<1> HIDE DEF o, fields
<1>7. ComparesRight(r, g, c, cols[c].vals, base[g], p)
  BY <1>2, <1>6 DEF ComparesRight
<1>8. QED
  BY <1>1, <1>2, <1>7 DEF fields

\* The row of a file with these columns, at place i.
RowOf(n, f, cols, i) == [c \in DOMAIN cols |-> Tables[n].files[f][cols[c]].vals[i]]

\* A morsel whose scan does not panic has the rows of its group that satisfy the predicates.
IsFound(found, scan, n, f, base, g, sel) ==
  /\ sel \in Seq(0..(Readers[n][f].rowgroups[g].rows - 1)) /\ Ascends(sel)
  /\ \A i \in 0..(Readers[n][f].rowgroups[g].rows - 1) :
       i \in ToSet(sel) <=> \A p \in ToSet(scan.preds) : Passes(Tables[n].files[f], base[g], i, p)
  /\ found.rows = [k \in 1..Len(sel) |-> RowOf(n, f, scan.cols, base[g] + sel[k] + 1)]

LEMMA ScanRight ==
  ASSUME NEW ast, IsAst(ast), NEW scan, ReadyScan(ast, scan), NEW n, n = scan.table,
         NEW f \in DOMAIN Tables[n].files, NEW base, IsBase(base, n, f), NEW j,
         ReaderOf(scan.files[j]) = Readers[n][f], NEW g \in DOMAIN Readers[n][f].rowgroups,
         ~ScanRowgroup(scan, j, g).panic
  PROVE  \E sel : IsFound(ScanRowgroup(scan, j, g), scan, n, f, base, g, sel)
<1> DEFINE r == Readers[n][f]
           cols == Tables[n].files[f]
           size == r.rowgroups[g].rows
           found == ScanRowgroup(scan, j, g)
           st == Select(r, g, scan.preds)
           sel == st.sel
           cells == [c \in DOMAIN scan.cols |-> Cells(r, g, scan.cols[c], sel)]
           from == base[g]
<1>1. found = [panic |-> st.panic, rows |-> Rows(cells, Len(sel))]
  BY DEF ScanRowgroup, ScanWith, CellsAt
<1>2. /\ n \in DOMAIN Tables /\ scan.cols \in Seq(DOMAIN Tables[n].fields)
      /\ scan.preds \in Seq(PredsFor(ast, Tables[n].fields))
  BY DEF ReadyScan
<1>3. /\ size \in Nat /\ from \in Nat
      /\ \A c \in DOMAIN cols : GathersRight(r, g, c, cols[c].vals, from)
  BY DEF IsBase, ReadsBack, GroupsCover
<1>4. DOMAIN cols = DOMAIN Tables[n].fields
  BY <1>2, TablesAssumption
<1>5. DOMAIN scan.preds = 1..Len(scan.preds) /\ DOMAIN scan.cols = 1..Len(scan.cols)
  BY <1>2, LenProperties
<1>6. ~st.panic /\ found.rows = Rows(cells, Len(sel))
  <2> HIDE DEF found, st, cells, sel
  <2>1. QED
    BY <1>1 DEF found
<1> HIDE DEF r, cols, found, st, size, cells
<1>7. \A p \in ToSet(scan.preds) : p \in PredsFor(ast, Tables[n].fields)
  BY <1>2, <1>5, ElementOfSeq DEF ToSet
<1>8. \A p \in ToSet(scan.preds) : ComparesRight(r, g, p.col_idx, cols[p.col_idx].vals, from, p)
  BY <1>2, <1>7, PredOfScan DEF r, cols
<1>9. scan.preds \in Seq(ToSet(scan.preds))
  <2>1. Len(scan.preds) \in Nat
    BY <1>2, LenProperties
  <2>2. \A k \in 1..Len(scan.preds) : scan.preds[k] \in ToSet(scan.preds)
    BY <1>5 DEF ToSet
  <2>3. Listed(scan.preds)
    BY <1>2, <1>5, <2>1 DEF Listed
  <2>4. QED
    BY <2>2, <2>3, ListedSeq
<1>10. /\ sel \in Seq(0..(size - 1)) /\ Ascends(sel)
       /\ \A i \in 0..(size - 1) : i \in ToSet(sel) <=> \A p \in ToSet(scan.preds) : Passes(cols, from, i, p)
  <2>1. size = r.rowgroups[g].rows
    BY DEF size
  <2> DEFINE preds == scan.preds
  <2> HIDE DEF preds, from
  <2>2. Compare(r, g, cols, from, preds) /\ preds \in Seq(ToSet(preds)) /\ ~Select(r, g, preds).panic
    BY <1>6, <1>8, <1>9 DEF Compare, preds, st
  <2>3. size \in Nat
    BY <1>3
  <2>4. sel = Select(r, g, preds).sel
    BY DEF st, preds
  <2> HIDE DEF sel
  <2>5. Selects(sel, size, cols, from, preds)
    BY <2>1, <2>2, <2>3, <2>4, SelectRight
  <2>6. QED
    BY <2>5 DEF preds, Selects
<1> HIDE DEF sel
<1>11. \A c \in DOMAIN scan.cols : cells[c] = [k \in 1..Len(sel) |-> cols[scan.cols[c]].vals[from + sel[k] + 1]]
  <2>1. ASSUME NEW c \in DOMAIN scan.cols
        PROVE  cells[c] = [k \in 1..Len(sel) |-> cols[scan.cols[c]].vals[from + sel[k] + 1]]
    <3> DEFINE d == scan.cols[c]
    <3>1. d \in DOMAIN cols
      BY <1>2, <1>4, <1>5, ElementOfSeq
    <3>2. cells[c] = Cells(r, g, d, sel)
      BY DEF cells, sel
    <3> HIDE DEF d
    <3>3. GathersRight(r, g, d, cols[d].vals, from)
      BY <1>3, <3>1
    <3>4. size = r.rowgroups[g].rows
      BY DEF size
    <3> DEFINE vals == cols[d].vals
    <3> HIDE DEF vals
    <3>5. GathersRight(r, g, d, vals, from)
      BY <3>3 DEF vals
    <3>6. Cells(r, g, d, sel) = [k \in 1..Len(sel) |-> vals[from + sel[k] + 1]]
      BY <1>10, <3>4, <3>5, CellsRight
    <3>7. QED
      BY <3>2, <3>6 DEF d, vals
  <2>2. QED
    BY <2>1
<1>12. DOMAIN cells = DOMAIN scan.cols
  BY DEF cells
<1>13. Rows(cells, Len(sel)) = [k \in 1..Len(sel) |-> RowOf(n, f, scan.cols, from + sel[k] + 1)]
  <2>1. ASSUME NEW k \in 1..Len(sel)
        PROVE  [c \in DOMAIN cells |-> cells[c][k]] = RowOf(n, f, scan.cols, from + sel[k] + 1)
    <3>1. \A c \in DOMAIN scan.cols : cells[c][k] = cols[scan.cols[c]].vals[from + sel[k] + 1]
      BY <1>11
    <3>2. QED
      BY <1>12, <3>1 DEF RowOf, cols
  <2>2. QED
    BY <2>1 DEF Rows
<1>14. IsFound(found, scan, n, f, base, g, sel)
  BY <1>6, <1>10, <1>13 DEF IsFound, cols, size, r
<1>15. QED
  BY <1>14 DEF found

\* The rows of a table's files.
FileRows(n) ==
  [f \in DOMAIN Tables[n].files |->
     [i \in DOMAIN Tables[n].files[f][1].vals |->
        [c \in DOMAIN Tables[n].files[f] |-> Tables[n].files[f][c].vals[i]]]]

LEMMA FileRowsAre ==
  ASSUME NEW n \in DOMAIN Tables, NEW c0 \in DOMAIN Tables[n].fields
  PROVE  /\ DOMAIN FileRows(n) = DOMAIN Tables[n].files
         /\ \A f \in DOMAIN Tables[n].files :
              LET size == Len(Tables[n].files[f][1].vals) IN
              /\ size \in Nat /\ DOMAIN Tables[n].files[f][1].vals = 1..size
              /\ Len(FileRows(n)[f]) = size
              /\ \A i \in 1..size : FileRows(n)[f][i] = [c \in DOMAIN Tables[n].files[f] |-> Tables[n].files[f][c].vals[i]]
         /\ \E T : FileRows(n) \in Seq(Seq(T))
<1> DEFINE files == Tables[n].files
           R == FileRows(n)
           row(f, i) == [c \in DOMAIN files[f] |-> files[f][c].vals[i]]
           V == [dtype : {"Int64", "Utf8"}, vals : Seq(Int)]
<1>1. R = [f \in DOMAIN files |-> [i \in DOMAIN files[f][1].vals |-> row(f, i)]]
  BY DEF FileRows
<1>2. files \in Seq(Seq(V)) /\ DOMAIN files = 1..Len(files) /\ Len(files) \in Nat
  BY TablesAssumption, LenProperties
<1>3. ASSUME NEW f \in DOMAIN files
      PROVE  DOMAIN files[f][1].vals = 1..Len(files[f][1].vals) /\ Len(files[f][1].vals) \in Nat
  <2> DEFINE cols == files[f]
  <2>1. cols \in Seq(V)
    BY <1>2, ElementOfSeq
  <2>2. DOMAIN cols = DOMAIN Tables[n].fields
    BY TablesAssumption
  <2>3. DOMAIN cols = 1..Len(cols) /\ Len(cols) \in Nat
    BY <2>1, LenProperties
  <2>4. 1 \in 1..Len(cols)
    BY <2>2, <2>3
  <2>5. cols[1] \in V
    BY <2>1, <2>3, <2>4, ElementOfSeq
  <2>6. cols[1].vals \in Seq(Int)
    BY <2>5
  <2>7. QED
    BY <2>6, LenProperties
<1> HIDE DEF R, row, files
<1>4. DOMAIN R = DOMAIN files
  BY <1>1
<1>5. ASSUME NEW f \in DOMAIN files
      PROVE  LET size == Len(files[f][1].vals) IN
             Len(R[f]) = size /\ Listed(R[f]) /\ \A i \in 1..size : R[f][i] = row(f, i)
  <2> DEFINE size == Len(files[f][1].vals)
             e == R[f]
  <2>1. e = [i \in 1..size |-> row(f, i)] /\ size \in Nat
    BY <1>1, <1>3
  <2> HIDE DEF e, size
  <2>2. e = [i \in 1..size |-> e[i]] /\ \A i \in 1..size : e[i] = row(f, i)
    BY <2>1
  <2>3. Len(e) = size /\ Listed(e)
    BY <2>1, <2>2, ListedFcn
  <2>4. QED
    BY <2>2, <2>3 DEF e, size
<1>6. \E T : R \in Seq(Seq(T))
  <2> DEFINE k == Len(files)
  <2>1. k \in Nat /\ DOMAIN files = 1..k
    BY <1>2
  <2> HIDE DEF k
  <2>2. R = [f \in 1..k |-> R[f]]
    BY <1>1, <2>1
  <2>3. Len(R) = k /\ Listed(R)
    BY <2>1, <2>2, ListedFcn
  <2>4. \A f \in 1..Len(R) : Listed(R[f])
    BY <1>5, <2>1, <2>3
  <2>5. QED
    BY <2>3, <2>4, ListsOfLists
<1>7. QED
  BY <1>3, <1>4, <1>5, <1>6 DEF R, row, files

\* The files of a scan are files of its table, each at most once, and those with a row that
\* satisfies the predicates are among them.
Holds(n, f, i, preds) == \A p \in ToSet(preds) : Satisfies(Tables[n].files[f][p.col_idx].vals[i], p.op, p.lit.v)
IsFiles(J, scan, n) ==
  /\ \A j \in DOMAIN scan.files :
       J[j] \in DOMAIN Tables[n].files /\ ReaderOf(scan.files[j]) = Readers[n][J[j]]
  /\ \A i, j \in DOMAIN scan.files : J[i] = J[j] => i = j
  /\ \A f \in DOMAIN Tables[n].files : \A i \in DOMAIN Tables[n].files[f][1].vals :
       Holds(n, f, i, scan.preds) => \E j \in DOMAIN scan.files : J[j] = f

LEMMA FilesOfScan ==
  ASSUME NEW ast, NEW scan, ReadyScan(ast, scan), NEW n, n = scan.table
  PROVE  Listed(scan.files) /\ \E J : IsFiles(J, scan, n)
<1> DEFINE files == Tables[n].files
           all == Catalog[n].files
           kept == scan.files
<1>1. n \in DOMAIN Tables /\ NothingLost(scan)
  BY DEF ReadyScan
<1>2. PICK S : kept = Only(all, S)
  BY DEF ReadyScan
<1>3. /\ all \in Seq(ToSet(all)) /\ DOMAIN all = DOMAIN files
      /\ \A f \in DOMAIN files : all[f] = DataFile(<<n, f>>, Tables[n].fields, files[f])
  BY <1>1, CatalogShape
<1>4. \A f \in DOMAIN files : all[f].path = <<n, f>>
  <2>1. ASSUME NEW f \in DOMAIN files PROVE all[f].path = <<n, f>>
    <3> DEFINE b == DataFile(<<n, f>>, Tables[n].fields, files[f]).bounds
               c == Len(files[f][1].vals)
    <3>1. DataFile(<<n, f>>, Tables[n].fields, files[f]) = [path |-> <<n, f>>, record_count |-> c, bounds |-> b]
      BY DEF DataFile
    <3> HIDE DEF b, c
    <3>2. QED
      BY <1>3, <3>1
  <2>2. QED
    BY <2>1
<1> HIDE DEF files, all
<1>5. kept \in Seq(ToSet(all)) /\ DOMAIN kept = 1..Len(kept) /\ Len(kept) \in Nat
  <2>1. kept \in Seq(ToSet(all))
    BY <1>2, <1>3, OnlyPicks
  <2>2. QED
    BY <2>1, LenProperties
<1>6. PICK J \in Seq(Nat) : IsPick(J, kept, all, S, Len(all))
  <2>1. \E J \in Seq(Nat) : IsPick(J, Only(all, S), all, S, Len(all))
    BY <1>3, OnlyPicks
  <2>2. QED
    BY <1>2, <2>1
<1>7. DOMAIN all = 1..Len(all)
  BY <1>3, LenProperties
<1>N. NothingLost(scan) /\ scan.table = n
  BY <1>1
<1>l. Listed(kept)
  <2> HIDE DEF kept, all
  <2>1. QED
    BY <1>5, SeqListed
<1> HIDE DEF kept
<1>8. /\ \A j \in DOMAIN kept : J[j] \in DOMAIN files /\ kept[j] = all[J[j]]
      /\ DOMAIN J = DOMAIN kept /\ \A i, j \in DOMAIN J : i < j => J[i] < J[j]
  BY <1>3, <1>6, <1>7 DEF IsPick
<1>9. \A i, j \in DOMAIN kept : J[i] = J[j] => i = j
  <2>1. DOMAIN J \subseteq Int /\ \A i \in DOMAIN J : J[i] \in Int
    BY <1>5, <1>8
  <2>2. QED
    BY <1>8, <2>1, AscendsOnce
<1>10. \A j \in DOMAIN kept : ReaderOf(kept[j]) = Readers[n][J[j]]
  <2>1. ASSUME NEW j \in DOMAIN kept PROVE ReaderOf(kept[j]) = Readers[n][J[j]]
    <3>1. kept[j].path = <<n, J[j]>>
      BY <1>4, <1>8
    <3>2. QED
      BY <3>1 DEF ReaderOf
  <2>2. QED
    BY <2>1
<1>11. ASSUME NEW f \in DOMAIN files, NEW i \in DOMAIN files[f][1].vals, Holds(n, f, i, scan.preds)
       PROVE  \E j \in DOMAIN kept : J[j] = f
  <2>1. all[f] \in ToSet(kept)
    <3>1. SUFFICES ASSUME all[f] \notin ToSet(kept) PROVE FALSE
      OBVIOUS
    <3>2. \E p \in ToSet(scan.preds) : ~Satisfies(files[f][p.col_idx].vals[i], p.op, p.lit.v)
      BY <1>N, <3>1 DEF NothingLost, all, files, kept
    <3>3. QED
      BY <1>11, <3>2 DEF Holds, files
  <2>2. PICK j \in DOMAIN kept : kept[j] = all[f]
    BY <2>1 DEF ToSet
  <2>3. all[J[j]] = all[f] /\ J[j] \in DOMAIN files
    BY <1>8, <2>2
  <2>4. <<n, J[j]>> = <<n, f>>
    BY <1>4, <2>3
  <2>5. QED
    BY <2>4
<1>12. IsFiles(J, scan, n)
  BY <1>8, <1>9, <1>10, <1>11 DEF IsFiles, files, kept
<1>13. QED
  BY <1>12, <1>l DEF kept

-----------------------------------------------------------------------------
(* Selected rows.                                                           *)

HitsOf(scan) ==
  {r \in ToSet(RowsOf(scan.table)) : \A p \in ToSet(scan.preds) : Satisfies(r[p.col_idx], p.op, p.lit.v)}
SelectedIn(scan) ==
  LET hits == Only(RowsOf(scan.table), HitsOf(scan))
  IN  [i \in DOMAIN hits |-> [c \in DOMAIN scan.cols |-> hits[i][scan.cols[c]]]]

\* The same rows are in both.
LEMMA SameMembers ==
  ASSUME NEW s, NEW T, s \in Seq(T), NEW G, G[1] = s, NEW H, NEW Q, Same(G, Places(G, {1}), H, Q), NEW z \in Q
  PROVE  RowAt(H, z) \in ToSet(s)
<1>1. PICK b : Pairs(b, G, Places(G, {1}), H, Q)
  BY DEF Same
<1>2. PICK x \in Places(G, {1}) : b[x] = z
  BY <1>1 DEF Pairs
<1>3. x[1] = 1 /\ x[2] \in 1..Len(s)
  BY DEF Places
<1>4. RowAt(H, z) = s[x[2]]
  BY <1>1, <1>2, <1>3 DEF Pairs, RowAt
<1>5. x[2] \in DOMAIN s
  BY <1>3, LenProperties
<1>6. QED
  BY <1>4, <1>5 DEF ToSet

\* The places in the files of the rows that a scan selects, and the columns it needs.
HitPlaces(scan) == Having(FileRows(scan.table), Places(FileRows(scan.table), DOMAIN FileRows(scan.table)), HitsOf(scan))
FileCells(scan) ==
  [f \in DOMAIN Tables[scan.table].files |->
     [i \in DOMAIN Tables[scan.table].files[f][1].vals |-> RowOf(scan.table, f, scan.cols, i)]]

LEMMA HitPlacesAre ==
  ASSUME NEW ast, NEW scan, ReadyScan(ast, scan), NEW n, n = scan.table, NEW c0 \in DOMAIN Tables[n].fields
  PROVE  \A z : z \in HitPlaces(scan) <=>
                  /\ z = <<z[1], z[2]>> /\ z[1] \in DOMAIN Tables[n].files
                  /\ z[2] \in DOMAIN Tables[n].files[z[1]][1].vals
                  /\ Holds(n, z[1], z[2], scan.preds)
<1> DEFINE files == Tables[n].files
           R == FileRows(n)
           rows == RowsOf(n)
           preds == scan.preds
           size(f) == Len(files[f][1].vals)
<1>1. n \in DOMAIN Tables /\ preds \in Seq(PredsFor(ast, Tables[n].fields))
  BY DEF ReadyScan
<1>2. /\ DOMAIN R = DOMAIN files
      /\ \A f \in DOMAIN files :
              /\ size(f) \in Nat /\ DOMAIN files[f][1].vals = 1..size(f)
              /\ Len(R[f]) = size(f)
              /\ \A i \in 1..size(f) : R[f][i] = [c \in DOMAIN files[f] |-> files[f][c].vals[i]]
      /\ \E T : R \in Seq(Seq(T))
  BY <1>1, FileRowsAre
<1>3. \A f \in DOMAIN files : DOMAIN files[f] = DOMAIN Tables[n].fields
  BY <1>1, TablesAssumption
<1>4. \A p \in ToSet(preds) : p.col_idx \in DOMAIN Tables[n].fields
  <2>1. ASSUME NEW p \in ToSet(preds) PROVE p.col_idx \in DOMAIN Tables[n].fields
    <3>1. DOMAIN preds = 1..Len(preds)
      BY <1>1, LenProperties
    <3>2. p \in PredsFor(ast, Tables[n].fields)
      BY <1>1, <3>1, ElementOfSeq DEF ToSet
    <3>3. PICK c \in DOMAIN Tables[n].fields, k \in DOMAIN ast.preds :
            p = [col_idx |-> c, field_id |-> Tables[n].fields[c].id, op |-> ast.preds[k].op, lit |-> ast.preds[k].lit]
      BY <3>2 DEF PredsFor
    <3>4. QED
      BY <3>3
  <2>2. QED
    BY <2>1
<1>5. PICK T : R \in Seq(Seq(T))
  BY <1>2
<1>6. rows = FlattenSeq(R)
  BY DEF RowsOf, FileRows
<1> DEFINE Q == Places(R, DOMAIN R)
           one == <<rows>>
<1>7. rows \in Seq(T) /\ Same(one, Places(one, {1}), R, Q)
  BY <1>5, <1>6, FlattenSame, Zenon
<1>8. one[1] = rows
  OBVIOUS
<1>9. HitPlaces(scan) = Having(R, Q, HitsOf(scan))
  BY DEF HitPlaces
<1> HIDE DEF files, R, rows, one, size, preds
<1>10. \A z : z \in Q <=> z = <<z[1], z[2]>> /\ z[1] \in DOMAIN files /\ z[2] \in 1..size(z[1])
  <2>1. ASSUME NEW z \in Q PROVE z = <<z[1], z[2]>> /\ z[1] \in DOMAIN files /\ z[2] \in 1..size(z[1])
    BY <1>2 DEF Places
  <2>2. ASSUME NEW z, z = <<z[1], z[2]>>, z[1] \in DOMAIN files, z[2] \in 1..size(z[1]) PROVE z \in Q
    <3>1. z[2] \in Nat /\ z[1] \in DOMAIN R /\ z[2] \in 1..Len(R[z[1]])
      BY <1>2, <2>2
    <3> DEFINE a == z[1]
               b == z[2]
    <3> HIDE DEF a, b
    <3>2. z = <<a, b>> /\ a \in DOMAIN R /\ b \in Nat /\ b \in 1..Len(R[a])
      BY <2>2, <3>1 DEF a, b
    <3>3. <<a, b>> \in Q
      BY <3>2 DEF Places
    <3>4. QED
      BY <3>2, <3>3
  <2>3. QED
    BY <2>1, <2>2
<1> HIDE DEF Q
<1>11. ASSUME NEW z \in Q PROVE RowAt(R, z) \in HitsOf(scan) <=> Holds(n, z[1], z[2], preds)
  <2> DEFINE f == z[1]
             i == z[2]
             row == RowAt(R, z)
  <2>1. f \in DOMAIN files /\ i \in 1..size(f)
    BY <1>10
  <2>2. row = [c \in DOMAIN files[f] |-> files[f][c].vals[i]]
    BY <1>2, <2>1 DEF RowAt
  <2>3. row \in ToSet(rows)
    BY <1>7, <1>8, SameMembers
  <2> HIDE DEF row, f, i
  <2>4. \A p \in ToSet(preds) : row[p.col_idx] = files[f][p.col_idx].vals[i]
    BY <1>3, <1>4, <2>1, <2>2
  <2>5. row \in HitsOf(scan) <=> \A p \in ToSet(preds) : Satisfies(row[p.col_idx], p.op, p.lit.v)
    BY <2>3 DEF HitsOf, rows, preds
  <2>6. row \in HitsOf(scan) <=> \A p \in ToSet(preds) : Satisfies(files[f][p.col_idx].vals[i], p.op, p.lit.v)
    BY <2>4, <2>5
  <2>7. QED
    BY <2>6 DEF Holds, files, row, f, i
<1>12. \A z : z \in HitPlaces(scan) <=> z \in Q /\ RowAt(R, z) \in HitsOf(scan)
  BY <1>9 DEF Having
<1>13. \A z : z \in HitPlaces(scan) <=> z \in Q /\ Holds(n, z[1], z[2], preds)
  BY <1>11, <1>12
<1>14. QED
  BY <1>2, <1>10, <1>13 DEF files, preds, size

\* The selected rows, where they are in the files.
LEMMA SelectedSame ==
  ASSUME NEW ast, NEW scan, ReadyScan(ast, scan), NEW n, n = scan.table, NEW c0 \in DOMAIN Tables[n].fields
  PROVE  LET one == <<SelectedIn(scan)>> IN
         /\ Same(one, Places(one, {1}), FileCells(scan), HitPlaces(scan))
         /\ \E T : SelectedIn(scan) \in Seq(T)
<1> DEFINE R == FileRows(n)
           rows == RowsOf(n)
           S == HitsOf(scan)
           hits == Only(rows, S)
           sel == SelectedIn(scan)
           G == <<rows>>
           H == <<hits>>
           I == <<sel>>
           Q == Places(R, DOMAIN R)
           cols == scan.cols
           row(i) == [c \in DOMAIN cols |-> hits[i][cols[c]]]
<1>1. n \in DOMAIN Tables /\ cols \in Seq(DOMAIN Tables[n].fields)
  BY DEF ReadyScan
<1>2. PICK T : R \in Seq(Seq(T))
  BY <1>1, FileRowsAre
<1>3. rows = FlattenSeq(R)
  BY DEF RowsOf, FileRows
<1>4. rows \in Seq(T) /\ Same(G, Places(G, {1}), R, Q)
  BY <1>2, <1>3, FlattenSame, Zenon
<1>5. HitPlaces(scan) = Having(R, Q, S)
  BY DEF HitPlaces
<1>6. G[1] = rows /\ H[1] = hits /\ I[1] = sel
  OBVIOUS
<1>7. sel = [i \in DOMAIN hits |-> row(i)]
  BY DEF SelectedIn
<1>8. hits \in Seq(T)
  BY <1>4, OnlyPicks
<1>9. DOMAIN hits = 1..Len(hits) /\ Len(hits) \in Nat
  BY <1>8, LenProperties
<1>f. FileCells(scan) = [f \in DOMAIN Tables[n].files |-> [i \in DOMAIN Tables[n].files[f][1].vals |-> RowOf(n, f, cols, i)]]
  BY DEF FileCells
<1> HIDE DEF R, rows, S, sel, G, H, I, Q
<1>10. Same(H, Places(H, {1}), R, Having(R, Q, S))
  <2>1. G[1] \in Seq(T) /\ H[1] = Only(G[1], S)
    BY <1>4, <1>6
  <2>2. Same(H, Places(H, {1}), G, Having(G, Places(G, {1}), S))
    BY <2>1, OnlySame
  <2>3. Same(G, Having(G, Places(G, {1}), S), R, Having(R, Q, S))
    BY <1>4, SameWhere
  <2>4. QED
    BY <2>2, <2>3, SameTrans
<1> HIDE DEF hits
<1>11. Len(sel) = Len(hits) /\ Listed(sel) /\ \A i \in 1..Len(hits) : sel[i] = row(i)
  <2> DEFINE k == Len(hits)
  <2>1. k \in Nat /\ sel = [i \in 1..k |-> row(i)]
    BY <1>7, <1>9
  <2> HIDE DEF k, row
  <2>2. sel = [i \in 1..k |-> sel[i]] /\ \A i \in 1..k : sel[i] = row(i)
    BY <2>1
  <2>3. Len(sel) = k /\ Listed(sel)
    BY <2>1, <2>2, ListedFcn
  <2>4. QED
    BY <2>2, <2>3 DEF k
<1>12. Places(I, {1}) = Places(H, {1})
  BY <1>6, <1>11 DEF Places
<1>13. \A x \in Places(H, {1}) : RowAt(I, x) = [c \in DOMAIN cols |-> RowAt(H, x)[cols[c]]]
  <2>1. ASSUME NEW x \in Places(H, {1}) PROVE RowAt(I, x) = [c \in DOMAIN cols |-> RowAt(H, x)[cols[c]]]
    <3>1. x[1] = 1 /\ x[2] \in 1..Len(hits)
      BY <1>6 DEF Places
    <3>2. RowAt(I, x) = sel[x[2]] /\ RowAt(H, x) = hits[x[2]]
      BY <1>6, <3>1 DEF RowAt
    <3>3. QED
      BY <1>11, <3>1, <3>2
  <2>2. QED
    BY <2>1
<1>14. \A x \in Having(R, Q, S) : RowAt(FileCells(scan), x) = [c \in DOMAIN cols |-> RowAt(R, x)[cols[c]]]
  <2>1. ASSUME NEW x \in Having(R, Q, S)
        PROVE  RowAt(FileCells(scan), x) = [c \in DOMAIN cols |-> RowAt(R, x)[cols[c]]]
    <3> DEFINE f == x[1]
               i == x[2]
               file == Tables[n].files[f]
    <3>1. f \in DOMAIN Tables[n].files /\ i \in DOMAIN file[1].vals
      BY <1>5, HitPlacesAre
    <3>2. RowAt(FileCells(scan), x) = RowOf(n, f, cols, i)
      <4> DEFINE all == FileCells(scan)
                 cells(h) == [l \in DOMAIN Tables[n].files[h][1].vals |-> RowOf(n, h, cols, l)]
      <4>1. all = [h \in DOMAIN Tables[n].files |-> cells(h)]
        BY <1>f
      <4> HIDE DEF all, cells, f, i
      <4>2. all[f] = cells(f)
        BY <3>1, <4>1
      <4> USE DEF cells
      <4>3. cells(f)[i] = RowOf(n, f, cols, i)
        BY <3>1
      <4> HIDE DEF cells
      <4>4. all[f][i] = RowOf(n, f, cols, i)
        BY <4>2, <4>3
      <4>5. QED
        BY <4>4 DEF RowAt, all, f, i
    <3>3. RowAt(R, x) = [c \in DOMAIN file |-> file[c].vals[i]]
      BY <3>1 DEF RowAt, R, FileRows
    <3>4. DOMAIN file = DOMAIN Tables[n].fields
      BY <1>1, <3>1, TablesAssumption
    <3>5. \A c \in DOMAIN cols : cols[c] \in DOMAIN file
      <4>1. DOMAIN cols = 1..Len(cols)
        BY <1>1, LenProperties
      <4>2. QED
        BY <1>1, <3>4, <4>1, ElementOfSeq
    <3> DEFINE r == RowAt(R, x)
    <3> HIDE DEF r, i, file
    <3>6. \A c \in DOMAIN cols : r[cols[c]] = file[cols[c]].vals[i]
      BY <3>3, <3>5 DEF r
    <3>7. RowOf(n, f, cols, i) = [c \in DOMAIN cols |-> file[cols[c]].vals[i]]
      BY DEF RowOf, file
    <3>8. QED
      BY <3>2, <3>6, <3>7 DEF r
  <2>2. QED
    BY <2>1
<1>15. Same(I, Places(H, {1}), FileCells(scan), Having(R, Q, S))
  BY <1>10, <1>13, <1>14, SameColumns
<1>16. \E U : sel \in Seq(U)
  <2>1. sel \in Seq({sel[i] : i \in 1..Len(sel)})
    BY <1>11, ListedSeq
  <2>2. QED
    BY <2>1
<1>17. QED
  BY <1>5, <1>12, <1>15, <1>16 DEF I, sel

\* The rows of a morsel are at places of its file: ascending, in its row group.
Spot(base, g, sel, k) == base[g] + sel[k] + 1

LEMMA FoundAt ==
  ASSUME NEW found, NEW scan, NEW n \in DOMAIN Tables, NEW f \in DOMAIN Tables[n].files, NEW base, IsBase(base, n, f),
         NEW g \in DOMAIN Readers[n][f].rowgroups, NEW sel, IsFound(found, scan, n, f, base, g, sel)
  PROVE  LET rows == Readers[n][f].rowgroups[g].rows IN
         /\ rows \in Nat /\ base[g] \in Nat /\ base[g] + rows <= Len(Tables[n].files[f][1].vals)
         /\ Listed(found.rows)
         /\ \A k \in 1..Len(found.rows) :
              LET i == Spot(base, g, sel, k) IN
              /\ i \in Nat /\ base[g] < i /\ i <= base[g] + rows
              /\ Holds(n, f, i, scan.preds) /\ found.rows[k] = RowOf(n, f, scan.cols, i)
         /\ \A k, l \in 1..Len(found.rows) : Spot(base, g, sel, k) = Spot(base, g, sel, l) => k = l
         /\ \A i \in Nat : base[g] < i /\ i <= base[g] + rows /\ Holds(n, f, i, scan.preds) =>
              \E k \in 1..Len(found.rows) : Spot(base, g, sel, k) = i
<1> DEFINE rows == Readers[n][f].rowgroups[g].rows
           from == base[g]
           found_rows == found.rows
           cols == Tables[n].files[f]
           len == Len(sel)
           row(k) == RowOf(n, f, scan.cols, Spot(base, g, sel, k))
<1>1. rows \in Nat /\ from \in Nat /\ from + rows <= Len(cols[1].vals)
  BY DEF IsBase, ReadsBack, GroupsCover
<1>2. /\ sel \in Seq(0..(rows - 1)) /\ Ascends(sel)
      /\ \A i \in 0..(rows - 1) : i \in ToSet(sel) <=> \A p \in ToSet(scan.preds) : Passes(cols, from, i, p)
  BY Zenon DEF IsFound
<1>3. found_rows = [k \in 1..len |-> row(k)]
  BY DEF IsFound, Spot
<1>4. \A i : Holds(n, f, from + i + 1, scan.preds) <=> \A p \in ToSet(scan.preds) : Passes(cols, from, i, p)
  BY DEF Holds, Passes
<1>5. \A k : Spot(base, g, sel, k) = from + sel[k] + 1
  BY DEF Spot
<1> HIDE DEF rows, from, found_rows, cols, row
<1>6. DOMAIN sel = 1..len /\ len \in Nat
  BY <1>2, LenProperties
<1>7. \A k \in 1..len : sel[k] \in 0..(rows - 1)
  BY <1>2, <1>6, ElementOfSeq
<1>d. \A k \in 1..len : sel[k] \in Int
  BY <1>1, <1>7
<1>8. \A k, l \in 1..len : sel[k] = sel[l] => k = l
  <2>1. DOMAIN sel \subseteq Int /\ \A k \in DOMAIN sel : sel[k] \in Int
    BY <1>6, <1>d
  <2>2. \A i, j \in DOMAIN sel : i < j => sel[i] < sel[j]
    BY <1>2 DEF Ascends
  <2>3. \A k, l \in DOMAIN sel : sel[k] = sel[l] => k = l
    BY <2>1, <2>2, AscendsOnce
  <2>4. QED
    BY <1>6, <2>3
<1>s. \A k \in 1..len : sel[k] \in ToSet(sel)
  BY <1>6 DEF ToSet
<1>t. \A i \in ToSet(sel) : \E k \in 1..len : sel[k] = i
  BY <1>6 DEF ToSet
<1> HIDE DEF len
<1>9. Len(found_rows) = len /\ Listed(found_rows) /\ \A k \in 1..len : found_rows[k] = row(k)
  <2>1. found_rows = [k \in 1..len |-> found_rows[k]] /\ \A k \in 1..len : found_rows[k] = row(k)
    BY <1>3
  <2>2. Len(found_rows) = len /\ Listed(found_rows)
    BY <1>6, <2>1, ListedFcn
  <2>3. QED
    BY <2>1, <2>2
<1>10. ASSUME NEW k \in 1..len
       PROVE  LET i == Spot(base, g, sel, k) IN
              i \in Nat /\ from < i /\ i <= from + rows /\ Holds(n, f, i, scan.preds)
  <2> DEFINE e == sel[k]
  <2>1. e \in 0..(rows - 1)
    BY <1>7
  <2>2. \A p \in ToSet(scan.preds) : Passes(cols, from, e, p)
    BY <1>2, <1>s, <2>1
  <2>3. Holds(n, f, from + e + 1, scan.preds)
    BY <1>4, <2>2
  <2>4. Spot(base, g, sel, k) = from + e + 1
    BY <1>5
  <2> HIDE DEF e
  <2>5. QED
    BY <1>1, <2>1, <2>3, <2>4
<1>11. ASSUME NEW k \in 1..len, NEW l \in 1..len, Spot(base, g, sel, k) = Spot(base, g, sel, l) PROVE k = l
  <2> DEFINE e == sel[k]
             h == sel[l]
  <2>1. e \in Int /\ h \in Int /\ from + e + 1 = from + h + 1
    BY <1>5, <1>11, <1>d
  <2> HIDE DEF e, h
  <2>2. e = h
    BY <1>1, <2>1
  <2>3. QED
    BY <1>8, <2>2 DEF e, h
<1>12. ASSUME NEW i \in Nat, from < i, i <= from + rows, Holds(n, f, i, scan.preds)
       PROVE  \E k \in 1..len : Spot(base, g, sel, k) = i
  <2> DEFINE e == i - from - 1
  <2>1. e \in 0..(rows - 1) /\ i = from + e + 1
    BY <1>1, <1>12
  <2> HIDE DEF e
  <2>2. Holds(n, f, from + e + 1, scan.preds)
    BY <1>12, <2>1
  <2>3. e \in ToSet(sel)
    BY <1>2, <1>4, <2>1, <2>2
  <2>4. PICK k \in 1..len : sel[k] = e
    BY <1>t, <2>3
  <2>5. QED
    BY <1>5, <2>1, <2>4
<1>13. QED
  BY <1>1, <1>9, <1>10, <1>11, <1>12 DEF rows, from, found_rows, cols, row

\* What the scan of a morsel found.
Found(scan, m) == ScanRowgroup(scan, MorselsOf(scan)[m].file, MorselsOf(scan)[m].rg)

\* The morsels find every selected row of the files once.
LEMMA FoundPlaces ==
  ASSUME NEW ast, IsAst(ast), NEW scan, ReadyScan(ast, scan), NEW c0 \in DOMAIN Tables[scan.table].fields,
         \A m \in DOMAIN MorselsOf(scan) : ~Found(scan, m).panic,
         NEW G, \A m \in DOMAIN MorselsOf(scan) : G[m] = Found(scan, m).rows
  PROVE  Same(G, Places(G, DOMAIN MorselsOf(scan)), FileCells(scan), HitPlaces(scan))
<1> DEFINE n == scan.table
           files == Tables[n].files
           morsels == MorselsOf(scan)
           M == DOMAIN morsels
<1>1. n \in DOMAIN Tables
  BY DEF ReadyScan
<1>2. Listed(scan.files) /\ \E J : IsFiles(J, scan, n)
  BY FilesOfScan
<1>3. PICK J : IsFiles(J, scan, n)
  BY <1>2
<1>4. /\ \A j \in DOMAIN scan.files : J[j] \in DOMAIN files /\ ReaderOf(scan.files[j]) = Readers[n][J[j]]
      /\ \A i, j \in DOMAIN scan.files : J[i] = J[j] => i = j
      /\ \A f \in DOMAIN files : \A i \in DOMAIN files[f][1].vals :
           Holds(n, f, i, scan.preds) => \E j \in DOMAIN scan.files : J[j] = f
  BY <1>3 DEF IsFiles
<1>5. \A f \in DOMAIN files : IsBase(BaseOf(n, f), n, f)
  BY <1>1, FileReadsBack
<1> DEFINE size(f) == Len(files[f][1].vals)
           groups(f) == Readers[n][f].rowgroups
           base(f) == BaseOf(n, f)
<1>6. ASSUME NEW f \in DOMAIN files
      PROVE  /\ DOMAIN groups(f) = 1..Len(groups(f)) /\ Len(groups(f)) \in Nat
             /\ \A i \in 1..size(f) : \E g \in DOMAIN groups(f) :
                  \A h \in DOMAIN groups(f) : base(f)[h] < i /\ i <= base(f)[h] + groups(f)[h].rows <=> h = g
  <2>1. GroupsCover(Readers[n][f], size(f), base(f))
    BY <1>5 DEF IsBase, ReadsBack
  <2>2. QED
    BY <2>1 DEF GroupsCover
<1>7. \A f \in DOMAIN files : DOMAIN files[f][1].vals = 1..size(f) /\ size(f) \in Nat
  BY <1>1, FileRowsAre
<1>8. /\ \A m \in M : /\ morsels[m].file \in DOMAIN scan.files
                      /\ morsels[m].rg \in DOMAIN ReaderOf(scan.files[morsels[m].file]).rowgroups
      /\ \A j \in DOMAIN scan.files : \A g \in DOMAIN ReaderOf(scan.files[j]).rowgroups :
              \E m \in M : morsels[m] = [file |-> j, rg |-> g]
      /\ \A l, m \in M : morsels[l] = morsels[m] => l = m
      /\ morsels \in Seq([file : DOMAIN scan.files, rg : Nat])
  <2>1. \A j \in DOMAIN scan.files : LET groups_ == ReaderOf(scan.files[j]).rowgroups
                                      IN  DOMAIN groups_ = 1..Len(groups_) /\ Len(groups_) \in Nat
    BY <1>4, <1>6
  <2> HIDE DEF n, files, groups
  <2>2. QED
    BY <1>2, <2>1, MorselsOnce
<1> DEFINE file(m) == J[morsels[m].file]
           rg(m) == morsels[m].rg
           sel(m) == CHOOSE sel : IsFound(Found(scan, m), scan, n, file(m), base(file(m)), rg(m), sel)
           spot(m, k) == Spot(base(file(m)), rg(m), sel(m), k)
<1>9. \A m \in M : file(m) \in DOMAIN files /\ rg(m) \in DOMAIN groups(file(m))
  BY <1>4, <1>8
<1>10. ASSUME NEW m \in M
       PROVE  IsFound(Found(scan, m), scan, n, file(m), base(file(m)), rg(m), sel(m))
  <2> DEFINE j == morsels[m].file
             f == file(m)
             b == base(f)
             g == rg(m)
  <2>1. ReaderOf(scan.files[j]) = Readers[n][f] /\ f \in DOMAIN files /\ g \in DOMAIN Readers[n][f].rowgroups
    BY <1>4, <1>8, <1>9
  <2>2. ~ScanRowgroup(scan, j, g).panic /\ Found(scan, m) = ScanRowgroup(scan, j, g)
    BY DEF Found
  <2>3. IsBase(b, n, f) /\ n = scan.table
    BY <1>5, <2>1
  <2> HIDE DEF j, f, b, g, n
  <2>4. \E s : IsFound(ScanRowgroup(scan, j, g), scan, n, f, b, g, s)
    BY <2>1, <2>2, <2>3, ScanRight DEF files
  <2>5. \E s : IsFound(Found(scan, m), scan, n, f, b, g, s)
    BY <2>2, <2>4
  <2>6. QED
    BY <2>5, Zenon DEF f, b, g
<1>11. ASSUME NEW m \in M
       PROVE  /\ \A k \in 1..Len(G[m]) :
                   /\ spot(m, k) \in 1..size(file(m)) /\ Holds(n, file(m), spot(m, k), scan.preds)
                   /\ base(file(m))[rg(m)] < spot(m, k)
                   /\ spot(m, k) <= base(file(m))[rg(m)] + groups(file(m))[rg(m)].rows
                   /\ G[m][k] = RowOf(n, file(m), scan.cols, spot(m, k))
              /\ \A k, l \in 1..Len(G[m]) : spot(m, k) = spot(m, l) => k = l
              /\ \A i \in Nat :
                   base(file(m))[rg(m)] < i /\ i <= base(file(m))[rg(m)] + groups(file(m))[rg(m)].rows
                     /\ Holds(n, file(m), i, scan.preds)
                   => \E k \in 1..Len(G[m]) : spot(m, k) = i
              /\ Listed(G[m])
  <2> DEFINE f == file(m)
             b == base(f)
             g == rg(m)
             s == sel(m)
             found == Found(scan, m)
             rows == Readers[n][f].rowgroups[g].rows
             here == b[g]
             end == size(f)
  <2>1. f \in DOMAIN Tables[n].files /\ g \in DOMAIN Readers[n][f].rowgroups /\ IsBase(b, n, f)
    BY <1>5, <1>9
  <2>2. IsFound(found, scan, n, f, b, g, s)
    BY <1>10
  <2>3. \A k : spot(m, k) = Spot(b, g, s, k)
    OBVIOUS
  <2>4. end = Len(Tables[n].files[f][1].vals) /\ end \in Nat
    BY <1>7, <2>1
  <2>5. G[m] = found.rows
    OBVIOUS
  <2>r. groups(f)[g].rows = rows
    OBVIOUS
  <2> HIDE DEF f, b, g, s, found, spot, n, end, size
  <2>6. /\ rows \in Nat /\ here \in Nat /\ here + rows <= Len(Tables[n].files[f][1].vals)
        /\ Listed(found.rows)
        /\ \A k \in 1..Len(found.rows) :
             LET i == Spot(b, g, s, k) IN
             /\ i \in Nat /\ here < i /\ i <= here + rows
             /\ Holds(n, f, i, scan.preds) /\ found.rows[k] = RowOf(n, f, scan.cols, i)
        /\ \A k, l \in 1..Len(found.rows) : Spot(b, g, s, k) = Spot(b, g, s, l) => k = l
        /\ \A i \in Nat : here < i /\ i <= here + rows /\ Holds(n, f, i, scan.preds) =>
             \E k \in 1..Len(found.rows) : Spot(b, g, s, k) = i
    BY <1>1, <2>1, <2>2, FoundAt
  <2> HIDE DEF rows, here
  <2>7. \A i \in Nat : here < i /\ i <= here + rows => i \in 1..end
    BY <2>4, <2>6
  <2>8. ASSUME NEW k \in 1..Len(G[m])
        PROVE  /\ spot(m, k) \in 1..end /\ Holds(n, f, spot(m, k), scan.preds)
               /\ here < spot(m, k) /\ spot(m, k) <= here + rows
               /\ G[m][k] = RowOf(n, f, scan.cols, spot(m, k))
    <3> DEFINE i == Spot(b, g, s, k)
    <3>1. spot(m, k) = i /\ k \in 1..Len(found.rows)
      BY <2>3, <2>5
    <3>2. /\ i \in Nat /\ here < i /\ i <= here + rows
          /\ Holds(n, f, i, scan.preds) /\ found.rows[k] = RowOf(n, f, scan.cols, i)
      BY <2>6, <3>1
    <3>3. i \in 1..end
      BY <2>7, <3>2
    <3> HIDE DEF i
    <3>4. QED
      BY <2>5, <3>1, <3>2, <3>3
  <2>10. ASSUME NEW k \in 1..Len(G[m]), NEW l \in 1..Len(G[m]), spot(m, k) = spot(m, l) PROVE k = l
    BY <2>3, <2>5, <2>6, <2>10
  <2>11. ASSUME NEW i \in Nat, here < i, i <= here + rows, Holds(n, f, i, scan.preds)
         PROVE  \E k \in 1..Len(G[m]) : spot(m, k) = i
    <3>0. \A z \in Nat : here < z /\ z <= here + rows /\ Holds(n, f, z, scan.preds) =>
              \E k \in 1..Len(found.rows) : Spot(b, g, s, k) = z
      BY <2>6, Zenon
    <3>1. PICK k \in 1..Len(found.rows) : Spot(b, g, s, k) = i
      BY <2>11, <3>0
    <3>2. QED
      BY <2>3, <2>5, <3>1
  <2>12. Listed(G[m])
    BY <2>5, <2>6
  <2>e. end = size(file(m)) /\ here = base(file(m))[rg(m)] /\ rows = groups(file(m))[rg(m)].rows /\ f = file(m)
    BY <2>r DEF end, here, b, g, f, size, rows
  <2> HIDE DEF file, base, groups, rg
  <2>13. QED
    BY <2>8, <2>10, <2>11, <2>12, <2>e
<1> DEFINE fi == [m \in M |-> file(m)]
           at == [m \in M |-> [k \in 1..Len(G[m]) |-> spot(m, k)]]
           H == FileCells(scan)
           Q == HitPlaces(scan)
<1>12. \A m \in M : fi[m] = file(m) /\ \A k \in 1..Len(G[m]) : at[m][k] = spot(m, k)
  <2> HIDE DEF file, spot, M
  <2>1. QED
    OBVIOUS
<1>13. \A z : z \in Q <=> /\ z = <<z[1], z[2]>> /\ z[1] \in DOMAIN files
                          /\ z[2] \in DOMAIN files[z[1]][1].vals /\ Holds(n, z[1], z[2], scan.preds)
  BY HitPlacesAre
<1>14. \A f \in DOMAIN files : \A i \in 1..size(f) : H[f][i] = RowOf(n, f, scan.cols, i)
  <2>1. ASSUME NEW f \in DOMAIN files, NEW i \in 1..size(f) PROVE H[f][i] = RowOf(n, f, scan.cols, i)
    <3> DEFINE cells(h) == [l \in DOMAIN files[h][1].vals |-> RowOf(n, h, scan.cols, l)]
    <3>1. H = [h \in DOMAIN files |-> cells(h)]
      BY DEF FileCells
    <3>2. i \in DOMAIN files[f][1].vals
      BY <1>7
    <3> HIDE DEF H, cells, files
    <3>3. H[f] = cells(f)
      BY <3>1
    <3>4. cells(f)[i] = RowOf(n, f, scan.cols, i)
      BY <3>2 DEF cells
    <3>5. QED
      BY <3>3, <3>4
  <2>2. QED
    BY <2>1
<1> HIDE DEF n, files, morsels, M, size, groups, base, file, rg, sel, spot, fi, at, H, Q
<1>15. ASSUME NEW m \in M, NEW k \in 1..Len(G[m])
       PROVE  <<fi[m], at[m][k]>> \in Q /\ RowAt(H, <<fi[m], at[m][k]>>) = G[m][k]
  <2> DEFINE f == file(m)
             i == spot(m, k)
  <2>1. fi[m] = f /\ at[m][k] = i /\ f \in DOMAIN files
    BY <1>9, <1>12
  <2>2. i \in 1..size(f) /\ Holds(n, f, i, scan.preds) /\ G[m][k] = RowOf(n, f, scan.cols, i)
    BY <1>11
  <2> HIDE DEF f, i
  <2>3. <<f, i>> \in Q
    BY <1>7, <1>13, <2>1, <2>2
  <2>4. RowAt(H, <<f, i>>) = G[m][k]
    BY <1>14, <2>1, <2>2 DEF RowAt
  <2>5. QED
    BY <2>1, <2>3, <2>4
<1>16. ASSUME NEW l \in M, NEW m \in M, NEW i \in 1..Len(G[l]), NEW k \in 1..Len(G[m]),
              fi[l] = fi[m], at[l][i] = at[m][k]
       PROVE  l = m /\ i = k
  <2> DEFINE f == file(m)
             e == spot(m, k)
             b == base(f)
             rows(g) == groups(f)[g].rows
  <2>1. file(l) = f /\ spot(l, i) = e /\ f \in DOMAIN files
    BY <1>9, <1>12, <1>16
  <2>2. /\ e \in 1..size(f)
        /\ b[rg(m)] < e /\ e <= b[rg(m)] + rows(rg(m))
        /\ b[rg(l)] < e /\ e <= b[rg(l)] + rows(rg(l))
    BY <1>11, <2>1
  <2>3. rg(m) \in DOMAIN groups(f) /\ rg(l) \in DOMAIN groups(f)
    BY <1>9, <2>1
  <2>4. PICK g \in DOMAIN groups(f) : \A h \in DOMAIN groups(f) : b[h] < e /\ e <= b[h] + rows(h) <=> h = g
    BY <1>6, <2>1, <2>2
  <2>5. rg(m) = rg(l)
    BY <2>2, <2>3, <2>4
  <2>6. morsels[l].file = morsels[m].file
    <3>1. morsels[l].file \in DOMAIN scan.files /\ morsels[m].file \in DOMAIN scan.files
      BY <1>8
    <3>2. J[morsels[l].file] = J[morsels[m].file]
      BY <2>1 DEF file, f
    <3>3. QED
      BY <1>4, <3>1, <3>2
  <2>7. morsels[l] = morsels[m]
    <3>1. M = 1..Len(morsels)
      BY <1>8, LenProperties DEF M
    <3>2. morsels[l] \in [file : DOMAIN scan.files, rg : Nat] /\ morsels[m] \in [file : DOMAIN scan.files, rg : Nat]
      BY <1>8, <3>1, ElementOfSeq
    <3>3. QED
      BY <2>5, <2>6, <3>2 DEF rg
  <2>8. l = m
    BY <1>8, <2>7
  <2>9. QED
    BY <1>11, <2>1, <2>8
<1>17. ASSUME NEW z \in Q PROVE \E m \in M : \E k \in Nat : k \in 1..Len(G[m]) /\ z = <<fi[m], at[m][k]>>
  <2> DEFINE f == z[1]
             i == z[2]
             b == base(f)
             rows(g) == groups(f)[g].rows
  <2>1. z = <<f, i>> /\ f \in DOMAIN files /\ i \in DOMAIN files[f][1].vals /\ Holds(n, f, i, scan.preds)
    BY <1>13
  <2> HIDE DEF f, i
  <2>2. PICK j \in DOMAIN scan.files : J[j] = f
    BY <1>4, <2>1
  <2>3. i \in 1..size(f) /\ i \in Nat
    BY <1>7, <2>1
  <2>4. PICK g \in DOMAIN groups(f) : \A h \in DOMAIN groups(f) : b[h] < i /\ i <= b[h] + rows(h) <=> h = g
    BY <1>6, <2>1, <2>3
  <2>5. b[g] < i /\ i <= b[g] + rows(g)
    BY <2>4
  <2>6. g \in DOMAIN ReaderOf(scan.files[j]).rowgroups
    BY <1>4, <2>2 DEF groups
  <2>7. PICK m \in M : morsels[m] = [file |-> j, rg |-> g]
    BY <1>8, <2>6
  <2>8. file(m) = f /\ rg(m) = g
    BY <2>2, <2>7 DEF file, rg
  <2>9. PICK k \in 1..Len(G[m]) : spot(m, k) = i
    BY <1>11, <2>1, <2>3, <2>5, <2>8
  <2>10. Len(G[m]) \in Nat
    BY <1>11 DEF Listed
  <2>11. k \in Nat /\ fi[m] = f /\ at[m][k] = i
    BY <1>12, <2>8, <2>9, <2>10
  <2>12. QED
    BY <2>1, <2>9, <2>11
<1>18. Same(G, Places(G, M), H, Q)
  <2>1. Located(G, M, H, Q, fi, at)
    BY <1>15 DEF Located
  <2>2. Apart(G, M, fi, at)
    BY <1>16 DEF Apart
  <2>3. Reached(G, M, Q, fi, at)
    BY <1>17 DEF Reached
  <2>4. QED
    BY <2>1, <2>2, <2>3, SamePlaces
<1>19. QED
  BY <1>18 DEF M, H, Q, morsels

\* So they find the selected rows of the table.
LEMMA FoundSame ==
  ASSUME NEW ast, IsAst(ast), NEW scan, ReadyScan(ast, scan), NEW c0 \in DOMAIN Tables[scan.table].fields,
         \A m \in DOMAIN MorselsOf(scan) : ~Found(scan, m).panic,
         NEW G, \A m \in DOMAIN MorselsOf(scan) : G[m] = Found(scan, m).rows
  PROVE  LET one == <<SelectedIn(scan)>> IN Same(G, Places(G, DOMAIN MorselsOf(scan)), one, Places(one, {1}))
<1> DEFINE one == <<SelectedIn(scan)>>
<1>1. Same(G, Places(G, DOMAIN MorselsOf(scan)), FileCells(scan), HitPlaces(scan))
  BY FoundPlaces
<1>2. Same(one, Places(one, {1}), FileCells(scan), HitPlaces(scan))
  BY SelectedSame
<1> HIDE DEF one
<1>3. Same(FileCells(scan), HitPlaces(scan), one, Places(one, {1}))
  BY <1>2, SameSym
<1>4. Same(G, Places(G, DOMAIN MorselsOf(scan)), one, Places(one, {1}))
  BY <1>1, <1>3, SameTrans
<1>5. QED
  BY <1>4 DEF one

\* Morsels are listed, whatever a scan's predicates select.
MorselsListed(scan) ==
  LET morsels == MorselsOf(scan) IN
  /\ morsels \in Seq([file : DOMAIN scan.files, rg : Nat])
  /\ \A m \in DOMAIN morsels :
       /\ morsels[m].file \in DOMAIN scan.files
       /\ morsels[m].rg \in DOMAIN ReaderOf(scan.files[morsels[m].file]).rowgroups

LEMMA MorselsAre ==
  ASSUME NEW ast, NEW scan, ReadyScan(ast, scan), NEW c0 \in DOMAIN Tables[scan.table].fields
  PROVE  MorselsListed(scan)
<1> DEFINE n == scan.table
<1>1. n \in DOMAIN Tables
  BY DEF ReadyScan
<1>2. Listed(scan.files) /\ \E J : IsFiles(J, scan, n)
  BY FilesOfScan
<1>3. PICK J : IsFiles(J, scan, n)
  BY <1>2
<1>4. \A j \in DOMAIN scan.files : LET groups_ == ReaderOf(scan.files[j]).rowgroups
                                    IN  DOMAIN groups_ = 1..Len(groups_) /\ Len(groups_) \in Nat
  <2>1. ASSUME NEW j \in DOMAIN scan.files
        PROVE  LET groups_ == ReaderOf(scan.files[j]).rowgroups
               IN  DOMAIN groups_ = 1..Len(groups_) /\ Len(groups_) \in Nat
    <3> DEFINE f == J[j]
    <3>1. f \in DOMAIN Tables[n].files /\ ReaderOf(scan.files[j]) = Readers[n][f]
      BY <1>3 DEF IsFiles
    <3> HIDE DEF f
    <3>2. IsBase(BaseOf(n, f), n, f)
      BY <1>1, <3>1, FileReadsBack
    <3>3. GroupsCover(Readers[n][f], Len(Tables[n].files[f][1].vals), BaseOf(n, f))
      BY <3>2 DEF IsBase, ReadsBack
    <3>4. QED
      BY <3>1, <3>3 DEF GroupsCover
  <2>2. QED
    BY <2>1
<1>5. QED
  BY <1>2, <1>4, MorselsOnce DEF MorselsListed

\* The rows that a morsel's scan finds are of the columns needed.
LEMMA FoundRows ==
  ASSUME NEW ast, IsAst(ast), NEW scan, ReadyScan(ast, scan), NEW c0 \in DOMAIN Tables[scan.table].fields,
         NEW m \in DOMAIN MorselsOf(scan), ~Found(scan, m).panic
  PROVE  Found(scan, m).rows \in Seq([DOMAIN scan.cols -> Int])
<1> DEFINE n == scan.table
           files == Tables[n].files
           morsels == MorselsOf(scan)
           j == morsels[m].file
           g == morsels[m].rg
           found == Found(scan, m)
<1>1. n \in DOMAIN Tables /\ scan.cols \in Seq(DOMAIN Tables[n].fields)
  BY DEF ReadyScan
<1>2. PICK J : IsFiles(J, scan, n)
  BY FilesOfScan
<1>3. j \in DOMAIN scan.files /\ g \in DOMAIN ReaderOf(scan.files[j]).rowgroups
  BY MorselsAre DEF MorselsListed
<1> DEFINE f == J[j]
           base == BaseOf(n, f)
<1>4. f \in DOMAIN files /\ ReaderOf(scan.files[j]) = Readers[n][f]
  BY <1>2, <1>3 DEF IsFiles
<1>5. g \in DOMAIN Readers[n][f].rowgroups
  BY <1>3, <1>4
<1>6. found = ScanRowgroup(scan, j, g) /\ ~ScanRowgroup(scan, j, g).panic
  BY DEF Found
<1>7. IsBase(base, n, f)
  BY <1>1, <1>4, FileReadsBack
<1>n. n = scan.table
  OBVIOUS
<1> HIDE DEF n, morsels, j, g, found, f, base
<1>8. PICK sel : IsFound(ScanRowgroup(scan, j, g), scan, n, f, base, g, sel)
  BY <1>n, <1>4, <1>5, <1>6, <1>7, ScanRight DEF files
<1>9. IsFound(found, scan, n, f, base, g, sel)
  BY <1>6, <1>8
<1> DEFINE rows == found.rows
           size == Len(files[f][1].vals)
           spot(k) == Spot(base, g, sel, k)
<1>10. /\ Listed(rows)
       /\ \A k \in 1..Len(rows) : spot(k) \in 1..size /\ rows[k] = RowOf(n, f, scan.cols, spot(k))
  <2> DEFINE length == Readers[n][f].rowgroups[g].rows
             from == base[g]
  <2>1. /\ length \in Nat /\ from \in Nat /\ from + length <= Len(Tables[n].files[f][1].vals)
        /\ Listed(found.rows)
        /\ \A k \in 1..Len(found.rows) :
              LET i == Spot(base, g, sel, k) IN
              /\ i \in Nat /\ from < i /\ i <= from + length
              /\ Holds(n, f, i, scan.preds) /\ found.rows[k] = RowOf(n, f, scan.cols, i)
    <3>1. n \in DOMAIN Tables /\ f \in DOMAIN Tables[n].files /\ g \in DOMAIN Readers[n][f].rowgroups
      BY <1>1, <1>4, <1>5
    <3> HIDE DEF rows, size, spot, files
    <3>2. QED
      BY <3>1, <1>7, <1>9, FoundAt
  <2>2. size \in Nat
    BY <1>1, <1>n, <1>4, FileRowsAre
  <2>3. size = Len(Tables[n].files[f][1].vals)
    OBVIOUS
  <2> HIDE DEF length, from, files, size, spot
  <2>4. ASSUME NEW k \in 1..Len(rows) PROVE spot(k) \in 1..size /\ rows[k] = RowOf(n, f, scan.cols, spot(k))
    <3> DEFINE i == Spot(base, g, sel, k)
    <3>1. /\ i \in Nat /\ from < i /\ i <= from + length
          /\ found.rows[k] = RowOf(n, f, scan.cols, i)
      BY <2>1
    <3> HIDE DEF i
    <3>2. i \in 1..size
      BY <2>1, <2>2, <2>3, <3>1
    <3>3. spot(k) = i
      BY DEF spot, i
    <3>4. QED
      BY <3>1, <3>2, <3>3
  <2>5. QED
    BY <2>1, <2>4
<1>11. ASSUME NEW k \in 1..Len(rows) PROVE rows[k] \in [DOMAIN scan.cols -> Int]
  <2> DEFINE i == spot(k)
             file == files[f]
  <2>1. i \in 1..size /\ rows[k] = [c \in DOMAIN scan.cols |-> file[scan.cols[c]].vals[i]]
    BY <1>10 DEF RowOf
  <2> HIDE DEF i, rows, spot
  <2>2. ASSUME NEW c \in DOMAIN scan.cols PROVE file[scan.cols[c]].vals[i] \in Int
    <3> DEFINE d == scan.cols[c]
    <3>1. DOMAIN scan.cols = 1..Len(scan.cols)
      BY <1>1, LenProperties
    <3>2. d \in DOMAIN Tables[n].fields
      BY <1>1, <3>1, ElementOfSeq
    <3> HIDE DEF d
    <3>3. /\ DOMAIN file[d].vals = DOMAIN file[1].vals
          /\ \A l \in DOMAIN file[d].vals : file[d].vals[l] \in I64Min..I64Max
      BY <1>1, <1>4, <3>2, FileShape
    <3>4. DOMAIN file[1].vals = 1..size
      BY <1>1, <1>n, <1>4, FileRowsAre
    <3>5. file[d].vals[i] \in I64Min..I64Max
      BY <2>1, <3>3, <3>4
    <3>6. QED
      BY <3>5, Limits DEF d
  <2> HIDE DEF file
  <2>3. QED
    BY <2>1, <2>2
<1> HIDE DEF rows
<1>12. rows \in Seq([DOMAIN scan.cols -> Int])
  BY <1>10, <1>11, ListedSeq
<1>13. QED
  BY <1>12 DEF rows, found

-----------------------------------------------------------------------------
(* The tasks of the first ramp of a shuffle.                                *)

SideScan(p, side) == IF side = "build" THEN JoinOf(p).build ELSE JoinOf(p).probe
SideKey(p, side) == IF side = "build" THEN JoinOf(p).build_key ELSE JoinOf(p).probe_key
Sides == {"build", "probe"}
TasksOf(p, side) == TasksOn([side |-> side, scan |-> SideScan(p, side)], MorselsOf(p.scans[SideScan(p, side)]))
MapTasks(p) == FlattenSeq(<<TasksOf(p, "build"), TasksOf(p, "probe")>>)
TasksAt(p, side) == {t \in DOMAIN MapTasks(p) : MapTasks(p)[t].side = side}

LEMMA TasksMap == Tasks("map") = MapTasks(plan)
<1> DEFINE b == [side |-> "build", scan |-> JoinOf(plan).build]
           r == [side |-> "probe", scan |-> JoinOf(plan).probe]
<1>1. SidesOf("map") = <<b, r>>
  BY DEF SidesOf
<1>2. Tasks("map") = FlattenSeq([k \in DOMAIN SidesOf("map") |->
                     TasksOn(SidesOf("map")[k], MorselsOf(plan.scans[SidesOf("map")[k].scan]))])
  BY DEF Tasks
<1>3. b.scan = JoinOf(plan).build /\ r.scan = JoinOf(plan).probe
  OBVIOUS
<1>4. /\ TasksOf(plan, "build") = TasksOn(b, MorselsOf(plan.scans[JoinOf(plan).build]))
      /\ TasksOf(plan, "probe") = TasksOn(r, MorselsOf(plan.scans[JoinOf(plan).probe]))
  BY Zenon DEF TasksOf, SideScan
<1> DEFINE all == [k \in DOMAIN <<b, r>> |-> TasksOn(<<b, r>>[k], MorselsOf(plan.scans[<<b, r>>[k].scan]))]
<1> HIDE DEF b, r
<1>5. all = <<TasksOf(plan, "build"), TasksOf(plan, "probe")>>
  <2>1. DOMAIN <<b, r>> = {1, 2} /\ <<b, r>>[1] = b /\ <<b, r>>[2] = r
    OBVIOUS
  <2>2. all = [k \in {1, 2} |-> IF k = 1 THEN TasksOf(plan, "build") ELSE TasksOf(plan, "probe")]
    BY <1>3, <1>4, <2>1
  <2> HIDE DEF all
  <2>3. QED
    BY <2>2
<1>6. QED
  BY <1>1, <1>2, <1>5 DEF MapTasks

\* Side by side, the tasks are the morsels.
IsSide(h, p, side) ==
  LET morsels == MorselsOf(p.scans[SideScan(p, side)]) IN
  /\ \A t \in TasksAt(p, side) :
       /\ h[t] \in DOMAIN morsels
       /\ MapTasks(p)[t].scan = SideScan(p, side)
       /\ MapTasks(p)[t].file = morsels[h[t]].file /\ MapTasks(p)[t].rg = morsels[h[t]].rg
  /\ \A s, t \in TasksAt(p, side) : h[s] = h[t] => s = t
  /\ \A m \in DOMAIN morsels : \E t \in TasksAt(p, side) : h[t] = m

LEMMA TasksAre ==
  ASSUME NEW p, \A side \in Sides : MorselsListed(p.scans[SideScan(p, side)])
  PROVE  /\ DOMAIN MapTasks(p) = 1..Len(MapTasks(p)) /\ Len(MapTasks(p)) \in Nat
         /\ \A t \in DOMAIN MapTasks(p) : MapTasks(p)[t].side \in Sides
         /\ \A side \in Sides : \E h : IsSide(h, p, side)
<1> DEFINE of(side) == TasksOf(p, side)
           morsels(side) == MorselsOf(p.scans[SideScan(p, side)])
           task(side, m) == [side |-> side, scan |-> SideScan(p, side), file |-> morsels(side)[m].file,
                             rg |-> morsels(side)[m].rg]
           all == <<of("build"), of("probe")>>
           tasks == MapTasks(p)
           one == <<tasks>>
           E == {of("build")[m] : m \in DOMAIN of("build")} \cup {of("probe")[m] : m \in DOMAIN of("probe")}
<1>1. tasks = FlattenSeq(all)
  BY DEF MapTasks
<1>2. ASSUME NEW side \in Sides
      PROVE  /\ of(side) = [m \in DOMAIN morsels(side) |-> task(side, m)]
             /\ DOMAIN morsels(side) = 1..Len(morsels(side)) /\ Len(morsels(side)) \in Nat
  <2> DEFINE s == [side |-> side, scan |-> SideScan(p, side)]
  <2>1. s.side = side /\ s.scan = SideScan(p, side)
    OBVIOUS
  <2>2. of(side) = TasksOn(s, morsels(side))
    BY DEF TasksOf
  <2> HIDE DEF s
  <2>3. of(side) = [m \in DOMAIN morsels(side) |-> task(side, m)]
    BY <2>1, <2>2 DEF TasksOn
  <2>4. MorselsListed(p.scans[SideScan(p, side)])
    OBVIOUS
  <2>5. DOMAIN morsels(side) = 1..Len(morsels(side)) /\ Len(morsels(side)) \in Nat
    BY <2>4, LenProperties DEF MorselsListed
  <2>6. QED
    BY <2>3, <2>5
<1> HIDE DEF tasks, of, morsels, all
<1>3. ASSUME NEW side \in Sides
      PROVE  Len(of(side)) = Len(morsels(side)) /\ DOMAIN of(side) = 1..Len(of(side)) /\ Listed(of(side))
  <2> DEFINE k == Len(morsels(side))
             e == of(side)
  <2>1. k \in Nat /\ e = [m \in 1..k |-> task(side, m)]
    BY <1>2
  <2> HIDE DEF k, e, task
  <2>2. e = [m \in 1..k |-> e[m]] /\ DOMAIN e = 1..k
    BY <2>1
  <2>3. Len(e) = k /\ Listed(e)
    BY <2>1, <2>2, ListedFcn
  <2>4. QED
    BY <2>2, <2>3 DEF k, e
<1>4. \A side \in Sides : of(side) \in Seq(E)
  <2>1. ASSUME NEW side \in Sides PROVE of(side) \in Seq(E)
    <3>1. \A m \in 1..Len(of(side)) : of(side)[m] \in E
      BY <1>3 DEF Sides
    <3> HIDE DEF E
    <3>2. QED
      BY <1>3, <3>1, ListedSeq
  <2>2. QED
    BY <2>1
<1> HIDE DEF E
<1>5. all \in Seq(Seq(E)) /\ DOMAIN all = {1, 2} /\ all[1] = of("build") /\ all[2] = of("probe")
  BY <1>4 DEF all, Sides
<1> DEFINE P == Places(one, {1})
           Q == Places(all, DOMAIN all)
<1>6. tasks \in Seq(E) /\ Same(one, P, all, Q)
  BY <1>1, <1>5, FlattenSame
<1>7. PICK b : Pairs(b, one, P, all, Q)
  BY <1>6 DEF Same
<1>8. DOMAIN tasks = 1..Len(tasks) /\ Len(tasks) \in Nat
  BY <1>6, LenProperties
<1>9. \A t \in DOMAIN tasks : <<1, t>> \in P /\ RowAt(one, <<1, t>>) = tasks[t]
  BY <1>8 DEF Places, RowAt
<1>10. \A x \in P : x = <<1, x[2]>> /\ x[2] \in DOMAIN tasks
  BY <1>8 DEF Places
<1> DEFINE side(z) == IF z[1] = 1 THEN "build" ELSE "probe"
<1>11. ASSUME NEW z \in Q
       PROVE  /\ z = <<z[1], z[2]>> /\ side(z) \in Sides /\ z[1] = (IF side(z) = "build" THEN 1 ELSE 2)
              /\ z[2] \in DOMAIN morsels(side(z)) /\ RowAt(all, z) = task(side(z), z[2])
  <2>1. z = <<z[1], z[2]>> /\ z[1] \in {1, 2} /\ z[2] \in 1..Len(all[z[1]])
    BY <1>5 DEF Places
  <2>2. side(z) \in Sides /\ all[z[1]] = of(side(z)) /\ z[1] = (IF side(z) = "build" THEN 1 ELSE 2)
    BY <1>5, <2>1 DEF Sides
  <2> DEFINE s == side(z)
  <2> HIDE DEF s, task
  <2>3. s \in Sides /\ all[z[1]] = of(s)
    BY <2>2 DEF s
  <2>4. z[2] \in DOMAIN morsels(s) /\ of(s)[z[2]] = task(s, z[2])
    BY <1>2, <1>3, <2>1, <2>3
  <2>5. RowAt(all, z) = task(s, z[2])
    BY <2>3, <2>4 DEF RowAt
  <2>6. QED
    BY <2>1, <2>2, <2>4, <2>5 DEF s
<1>12. ASSUME NEW s \in Sides, NEW m \in DOMAIN morsels(s)
       PROVE  LET z == <<IF s = "build" THEN 1 ELSE 2, m>> IN z \in Q /\ side(z) = s /\ z[2] = m
  <2> DEFINE k == IF s = "build" THEN 1 ELSE 2
  <2>1. k \in {1, 2} /\ all[k] = of(s)
    BY <1>5 DEF Sides
  <2>2. m \in 1..Len(all[k]) /\ m \in Nat
    BY <1>2, <1>3, <2>1
  <2>s. k = 1 <=> s = "build"
    OBVIOUS
  <2> HIDE DEF k
  <2>3. <<k, m>> \in Q
    BY <1>5, <2>1, <2>2 DEF Places
  <2>4. side(<<k, m>>) = s
    BY <2>s DEF Sides
  <2>5. QED
    BY <2>3, <2>4 DEF k
<1> HIDE DEF P, Q, one
<1>13. \A t \in DOMAIN tasks : b[<<1, t>>] \in Q /\ tasks[t] = RowAt(all, b[<<1, t>>])
  BY <1>7, <1>9 DEF Pairs
<1>14. ASSUME NEW t \in DOMAIN tasks
       PROVE  LET z == b[<<1, t>>] IN
              /\ tasks[t].side = side(z) /\ side(z) \in Sides
              /\ tasks[t].scan = SideScan(p, side(z)) /\ z[2] \in DOMAIN morsels(side(z))
              /\ tasks[t].file = morsels(side(z))[z[2]].file /\ tasks[t].rg = morsels(side(z))[z[2]].rg
  <2> DEFINE z == b[<<1, t>>]
             s == side(z)
             a == SideScan(p, s)
             c == morsels(s)[z[2]].file
             d == morsels(s)[z[2]].rg
  <2>1. z \in Q /\ tasks[t] = RowAt(all, z)
    BY <1>13
  <2>2. s \in Sides /\ z[2] \in DOMAIN morsels(s) /\ tasks[t] = task(s, z[2])
    BY <1>11, <2>1
  <2>3. task(s, z[2]) = [side |-> s, scan |-> a, file |-> c, rg |-> d]
    OBVIOUS
  <2> HIDE DEF task, s, a, c, d, z
  <2>4. tasks[t].side = s /\ tasks[t].scan = a /\ tasks[t].file = c /\ tasks[t].rg = d
    BY <2>2, <2>3
  <2>5. QED
    BY <2>2, <2>4 DEF s, a, c, d, z
<1>15. ASSUME NEW s \in Sides PROVE \E h : IsSide(h, p, s)
  <2> DEFINE h == [t \in DOMAIN tasks |-> b[<<1, t>>][2]]
             D == TasksAt(p, s)
             k == IF s = "build" THEN 1 ELSE 2
  <2>1. \A t : t \in D <=> t \in DOMAIN tasks /\ tasks[t].side = s
    BY DEF TasksAt, tasks
  <2>2. \A t \in DOMAIN tasks : h[t] = b[<<1, t>>][2]
    OBVIOUS
  <2> HIDE DEF h, D, side, task
  <2>3. ASSUME NEW t \in D
        PROVE  /\ h[t] \in DOMAIN morsels(s) /\ tasks[t].scan = SideScan(p, s)
               /\ tasks[t].file = morsels(s)[h[t]].file /\ tasks[t].rg = morsels(s)[h[t]].rg
    <3> DEFINE z == b[<<1, t>>]
    <3>1. t \in DOMAIN tasks /\ h[t] = z[2] /\ tasks[t].side = s
      BY <2>1, <2>2
    <3>2. /\ tasks[t].side = side(z)
          /\ tasks[t].scan = SideScan(p, side(z)) /\ z[2] \in DOMAIN morsels(side(z))
          /\ tasks[t].file = morsels(side(z))[z[2]].file /\ tasks[t].rg = morsels(side(z))[z[2]].rg
      BY <1>14, <3>1
    <3> HIDE DEF z
    <3>3. side(z) = s
      BY <3>1, <3>2
    <3>4. QED
      BY <3>1, <3>2, <3>3
  <2>z. ASSUME NEW t \in D PROVE b[<<1, t>>] \in Q /\ b[<<1, t>>] = <<k, h[t]>>
    <3> DEFINE z == b[<<1, t>>]
    <3>1. t \in DOMAIN tasks /\ side(z) = s /\ z \in Q
      BY <1>13, <1>14, <2>1
    <3>2. z = <<z[1], z[2]>> /\ z[1] = k
      BY <1>11, <3>1
    <3>3. z[2] = h[t]
      BY <2>2, <3>1
    <3> HIDE DEF z, k
    <3>4. z = <<k, h[t]>>
      BY <3>2, <3>3
    <3>5. QED
      BY <3>1, <3>4 DEF z
  <2>4. ASSUME NEW u \in D, NEW t \in D, h[u] = h[t] PROVE u = t
    <3>1. b[<<1, u>>] = b[<<1, t>>]
      BY <2>4, <2>z
    <3>2. <<1, u>> \in P /\ <<1, t>> \in P
      BY <1>9, <2>1
    <3>3. <<1, u>> = <<1, t>>
      BY <1>7, <3>1, <3>2 DEF Pairs
    <3>4. QED
      BY <3>3
  <2>5. ASSUME NEW m \in DOMAIN morsels(s) PROVE \E t \in D : h[t] = m
    <3> DEFINE z == <<k, m>>
    <3>1. z \in Q /\ side(z) = s /\ z[2] = m
      BY <1>12
    <3> HIDE DEF z
    <3>2. PICK x \in P : b[x] = z
      BY <1>7, <3>1 DEF Pairs
    <3>3. x = <<1, x[2]>> /\ x[2] \in DOMAIN tasks
      BY <1>10
    <3> DEFINE t == x[2]
    <3>4. b[<<1, t>>] = z /\ t \in DOMAIN tasks
      BY <3>2, <3>3
    <3> HIDE DEF t
    <3>5. h[t] = m /\ tasks[t].side = s
      BY <1>14, <2>2, <3>1, <3>4
    <3>6. t \in D
      BY <2>1, <3>4, <3>5
    <3>7. QED
      BY <3>5, <3>6
  <2>6. IsSide(h, p, s)
    BY <2>3, <2>4, <2>5 DEF IsSide, D, tasks, morsels
  <2>7. QED
    BY <2>6
<1>16. \A t \in DOMAIN tasks : tasks[t].side \in Sides
  BY <1>14
<1>17. QED
  BY <1>8, <1>15, <1>16 DEF tasks

-----------------------------------------------------------------------------
(* The first ramp of a shuffle: where the rows are.                         *)

JoinedPlan(ast, p) == IsAst(ast) /\ PlanSound(ast, p) /\ p.ok /\ p.join # NoJoin

\* What tasks find.
FoundBy(p, t) == ScanRowgroup(p.scans[MapTasks(p)[t].scan], MapTasks(p)[t].file, MapTasks(p)[t].rg)
FoundIn(p) == [t \in DOMAIN MapTasks(p) |-> FoundBy(p, t).rows]
RowSet(p) == UNION {[DOMAIN p.scans[s].cols -> Int] : s \in DOMAIN p.scans}

LEMMA PlanSides ==
  ASSUME NEW ast, NEW p, JoinedPlan(ast, p), NEW side \in Sides
  PROVE  LET scan == p.scans[SideScan(p, side)] IN
         /\ SideScan(p, side) \in DOMAIN p.scans /\ ReadyScan(ast, scan)
         /\ SideKey(p, side) \in DOMAIN scan.cols
         /\ \E c0 : c0 \in DOMAIN Tables[scan.table].fields
         /\ MorselsListed(scan)
<1> DEFINE s == SideScan(p, side)
           key == SideKey(p, side)
           scan == p.scans[s]
<1>1. s \in DOMAIN p.scans /\ key \in DOMAIN p.scans[s].cols
  <2> DEFINE j == p.join[1]
             kb == [scan |-> j.build, pos |-> j.build_key]
             kp == [scan |-> j.probe, pos |-> j.probe_key]
  <2>1. KeyIn(p.scans, kb) /\ KeyIn(p.scans, kp)
    BY DEF JoinedPlan, PlanSound, JoinOn
  <2>2. CASE side = "build"
    <3>1. kb.scan = s /\ kb.pos = key
      BY <2>2 DEF SideScan, SideKey, JoinOf
    <3> HIDE DEF kb, s, key
    <3>2. QED
      BY <2>1, <3>1 DEF KeyIn
  <2>3. CASE side = "probe"
    <3>1. kp.scan = s /\ kp.pos = key
      BY <2>3 DEF SideScan, SideKey, JoinOf
    <3> HIDE DEF kp, s, key
    <3>2. QED
      BY <2>1, <3>1 DEF KeyIn
  <2>4. QED
    BY <2>2, <2>3 DEF Sides
<1> HIDE DEF s, key
<1>2. ReadyScan(ast, scan)
  BY <1>1 DEF JoinedPlan, PlanSound
<1>3. scan.cols \in Seq(DOMAIN Tables[scan.table].fields)
  BY <1>2 DEF ReadyScan
<1>4. scan.cols[key] \in DOMAIN Tables[scan.table].fields
  <2>1. DOMAIN scan.cols = 1..Len(scan.cols)
    BY <1>3, LenProperties
  <2>2. QED
    BY <1>1, <1>3, <2>1, ElementOfSeq
<1>5. MorselsListed(scan)
  BY <1>2, <1>4, MorselsAre
<1>6. QED
  BY <1>1, <1>2, <1>4, <1>5 DEF s, key

LEMMA FoundByIs ==
  ASSUME NEW p, NEW side, NEW h, IsSide(h, p, side), NEW t \in TasksAt(p, side)
  PROVE  FoundBy(p, t) = Found(p.scans[SideScan(p, side)], h[t])
BY DEF FoundBy, Found, IsSide

LEMMA SideTasks ==
  ASSUME NEW ast, NEW p, JoinedPlan(ast, p)
  PROVE  /\ DOMAIN MapTasks(p) = 1..Len(MapTasks(p)) /\ Len(MapTasks(p)) \in Nat
         /\ \A t \in DOMAIN MapTasks(p) : MapTasks(p)[t].side \in Sides
         /\ \A side \in Sides : \E h : IsSide(h, p, side)
<1>1. \A side \in Sides : MorselsListed(p.scans[SideScan(p, side)])
  BY PlanSides
<1>2. QED
  BY <1>1, TasksAre

LEMMA FoundByRows ==
  ASSUME NEW ast, NEW p, JoinedPlan(ast, p), NEW side \in Sides, NEW t \in TasksAt(p, side),
         ~FoundBy(p, t).panic
  PROVE  /\ FoundBy(p, t).rows \in Seq(RowSet(p))
         /\ \A r \in ToSet(FoundBy(p, t).rows) : r[SideKey(p, side)] \in Int
<1> DEFINE s == SideScan(p, side)
           scan == p.scans[s]
           found == FoundBy(p, t)
           T == [DOMAIN scan.cols -> Int]
           key == SideKey(p, side)
<1>1. /\ s \in DOMAIN p.scans /\ ReadyScan(ast, scan) /\ key \in DOMAIN scan.cols
      /\ \E c0 : c0 \in DOMAIN Tables[scan.table].fields
  BY PlanSides
<1>2. PICK h : IsSide(h, p, side)
  BY SideTasks
<1>3. found = Found(scan, h[t]) /\ h[t] \in DOMAIN MorselsOf(scan)
  BY <1>2, FoundByIs DEF IsSide
<1>4. IsAst(ast)
  BY DEF JoinedPlan
<1> HIDE DEF found, s, key
<1>5. ~Found(scan, h[t]).panic
  BY <1>3 DEF found
<1>6. found.rows \in Seq(T)
  <2>1. PICK c0 : c0 \in DOMAIN Tables[scan.table].fields
    BY <1>1
  <2> HIDE DEF scan
  <2>2. Found(scan, h[t]).rows \in Seq([DOMAIN scan.cols -> Int])
    BY <1>1, <1>3, <1>4, <1>5, <2>1, FoundRows
  <2>3. QED
    BY <1>3, <2>2
<1>7. T \subseteq RowSet(p)
  BY <1>1 DEF RowSet
<1> DEFINE rows == found.rows
<1> HIDE DEF T, rows
<1>8. DOMAIN rows = 1..Len(rows) /\ Len(rows) \in Nat /\ \A i \in 1..Len(rows) : rows[i] \in T
  BY <1>6, LenProperties, ElementOfSeq DEF rows
<1>9. rows \in Seq(RowSet(p))
  <2>1. Listed(rows)
    BY <1>6, SeqListed DEF rows
  <2>2. QED
    BY <1>7, <1>8, <2>1, ListedSeq
<1>10. \A r \in ToSet(rows) : r[key] \in Int
  BY <1>1, <1>8 DEF ToSet, T
<1>11. QED
  BY <1>9, <1>10 DEF rows, found, key

Buffers == {<<"exchange", q, 0>> : q \in 1..Partitions}
Pockets == {<<"thread", t, j>> : t \in Threads, j \in 1..Partitions}
Holders == Buffers \cup Pockets

\* The rows of a side in an exchange buffer, and those that a thread has yet to put there: its
\* last entry is pocket 1.
BufferOf(ex, q, side) == IF side = "build" THEN ex[q].build ELSE ex[q].probe
Waiting(out, j, side) ==
  IF j <= Len(out) /\ out[Len(out) - j + 1].side = side THEN out[Len(out) - j + 1].rows ELSE <<>>
Held(ex, th, side) ==
  [d \in Holders |-> IF d \in Buffers THEN BufferOf(ex, d[2], side) ELSE Waiting(th[d[2]].out, d[3], side)]

LEMMA HeldAt ==
  ASSUME NEW ex, NEW th, NEW side
  PROVE  /\ DOMAIN Held(ex, th, side) = Holders
         /\ \A q \in 1..Partitions :
              <<"exchange", q, 0>> \in Holders /\ Held(ex, th, side)[<<"exchange", q, 0>>] = BufferOf(ex, q, side)
         /\ \A t \in Threads, j \in 1..Partitions :
              <<"thread", t, j>> \in Holders /\ Held(ex, th, side)[<<"thread", t, j>>] = Waiting(th[t].out, j, side)
<1> DEFINE at(d) == IF d \in Buffers THEN BufferOf(ex, d[2], side) ELSE Waiting(th[d[2]].out, d[3], side)
           held == Held(ex, th, side)
<1>1. held = [d \in Holders |-> at(d)]
  BY DEF Held
<1>2. ASSUME NEW q \in 1..Partitions
      PROVE  <<"exchange", q, 0>> \in Holders /\ held[<<"exchange", q, 0>>] = BufferOf(ex, q, side)
  <2> DEFINE d == <<"exchange", q, 0>>
  <2>1. d \in Buffers /\ d[2] = q
    BY DEF Buffers
  <2>2. at(d) = BufferOf(ex, q, side)
    BY <2>1
  <2> HIDE DEF at, held, d
  <2>3. d \in Holders /\ held[d] = at(d)
    BY <1>1, <2>1 DEF Holders
  <2>4. QED
    BY <2>2, <2>3 DEF d
<1>3. ASSUME NEW t \in Threads, NEW j \in 1..Partitions
      PROVE  <<"thread", t, j>> \in Holders /\ held[<<"thread", t, j>>] = Waiting(th[t].out, j, side)
  <2> DEFINE d == <<"thread", t, j>>
  <2>1. d \in Pockets /\ d[1] = "thread" /\ d[2] = t /\ d[3] = j
    BY DEF Pockets
  <2>2. d \notin Buffers
    <3>1. \A e \in Buffers : e[1] = "exchange"
      BY DEF Buffers
    <3>2. QED
      BY <2>1, <3>1
  <2>3. at(d) = Waiting(th[t].out, j, side)
    BY <2>1, <2>2
  <2> HIDE DEF at, held, d
  <2>4. d \in Holders /\ held[d] = at(d)
    BY <1>1, <2>1 DEF Holders
  <2>5. QED
    BY <2>3, <2>4 DEF d
<1>4. DOMAIN held = Holders
  BY <1>1
<1> HIDE DEF held
<1>5. QED
  BY <1>2, <1>3, <1>4 DEF held

\* A holder is a buffer or a pocket.
LEMMA HolderIs ==
  ASSUME NEW d \in Holders
  PROVE  \/ \E q \in 1..Partitions : d = <<"exchange", q, 0>>
         \/ \E t \in Threads, j \in 1..Partitions : d = <<"thread", t, j>>
BY DEF Holders, Buffers, Pockets

Claimed(p, side, n) == {t \in TasksAt(p, side) : t < n}
Entries(p) == [part : 1..Partitions, side : Sides, rows : Seq(RowSet(p))]
Exchanges(p) == [1..Partitions -> [build : Seq(RowSet(p)), probe : Seq(RowSet(p))]]
ThreadAt(p, r) ==
  /\ DOMAIN r = {"pc", "part", "out"} /\ r.pc \in {"claim", "flush", "ended"}
  /\ r.out \in Seq(Entries(p)) /\ Len(r.out) <= Partitions
  /\ r.out = <<>> <=> r.pc # "flush"
AllHeld(p, ex, th, n, side) ==
  Same(Held(ex, th, side), Places(Held(ex, th, side), Holders),
       FoundIn(p), Places(FoundIn(p), Claimed(p, side, n)))

\* What the claimed tasks found is in the buffers and the pockets, each row once.
MapState(p, ex, th, n) ==
  /\ n \in Nat \ {0}
  /\ ex \in Exchanges(p)
  /\ DOMAIN th = Threads /\ \A t \in Threads : ThreadAt(p, th[t])
  /\ \A t \in Threads : th[t].pc = "ended" => n > Len(MapTasks(p))
  /\ \A t \in DOMAIN MapTasks(p) : t < n => ~FoundBy(p, t).panic
  /\ \A side \in Sides : AllHeld(p, ex, th, n, side)

NoRows == [q \in 1..Partitions |-> [build |-> <<>>, probe |-> <<>>]]

LEMMA MapInit ==
  ASSUME NEW ast, NEW p, JoinedPlan(ast, p)
  PROVE  MapState(p, NoRows, NoThreads, 1)
<1> DEFINE tasks == MapTasks(p)
<1>1. DOMAIN tasks = 1..Len(tasks) /\ Len(tasks) \in Nat
  BY SideTasks
<1>2. \A t \in DOMAIN tasks : ~(t < 1)
  BY <1>1
<1>3. NoRows \in Exchanges(p)
  BY DEF NoRows, Exchanges
<1>4. \A t \in Threads : NoThreads[t] = [pc |-> "claim", part |-> PartialNew, out |-> <<>>]
  BY DEF NoThreads
<1>5. DOMAIN NoThreads = Threads
  BY DEF NoThreads
<1>6. \A t \in Threads : NoThreads[t].out = <<>> /\ NoThreads[t].pc = "claim" /\ DOMAIN NoThreads[t] = {"pc", "part", "out"}
  BY <1>4
<1>7. \A t \in Threads : ThreadAt(p, NoThreads[t])
  <2>1. <<>> \in Seq(Entries(p)) /\ Len(<<>>) = 0 /\ Partitions \in Nat
    BY TablePlanAssumption
  <2>2. ASSUME NEW t \in Threads PROVE ThreadAt(p, NoThreads[t])
    <3> DEFINE r == NoThreads[t]
    <3>1. r.out = <<>> /\ r.pc = "claim" /\ DOMAIN r = {"pc", "part", "out"}
      BY <1>6
    <3> HIDE DEF r
    <3>2. r.out \in Seq(Entries(p))
      BY <2>1, <3>1, Zenon
    <3>3. Len(r.out) <= Partitions
      BY <2>1, <3>1
    <3>4. ThreadAt(p, r)
      BY <3>1, <3>2, <3>3 DEF ThreadAt
    <3>5. QED
      BY <3>4 DEF r
  <2>3. QED
    BY <2>2
<1>8. ASSUME NEW side \in Sides PROVE AllHeld(p, NoRows, NoThreads, 1, side)
  <2> DEFINE G == Held(NoRows, NoThreads, side)
             H == FoundIn(p)
  <2>1. \A d \in Holders : G[d] = <<>>
    <3>1. ASSUME NEW d \in Holders PROVE G[d] = <<>>
      <4>1. CASE \E q \in 1..Partitions : d = <<"exchange", q, 0>>
        <5>1. PICK q \in 1..Partitions : d = <<"exchange", q, 0>>
          BY <4>1
        <5>2. G[d] = BufferOf(NoRows, q, side)
          BY <5>1, HeldAt
        <5>3. NoRows[q] = [build |-> <<>>, probe |-> <<>>]
          BY DEF NoRows
        <5>4. NoRows[q].build = <<>> /\ NoRows[q].probe = <<>>
          BY <5>3
        <5>5. QED
          BY <5>2, <5>4 DEF BufferOf
      <4>2. CASE \E t \in Threads, j \in 1..Partitions : d = <<"thread", t, j>>
        <5>1. PICK t \in Threads, j \in 1..Partitions : d = <<"thread", t, j>>
          BY <4>2
        <5>2. G[d] = Waiting(NoThreads[t].out, j, side)
          BY <5>1, HeldAt
        <5>3. NoThreads[t].out = <<>>
          BY <1>6
        <5>4. ~(j <= Len(<<>>))
          BY TablePlanAssumption
        <5>5. QED
          BY <5>2, <5>3, <5>4 DEF Waiting
      <4>3. QED
        BY <4>1, <4>2, HolderIs
    <3>2. QED
      BY <3>1
  <2> HIDE DEF G, H
  <2>2. Places(G, Holders) = {}
    BY <2>1, NoPlaces
  <2>3. Claimed(p, side, 1) = {}
    BY <1>2 DEF Claimed, TasksAt
  <2>4. Places(H, {}) = {}
    BY DEF Places
  <2>5. Same(G, {}, H, {})
    BY SameAs
  <2>6. QED
    BY <2>2, <2>3, <2>4, <2>5 DEF AllHeld, G, H
<1>9. \A t \in Threads : NoThreads[t].pc # "ended"
  BY <1>6
<1>10. QED
  BY <1>2, <1>3, <1>5, <1>7, <1>8, <1>9 DEF MapState

IsHeld(G, ex, th, side) ==
  /\ \A q \in 1..Partitions :
       <<"exchange", q, 0>> \in Holders /\ G[<<"exchange", q, 0>>] = BufferOf(ex, q, side)
  /\ \A t \in Threads, j \in 1..Partitions :
       <<"thread", t, j>> \in Holders /\ G[<<"thread", t, j>>] = Waiting(th[t].out, j, side)

LEMMA HeldAs ==
  ASSUME NEW ex, NEW th, NEW side
  PROVE  IsHeld(Held(ex, th, side), ex, th, side)
BY HeldAt DEF IsHeld

LEMMA WaitingNone ==
  ASSUME NEW j \in 1..Partitions, NEW side
  PROVE  Waiting(<<>>, j, side) = <<>>
<1>1. ~(j <= Len(<<>>))
  BY TablePlanAssumption
<1>2. QED
  BY <1>1 DEF Waiting

LEMMA WaitingTail ==
  ASSUME NEW E, NEW out \in Seq(E), out # <<>>, NEW side
  PROVE  /\ \A j \in 1..Partitions : j # Len(out) => Waiting(Tail(out), j, side) = Waiting(out, j, side)
         /\ Waiting(Tail(out), Len(out), side) = <<>>
         /\ Waiting(out, Len(out), side) = IF out[1].side = side THEN out[1].rows ELSE <<>>
         /\ Len(out) \in Nat \ {0} /\ Tail(out) \in Seq(E) /\ Len(Tail(out)) = Len(out) - 1
<1> DEFINE n == Len(out)
           rest == Tail(out)
<1>1. n \in Nat /\ n # 0
  BY LenProperties, EmptySeq
<1>2. rest \in Seq(E) /\ Len(rest) = n - 1 /\ \A i \in 1..(n - 1) : rest[i] = out[i + 1]
  BY HeadTailProperties, LenProperties
<1>d. n = Len(out)
  OBVIOUS
<1> HIDE DEF rest, n
<1>3. ASSUME NEW j \in 1..Partitions, j # n PROVE Waiting(rest, j, side) = Waiting(out, j, side)
  <2>0. j \in Nat /\ j # 0
    BY TablePlanAssumption
  <2>1. CASE j > n
    <3>1. ~(j <= n) /\ ~(j <= Len(rest))
      BY <1>1, <1>2, <2>0, <2>1
    <3>2. QED
      BY <1>d, <3>1 DEF Waiting
  <2>2. CASE ~(j > n)
    <3>1. j <= n - 1 /\ j <= n /\ n - j \in 1..(n - 1) /\ (n - 1) - j + 1 = n - j
      BY <1>1, <1>3, <2>0, <2>2
    <3>2. rest[n - j] = out[n - j + 1]
      BY <1>2, <3>1
    <3> DEFINE e == out[n - j + 1]
    <3>3. Waiting(out, j, side) = IF e.side = side THEN e.rows ELSE <<>>
      BY <1>d, <3>1 DEF Waiting
    <3>4. rest[Len(rest) - j + 1] = e /\ j <= Len(rest)
      BY <1>2, <3>1, <3>2
    <3> HIDE DEF e
    <3>5. Waiting(rest, j, side) = IF e.side = side THEN e.rows ELSE <<>>
      BY <3>4 DEF Waiting
    <3>6. QED
      BY <3>3, <3>5
  <2>3. QED
    BY <2>1, <2>2
<1>4. Waiting(rest, n, side) = <<>>
  <2>1. ~(n <= Len(rest))
    BY <1>1, <1>2
  <2>2. QED
    BY <2>1 DEF Waiting
<1>5. Waiting(out, n, side) = IF out[1].side = side THEN out[1].rows ELSE <<>>
  <2>1. n <= n /\ n - n + 1 = 1
    BY <1>1
  <2>2. QED
    BY <1>d, <2>1 DEF Waiting
<1>6. QED
  BY <1>1, <1>2, <1>3, <1>4, <1>5 DEF n, rest

LEMMA ClaimedNext ==
  ASSUME NEW ast, NEW p, JoinedPlan(ast, p), NEW n \in DOMAIN MapTasks(p), NEW side
  PROVE  /\ MapTasks(p)[n].side = side => Parts(Claimed(p, side, n + 1), Claimed(p, side, n), {n})
         /\ MapTasks(p)[n].side # side => Claimed(p, side, n + 1) = Claimed(p, side, n)
<1> DEFINE tasks == MapTasks(p)
<1>1. DOMAIN tasks = 1..Len(tasks) /\ Len(tasks) \in Nat
  BY SideTasks
<1>2. \A t \in DOMAIN tasks : (t < n + 1 <=> t < n \/ t = n) /\ ~(n < n)
  BY <1>1
<1>3. \A t, m : t \in Claimed(p, side, m) <=> t \in DOMAIN tasks /\ tasks[t].side = side /\ t < m
  BY DEF Claimed, TasksAt
<1> HIDE DEF tasks
<1>4. tasks[n].side = side => Parts(Claimed(p, side, n + 1), Claimed(p, side, n), {n})
  BY <1>2, <1>3 DEF Parts, tasks
<1>5. tasks[n].side # side => Claimed(p, side, n + 1) = Claimed(p, side, n)
  BY <1>2, <1>3
<1>6. QED
  BY <1>4, <1>5 DEF tasks

OthersKeep(th, new, t) == \A u \in Threads : u # t => new[u].out = th[u].out

\* A thread claims a task and has its rows in its pockets.
LEMMA ClaimHeld ==
  ASSUME NEW ast, NEW p, JoinedPlan(ast, p), NEW ex, NEW th, NEW n \in DOMAIN MapTasks(p), ~FoundBy(p, n).panic,
         NEW t \in Threads, th[t].out = <<>>, NEW new, OthersKeep(th, new, t),
         NEW side, side = MapTasks(p)[n].side,
         NEW out, out = new[t].out, out = Buckets(side, SideKey(p, side), FoundBy(p, n).rows),
         NEW of \in Sides, AllHeld(p, ex, th, n, of)
  PROVE  AllHeld(p, ex, new, n + 1, of)
<1> DEFINE G == Held(ex, th, of)
           G1 == Held(ex, new, of)
           H == FoundIn(p)
           E == Claimed(p, of, n)
           E1 == Claimed(p, of, n + 1)
           rows == FoundBy(p, n).rows
           key == SideKey(p, side)
           k == Len(out)
<1>1. side \in Sides /\ n \in TasksAt(p, side)
  BY SideTasks DEF TasksAt
<1>2. rows \in Seq(RowSet(p)) /\ \A r \in ToSet(rows) : r[key] \in Int
  BY <1>1, FoundByRows
<1> HIDE DEF rows, key
<1>3. out \in Seq([part : 1..Partitions, side : {side}, rows : Seq(RowSet(p))]) /\ Len(out) <= Partitions
  BY <1>2, BucketsAre DEF rows, key
<1>4. DOMAIN out = 1..k /\ k \in Nat /\ k <= Partitions /\ Partitions \in Nat /\ \A i \in 1..k : out[i].side = side
  <2>1. DOMAIN out = 1..k /\ k \in Nat
    BY <1>3, LenProperties
  <2>2. \A i \in 1..k : out[i] \in [part : 1..Partitions, side : {side}, rows : Seq(RowSet(p))]
    BY <1>3, <2>1, ElementOfSeq
  <2>3. QED
    BY <1>3, <2>1, <2>2, TablePlanAssumption
<1>h. IsHeld(G, ex, th, of) /\ IsHeld(G1, ex, new, of)
  BY HeldAs
<1> HIDE DEF G, G1
<1>5. \A q \in 1..Partitions : G1[<<"exchange", q, 0>>] = G[<<"exchange", q, 0>>]
  BY <1>h, Zenon DEF IsHeld
<1>w. /\ \A u \in Threads, j \in 1..Partitions : G[<<"thread", u, j>>] = Waiting(th[u].out, j, of)
      /\ \A u \in Threads, j \in 1..Partitions : <<"thread", u, j>> \in Holders
  BY <1>h, Zenon DEF IsHeld
<1>v. \A u \in Threads, j \in 1..Partitions : G1[<<"thread", u, j>>] = Waiting(new[u].out, j, of)
  BY <1>h, Zenon DEF IsHeld
<1>6. \A u \in Threads, j \in 1..Partitions : u # t => G1[<<"thread", u, j>>] = G[<<"thread", u, j>>]
  BY <1>w, <1>v DEF OthersKeep
<1>7. ASSUME NEW j \in 1..Partitions
      PROVE  /\ G[<<"thread", t, j>>] = <<>> /\ G1[<<"thread", t, j>>] = Waiting(out, j, of)
             /\ <<"thread", t, j>> \in Holders
  <2>1. G[<<"thread", t, j>>] = Waiting(<<>>, j, of)
    BY <1>w
  <2>2. QED
    BY <1>w, <1>v, <2>1, WaitingNone
<1>8. Same(G, Places(G, Holders), H, Places(H, E))
  BY DEF AllHeld, G
<1>9. Len(out) = k
  OBVIOUS
<1> HIDE DEF G, G1, H, E, E1, k
<1>10. CASE of = side
  <2> DEFINE h == [i \in 1..k |-> <<"thread", t, k - i + 1>>]
             A == NamesOf(h, out)
  <2>1. ASSUME NEW i \in 1..k
        PROVE  k - i + 1 \in 1..Partitions /\ k - i + 1 <= k /\ k - (k - i + 1) + 1 = i /\ h[i] = <<"thread", t, k - i + 1>>
    BY <1>4
  <2>2. ASSUME NEW i \in 1..k PROVE G1[h[i]] = out[i].rows
    <3> DEFINE j == k - i + 1
    <3>1. j \in 1..Partitions /\ j <= k /\ k - j + 1 = i /\ h[i] = <<"thread", t, j>>
      BY <2>1
    <3> HIDE DEF j, h
    <3>2. Waiting(out, j, of) = out[i].rows
      BY <1>4, <1>9, <1>10, <3>1 DEF Waiting
    <3>3. QED
      BY <1>7, <3>1, <3>2
  <2>3. ASSUME NEW i \in 1..k, NEW l \in 1..k, h[i] = h[l] PROVE i = l
    <3>1. <<"thread", t, k - i + 1>> = <<"thread", t, k - l + 1>>
      BY <2>1, <2>3
    <3>2. k - i + 1 = k - l + 1
      BY <3>1
    <3>3. i \in Int /\ l \in Int
      OBVIOUS
    <3>4. QED
      BY <1>4, <3>2, <3>3
  <2>h. \A i \in 1..k : h[i] = <<"thread", t, k - i + 1>>
    BY <2>1
  <2> HIDE DEF h
  <2>4. H[n] = rows
    BY DEF H, FoundIn, rows
  <2>5. Same(G1, Places(G1, A), H, Places(H, {n}))
    <3>1. \A i \in DOMAIN out : G1[h[i]] = out[i].rows
      BY <1>4, <2>2
    <3>2. \A i, l \in DOMAIN out : h[i] = h[l] => i = l
      BY <1>4, <2>3
    <3>3. out = Buckets(side, key, rows)
      BY DEF key, rows
    <3> DEFINE T == RowSet(p)
    <3>4. rows \in Seq(T)
      BY <1>2
    <3> HIDE DEF T
    <3>5. KeysAreInts(rows, key)
      BY <1>2 DEF KeysAreInts
    <3> HIDE DEF A
    <3>p. Poured(out, G1, h)
      BY <3>1, <3>2 DEF Poured
    <3>s. Same(G1, Places(G1, NamesOf(h, out)), H, Places(H, {n}))
      BY <2>4, <3>p, <3>3, <3>4, <3>5, BucketsSame
    <3>6. QED
      BY <3>s DEF A
  <2>6. ASSUME NEW d \in A PROVE d \in Holders /\ G[d] = <<>>
    <3>1. PICK i \in DOMAIN out : d = h[i]
      BY DEF NamesOf
    <3>2. k - i + 1 \in 1..Partitions /\ d = <<"thread", t, k - i + 1>>
      BY <1>4, <2>1, <2>h, <3>1
    <3>3. QED
      BY <1>7, <3>2
  <2>7. ASSUME NEW d \in Holders \ A PROVE G1[d] = G[d]
    <3>1. CASE \E q \in 1..Partitions : d = <<"exchange", q, 0>>
      BY <1>5, <3>1
    <3>2. CASE \E u \in Threads, j \in 1..Partitions : d = <<"thread", u, j>>
      <4>1. PICK u \in Threads, j \in 1..Partitions : d = <<"thread", u, j>>
        BY <3>2
      <4>2. CASE u # t
        BY <1>6, <4>1, <4>2
      <4>3. CASE u = t
        <5>1. ~(j <= k)
          <6>1. ASSUME j <= k PROVE FALSE
            <7> DEFINE i == k - j + 1
            <7>1. i \in 1..k /\ k - i + 1 = j
              BY <1>4, <6>1
            <7> HIDE DEF i
            <7>2. h[i] = d
              BY <2>h, <4>1, <4>3, <7>1
            <7>3. QED
              BY <1>4, <7>1, <7>2 DEF NamesOf
          <6>2. QED
            BY <6>1
        <5>2. Waiting(out, j, of) = <<>>
          BY <1>9, <5>1 DEF Waiting
        <5>3. QED
          BY <1>7, <4>1, <4>3, <5>2
      <4>4. QED
        BY <4>2, <4>3
    <3>3. QED
      BY <3>1, <3>2, HolderIs
  <2>8. Parts(E1, E, {n})
    BY <1>10, ClaimedNext DEF E, E1
  <2> HIDE DEF A
  <2>9. A \subseteq Holders
    BY <2>6
  <2>10. Same(G1, Places(G1, Holders), H, Places(H, E1))
    BY <1>8, <2>5, <2>6, <2>7, <2>8, <2>9, SameMore
  <2>11. QED
    BY <2>10 DEF AllHeld, G1, H, E1
<1>11. CASE of # side
  <2>1. ASSUME NEW j \in 1..Partitions PROVE Waiting(out, j, of) = <<>>
    <3>1. CASE j <= k
      <4>1. k - j + 1 \in 1..k
        BY <1>4, <3>1
      <4>2. QED
        BY <1>4, <1>9, <1>11, <4>1 DEF Waiting
    <3>2. CASE ~(j <= k)
      BY <1>9, <3>2 DEF Waiting
    <3>3. QED
      BY <3>1, <3>2
  <2>2. \A d \in Holders : G1[d] = G[d]
    <3>1. ASSUME NEW d \in Holders PROVE G1[d] = G[d]
      <4>1. CASE \E q \in 1..Partitions : d = <<"exchange", q, 0>>
        BY <1>5, <4>1
      <4>2. CASE \E u \in Threads, j \in 1..Partitions : d = <<"thread", u, j>>
        BY <1>6, <1>7, <2>1, <4>2
      <4>3. QED
        BY <4>1, <4>2, HolderIs
    <3>2. QED
      BY <3>1
  <2>3. Same(G1, Places(G1, Holders), G, Places(G, Holders))
    BY <2>2, SameElsewhere
  <2>4. E1 = E
    BY <1>11, ClaimedNext DEF E, E1
  <2>5. Same(G1, Places(G1, Holders), H, Places(H, E1))
    BY <1>8, <2>3, <2>4, SameTrans
  <2>6. QED
    BY <2>5 DEF AllHeld, G1, H, E1
<1>12. QED
  BY <1>10, <1>11

LEMMA ThreadIs ==
  ASSUME NEW p, NEW r, DOMAIN r = {"pc", "part", "out"}, r.out \in Seq(Entries(p)), Len(r.out) <= Partitions,
         r.pc \in {"claim", "flush", "ended"}, r.out = <<>> <=> r.pc # "flush"
  PROVE  ThreadAt(p, r)
BY DEF ThreadAt

\* The claim of a task of the first ramp, and its scan.
LEMMA MapClaim ==
  ASSUME NEW ast, NEW p, JoinedPlan(ast, p), NEW ex, NEW th, NEW n, MapState(p, ex, th, n),
         n \in DOMAIN MapTasks(p), ~FoundBy(p, n).panic, NEW t \in Threads, th[t].pc = "claim",
         NEW side, side = MapTasks(p)[n].side,
         NEW out, out = Buckets(side, SideKey(p, side), FoundBy(p, n).rows), NEW part,
         NEW new, new = [th EXCEPT ![t] = [pc |-> IF out = <<>> THEN "claim" ELSE "flush",
                                           part |-> part, out |-> out]]
  PROVE  MapState(p, ex, new, n + 1)
<1> DEFINE tasks == MapTasks(p)
           rows == FoundBy(p, n).rows
           key == SideKey(p, side)
           r == [pc |-> IF out = <<>> THEN "claim" ELSE "flush", part |-> part, out |-> out]
<1>1. /\ n \in Nat \ {0} /\ ex \in Exchanges(p) /\ DOMAIN th = Threads
      /\ \A u \in Threads : ThreadAt(p, th[u])
      /\ \A u \in Threads : th[u].pc = "ended" => n > Len(tasks)
      /\ \A m \in DOMAIN tasks : m < n => ~FoundBy(p, m).panic
      /\ \A of \in Sides : AllHeld(p, ex, th, n, of)
  BY DEF MapState
<1>2. DOMAIN tasks = 1..Len(tasks) /\ Len(tasks) \in Nat /\ side \in Sides /\ n \in TasksAt(p, side)
  BY SideTasks DEF TasksAt
<1>3. DOMAIN new = Threads /\ new[t] = r /\ \A u \in Threads : u # t => new[u] = th[u]
  BY <1>1
<1>4. /\ DOMAIN r = {"pc", "part", "out"} /\ r.out = out
      /\ r.pc \in {"claim", "flush", "ended"} /\ (out = <<>> <=> r.pc # "flush") /\ r.pc # "ended"
  OBVIOUS
<1> HIDE DEF r
<1>5. rows \in Seq(RowSet(p)) /\ \A x \in ToSet(rows) : x[key] \in Int
  BY <1>2, FoundByRows
<1>6. out \in Seq([part : 1..Partitions, side : {side}, rows : Seq(RowSet(p))]) /\ Len(out) <= Partitions
  <2> HIDE DEF rows, key
  <2>1. out = Buckets(side, key, rows)
    BY DEF rows, key
  <2>2. QED
    BY <1>5, <2>1, BucketsAre
<1>7. out \in Seq(Entries(p))
  <2> DEFINE F == [part : 1..Partitions, side : {side}, rows : Seq(RowSet(p))]
  <2>1. F \subseteq Entries(p)
    BY <1>2 DEF Entries
  <2> HIDE DEF F
  <2>2. out \in Seq(F)
    BY <1>6 DEF F
  <2>3. QED
    BY <2>1, <2>2
<1>8. ThreadAt(p, r)
  <2>1. r.out \in Seq(Entries(p)) /\ Len(r.out) <= Partitions /\ (r.out = <<>> <=> r.pc # "flush")
    BY <1>4, <1>6, <1>7
  <2>2. QED
    BY <1>4, <2>1, ThreadIs
<1>9. \A u \in Threads : ThreadAt(p, new[u])
  BY <1>1, <1>3, <1>8
<1> HIDE DEF tasks
<1>10. \A u \in Threads : new[u].pc = "ended" => n + 1 > Len(tasks)
  <2>1. ASSUME NEW u \in Threads, new[u].pc = "ended" PROVE n + 1 > Len(tasks)
    <3>1. n > Len(tasks)
      BY <1>1, <1>3, <1>4, <2>1
    <3>2. QED
      BY <1>1, <1>2, <3>1
  <2>2. QED
    BY <2>1
<1>11. \A m \in DOMAIN tasks : m < n + 1 => ~FoundBy(p, m).panic
  <2>1. \A m \in DOMAIN tasks : m < n + 1 => m < n \/ m = n
    BY <1>1, <1>2
  <2>2. QED
    BY <1>1, <2>1
<1>12. \A of \in Sides : AllHeld(p, ex, new, n + 1, of)
  <2>1. th[t].out = <<>>
    BY <1>1 DEF ThreadAt
  <2>2. out = new[t].out /\ OthersKeep(th, new, t)
    BY <1>3, <1>4 DEF OthersKeep
  <2> HIDE DEF rows, key
  <2>3. out = Buckets(side, SideKey(p, side), FoundBy(p, n).rows)
    OBVIOUS
  <2>4. ASSUME NEW of \in Sides PROVE AllHeld(p, ex, new, n + 1, of)
    <3>1. AllHeld(p, ex, th, n, of)
      BY <1>1
    <3>2. QED
      BY <2>1, <2>2, <2>3, <3>1, ClaimHeld
  <2>5. QED
    BY <2>4
<1>13. n + 1 \in Nat \ {0}
  BY <1>1
<1>14. QED
  BY <1>1, <1>3, <1>9, <1>10, <1>11, <1>12, <1>13 DEF MapState, tasks

\* A thread that hands in has nothing in its pockets.
LEMMA SameOuts ==
  ASSUME NEW p, NEW ex, NEW th, NEW new, NEW n, NEW side, AllHeld(p, ex, th, n, side),
         \A t \in Threads : new[t].out = th[t].out
  PROVE  AllHeld(p, ex, new, n, side)
<1> DEFINE G == Held(ex, th, side)
           G1 == Held(ex, new, side)
           H == FoundIn(p)
           Q == Places(H, Claimed(p, side, n))
<1>1. IsHeld(G, ex, th, side) /\ IsHeld(G1, ex, new, side)
  BY HeldAs
<1>2. Same(G, Places(G, Holders), H, Q)
  BY DEF AllHeld
<1> HIDE DEF G, G1, H, Q
<1>3. ASSUME NEW d \in Holders PROVE G1[d] = G[d]
  <2>1. CASE \E q \in 1..Partitions : d = <<"exchange", q, 0>>
    BY <1>1, <2>1 DEF IsHeld
  <2>2. CASE \E t \in Threads, j \in 1..Partitions : d = <<"thread", t, j>>
    <3>1. PICK t \in Threads, j \in 1..Partitions : d = <<"thread", t, j>>
      BY <2>2
    <3>2. G1[d] = Waiting(new[t].out, j, side) /\ G[d] = Waiting(th[t].out, j, side)
      BY <1>1, <3>1 DEF IsHeld
    <3>3. QED
      BY <3>2
  <2>3. QED
    BY <2>1, <2>2, HolderIs
<1>4. Same(G1, Places(G1, Holders), G, Places(G, Holders))
  BY <1>3, SameElsewhere
<1>5. Same(G1, Places(G1, Holders), H, Q)
  BY <1>2, <1>4, SameTrans
<1>6. QED
  BY <1>5 DEF AllHeld, G1, H, Q

LEMMA MapHandIn ==
  ASSUME NEW p, NEW ex, NEW th, NEW n, MapState(p, ex, th, n), NEW t \in Threads, th[t].pc = "claim",
         n > Len(MapTasks(p)), NEW new, new = [th EXCEPT ![t].pc = "ended"]
  PROVE  MapState(p, ex, new, n)
<1> DEFINE r == [th[t] EXCEPT !.pc = "ended"]
<1>1. /\ n \in Nat \ {0} /\ ex \in Exchanges(p) /\ DOMAIN th = Threads
      /\ \A u \in Threads : ThreadAt(p, th[u])
      /\ \A m \in DOMAIN MapTasks(p) : m < n => ~FoundBy(p, m).panic
      /\ \A of \in Sides : AllHeld(p, ex, th, n, of)
  BY DEF MapState
<1>2. DOMAIN new = Threads /\ new[t] = r /\ \A u \in Threads : u # t => new[u] = th[u]
  BY <1>1
<1>3. /\ DOMAIN th[t] = {"pc", "part", "out"} /\ th[t].out = <<>>
      /\ th[t].out \in Seq(Entries(p)) /\ Len(th[t].out) <= Partitions
  BY <1>1 DEF ThreadAt
<1>4. DOMAIN r = {"pc", "part", "out"} /\ r.pc = "ended" /\ r.out = th[t].out
  BY <1>3
<1> HIDE DEF r
<1>5. ThreadAt(p, r)
  BY <1>3, <1>4, ThreadIs
<1>6. \A u \in Threads : ThreadAt(p, new[u])
  BY <1>1, <1>2, <1>5
<1>7. \A u \in Threads : new[u].out = th[u].out
  BY <1>2, <1>4
<1>8. \A of \in Sides : AllHeld(p, ex, new, n, of)
  BY <1>1, <1>7, SameOuts
<1>9. QED
  BY <1>1, <1>2, <1>6, <1>8 DEF MapState

\* The exchange after an entry is put into its buffer.
Extended(ex, b) ==
  IF b.side = "build" THEN [ex EXCEPT ![b.part].build = @ \o b.rows] ELSE [ex EXCEPT ![b.part].probe = @ \o b.rows]

IsExtended(p, ex, b, new) ==
  \A q \in 1..Partitions, side \in Sides :
    /\ BufferOf(ex, q, side) \in Seq(RowSet(p))
    /\ q = b.part /\ side = b.side => BufferOf(new, q, side) = BufferOf(ex, q, side) \o b.rows
    /\ q # b.part \/ side # b.side => BufferOf(new, q, side) = BufferOf(ex, q, side)

LEMMA ExtendedIs ==
  ASSUME NEW p, NEW ex \in Exchanges(p), NEW b \in Entries(p)
  PROVE  Extended(ex, b) \in Exchanges(p) /\ IsExtended(p, ex, b, Extended(ex, b))
<1> DEFINE R == Seq(RowSet(p))
           q0 == b.part
           e == ex[q0]
           new == Extended(ex, b)
<1>1. q0 \in 1..Partitions /\ b.side \in Sides /\ b.rows \in R
  BY DEF Entries
<1>2. DOMAIN ex = 1..Partitions /\ \A q \in 1..Partitions : ex[q].build \in R /\ ex[q].probe \in R /\ DOMAIN ex[q] = {"build", "probe"}
  BY DEF Exchanges
<1>3. ex \in [1..Partitions -> [build : R, probe : R]]
  BY DEF Exchanges
<1> HIDE DEF R
<1>4. b.rows \in R /\ \A x, y \in R : x \o y \in R
  BY <1>1 DEF R
<1>5. CASE b.side = "build"
  <2>1. new = [ex EXCEPT ![q0].build = @ \o b.rows]
    BY <1>5 DEF Extended
  <2> DEFINE rec == [ex[q0] EXCEPT !.build = @ \o b.rows]
  <2>r. rec \in [build : R, probe : R]
    BY <1>1, <1>3, <1>4
  <2>n. new = [ex EXCEPT ![q0] = rec]
    BY <1>1, <1>3, <2>1
  <2> HIDE DEF rec, new
  <2>2. new \in [1..Partitions -> [build : R, probe : R]]
    BY <1>1, <1>3, <2>r, <2>n
  <2> USE DEF new
  <2>3. /\ new[q0].build = ex[q0].build \o b.rows /\ new[q0].probe = ex[q0].probe
        /\ \A q \in 1..Partitions : q # q0 => new[q] = ex[q]
    BY <1>1, <1>2, <2>1
  <2> HIDE DEF new
  <2>4. new \in Exchanges(p)
    BY <2>2 DEF Exchanges, R
  <2>5. ASSUME NEW q \in 1..Partitions, NEW side \in Sides
        PROVE  /\ BufferOf(ex, q, side) \in R
               /\ q = q0 /\ side = b.side => BufferOf(new, q, side) = BufferOf(ex, q, side) \o b.rows
               /\ q # q0 \/ side # b.side => BufferOf(new, q, side) = BufferOf(ex, q, side)
    <3>1. CASE side = "build"
      BY <1>2, <1>5, <2>3, <3>1 DEF BufferOf
    <3>2. CASE side = "probe"
      BY <1>2, <1>5, <2>3, <3>2 DEF BufferOf
    <3>3. QED
      BY <3>1, <3>2 DEF Sides
  <2>6. QED
    BY <2>4, <2>5 DEF new, R, IsExtended
<1>6. CASE b.side = "probe"
  <2>0. b.side # "build"
    BY <1>6
  <2>1. new = [ex EXCEPT ![q0].probe = @ \o b.rows]
    BY <2>0 DEF Extended
  <2> DEFINE rec == [ex[q0] EXCEPT !.probe = @ \o b.rows]
  <2>r. rec \in [build : R, probe : R]
    BY <1>1, <1>3, <1>4
  <2>n. new = [ex EXCEPT ![q0] = rec]
    BY <1>1, <1>3, <2>1
  <2> HIDE DEF rec, new
  <2>2. new \in [1..Partitions -> [build : R, probe : R]]
    BY <1>1, <1>3, <2>r, <2>n
  <2> USE DEF new
  <2>3. /\ new[q0].probe = ex[q0].probe \o b.rows /\ new[q0].build = ex[q0].build
        /\ \A q \in 1..Partitions : q # q0 => new[q] = ex[q]
    BY <1>1, <1>2, <2>1
  <2> HIDE DEF new
  <2>4. new \in Exchanges(p)
    BY <2>2 DEF Exchanges, R
  <2>5. ASSUME NEW q \in 1..Partitions, NEW side \in Sides
        PROVE  /\ BufferOf(ex, q, side) \in R
               /\ q = q0 /\ side = b.side => BufferOf(new, q, side) = BufferOf(ex, q, side) \o b.rows
               /\ q # q0 \/ side # b.side => BufferOf(new, q, side) = BufferOf(ex, q, side)
    <3>1. CASE side = "build"
      BY <1>2, <1>6, <2>3, <3>1 DEF BufferOf
    <3>2. CASE side = "probe"
      BY <1>2, <1>6, <2>3, <3>2 DEF BufferOf
    <3>3. QED
      BY <3>1, <3>2 DEF Sides
  <2>6. QED
    BY <2>4, <2>5 DEF new, R, IsExtended
<1>7. QED
  BY <1>1, <1>5, <1>6 DEF Sides

\* An entry moves from a pocket to its buffer.
LEMMA FlushHeld ==
  ASSUME NEW p, NEW ex \in Exchanges(p), NEW th, NEW n, NEW t \in Threads,
         NEW out \in Seq(Entries(p)), out = th[t].out, out # <<>>, Len(out) <= Partitions,
         NEW b \in Entries(p), b = out[1],
         NEW new, OthersKeep(th, new, t), new[t].out = Tail(out),
         NEW of \in Sides, AllHeld(p, ex, th, n, of)
  PROVE  AllHeld(p, Extended(ex, b), new, n, of)
<1> DEFINE ex1 == Extended(ex, b)
           G == Held(ex, th, of)
           G1 == Held(ex1, new, of)
           H == FoundIn(p)
           Q == Places(H, Claimed(p, of, n))
           m == Len(out)
           rest == Tail(out)
           q0 == b.part
           a == <<"exchange", q0, 0>>
           z == <<"thread", t, m>>
           R == RowSet(p)
<1>1. IsHeld(G, ex, th, of) /\ IsHeld(G1, ex1, new, of)
  BY HeldAs
<1>2. Same(G, Places(G, Holders), H, Q)
  BY DEF AllHeld
<1>3. q0 \in 1..Partitions /\ b.side \in Sides /\ b.rows \in Seq(R)
  BY DEF Entries
<1>4. \A q \in 1..Partitions :
        /\ BufferOf(ex, q, of) \in Seq(R)
        /\ q = q0 /\ of = b.side => BufferOf(ex1, q, of) = BufferOf(ex, q, of) \o b.rows
        /\ q # q0 \/ of # b.side => BufferOf(ex1, q, of) = BufferOf(ex, q, of)
  <2>1. IsExtended(p, ex, b, ex1)
    BY ExtendedIs
  <2> HIDE DEF ex1
  <2>2. QED
    BY <2>1, Zenon DEF IsExtended
<1>5. /\ \A j \in 1..Partitions : j # m => Waiting(rest, j, of) = Waiting(out, j, of)
      /\ Waiting(rest, m, of) = <<>>
      /\ Waiting(out, m, of) = IF b.side = of THEN b.rows ELSE <<>>
      /\ m \in Nat \ {0}
  BY WaitingTail
<1>6. m \in 1..Partitions
  BY <1>5, TablePlanAssumption
<1>7. new[t].out = rest /\ th[t].out = out
  OBVIOUS
<1> HIDE DEF G, G1, H, Q, m, rest, q0, ex1, R
<1>8. /\ \A q \in 1..Partitions : /\ <<"exchange", q, 0>> \in Holders
                                  /\ G[<<"exchange", q, 0>>] = BufferOf(ex, q, of)
                                  /\ G1[<<"exchange", q, 0>>] = BufferOf(ex1, q, of)
      /\ \A u \in Threads, j \in 1..Partitions : /\ <<"thread", u, j>> \in Holders
                                                 /\ G[<<"thread", u, j>>] = Waiting(th[u].out, j, of)
                                                 /\ G1[<<"thread", u, j>>] = Waiting(new[u].out, j, of)
  BY <1>1, Zenon DEF IsHeld
<1>9. a \in Holders /\ z \in Holders /\ a # z
  <2>1. a[1] = "exchange" /\ z[1] = "thread"
    OBVIOUS
  <2>2. a # z
    BY <2>1
  <2>3. QED
    BY <1>3, <1>6, <1>8, <2>2
<1>10. G[z] = Waiting(out, m, of) /\ G1[z] = <<>>
  BY <1>5, <1>6, <1>7, <1>8
<1>11. G[a] = BufferOf(ex, q0, of) /\ G1[a] = BufferOf(ex1, q0, of)
  BY <1>3, <1>8
<1>12. ASSUME NEW d \in Holders, d # a, d # z PROVE G1[d] = G[d]
  <2>1. CASE \E q \in 1..Partitions : d = <<"exchange", q, 0>>
    <3>1. PICK q \in 1..Partitions : d = <<"exchange", q, 0>>
      BY <2>1
    <3>2. q # q0
      BY <1>12, <3>1
    <3>3. QED
      BY <1>4, <1>8, <3>1, <3>2
  <2>2. CASE \E u \in Threads, j \in 1..Partitions : d = <<"thread", u, j>>
    <3>1. PICK u \in Threads, j \in 1..Partitions : d = <<"thread", u, j>>
      BY <2>2
    <3>2. G[d] = Waiting(th[u].out, j, of) /\ G1[d] = Waiting(new[u].out, j, of)
      BY <1>8, <3>1
    <3>3. CASE u # t
      BY <3>2, <3>3 DEF OthersKeep
    <3>4. CASE u = t
      <4>1. j # m
        BY <1>12, <3>1, <3>4
      <4>2. QED
        BY <1>5, <1>7, <3>2, <3>4, <4>1
    <3>5. QED
      BY <3>3, <3>4
  <2>3. QED
    BY <2>1, <2>2, HolderIs
<1>13. CASE of = b.side
  <2>1. G[a] \in Seq(R) /\ G[z] \in Seq(R) /\ G1[a] = G[a] \o G[z]
    BY <1>3, <1>4, <1>5, <1>10, <1>11, <1>13
  <2> HIDE DEF a, z
  <2>2. \A d \in Holders \ {a, z} : G1[d] = G[d]
    BY <1>12
  <2>3. Same(G1, Places(G1, Holders), G, Places(G, Holders))
    BY <1>9, <1>10, <2>1, <2>2, SameMove
  <2>4. Same(G1, Places(G1, Holders), H, Q)
    BY <1>2, <2>3, SameTrans
  <2>5. QED
    BY <2>4 DEF AllHeld, G1, H, Q, ex1
<1>14. CASE of # b.side
  <2>1. G1[a] = G[a] /\ G1[z] = G[z]
    BY <1>3, <1>4, <1>5, <1>10, <1>11, <1>14
  <2> HIDE DEF a, z
  <2>2. \A d \in Holders : G1[d] = G[d]
    BY <1>12, <2>1
  <2>3. Same(G1, Places(G1, Holders), G, Places(G, Holders))
    BY <2>2, SameElsewhere
  <2>4. Same(G1, Places(G1, Holders), H, Q)
    BY <1>2, <2>3, SameTrans
  <2>5. QED
    BY <2>4 DEF AllHeld, G1, H, Q, ex1
<1>15. QED
  BY <1>13, <1>14

LEMMA MapFlush ==
  ASSUME NEW p, NEW ex, NEW th, NEW n, MapState(p, ex, th, n), NEW t \in Threads, th[t].pc = "flush",
         NEW new, new = [th EXCEPT ![t].out = Tail(@),
                                   ![t].pc = IF Len(th[t].out) = 1 THEN "claim" ELSE "flush"]
  PROVE  MapState(p, Extended(ex, th[t].out[1]), new, n)
<1> DEFINE out == th[t].out
           b == out[1]
           pc == IF Len(out) = 1 THEN "claim" ELSE "flush"
           r == [th[t] EXCEPT !.out = Tail(out), !.pc = pc]
<1>1. /\ n \in Nat \ {0} /\ ex \in Exchanges(p) /\ DOMAIN th = Threads
      /\ \A u \in Threads : ThreadAt(p, th[u])
      /\ \A u \in Threads : th[u].pc = "ended" => n > Len(MapTasks(p))
      /\ \A m \in DOMAIN MapTasks(p) : m < n => ~FoundBy(p, m).panic
      /\ \A of \in Sides : AllHeld(p, ex, th, n, of)
  BY DEF MapState
<1>2. DOMAIN new = Threads /\ new[t] = r /\ \A u \in Threads : u # t => new[u] = th[u]
  BY <1>1
<1>3. /\ DOMAIN th[t] = {"pc", "part", "out"} /\ out # <<>>
      /\ out \in Seq(Entries(p)) /\ Len(out) <= Partitions
  BY <1>1 DEF ThreadAt
<1>4. DOMAIN r = {"pc", "part", "out"} /\ r.pc = pc /\ r.out = Tail(out)
  BY <1>3
<1>5. /\ Len(out) \in Nat \ {0} /\ Tail(out) \in Seq(Entries(p)) /\ Len(Tail(out)) = Len(out) - 1
  <2> DEFINE E == Entries(p)
  <2>1. out \in Seq(E)
    BY <1>3
  <2> HIDE DEF out, E
  <2>2. Len(out) \in Nat \ {0} /\ Tail(out) \in Seq(E) /\ Len(Tail(out)) = Len(out) - 1
    BY <1>3, <2>1, LenProperties, EmptySeq, HeadTailProperties
  <2>3. QED
    BY <2>2 DEF E
<1> HIDE DEF r, out
<1>6. b \in Entries(p)
  <2>1. 1 \in 1..Len(out)
    BY <1>5
  <2>2. QED
    BY <1>3, <2>1, ElementOfSeq
<1>7. Tail(out) = <<>> <=> pc # "flush"
  <2> DEFINE rest == Tail(out)
             k == Len(out)
  <2>1. rest \in Seq(Entries(p)) /\ Len(rest) = k - 1 /\ k \in Nat \ {0}
    BY <1>5
  <2>2. pc # "flush" <=> k = 1
    OBVIOUS
  <2> HIDE DEF rest, k, pc
  <2>3. Len(rest) = 0 <=> rest = <<>>
    BY <2>1, EmptySeq
  <2>4. rest = <<>> <=> pc # "flush"
    BY <2>1, <2>2, <2>3
  <2>5. QED
    BY <2>4 DEF rest
<1>8. pc \in {"claim", "flush", "ended"} /\ pc # "ended"
  OBVIOUS
<1> HIDE DEF pc
<1>9. ThreadAt(p, r)
  <2>1. r.out \in Seq(Entries(p)) /\ (r.out = <<>> <=> r.pc # "flush")
    BY <1>4, <1>5, <1>7
  <2>2. Len(r.out) <= Partitions
    <3>1. Len(r.out) = Len(out) - 1
      BY <1>4, <1>5
    <3> DEFINE k == Len(out)
               l == Len(r.out)
    <3>2. l = k - 1 /\ k \in Nat /\ k <= Partitions
      BY <1>3, <1>5, <3>1
    <3> HIDE DEF k, l
    <3>3. l <= Partitions
      BY <3>2, TablePlanAssumption
    <3>4. QED
      BY <3>3 DEF l
  <2>3. r.pc \in {"claim", "flush", "ended"}
    BY <1>4, <1>8
  <2>4. QED
    BY <1>4, <2>1, <2>2, <2>3, ThreadIs
<1>10. \A u \in Threads : ThreadAt(p, new[u])
  BY <1>1, <1>2, <1>9
<1>11. \A u \in Threads : new[u].pc = "ended" => n > Len(MapTasks(p))
  BY <1>1, <1>2, <1>4, <1>8
<1>12. Extended(ex, b) \in Exchanges(p)
  BY <1>1, <1>6, ExtendedIs
<1>13. \A of \in Sides : AllHeld(p, Extended(ex, b), new, n, of)
  <2>1. out = th[t].out /\ OthersKeep(th, new, t) /\ new[t].out = Tail(out)
    BY <1>2, <1>4 DEF OthersKeep, out
  <2>2. b = out[1]
    OBVIOUS
  <2> HIDE DEF b
  <2>3. ASSUME NEW of \in Sides PROVE AllHeld(p, Extended(ex, b), new, n, of)
    <3>1. AllHeld(p, ex, th, n, of)
      BY <1>1
    <3>2. QED
      BY <1>1, <1>3, <1>6, <2>1, <2>2, <3>1, FlushHeld
  <2>4. QED
    BY <2>3
<1>14. MapState(p, Extended(ex, b), new, n)
  BY <1>1, <1>2, <1>10, <1>11, <1>12, <1>13 DEF MapState
<1>15. QED
  BY <1>14 DEF b, out

\* What the second ramp finds of a side.
Gathered(ex, side) ==
  FlattenSeq([q \in 1..Partitions |-> IF side = "build" THEN ex[q].build ELSE ex[q].probe])
IsGathered(rows, scan) ==
  /\ \E T : rows \in Seq(T)
  /\ Same(<<rows>>, Places(<<rows>>, {1}), <<SelectedIn(scan)>>, Places(<<SelectedIn(scan)>>, {1}))

\* With no task and no pocket left, the buffers hold what the tasks found.
LEMMA BuffersHold ==
  ASSUME NEW p, NEW ex \in Exchanges(p), NEW th, \A t \in Threads : th[t].out = <<>>, NEW side \in Sides
  PROVE  LET G == Held(ex, th, side)
             one == <<Gathered(ex, side)>>
         IN  Gathered(ex, side) \in Seq(RowSet(p)) /\ Same(one, Places(one, {1}), G, Places(G, Holders))
<1> DEFINE R == RowSet(p)
           G == Held(ex, th, side)
           of(q) == IF side = "build" THEN ex[q].build ELSE ex[q].probe
           bufs == [q \in 1..Partitions |-> of(q)]
           rows == Gathered(ex, side)
           one == <<rows>>
           h == [q \in 1..Partitions |-> <<"exchange", q, 0>>]
<1>1. \A q \in 1..Partitions : of(q) \in Seq(R) /\ of(q) = BufferOf(ex, q, side)
  BY DEF Exchanges, BufferOf
<1>2. IsHeld(G, ex, th, side)
  BY HeldAs
<1> HIDE DEF of, G, R
<1>3. bufs \in Seq(Seq(R)) /\ DOMAIN bufs = 1..Partitions
  <2>1. bufs \in [1..Partitions -> Seq(R)]
    BY <1>1
  <2> HIDE DEF bufs
  <2>2. bufs \in Seq(Seq(R)) /\ DOMAIN bufs = 1..Partitions
    BY <2>1, TablePlanAssumption
  <2>3. QED
    BY <2>2 DEF bufs
<1>4. \A q \in 1..Partitions : bufs[q] = BufferOf(ex, q, side)
  BY <1>1
<1>5. rows = FlattenSeq(bufs)
  BY DEF Gathered, of
<1> HIDE DEF bufs, rows
<1>6. rows \in Seq(R) /\ Same(one, Places(one, {1}), bufs, Places(bufs, DOMAIN bufs))
  BY <1>3, <1>5, FlattenSame
<1>7. Same(bufs, Places(bufs, DOMAIN bufs), G, Places(G, Buffers))
  <2>1. \A q \in 1..Partitions : h[q] = <<"exchange", q, 0>>
    OBVIOUS
  <2> HIDE DEF h
  <2>2. \A q \in DOMAIN bufs : h[q] \in Buffers /\ G[h[q]] = bufs[q]
    BY <1>2, <1>3, <1>4, <2>1 DEF IsHeld, Buffers
  <2>3. \A q, r \in DOMAIN bufs : h[q] = h[r] => q = r
    <3>1. ASSUME NEW q \in 1..Partitions, NEW r \in 1..Partitions, h[q] = h[r] PROVE q = r
      <4>1. <<"exchange", q, 0>> = <<"exchange", r, 0>>
        BY <2>1, <3>1
      <4>2. QED
        BY <4>1
    <3>2. QED
      BY <1>3, <3>1
  <2>4. \A e \in Buffers : \E q \in DOMAIN bufs : h[q] = e
    BY <1>3, <2>1 DEF Buffers
  <2>5. QED
    BY <2>2, <2>3, <2>4, SameNames
<1>8. Places(G, Holders) = Places(G, Buffers)
  <2>1. \A d \in Pockets : G[d] = <<>>
    <3>1. ASSUME NEW t \in Threads, NEW j \in 1..Partitions PROVE G[<<"thread", t, j>>] = <<>>
      <4>1. G[<<"thread", t, j>>] = Waiting(th[t].out, j, side)
        BY <1>2 DEF IsHeld
      <4>2. QED
        BY <4>1, WaitingNone
    <3>2. QED
      BY <3>1 DEF Pockets
  <2>2. Places(G, Pockets) = {}
    BY <2>1, NoPlaces
  <2>3. Parts(Holders, Buffers, Pockets)
    <3>1. \A e \in Buffers : e[1] = "exchange"
      BY DEF Buffers
    <3>2. \A e \in Pockets : e[1] = "thread"
      BY DEF Pockets
    <3>3. Buffers \cap Pockets = {}
      BY <3>1, <3>2
    <3>4. QED
      BY <3>3 DEF Parts, Holders
  <2>4. Parts(Places(G, Holders), Places(G, Buffers), {})
    BY <2>2, <2>3, PlacesParts
  <2>5. QED
    BY <2>4, PartsNone
<1>9. Same(one, Places(one, {1}), G, Places(G, Holders))
  BY <1>6, <1>7, <1>8, SameTrans
<1>10. QED
  BY <1>6, <1>9 DEF rows, G, R

LEMMA TasksFound ==
  ASSUME NEW ast, NEW p, JoinedPlan(ast, p), NEW side \in Sides,
         \A t \in DOMAIN MapTasks(p) : ~FoundBy(p, t).panic
  PROVE  LET scan == p.scans[SideScan(p, side)]
             one == <<SelectedIn(scan)>>
         IN  Same(FoundIn(p), Places(FoundIn(p), TasksAt(p, side)), one, Places(one, {1}))
<1> DEFINE scan == p.scans[SideScan(p, side)]
           H == FoundIn(p)
           F == [m \in DOMAIN MorselsOf(scan) |-> Found(scan, m).rows]
           D == TasksAt(p, side)
           E == DOMAIN MorselsOf(scan)
           one == <<SelectedIn(scan)>>
<1>1. ReadyScan(ast, scan) /\ \E c0 : c0 \in DOMAIN Tables[scan.table].fields
  BY PlanSides
<1>2. PICK h : IsSide(h, p, side)
  BY SideTasks
<1>3. /\ \A t \in D : h[t] \in E
      /\ \A s, t \in D : h[s] = h[t] => s = t
      /\ \A m \in E : \E t \in D : h[t] = m
  BY <1>2, Zenon DEF IsSide
<1>4. \A t \in D : FoundBy(p, t) = Found(scan, h[t]) /\ ~FoundBy(p, t).panic /\ H[t] = FoundBy(p, t).rows
  <2>1. ASSUME NEW t \in D PROVE FoundBy(p, t) = Found(scan, h[t])
    BY <1>2, FoundByIs
  <2>2. D \subseteq DOMAIN MapTasks(p)
    BY DEF TasksAt
  <2>3. \A t \in DOMAIN MapTasks(p) : H[t] = FoundBy(p, t).rows
    BY DEF FoundIn
  <2> HIDE DEF H, D, scan
  <2>4. QED
    BY <2>1, <2>2, <2>3
<1>5. IsAst(ast)
  BY DEF JoinedPlan
<1>6. \A m \in E : F[m] = Found(scan, m).rows
  OBVIOUS
<1>7. E = DOMAIN MorselsOf(scan)
  OBVIOUS
<1> HIDE DEF F, H, D, E, scan
<1>8. \A m \in E : ~Found(scan, m).panic
  BY <1>3, <1>4
<1>9. \A t \in D : h[t] \in E /\ F[h[t]] = H[t]
  BY <1>3, <1>4, <1>6
<1>10. Same(H, Places(H, D), F, Places(F, E))
  BY <1>3, <1>9, SameNames
<1>11. Same(F, Places(F, E), one, Places(one, {1}))
  <2>1. PICK c0 : c0 \in DOMAIN Tables[scan.table].fields
    BY <1>1
  <2>2. /\ \A m \in DOMAIN MorselsOf(scan) : ~Found(scan, m).panic
        /\ \A m \in DOMAIN MorselsOf(scan) : F[m] = Found(scan, m).rows
    BY <1>6, <1>7, <1>8
  <2>3. QED
    BY <1>1, <1>5, <1>7, <2>1, <2>2, FoundSame
<1>12. Same(H, Places(H, D), one, Places(one, {1}))
  BY <1>10, <1>11, SameTrans
<1>13. QED
  BY <1>12 DEF H, D, scan

\* When all threads have ended.
LEMMA MapEnd ==
  ASSUME NEW ast, NEW p, JoinedPlan(ast, p), NEW ex, NEW th, NEW n, MapState(p, ex, th, n),
         \A t \in Threads : th[t].pc = "ended", NEW side \in Sides
  PROVE  IsGathered(Gathered(ex, side), p.scans[SideScan(p, side)])
<1> DEFINE scan == p.scans[SideScan(p, side)]
           rows == Gathered(ex, side)
           one == <<rows>>
           other == <<SelectedIn(scan)>>
           G == Held(ex, th, side)
           H == FoundIn(p)
<1>1. /\ n \in Nat \ {0} /\ ex \in Exchanges(p)
      /\ \A u \in Threads : ThreadAt(p, th[u])
      /\ \A u \in Threads : th[u].pc = "ended" => n > Len(MapTasks(p))
      /\ \A m \in DOMAIN MapTasks(p) : m < n => ~FoundBy(p, m).panic
      /\ AllHeld(p, ex, th, n, side)
  BY DEF MapState
<1>2. n > Len(MapTasks(p))
  BY <1>1, ThreadsAssumption
<1>3. \A t \in DOMAIN MapTasks(p) : t < n
  BY <1>1, <1>2, SideTasks
<1>4. Claimed(p, side, n) = TasksAt(p, side)
  BY <1>3 DEF Claimed, TasksAt
<1>5. \A t \in Threads : th[t].out = <<>>
  BY <1>1 DEF ThreadAt
<1>6. rows \in Seq(RowSet(p)) /\ Same(one, Places(one, {1}), G, Places(G, Holders))
  BY <1>1, <1>5, BuffersHold
<1>7. Same(G, Places(G, Holders), H, Places(H, TasksAt(p, side)))
  BY <1>1, <1>4 DEF AllHeld
<1>8. Same(H, Places(H, TasksAt(p, side)), other, Places(other, {1}))
  BY <1>1, <1>3, TasksFound
<1> HIDE DEF G, H, rows, scan
<1>9. Same(one, Places(one, {1}), other, Places(other, {1}))
  BY <1>6, <1>7, <1>8, SameTrans
<1>10. IsGathered(rows, scan)
  BY <1>6, <1>9 DEF IsGathered
<1>11. QED
  BY <1>10 DEF rows, scan

\* Until the first ramp nothing is in the exchange; in it, what was found is in the buffers and
\* the pockets; after it, in the buffers.
ShuffleInv ==
  /\ stage = "text" => exchange = NoRows /\ next = 1 /\ thread = NoThreads
  /\ stage \in {"map", "join"} => JoinedPlan(StatementOf(query).v, plan)
  /\ stage = "map" => MapState(plan, exchange, thread, next)
  /\ stage = "join" =>
       \A side \in Sides : IsGathered(Gathered(exchange, side), plan.scans[SideScan(plan, side)])

LEMMA InitShuffle == Init => ShuffleInv
BY DEF Init, ShuffleInv, NoRows

LEMMA PlanQueryShuffle == PlanInv' /\ ShuffleInv /\ PlanQuery => ShuffleInv'
<1> SUFFICES ASSUME PlanInv', ShuffleInv, PlanQuery PROVE ShuffleInv'
  OBVIOUS
<1> DEFINE ast == StatementOf(query).v
           p == PlanOf(StatementOf(query))
<1>1. /\ exchange = NoRows /\ next = 1 /\ thread = NoThreads
      /\ query' = query /\ exchange' = exchange /\ next' = next /\ thread' = thread
      /\ Begin(p)
  BY Zenon DEF PlanQuery, ShuffleInv
<1> HIDE DEF p
<1>2. plan' = p
  BY <1>1 DEF Begin, Broadcast
<1>3. stage' # "text" /\ stage' # "join"
  BY <1>1 DEF Begin, Broadcast, RampOf
<1>4. ASSUME stage' = "map" PROVE p.ok /\ p.join # NoJoin
  BY <1>1, <1>4 DEF Begin, Broadcast, RampOf
<1>5. ASSUME stage' = "map" PROVE JoinedPlan(ast, p)
  <2>1. p.ok /\ p.join # NoJoin
    BY <1>4, <1>5
  <2>2. query \in Queries /\ (p.ok => StatementOf(query).ok) /\ PlanSound(ast, p)
    BY <1>1, <1>2, Zenon DEF PlanInv
  <2>3. IsAst(ast)
    BY <2>1, <2>2 DEF IsAst
  <2>4. QED
    BY <2>1, <2>2, <2>3 DEF JoinedPlan
<1>6. ASSUME stage' = "map" PROVE MapState(p, NoRows, NoThreads, 1)
  BY <1>5, <1>6, MapInit
<1>7. stage' = "map" => JoinedPlan(StatementOf(query').v, plan') /\ MapState(plan', exchange', thread', next')
  BY <1>1, <1>2, <1>5, <1>6, Zenon
<1>8. QED
  BY <1>3, <1>7 DEF ShuffleInv

LEMMA ClaimShuffle ==
  ASSUME ShuffleInv, NEW t \in Threads, Claim(t)
  PROVE  ShuffleInv'
<1>1. /\ stage \in Ramps /\ thread[t].pc = "claim" /\ next <= Len(Tasks(stage)) /\ next' = next + 1
      /\ query' = query /\ plan' = plan /\ exchange' = exchange
  BY DEF Claim
<1>2. CASE stage = "join"
  <2>1. stage' = "join"
    BY <1>2 DEF Claim
  <2>2. QED
    BY <1>1, <1>2, <2>1, Zenon DEF ShuffleInv
<1>3. CASE stage # "join" /\ stage # "map"
  <2>1. stage' \in {stage, "panicked"}
    BY <1>3 DEF Claim, ScanMorsel, RunMorsel
  <2>2. stage' # "text" /\ stage' # "join" /\ stage' # "map"
    BY <1>1, <1>3, <2>1 DEF Ramps
  <2>3. QED
    BY <2>2 DEF ShuffleInv
<1>4. CASE stage = "map"
  <2> DEFINE ast == StatementOf(query).v
             n == next
             task == MapTasks(plan)[n]
             found == FoundBy(plan, n)
             side == task.side
             key == IF side = "build" THEN JoinOf(plan).build_key ELSE JoinOf(plan).probe_key
             part == [thread[t].part EXCEPT !.scanned = @ + Len(found.rows)]
             out == Buckets(side, key, found.rows)
  <2>1. JoinedPlan(ast, plan) /\ MapState(plan, exchange, thread, n)
    BY <1>4 DEF ShuffleInv
  <2>2. Tasks("map") = MapTasks(plan)
    BY TasksMap
  <2>3. n \in DOMAIN MapTasks(plan)
    <3>1. n \in Nat \ {0}
      BY <2>1 DEF MapState
    <3>2. DOMAIN MapTasks(plan) = 1..Len(MapTasks(plan)) /\ Len(MapTasks(plan)) \in Nat
      BY <2>1, SideTasks
    <3>3. QED
      BY <1>1, <1>4, <2>2, <3>1, <3>2
  <2>4. ScanMorsel(t, task)
    BY <1>4, <2>2, Zenon DEF Claim
  <2>5. RunMorsel(t, side, found)
    BY <2>4, Zenon DEF ScanMorsel, FoundBy
  <2>6. stage' = IF found.panic THEN "panicked" ELSE stage
    BY <2>5, Zenon DEF RunMorsel
  <2>7. thread' = [thread EXCEPT ![t] = [pc |-> IF out = <<>> THEN "claim" ELSE "flush",
                                         part |-> part, out |-> out]]
    BY <1>4, <2>5 DEF RunMorsel
  <2>8. CASE found.panic
    <3>1. stage' = "panicked"
      BY <2>6, <2>8
    <3>2. QED
      BY <3>1 DEF ShuffleInv
  <2>9. CASE ~found.panic
    <3>1. stage' = "map"
      BY <1>4, <2>6, <2>9
    <3>2. key = SideKey(plan, side)
      BY DEF SideKey
    <3> HIDE DEF key, part, ast
    <3>3. out = Buckets(side, SideKey(plan, side), FoundBy(plan, n).rows)
      BY <3>2
    <3> HIDE DEF out
    <3>4. MapState(plan, exchange, thread', n + 1)
      BY <1>1, <2>1, <2>3, <2>7, <2>9, <3>3, MapClaim
    <3>5. QED
      BY <1>1, <2>1, <3>1, <3>4 DEF ShuffleInv, ast
  <2>10. QED
    BY <2>8, <2>9
<1>5. QED
  BY <1>2, <1>3, <1>4

LEMMA FlushShuffle ==
  ASSUME ShuffleInv, NEW t \in Threads, Flush(t)
  PROVE  ShuffleInv'
<1> DEFINE out == thread[t].out
           b == out[1]
<1>1. /\ stage = "map" /\ thread[t].pc = "flush"
      /\ query' = query /\ stage' = stage /\ plan' = plan /\ next' = next
      /\ thread' = [thread EXCEPT ![t].out = Tail(@),
                                  ![t].pc = IF Len(thread[t].out) = 1 THEN "claim" ELSE "flush"]
  BY Zenon DEF Flush
<1>2. exchange' = Extended(exchange, b)
  BY DEF Flush, Extended
<1>3. JoinedPlan(StatementOf(query).v, plan) /\ MapState(plan, exchange, thread, next)
  BY <1>1 DEF ShuffleInv
<1>4. MapState(plan, Extended(exchange, thread[t].out[1]), thread', next)
  BY <1>1, <1>3, MapFlush
<1>5. MapState(plan', exchange', thread', next') /\ JoinedPlan(StatementOf(query').v, plan')
  BY <1>1, <1>2, <1>3, <1>4
<1>6. stage' = "map"
  BY <1>1
<1>7. QED
  BY <1>5, <1>6 DEF ShuffleInv

LEMMA HandInShuffle ==
  ASSUME ShuffleInv, NEW t \in Threads, HandIn(t)
  PROVE  ShuffleInv'
<1>1. /\ stage \in Ramps /\ thread[t].pc = "claim" /\ next > Len(Tasks(stage))
      /\ thread' = [thread EXCEPT ![t].pc = "ended"]
      /\ query' = query /\ stage' = stage /\ plan' = plan /\ exchange' = exchange /\ next' = next
  BY DEF HandIn
<1>2. CASE stage = "map"
  <2>1. JoinedPlan(StatementOf(query).v, plan) /\ MapState(plan, exchange, thread, next)
    BY <1>2 DEF ShuffleInv
  <2>2. next > Len(MapTasks(plan))
    BY <1>1, <1>2, TasksMap
  <2>3. MapState(plan, exchange, thread', next)
    BY <1>1, <2>1, <2>2, MapHandIn
  <2>4. QED
    BY <1>1, <1>2, <2>1, <2>3 DEF ShuffleInv
<1>3. CASE stage # "map"
  <2>1. stage' # "text" /\ stage' # "map"
    BY <1>1, <1>3 DEF Ramps
  <2>2. QED
    BY <1>1, <2>1, Zenon DEF ShuffleInv
<1>4. QED
  BY <1>2, <1>3

LEMMA EndRampShuffle ==
  ASSUME ShuffleInv, EndRamp
  PROVE  ShuffleInv'
<1>1. /\ \A t \in Threads : thread[t].pc = "ended"
      /\ stage' = IF stage = "map" THEN "join" ELSE "merge"
      /\ query' = query /\ plan' = plan /\ exchange' = exchange
  BY DEF EndRamp
<1>2. CASE stage = "map"
  <2>1. JoinedPlan(StatementOf(query).v, plan) /\ MapState(plan, exchange, thread, next)
    BY <1>2 DEF ShuffleInv
  <2>2. ASSUME NEW side \in Sides
        PROVE  IsGathered(Gathered(exchange, side), plan.scans[SideScan(plan, side)])
    BY <1>1, <2>1, MapEnd
  <2>3. stage' = "join"
    BY <1>1, <1>2
  <2>4. QED
    BY <1>1, <2>1, <2>2, <2>3, Zenon DEF ShuffleInv
<1>3. CASE stage # "map"
  <2>1. stage' = "merge"
    BY <1>1, <1>3
  <2>2. QED
    BY <2>1 DEF ShuffleInv
<1>4. QED
  BY <1>2, <1>3

LEMMA NextShuffle == PlanInv /\ ShuffleInv /\ [Next]_vars => ShuffleInv'
<1> SUFFICES ASSUME PlanInv, ShuffleInv, [Next]_vars PROVE ShuffleInv'
  OBVIOUS
<1>1. CASE PlanQuery
  BY <1>1, NextPlan, PlanQueryShuffle
<1>2. ASSUME NEW t \in Threads, Claim(t) \/ Flush(t) \/ HandIn(t) PROVE ShuffleInv'
  BY <1>2, ClaimShuffle, FlushShuffle, HandInShuffle
<1>3. CASE EndRamp
  BY <1>3, EndRampShuffle
<1>4. CASE Merge
  <2>1. stage' \in {"panicked", "answered"}
    BY <1>4 DEF Merge
  <2>2. QED
    BY <2>1 DEF ShuffleInv
<1>5. CASE Rest \/ UNCHANGED vars
  <2>1. UNCHANGED vars
    BY <1>5 DEF Rest
  <2>2. query' = query /\ stage' = stage /\ plan' = plan /\ exchange' = exchange /\ next' = next /\ thread' = thread
    BY <2>1 DEF vars
  <2>3. QED
    BY <2>2, Zenon DEF ShuffleInv
<1>6. QED
  BY <1>1, <1>2, <1>3, <1>4, <1>5 DEF Next

LEMMA SideIsExact ==
  ASSUME NEW rows, NEW scan, NEW ast, ReadyScan(ast, scan), NEW c0 \in DOMAIN Tables[scan.table].fields,
         IsGathered(rows, scan)
  PROVE  /\ Len(rows) = Len(SelectedIn(scan))
         /\ \A r : Occurrences(rows, r) = Occurrences(SelectedIn(scan), r)
<1> DEFINE other == SelectedIn(scan)
<1>1. \E U : other \in Seq(U)
  BY SelectedSame
<1>2. PICK T : rows \in Seq(T)
  BY DEF IsGathered
<1>3. Same(<<rows>>, Places(<<rows>>, {1}), <<other>>, Places(<<other>>, {1}))
  BY DEF IsGathered
<1> HIDE DEF other
<1>4. PICK U : other \in Seq(U)
  BY <1>1
<1> DEFINE G == <<rows>>
           H == <<other>>
<1>5. G[1] = rows /\ H[1] = other /\ Same(G, Places(G, {1}), H, Places(H, {1}))
  BY <1>3
<1> HIDE DEF G, H
<1>6. Len(rows) = Len(other) /\ \A r : Occurrences(rows, r) = Occurrences(other, r)
  BY <1>2, <1>4, <1>5, SameOccurrences
<1>7. QED
  BY <1>6 DEF other

\* Every row that a claimed task of the first ramp found is in one exchange buffer, or still in
\* one pocket of the thread that found it, once (the fetch_add loop of run_ramped, and the map
\* task of execute with one lock after the other); when the ramp is over, in a buffer.
THEOREM RowsAreSomewhere == Spec => []ShuffleInv
<1>1. PlanInv /\ ShuffleInv /\ [Next]_vars => PlanInv' /\ ShuffleInv'
  BY NextPlan, NextShuffle
<1>2. QED
  BY <1>1, InitPlan, InitShuffle, PTL DEF Spec

\* When the second ramp of a shuffle begins, the exchange buffers hold every selected row of
\* both sides once (execute's map and join ramps, scan_rowgroup), for all tables, statements,
\* numbers of threads and partitions, whichever thread claimed which morsel: what the predicates
\* select is by definition over the rows as written, pruned files and empty selections included.
THEOREM ExchangeHoldsAll == Spec => []ExchangeComplete
<1>1. ShuffleInv => ExchangeComplete
  <2> SUFFICES ASSUME ShuffleInv, stage = "join",
                      NEW s \in {<<"build", JoinOf(plan).build>>, <<"probe", JoinOf(plan).probe>>}
               PROVE  /\ Len(SideIn(s[1])) = Len(Selected(s[2]))
                      /\ \A r \in ToSet(Selected(s[2])) :
                           Occurrences(SideIn(s[1]), r) = Occurrences(Selected(s[2]), r)
    BY DEF ExchangeComplete
  <2> DEFINE side == s[1]
             scan == plan.scans[s[2]]
             ast == StatementOf(query).v
  <2>1. side \in Sides /\ s[2] = SideScan(plan, side)
    BY DEF Sides, SideScan
  <2>2. JoinedPlan(ast, plan)
    BY DEF ShuffleInv
  <2>3. IsGathered(Gathered(exchange, side), plan.scans[SideScan(plan, side)])
    BY <2>1 DEF ShuffleInv
  <2>4. SideIn(side) = Gathered(exchange, side)
    BY Zenon DEF SideIn, Gathered
  <2>5. Selected(s[2]) = SelectedIn(scan)
    BY Zenon DEF Selected, SelectedIn, HitsOf
  <2>6. ReadyScan(ast, scan) /\ \E c0 : c0 \in DOMAIN Tables[scan.table].fields
    BY <2>1, <2>2, PlanSides
  <2>7. IsGathered(SideIn(side), scan)
    BY <2>1, <2>3, <2>4
  <2> HIDE DEF side, scan, ast
  <2>8. /\ Len(SideIn(side)) = Len(SelectedIn(scan))
        /\ \A r : Occurrences(SideIn(side), r) = Occurrences(SelectedIn(scan), r)
    BY <2>6, <2>7, SideIsExact
  <2>9. QED
    BY <2>5, <2>8 DEF side
<1>2. QED
  BY <1>1, RowsAreSomewhere, PTL

=============================================================================
