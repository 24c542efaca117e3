------------------------ MODULE IcebergTablesProofs ------------------------
(***************************************************************************)
(* The programs that write Iceberg tables, for all tables, partitions,     *)
(* readers and bounds.                                                     *)
(***************************************************************************)
EXTENDS IcebergTables, WellFoundedInduction, SequenceTheorems, FiniteSetTheorems, TLAPS

-----------------------------------------------------------------------------
(* Sets of numbers.                                                        *)

LEMMA NatOrder ==
  \E R : IsWellFoundedOn(R, Nat) /\ \A x, y \in Nat : y < x => <<y, x>> \in R
<1>1. \A x, y \in Nat : y < x => <<y, x>> \in OpToRel(<, Nat)
  BY DEF OpToRel
<1>2. QED
  BY <1>1, NatLessThanWellFounded, Zenon

LEMMA LeastNat ==
  ASSUME NEW T, T \subseteq Nat, T # {}
  PROVE  \E x \in T : \A y \in T : x <= y
<1>1. PICK R : IsWellFoundedOn(R, Nat) /\ \A x, y \in Nat : y < x => <<y, x>> \in R
  BY NatOrder
<1>2. PICK x \in T : \A y \in T : ~(<<y, x>> \in R)
  BY <1>1, WFMin
<1>3. ASSUME NEW y \in T PROVE x <= y
  <2>1. x \in Nat /\ y \in Nat
    OBVIOUS
  <2>2. ~(y < x)
    BY <1>1, <1>2, <2>1
  <2>3. QED
    BY <2>1, <2>2
<1>4. QED
  BY <1>3

\* The minimum and the maximum of a set of numbers that has a bound.
LEMMA Least ==
  ASSUME NEW lb \in Int, NEW S, S # {}, \A v \in S : v \in Int /\ v >= lb
  PROVE  Min(S) \in S /\ \A v \in S : Min(S) <= v
<1> DEFINE T == {v - lb : v \in S}
<1>1. T \subseteq Nat /\ T # {}
  OBVIOUS
<1>2. PICK x \in T : \A y \in T : x <= y
  BY <1>1, LeastNat
<1>3. PICK m \in S : x = m - lb
  BY <1>2
<1>4. \A v \in S : v - lb \in T
  OBVIOUS
<1> HIDE DEF T
<1>5. \A v \in S : m <= v
  BY <1>2, <1>3, <1>4
<1>6. QED
  BY <1>5 DEF Min

LEMMA Greatest ==
  ASSUME NEW ub \in Int, NEW S, S # {}, \A v \in S : v \in Int /\ v <= ub
  PROVE  Max(S) \in S /\ \A v \in S : Max(S) >= v
<1> DEFINE T == {ub - v : v \in S}
<1>1. T \subseteq Nat /\ T # {}
  OBVIOUS
<1>2. PICK x \in T : \A y \in T : x <= y
  BY <1>1, LeastNat
<1>3. PICK m \in S : x = ub - m
  BY <1>2
<1>4. \A v \in S : ub - v \in T
  OBVIOUS
<1> HIDE DEF T
<1>5. \A v \in S : m >= v
  BY <1>2, <1>3, <1>4
<1>6. QED
  BY <1>5 DEF Max

\* The least of a set of numbers is the one below all others.
LEMMA MinIs ==
  ASSUME NEW S \in SUBSET Int, NEW m \in S, \A v \in S : m <= v
  PROVE  Min(S) = m
<1> DEFINE x == CHOOSE x \in S : \A v \in S : x <= v
<1>1. x \in S /\ x <= m
  OBVIOUS
<1>2. m <= x /\ x \in Int /\ m \in Int
  BY <1>1
<1>3. x = m
  BY <1>1, <1>2
<1>4. QED
  BY <1>3 DEF Min

LEMMA MinOne ==
  ASSUME NEW m \in Int
  PROVE  Min({m}) = m
<1>1. {m} \in SUBSET Int /\ m \in {m} /\ \A v \in {m} : m <= v
  OBVIOUS
<1>2. QED
  BY <1>1, MinIs

-----------------------------------------------------------------------------
(* Pick.                                                                   *)

Rank(I, i) == Cardinality({h \in I : h <= i})

LEMMA RankType ==
  ASSUME NEW I \in SUBSET Nat, IsFiniteSet(I), NEW i \in I
  PROVE  Rank(I, i) \in 1..Cardinality(I)
<1> DEFINE H == {h \in I : h <= i}
<1>1. H \in SUBSET I /\ i \in H
  OBVIOUS
<1>2. IsFiniteSet(H) /\ Cardinality(H) <= Cardinality(I)
  BY <1>1, FS_Subset
<1>3. Cardinality(H) \in Nat /\ Cardinality(I) \in Nat /\ Cardinality(H) # 0
  BY <1>1, <1>2, FS_CardinalityType, FS_EmptySet
<1>4. QED
  BY <1>2, <1>3 DEF Rank

LEMMA RankIncreases ==
  ASSUME NEW I \in SUBSET Nat, IsFiniteSet(I), NEW i \in I, NEW j \in I, i < j
  PROVE  Rank(I, i) < Rank(I, j)
<1> DEFINE H(x) == {h \in I : h <= x}
<1>1. H(j) \in SUBSET I /\ H(i) \in SUBSET H(j) /\ H(i) # H(j)
  <2>1. j \in H(j) /\ j \notin H(i)
    OBVIOUS
  <2>2. \A h \in I : h <= i => h <= j
    OBVIOUS
  <2>3. QED
    BY <2>1, <2>2
<1>2. IsFiniteSet(H(j))
  BY <1>1, FS_Subset
<1>3. IsFiniteSet(H(i)) /\ Cardinality(H(i)) <= Cardinality(H(j)) /\ Cardinality(H(j)) # Cardinality(H(i))
  BY <1>1, <1>2, FS_Subset
<1>4. Cardinality(H(i)) \in Nat /\ Cardinality(H(j)) \in Nat
  BY <1>2, <1>3, FS_CardinalityType
<1>5. QED
  BY <1>3, <1>4 DEF Rank

\* Every number up to the cardinality is the rank of an element.
LEMMA RankAttained ==
  ASSUME NEW I \in SUBSET Nat, IsFiniteSet(I), NEW q \in 1..Cardinality(I)
  PROVE  \E i \in I : Rank(I, i) = q
<1> DEFINE n == Cardinality(I)
           f == [i \in I |-> Rank(I, i)]
<1>1. n \in Nat
  BY FS_CardinalityType
<1>2. IsFiniteSet(1..n) /\ Cardinality(1..n) = n
  BY <1>1, FS_Interval
<1>3. f \in [I -> 1..n]
  BY RankType
<1>4. ASSUME NEW i \in I, NEW j \in I, f[i] = f[j] PROVE i = j
  <2>1. Rank(I, i) = Rank(I, j) /\ Rank(I, i) \in Nat
    BY <1>4, RankType
  <2>2. ~(i < j) /\ ~(j < i)
    BY <2>1, RankIncreases
  <2>3. QED
    BY <2>2
<1>5. f \in Injection(I, 1..n)
  BY <1>3, <1>4, Zenon DEF Injection, IsInjective
<1> HIDE DEF f
<1>6. f \in Surjection(I, 1..n)
  BY <1>2, <1>5, FS_Injection
<1>7. \E i \in I : f[i] = q
  BY <1>6 DEF Surjection
<1>8. QED
  BY <1>7 DEF f

\* Pick has an element of s for each index, each at a place of its own.
LEMMA PickProperties ==
  ASSUME NEW s, NEW I \in SUBSET Nat, IsFiniteSet(I)
  PROVE  \E at \in [1..Cardinality(I) -> I] :
           /\ Pick(s, I) = [q \in 1..Cardinality(I) |-> s[at[q]]]
           /\ \A j, q \in 1..Cardinality(I) : at[j] = at[q] => j = q
           /\ \A i \in I : \E q \in 1..Cardinality(I) : at[q] = i
<1> DEFINE n == Cardinality(I)
           at == [q \in 1..n |-> CHOOSE i \in I : Rank(I, i) = q]
<1>1. \A q \in 1..n : at[q] \in I /\ Rank(I, at[q]) = q
  BY RankAttained
<1>2. Pick(s, I) = [q \in 1..n |-> s[at[q]]]
  BY DEF Pick, Rank
<1> HIDE DEF at
<1>3. \A i \in I : at[Rank(I, i)] = i
  <2> TAKE i \in I
  <2> DEFINE j == at[Rank(I, i)]
  <2>1. j \in I /\ Rank(I, j) = Rank(I, i) /\ Rank(I, i) \in Nat
    BY <1>1, RankType
  <2> HIDE DEF j
  <2>2. ~(i < j) /\ ~(j < i)
    BY <2>1, RankIncreases
  <2>3. i \in Nat /\ j \in Nat
    BY <2>1
  <2>4. i = j
    BY <2>2, <2>3
  <2>5. QED
    BY <2>4 DEF j
<1>4. at \in [1..n -> I]
  BY <1>1 DEF at
<1>5. QED
  BY <1>1, <1>2, <1>3, <1>4, RankType

\* What is picked in full is what it was.
LEMMA PickAll ==
  ASSUME NEW n \in Nat, NEW s, DOMAIN s = 1..n, s = [i \in 1..n |-> s[i]]
  PROVE  Pick(s, 1..n) = s
<1>1. IsFiniteSet(1..n) /\ Cardinality(1..n) = n
  BY FS_Interval
<1>2. ASSUME NEW i \in 1..n PROVE Rank(1..n, i) = i
  <2>1. {h \in 1..n : h <= i} = 1..i
    OBVIOUS
  <2>2. Cardinality(1..i) = i
    BY FS_Interval
  <2>3. QED
    BY <2>1, <2>2 DEF Rank
<1>3. \A q \in 1..n : (CHOOSE i \in 1..n : Rank(1..n, i) = q) = q
  BY <1>2
<1>4. Pick(s, 1..n) = [q \in 1..n |-> s[CHOOSE i \in 1..n : Rank(1..n, i) = q]]
  BY <1>1 DEF Pick, Rank
<1>5. Pick(s, 1..n) = [q \in 1..n |-> s[q]]
  BY <1>3, <1>4
<1>6. QED
  BY <1>5

-----------------------------------------------------------------------------
(* What is written is what is read: metadata, manifests and their lists.   *)

IsTable(tab) ==
  /\ tab = [uuid |-> tab.uuid, location |-> tab.location, fields |-> tab.fields,
              current |-> tab.current, snapshots |-> tab.snapshots,
              last_sequence_number |-> tab.last_sequence_number]
  /\ IsFields(tab.fields)
  /\ tab.snapshots = [i \in DOMAIN tab.snapshots |->
                          [id |-> tab.snapshots[i].id, list |-> tab.snapshots[i].list]]

LEMMA MetadataReadBack ==
  ASSUME NEW tab, IsTable(tab), NEW f, NEW path \in DOMAIN f, f[path] = Metadata(tab)
  PROVE  ReadMetadata(f, path) = [how |-> "ok", table |-> tab]
<1> DEFINE doc == Metadata(tab)[1]
           fields == tab.fields
           schema == [schema_id |-> 0,
                      fields |-> [i \in DOMAIN fields |->
                                    [id |-> fields[i].id, name |-> fields[i].name,
                                     type |-> TypeStr(fields[i].dtype)]]]
           at == {i \in DOMAIN doc.schemas : doc.schemas[i].schema_id = doc.current_schema_id}
<1>1. /\ f[path] = <<doc>>
      /\ doc.schemas = <<schema>> /\ doc.current_schema_id = 0
      /\ doc.uuid = tab.uuid /\ doc.location = tab.location
      /\ doc.current_snapshot_id = tab.current
      /\ doc.last_sequence_number = tab.last_sequence_number
      /\ doc.snapshots = [i \in DOMAIN tab.snapshots |->
                            [id |-> tab.snapshots[i].id, sequence_number |-> i,
                             list |-> tab.snapshots[i].list]]
  BY DEF Metadata
<1>2. f[path] # <<>> /\ f[path][1] = doc
  BY <1>1
<1> HIDE DEF doc
<1>3. at = {1}
  BY <1>1
<1>4. Min(at) = 1
  BY <1>3, MinOne
<1>5. doc.schemas[Min(at)] = schema
  <2> HIDE DEF schema, at
  <2>1. QED
    BY <1>1, <1>4
<1>6. \A i \in DOMAIN fields :
         /\ fields[i] = [id |-> fields[i].id, name |-> fields[i].name, dtype |-> fields[i].dtype]
         /\ TypeOf(TypeStr(fields[i].dtype)) = fields[i].dtype
  <2> HIDE DEF fields
  <2>1. IsFields(fields)
    BY DEF IsTable, fields
  <2>2. QED
    BY <2>1 DEF IsFields, TypeOf, TypeStr
<1>7. fields = [i \in DOMAIN fields |-> fields[i]]
  <2> HIDE DEF fields
  <2>1. IsFields(fields)
    BY DEF IsTable, fields
  <2>2. QED
    BY <2>1 DEF IsFields
<1>8. [i \in DOMAIN schema.fields |->
         [id |-> schema.fields[i].id, name |-> schema.fields[i].name,
          dtype |-> TypeOf(schema.fields[i].type)]] = fields
  <2> DEFINE s == schema.fields
  <2>1. DOMAIN s = DOMAIN fields
    OBVIOUS
  <2>2. \A i \in DOMAIN fields :
          /\ s[i].id = fields[i].id /\ s[i].name = fields[i].name
          /\ s[i].type = TypeStr(fields[i].dtype)
    OBVIOUS
  <2> HIDE DEF s, fields
  <2>3. \A i \in DOMAIN fields :
          [id |-> s[i].id, name |-> s[i].name, dtype |-> TypeOf(s[i].type)] = fields[i]
    BY <1>6, <2>2
  <2>4. [i \in DOMAIN s |-> [id |-> s[i].id, name |-> s[i].name, dtype |-> TypeOf(s[i].type)]] = fields
    BY <1>7, <2>1, <2>3
  <2>5. QED
    BY <2>4 DEF s
<1>9. [i \in DOMAIN doc.snapshots |-> [id |-> doc.snapshots[i].id, list |-> doc.snapshots[i].list]]
        = tab.snapshots
  BY <1>1 DEF IsTable
<1> DEFINE got == [uuid |-> doc.uuid, location |-> doc.location,
                   fields |-> [i \in DOMAIN schema.fields |->
                                 [id |-> schema.fields[i].id, name |-> schema.fields[i].name,
                                  dtype |-> TypeOf(schema.fields[i].type)]],
                   current |-> doc.current_snapshot_id,
                   snapshots |-> [i \in DOMAIN doc.snapshots |->
                                    [id |-> doc.snapshots[i].id, list |-> doc.snapshots[i].list]],
                   last_sequence_number |-> doc.last_sequence_number]
<1>10. got = tab
  BY <1>1, <1>8, <1>9 DEF IsTable
<1>11. ReadMetadata(f, path) = [how |-> "ok", table |-> got]
  BY <1>2, <1>5 DEF ReadMetadata
<1>12. QED
  BY <1>10, <1>11

\* The field of a record is the first one of its name.
FirstField(fields, n, q, name) ==
  /\ n \in Nat /\ DOMAIN fields = 1..n
  /\ q \in 1..n /\ fields[q][1] = name
  /\ \A i \in 1..n : fields[i][1] = name => q <= i

LEMMA FieldIs ==
  ASSUME NEW v, NEW fields, v[2] = fields, NEW n, NEW q, NEW name, FirstField(fields, n, q, name)
  PROVE  FieldOf(v, name) = fields[q][2]
<1> DEFINE at == {i \in DOMAIN fields : fields[i][1] = name}
<1>1. at \in SUBSET Int /\ q \in at /\ \A i \in at : q <= i
  BY DEF FirstField
<1>2. Min(at) = q
  BY <1>1, MinIs
<1>3. QED
  BY <1>2 DEF FieldOf

\* Data files as they are listed, the bounds of each for fields of their own.
IsBounds(bounds) ==
  /\ IsSeq(bounds)
  /\ bounds = [b \in DOMAIN bounds |-> [id |-> bounds[b].id, lo |-> bounds[b].lo, hi |-> bounds[b].hi]]
  /\ \A a, b \in DOMAIN bounds : bounds[a].id = bounds[b].id => a = b
IsFile(f) ==
  /\ f = [path |-> f.path, file_size |-> f.file_size, record_count |-> f.record_count,
          bounds |-> f.bounds]
  /\ IsBounds(f.bounds)
AreFiles(listed) ==
  /\ IsSeq(listed)
  /\ listed = [i \in DOMAIN listed |-> listed[i]]
  /\ \A i \in DOMAIN listed : IsFile(listed[i])

LEMMA BoundsReadBack ==
  ASSUME NEW bounds, IsBounds(bounds)
  PROVE  PairBounds([b \in DOMAIN bounds |-> <<bounds[b].id, bounds[b].lo>>],
                    [b \in DOMAIN bounds |-> <<bounds[b].id, bounds[b].hi>>]) = bounds
<1> DEFINE n == Len(bounds)
           lows == [b \in DOMAIN bounds |-> <<bounds[b].id, bounds[b].lo>>]
           highs == [b \in DOMAIN bounds |-> <<bounds[b].id, bounds[b].hi>>]
           of(id) == {h \in DOMAIN highs : highs[h][1] = id}
           found == {l \in DOMAIN lows : of(lows[l][1]) # {}}
<1>1. n \in Nat /\ DOMAIN bounds = 1..n
  BY DEF IsBounds, IsSeq
<1>2. \A b \in 1..n : of(lows[b][1]) = {b}
  BY <1>1 DEF IsBounds
<1>3. found = 1..n
  BY <1>1, <1>2
<1>4. Pick(lows, found) = lows
  <2>1. DOMAIN lows = 1..n /\ lows = [b \in 1..n |-> lows[b]]
    BY <1>1
  <2> HIDE DEF lows, found
  <2>2. QED
    BY <1>1, <1>3, <2>1, PickAll
<1>5. \A b \in 1..n : Min(of(lows[b][1])) = b
  <2> TAKE b \in 1..n
  <2>1. b \in Int
    BY <1>1
  <2> HIDE DEF of, lows
  <2>2. QED
    BY <1>2, <2>1, MinOne
<1>6. PairBounds(lows, highs)
        = [i \in DOMAIN Pick(lows, found) |->
             [id |-> Pick(lows, found)[i][1], lo |-> Pick(lows, found)[i][2],
              hi |-> highs[Min(of(Pick(lows, found)[i][1]))][2]]]
  BY Zenon DEF PairBounds
<1>7. PairBounds(lows, highs)
        = [i \in 1..n |-> [id |-> lows[i][1], lo |-> lows[i][2], hi |-> highs[Min(of(lows[i][1]))][2]]]
  <2>1. DOMAIN lows = 1..n
    BY <1>1
  <2> HIDE DEF lows, highs, of, found
  <2>2. QED
    BY <1>4, <1>6, <2>1
<1>8. PairBounds(lows, highs)
        = [i \in 1..n |-> [id |-> lows[i][1], lo |-> lows[i][2], hi |-> highs[i][2]]]
  <2> HIDE DEF lows, highs, of
  <2>1. QED
    BY <1>5, <1>7
<1>9. QED
  BY <1>1, <1>8 DEF IsBounds

\* parse_b reads what bounds_value has made.
LEMMA ParseReadBack ==
  ASSUME NEW b
  PROVE  ParseBounds(BoundsValue(b)) = [i \in DOMAIN b |-> <<b[i][1], b[i][2]>>]
<1> DEFINE key(i) == <<"key", <<"int", b[i][1]>>>>
           value(i) == <<"value", <<"bytes", b[i][2]>>>>
           items == [i \in DOMAIN b |-> <<"record", <<key(i), value(i)>>>>]
<1>1. BoundsValue(b) = <<"union", 1, <<"array", items>>>>
  BY DEF BoundsValue, Value
<1>2. \A i \in DOMAIN b : /\ FieldOf(items[i], "key") = <<"int", b[i][1]>>
                          /\ FieldOf(items[i], "value") = <<"bytes", b[i][2]>>
  <2> TAKE i \in DOMAIN b
  <2> DEFINE s == <<key(i), value(i)>>
  <2>1. /\ DOMAIN s = 1..2 /\ 2 \in Nat /\ 1 \in 1..2 /\ 2 \in 1..2
        /\ s[1][1] = "key" /\ s[1][2] = <<"int", b[i][1]>>
        /\ s[2][1] = "value" /\ s[2][2] = <<"bytes", b[i][2]>>
    OBVIOUS
  <2>2. FirstField(s, 2, 1, "key") /\ FirstField(s, 2, 2, "value")
    BY <2>1 DEF FirstField
  <2>3. items[i][2] = s
    OBVIOUS
  <2> HIDE DEF s, items
  <2>4. FieldOf(items[i], "key") = s[1][2]
    BY <2>2, <2>3, FieldIs
  <2>5. FieldOf(items[i], "value") = s[2][2]
    BY <2>2, <2>3, FieldIs
  <2>6. QED
    BY <2>1, <2>3, <2>4, <2>5
<1> HIDE DEF items
<1>3. Flat(BoundsValue(b)) = <<"array", items>>
  BY <1>1 DEF Flat
<1>4. \A i \in DOMAIN b :
        <<Flat(FieldOf(items[i], "key"))[2], Flat(FieldOf(items[i], "value"))[2]>> = <<b[i][1], b[i][2]>>
  BY <1>2 DEF Flat
<1>5. DOMAIN items = DOMAIN b
  BY DEF items
<1>6. ParseBounds(BoundsValue(b))
        = [i \in DOMAIN items |->
             <<Flat(FieldOf(items[i], "key"))[2], Flat(FieldOf(items[i], "value"))[2]>>]
  BY <1>3 DEF ParseBounds
<1>7. QED
  BY <1>4, <1>5, <1>6

\* An entry of a manifest gives the data file that was listed.
LEMMA EntryReadBack ==
  ASSUME NEW snap, NEW f, IsFile(f)
  PROVE  /\ FileOf(FieldOf(ManifestEntry(snap, f), "data_file")) = f
         /\ Flat(FieldOf(ManifestEntry(snap, f), "status"))[2] # Deleted
<1> DEFINE lows == [i \in DOMAIN f.bounds |-> <<f.bounds[i].id, f.bounds[i].lo>>]
           highs == [i \in DOMAIN f.bounds |-> <<f.bounds[i].id, f.bounds[i].hi>>]
           d == <<<<"content", <<"int", 0>>>>, <<"file_path", <<"string", f.path>>>>,
                  <<"file_format", <<"string", Blitzcol>>>>, <<"partition", <<"record", <<>>>>>>,
                  <<"record_count", <<"long", f.record_count>>>>,
                  <<"file_size_in_bytes", <<"long", f.file_size>>>>,
                  <<"lower_bounds", BoundsValue(lows)>>, <<"upper_bounds", BoundsValue(highs)>>>>
           df == <<"record", d>>
           e == <<<<"status", <<"int", Added>>>>,
                  <<"snapshot_id", <<"union", 1, <<"long", snap>>>>>>,
                  <<"data_file", df>>>>
<1>1. ManifestEntry(snap, f) = <<"record", e>>
  BY Zenon DEF ManifestEntry, Value
<1>2. /\ DOMAIN e = 1..3 /\ 3 \in Nat /\ 1 \in 1..3 /\ 3 \in 1..3
      /\ e[1][1] = "status" /\ e[1][2] = <<"int", Added>>
      /\ e[2][1] = "snapshot_id"
      /\ e[3][1] = "data_file" /\ e[3][2] = df
  <2> HIDE DEF df
  <2>1. QED
    OBVIOUS
<1>3. /\ DOMAIN d = 1..8 /\ 8 \in Nat /\ 2 \in 1..8 /\ 5 \in 1..8 /\ 6 \in 1..8 /\ 7 \in 1..8 /\ 8 \in 1..8
      /\ d[1][1] = "content" /\ d[2][1] = "file_path" /\ d[3][1] = "file_format"
      /\ d[4][1] = "partition" /\ d[5][1] = "record_count" /\ d[6][1] = "file_size_in_bytes"
      /\ d[7][1] = "lower_bounds" /\ d[8][1] = "upper_bounds"
  <2> HIDE DEF lows, highs
  <2>1. QED
    OBVIOUS
<1>4. /\ d[2][2] = <<"string", f.path>> /\ d[5][2] = <<"long", f.record_count>>
      /\ d[6][2] = <<"long", f.file_size>>
      /\ d[7][2] = BoundsValue(lows) /\ d[8][2] = BoundsValue(highs)
  <2> HIDE DEF lows, highs
  <2>1. QED
    OBVIOUS
<1> DEFINE entry == <<"record", e>>
<1>a. entry[2] = e /\ df[2] = d
  OBVIOUS
<1> HIDE DEF e, d, lows, highs, entry
<1>5. FieldOf(entry, "status") = e[1][2]
  <2>1. FirstField(e, 3, 1, "status")
    BY <1>2 DEF FirstField
  <2>2. QED
    BY <1>a, <2>1, FieldIs
<1>6. FieldOf(entry, "data_file") = e[3][2]
  <2> HIDE DEF df
  <2>1. FirstField(e, 3, 3, "data_file")
    BY <1>2 DEF FirstField
  <2>2. QED
    BY <1>a, <2>1, FieldIs
<1>7. FieldOf(df, "file_path") = d[2][2]
  <2> HIDE DEF df
  <2>1. FirstField(d, 8, 2, "file_path")
    BY <1>3 DEF FirstField
  <2>2. QED
    BY <1>a, <2>1, FieldIs
<1>8. FieldOf(df, "record_count") = d[5][2]
  <2> HIDE DEF df
  <2>1. FirstField(d, 8, 5, "record_count")
    BY <1>3 DEF FirstField
  <2>2. QED
    BY <1>a, <2>1, FieldIs
<1>9. FieldOf(df, "file_size_in_bytes") = d[6][2]
  <2> HIDE DEF df
  <2>1. FirstField(d, 8, 6, "file_size_in_bytes")
    BY <1>3 DEF FirstField
  <2>2. QED
    BY <1>a, <2>1, FieldIs
<1>10. FieldOf(df, "lower_bounds") = d[7][2]
  <2> HIDE DEF df
  <2>1. FirstField(d, 8, 7, "lower_bounds")
    BY <1>3 DEF FirstField
  <2>2. QED
    BY <1>a, <2>1, FieldIs
<1>11. FieldOf(df, "upper_bounds") = d[8][2]
  <2> HIDE DEF df
  <2>1. FirstField(d, 8, 8, "upper_bounds")
    BY <1>3 DEF FirstField
  <2>2. QED
    BY <1>a, <2>1, FieldIs
<1>12. ParseBounds(BoundsValue(lows)) = lows /\ ParseBounds(BoundsValue(highs)) = highs
  <2>1. /\ [i \in DOMAIN lows |-> <<lows[i][1], lows[i][2]>>] = lows
        /\ [i \in DOMAIN highs |-> <<highs[i][1], highs[i][2]>>] = highs
    BY DEF lows, highs
  <2>2. QED
    BY <2>1, ParseReadBack
<1>13. PairBounds(lows, highs) = f.bounds
  BY BoundsReadBack DEF lows, highs, IsFile
<1>14. /\ Flat(FieldOf(df, "file_size_in_bytes"))[2] = f.file_size
       /\ Flat(FieldOf(df, "record_count"))[2] = f.record_count
       /\ FieldOf(df, "file_path")[2] = f.path
  <2> HIDE DEF df
  <2>1. QED
    BY <1>4, <1>7, <1>8, <1>9 DEF Flat
<1> HIDE DEF df
<1>15. FileOf(df) = f
  BY <1>4, <1>10, <1>11, <1>12, <1>13, <1>14 DEF FileOf, IsFile
<1>16. Flat(<<"int", Added>>)[2] # Deleted
  BY DEF Flat, Added, Deleted
<1>17. QED
  BY <1>1, <1>2, <1>5, <1>6, <1>15, <1>16 DEF entry

\* A manifest gives the data files that were listed.
LEMMA FilesReadBack ==
  ASSUME NEW snap, NEW listed, AreFiles(listed)
  PROVE  DataFiles(ManifestRows(snap, listed)) = listed
<1> DEFINE rows == ManifestRows(snap, listed)
           n == Len(listed)
           live == {i \in DOMAIN rows : Flat(FieldOf(rows[i], "status"))[2] # Deleted}
<1>1. n \in Nat /\ DOMAIN listed = 1..n
  BY DEF AreFiles, IsSeq
<1>2. rows = [i \in 1..n |-> ManifestEntry(snap, listed[i])]
  BY <1>1 DEF ManifestRows
<1>3. DOMAIN rows = 1..n /\ rows = [i \in 1..n |-> rows[i]]
  BY <1>2
<1> HIDE DEF rows
<1>4. \A i \in 1..n : /\ Flat(FieldOf(rows[i], "status"))[2] # Deleted
                      /\ FileOf(FieldOf(rows[i], "data_file")) = listed[i]
  BY <1>1, <1>2, EntryReadBack DEF AreFiles
<1>5. live = 1..n
  BY <1>3, <1>4
<1>6. Pick(rows, live) = rows
  <2> HIDE DEF live
  <2>1. QED
    BY <1>1, <1>3, <1>5, PickAll
<1>7. DataFiles(rows) = [i \in DOMAIN Pick(rows, live) |-> FileOf(FieldOf(Pick(rows, live)[i], "data_file"))]
  BY Zenon DEF DataFiles
<1>8. DataFiles(rows) = [i \in 1..n |-> FileOf(FieldOf(rows[i], "data_file"))]
  <2> HIDE DEF live
  <2>1. QED
    BY <1>3, <1>6, <1>7
<1>9. DataFiles(rows) = [i \in 1..n |-> listed[i]]
  BY <1>4, <1>8
<1>10. QED
  BY <1>1, <1>9 DEF AreFiles, rows

\* A manifest list of one manifest gives its path.
LEMMA ListReadBack ==
  ASSUME NEW snap, NEW seq, NEW m
  PROVE  ManifestPaths(ListRows(snap, seq, <<m>>)) = <<m.path>>
<1> DEFINE rows == ListRows(snap, seq, <<m>>)
           schema == ManifestFileSchema[3]
           row(x) == <<Value("string", x.path), Value("long", x.length), Value("int", 0), Value("int", 0),
                       Value("long", seq), Value("long", seq), Value("long", snap),
                       Value("int", 1), Value("int", 0), Value("int", 0),
                       Value("long", x.rows), Value("long", 0), Value("long", 0)>>
           ms == <<m>>
           values == row(m)
           fields == [q \in DOMAIN schema |-> <<schema[q][1], values[q]>>]
<1>1. ListRows(snap, seq, ms)
        = [i \in DOMAIN ms |-> Value("record", [q \in DOMAIN schema |-> <<schema[q][1], row(ms[i])[q]>>])]
  BY Zenon DEF ListRows
<1>2. rows[1][2] = fields /\ DOMAIN rows = {1}
  <2>1. DOMAIN ms = {1} /\ ms[1] = m
    OBVIOUS
  <2> HIDE DEF ms, row, schema
  <2>2. ListRows(snap, seq, ms)[1] = Value("record", fields)
    BY <1>1, <2>1
  <2>3. DOMAIN ListRows(snap, seq, ms) = {1}
    BY <1>1, <2>1
  <2> HIDE DEF fields
  <2>4. ListRows(snap, seq, ms)[1][2] = fields
    BY <2>2 DEF Value
  <2>5. QED
    BY <2>3, <2>4 DEF ms
<1>3. \E n \in Nat : DOMAIN schema = 1..n /\ 1 <= n /\ schema[1][1] = "manifest_path"
  BY DEF ManifestFileSchema, Record, Longs, Ints
<1>4. PICK n \in Nat : DOMAIN schema = 1..n /\ 1 <= n /\ schema[1][1] = "manifest_path"
  BY <1>3
<1>5. values[1] = <<"string", m.path>>
  BY DEF Value
<1> HIDE DEF values, rows, schema
<1>6. fields[1] = <<"manifest_path", <<"string", m.path>>>> /\ DOMAIN fields = 1..n
  BY <1>4, <1>5
<1> HIDE DEF fields
<1>7. FirstField(fields, n, 1, "manifest_path")
  BY <1>4, <1>6 DEF FirstField
<1> DEFINE r == rows[1]
<1>a. r[2] = fields
  BY <1>2
<1> HIDE DEF r
<1>8. FieldOf(r, "manifest_path") = fields[1][2]
  BY <1>a, <1>7, FieldIs
<1>9. FieldOf(rows[1], "manifest_path")[2] = m.path
  BY <1>6, <1>8 DEF r
<1>10. ManifestPaths(rows) = [i \in DOMAIN rows |-> FieldOf(rows[i], "manifest_path")[2]]
  BY DEF ManifestPaths
<1>11. QED
  BY <1>2, <1>9, <1>10 DEF rows

\* The fold of a sequence of one element.
LEMMA FoldOne ==
  ASSUME NEW f, NEW base, NEW path
  PROVE  FoldLeft(LAMBDA got, p : ScanManifest(f, got, p), base, <<path>>) = ScanManifest(f, base, path)
<1> DEFINE s == <<path>>
           body(g) == [S \in SUBSET DOMAIN s |-> IF S = {} THEN base
                                                  ELSE ScanManifest(f, g[S \ {Max(S)}], s[Max(S)])]
           iter == CHOOSE g : g = body(g)
           one == [S \in SUBSET DOMAIN s |-> IF S = {} THEN base ELSE ScanManifest(f, base, path)]
<1>1. FoldLeft(LAMBDA got, p : ScanManifest(f, got, p), base, s) = iter[DOMAIN s]
  BY Zenon DEF FoldLeft, MapThenFoldSet
<1>2. DOMAIN s = {1} /\ s[1] = path /\ Max({1}) = 1
  <2>1. \A v \in {1} : v \in Int /\ v <= 1
    OBVIOUS
  <2>2. Max({1}) \in {1}
    BY <2>1, Greatest
  <2>3. QED
    BY <2>2
<1>3. one = body(one)
  <2>1. \A S \in SUBSET DOMAIN s : S # {} => S = {1} /\ S \ {Max(S)} = {}
    BY <1>2
  <2>2. \A S \in SUBSET DOMAIN s :
          one[S] = IF S = {} THEN base ELSE ScanManifest(f, one[S \ {Max(S)}], s[Max(S)])
    BY <1>2, <2>1
  <2>3. QED
    BY <2>2
<1>4. iter = body(iter)
  BY <1>3
<1> HIDE DEF iter
<1>5. iter[{}] = base
  BY <1>4
<1>6. iter[{1}] = ScanManifest(f, base, path)
  <2>1. iter[{1}] = ScanManifest(f, iter[{1} \ {Max({1})}], s[Max({1})])
    BY <1>2, <1>4
  <2>2. {1} \ {Max({1})} = {}
    BY <1>2
  <2>3. QED
    BY <1>2, <1>5, <2>1, <2>2
<1>7. QED
  BY <1>1, <1>2, <1>6

-----------------------------------------------------------------------------
(* What the programs append.                                               *)

LEMMA SeqIs ==
  ASSUME NEW n \in Nat, NEW s, DOMAIN s = 1..n, s = [i \in 1..n |-> s[i]]
  PROVE  IsSeq(s) /\ Len(s) = n /\ s \in Seq({s[i] : i \in 1..n})
<1> DEFINE S == {s[i] : i \in 1..n}
<1>1. \A i \in 1..n : s[i] \in S
  OBVIOUS
<1>2. s \in [1..n -> S]
  BY <1>1
<1>3. s \in Seq(S)
  BY <1>2, SeqDef
<1> HIDE DEF S
<1>4. Len(s) = n
  BY <1>2, <1>3, LenProperties
<1>5. QED
  BY <1>3, <1>4 DEF IsSeq, S

\* The entry of a data file of a table whose columns have ids of their own.
LEMMA EntryIsFile ==
  ASSUME NEW path, NEW fields, NEW cols, NEW n \in Nat, DOMAIN cols = 1..n,
         \A i, j \in 1..n : fields[i].id = fields[j].id => i = j
  PROVE  IsFile(EntryOf(path, fields, cols))
<1> DEFINE I == {c \in DOMAIN cols : cols[c].dtype = "Int64"}
           ids == [c \in DOMAIN cols |-> c]
           int64 == Pick(ids, I)
           bounds == [i \in DOMAIN int64 |-> Bounds(fields[int64[i]].id, cols[int64[i]].vals)]
           m == Cardinality(I)
<1>1. I \in SUBSET Nat /\ I \in SUBSET (1..n) /\ IsFiniteSet(1..n)
  BY FS_Interval
<1>2. IsFiniteSet(I) /\ m \in Nat
  BY <1>1, FS_Subset, FS_CardinalityType
<1>3. PICK at \in [1..m -> I] : /\ int64 = [q \in 1..m |-> ids[at[q]]]
                                /\ \A j, q \in 1..m : at[j] = at[q] => j = q
  <2> HIDE DEF I, ids
  <2>1. QED
    BY <1>1, <1>2, PickProperties
<1>4. \A q \in 1..m : at[q] \in 1..n /\ ids[at[q]] = at[q]
  BY <1>1
<1> HIDE DEF ids, I
<1>5. DOMAIN int64 = 1..m /\ \A q \in 1..m : int64[q] = at[q]
  BY <1>3, <1>4
<1> HIDE DEF int64
<1>6. DOMAIN bounds = 1..m
  BY <1>5
<1>7. \A q \in 1..m : /\ bounds[q] = [id |-> bounds[q].id, lo |-> bounds[q].lo, hi |-> bounds[q].hi]
                      /\ bounds[q].id = fields[at[q]].id
  BY <1>5 DEF Bounds
<1>8. bounds = [q \in 1..m |-> bounds[q]]
  BY <1>6
<1>9. EntryOf(path, fields, cols)
        = [path |-> path, file_size |-> Len(cols[1].vals), record_count |-> Len(cols[1].vals),
           bounds |-> bounds]
  BY Zenon DEF EntryOf, bounds, int64, ids, I
<1> HIDE DEF bounds, m
<1>10. IsSeq(bounds)
  BY <1>2, <1>6, <1>8, SeqIs
<1>11. ASSUME NEW j \in 1..m, NEW l \in 1..m, bounds[j].id = bounds[l].id PROVE j = l
  <2>1. at[j] \in 1..n /\ at[l] \in 1..n
    BY <1>4
  <2>2. fields[at[j]].id = fields[at[l]].id
    BY <1>7, <1>11
  <2>3. at[j] = at[l]
    BY <2>1, <2>2
  <2>4. QED
    BY <1>3, <2>3
<1>12. IsBounds(bounds)
  BY <1>6, <1>7, <1>8, <1>10, <1>11 DEF IsBounds
<1>13. QED
  BY <1>9, <1>12 DEF IsFile

LEMMA BuiltFiles ==
  ASSUME NEW n \in TableNos
  PROVE  /\ AreFiles(Built(n))
         /\ Len(Built(n)) = Len(Tables[n].files) /\ DOMAIN Built(n) = DOMAIN Tables[n].files
<1> DEFINE fields == Tables[n].fields
           f == Tables[n].files
           m == Len(f)
<1>1. /\ IsFields(fields) /\ m \in Nat /\ DOMAIN f = 1..m
      /\ \A i, j \in DOMAIN fields : fields[i].id = fields[j].id => i = j
      /\ \A i \in 1..m : DOMAIN f[i] = DOMAIN fields
  BY TablesAssumption DEF TableNos, IsSeq
<1>2. Len(fields) \in Nat /\ DOMAIN fields = 1..Len(fields)
  BY <1>1 DEF IsFields, IsSeq
<1> HIDE DEF fields
<1>3. \A i \in 1..m : IsFile(EntryOf(DataPath(n, i), fields, f[i]))
  BY <1>1, <1>2, EntryIsFile
<1>4. Built(n) = [i \in 1..m |-> EntryOf(DataPath(n, i), fields, f[i])]
  BY <1>1 DEF Built, fields
<1> DEFINE b == Built(n)
<1>5. DOMAIN b = 1..m /\ b = [i \in 1..m |-> b[i]]
  BY <1>4
<1>6. \A i \in 1..m : b[i] = EntryOf(DataPath(n, i), fields, f[i])
  BY <1>4
<1> HIDE DEF b, m
<1>7. IsSeq(b) /\ Len(b) = m
  BY <1>1, <1>5, SeqIs
<1>8. AreFiles(b)
  BY <1>3, <1>5, <1>6, <1>7 DEF AreFiles
<1>9. QED
  BY <1>1, <1>5, <1>7, <1>8 DEF b, m

\* The units of an epoch: records of one partition each, at least one.
IsUnit(u) ==
  /\ u = [part |-> u.part, start |-> u.start, end |-> u.end]
  /\ u.part \in Partitions /\ u.start \in 0..MaxRecords /\ u.end \in 0..MaxRecords
  /\ u.start < u.end

LEMMA UnitsAre ==
  ASSUME NEW from \in [Partitions -> 0..MaxRecords], NEW to \in [Partitions -> 0..MaxRecords],
         NEW u \in AllUnits(from, to)
  PROVE  IsUnit(u) /\ u.end <= to[u.part]
<1>1. PICK p \in Partitions : u \in Units(p, from[p], to[p])
  BY DEF AllUnits
<1>2. PICK s \in from[p]..(to[p] - 1) : u = [part |-> p, start |-> s, end |-> Min({s + PerUnit, to[p]})]
  BY <1>1 DEF Units
<1>3. MaxRecords \in Nat /\ PerUnit \in Nat /\ PerUnit > 0 /\ from[p] \in 0..MaxRecords /\ to[p] \in 0..MaxRecords
  BY BoundsAssumption
<1> DEFINE T == {s + PerUnit, to[p]}
<1>4. \A v \in T : v \in Int /\ v >= s + 1
  BY <1>3
<1>5. Min(T) \in T /\ Min(T) <= to[p]
  <2>1. s + 1 \in Int /\ T # {} /\ to[p] \in T
    BY <1>3
  <2> HIDE DEF T
  <2>2. QED
    BY <1>4, <2>1, Least
<1>6. Min(T) \in Int /\ Min(T) > s
  BY <1>3, <1>4, <1>5
<1> HIDE DEF T
<1>7. u = [part |-> p, start |-> s, end |-> Min(T)]
  BY <1>2 DEF T
<1>8. QED
  BY <1>3, <1>5, <1>6, <1>7 DEF IsUnit

LEMMA UnitsFinite ==
  ASSUME NEW from \in [Partitions -> 0..MaxRecords], NEW to \in [Partitions -> 0..MaxRecords]
  PROVE  IsFiniteSet(AllUnits(from, to))
<1> DEFINE U == AllUnits(from, to)
           N == 0..MaxRecords
           T == Partitions \X (N \X N)
           f == [u \in U |-> <<u.part, <<u.start, u.end>>>>]
<1>1. IsFiniteSet(Partitions) /\ IsFiniteSet(N)
  BY BoundsAssumption, FS_Interval
<1>2. IsFiniteSet(T)
  BY <1>1, FS_Product
<1>3. \A u \in U : IsUnit(u)
  BY UnitsAre
<1> HIDE DEF U
<1>4. f \in [U -> T]
  BY <1>3 DEF IsUnit
<1>5. ASSUME NEW u \in U, NEW v \in U, f[u] = f[v] PROVE u = v
  <2>1. u.part = v.part /\ u.start = v.start /\ u.end = v.end
    BY <1>5
  <2>2. QED
    BY <1>3, <2>1 DEF IsUnit
<1>6. f \in Injection(U, T)
  BY <1>4, <1>5, Zenon DEF Injection, IsInjective
<1>7. QED
  BY <1>2, <1>6, FS_Injection DEF U

\* The batches of an epoch are its units, in some order.
LEMMA BatchIs ==
  ASSUME NEW from \in [Partitions -> 0..MaxRecords], NEW to \in Logs, NEW b \in SetToSeqs(AllUnits(from, to))
  PROVE  /\ b \in Batches
         /\ IsSeq(b) /\ b = [i \in 1..Len(b) |-> b[i]]
         /\ \A i \in DOMAIN b : IsUnit(b[i])
         /\ AllUnits(from, to) # {} => b # <<>> /\ Len(b) > 0
<1> DEFINE U == AllUnits(from, to)
           n == Cardinality(U)
<1>1. to \in [Partitions -> 0..MaxRecords]
  BY DEF Logs
<1>2. IsFiniteSet(U) /\ n \in Nat /\ (n = 0 <=> U = {})
  BY <1>1, UnitsFinite, FS_CardinalityType, FS_EmptySet
<1>3. b \in Batches
  BY DEF Batches
<1>4. b \in [1..n -> U]
  BY DEF SetToSeqs
<1>5. \A u \in U : IsUnit(u)
  BY <1>1, UnitsAre
<1> HIDE DEF U, n
<1>6. IsSeq(b) /\ Len(b) = n
  BY <1>2, <1>4, SeqIs
<1>7. U # {} => Len(b) > 0 /\ b # <<>>
  BY <1>2, <1>4, <1>6
<1>8. QED
  BY <1>3, <1>4, <1>5, <1>6, <1>7 DEF U

LEMMA BatchesAre ==
  ASSUME NEW b \in Batches
  PROVE  IsSeq(b) /\ b = [i \in 1..Len(b) |-> b[i]] /\ \A i \in DOMAIN b : IsUnit(b[i])
<1>1. PICK from \in [Partitions -> 0..MaxRecords], to \in Logs : b \in SetToSeqs(AllUnits(from, to))
  BY DEF Batches
<1>2. QED
  BY <1>1, BatchIs

\* The files of an epoch, as its manifest lists them.
EpochFiles(e, b) == [i \in DOMAIN b |-> SinkEntry(e, b[i])]

LEMMA EpochFilesAre ==
  ASSUME NEW e, NEW b \in Batches
  PROVE  AreFiles(EpochFiles(e, b)) /\ DOMAIN EpochFiles(e, b) = 1..Len(b) /\ Len(EpochFiles(e, b)) = Len(b)
<1> DEFINE n == Len(b)
           g == EpochFiles(e, b)
<1>1. n \in Nat /\ DOMAIN b = 1..n
  BY BatchesAre DEF IsSeq
<1>2. \A i \in 1..n : IsFile(SinkEntry(e, b[i]))
  <2> TAKE i \in 1..n
  <2>1. DOMAIN Columns(b[i]) = 1..2 /\ 2 \in Nat
    BY DEF Columns
  <2>2. \A j, q \in 1..2 : SinkFields[j].id = SinkFields[q].id => j = q
    <3>1. SinkFields[1].id = 1 /\ SinkFields[2].id = 2
      BY DEF SinkFields
    <3>2. \A j \in 1..2 : SinkFields[j].id = j
      BY <3>1
    <3>3. QED
      BY <3>2
  <2>3. QED
    BY <2>1, <2>2, EntryIsFile DEF SinkEntry
<1>3. DOMAIN g = 1..n /\ g = [i \in 1..n |-> g[i]] /\ \A i \in 1..n : g[i] = SinkEntry(e, b[i])
  BY <1>1 DEF EpochFiles
<1> HIDE DEF g, n
<1>4. IsSeq(g) /\ Len(g) = n
  BY <1>1, <1>3, SeqIs
<1>5. AreFiles(g)
  BY <1>2, <1>3, <1>4 DEF AreFiles
<1>6. QED
  BY <1>3, <1>4, <1>5 DEF g, n

-----------------------------------------------------------------------------
(* A scan of what has been appended.                                       *)

IsAppend(a) ==
  /\ a \in Appends
  /\ AreFiles(a.files)

\* An append whose manifest and manifest list are there is scanned as it was appended.
LEMMA ScanReadBack ==
  ASSUME NEW f, NEW tab, NEW id, NEW a, IsAppend(a),
         ManifestPath(a.n, a.snap) \in DOMAIN f, ListPathOf(tab, id) \in DOMAIN f,
         f[ManifestPath(a.n, a.snap)] = Manifest(a.snap, a.files),
         f[ListPathOf(tab, id)] = ManifestList(a.snap, a.seq, <<ManifestOf(a.n, a.snap, a.files)>>)
  PROVE  /\ ReadFile(f, ListPathOf(tab, id)).how = "ok"
         /\ ReadFile(f, ListPathOf(tab, id)).rows # <<>>
         /\ ManifestPaths(ReadFile(f, ListPathOf(tab, id)).rows) = <<ManifestPath(a.n, a.snap)>>
         /\ ReadFile(f, ManifestPath(a.n, a.snap)).how = "ok"
         /\ DataFiles(ReadFile(f, ManifestPath(a.n, a.snap)).rows) = a.files
         /\ Scan(f, tab, id) = [how |-> "ok", files |-> a.files]
<1> DEFINE m == ManifestOf(a.n, a.snap, a.files)
           list == ReadFile(f, ListPathOf(tab, id))
           path == ManifestPath(a.n, a.snap)
           got == ReadFile(f, path)
           rows == ListRows(a.snap, a.seq, <<m>>)
<1>1. /\ ReadsBack(ManifestEntrySchema, ManifestRows(a.snap, a.files))
      /\ ReadsBack(ManifestFileSchema, rows)
  BY ContainersAssumption DEF IsAppend
<1>2. list = [how |-> "ok", schema |-> ManifestFileSchema, rows |-> rows]
  BY <1>1 DEF ReadFile, ReadsBack, ManifestList
<1>3. got = [how |-> "ok", schema |-> ManifestEntrySchema, rows |-> ManifestRows(a.snap, a.files)]
  BY <1>1 DEF ReadFile, ReadsBack, Manifest
<1>4. m.path = path
  BY DEF ManifestOf
<1>5. ManifestPaths(rows) = <<path>>
  <2> HIDE DEF m
  <2>1. QED
    BY <1>4, ListReadBack
<1>6. DataFiles(ManifestRows(a.snap, a.files)) = a.files
  BY FilesReadBack DEF IsAppend
<1>7. rows # <<>>
  <2>1. DOMAIN ManifestPaths(rows) = DOMAIN rows
    BY DEF ManifestPaths
  <2>2. DOMAIN <<path>> # DOMAIN <<>>
    OBVIOUS
  <2> HIDE DEF rows
  <2>3. QED
    BY <1>5, <2>1, <2>2
<1> HIDE DEF list, got, rows
<1>8. Scan(f, tab, id)
        = FoldLeft(LAMBDA sum, p : ScanManifest(f, sum, p), [how |-> list.how, files |-> <<>>],
                   ManifestPaths(list.rows))
  BY Zenon DEF Scan, list
<1> DEFINE base == [how |-> "ok", files |-> <<>>]
<1>9. [how |-> list.how, files |-> <<>>] = base /\ ManifestPaths(list.rows) = <<path>>
  BY <1>2, <1>5
<1> HIDE DEF base, path
<1>10. Scan(f, tab, id) = FoldLeft(LAMBDA sum, p : ScanManifest(f, sum, p), base, <<path>>)
  BY <1>8, <1>9, Zenon
<1>11. Scan(f, tab, id) = ScanManifest(f, base, path)
  BY <1>10, FoldOne, Zenon
<1>12. ScanManifest(f, base, path) = [how |-> "ok", files |-> <<>> \o a.files]
  BY <1>3, <1>6 DEF ScanManifest, base, got
<1>13. <<>> \o a.files = a.files
  BY SeqIs, ConcatEmptySeq DEF IsAppend, AreFiles, IsSeq
<1>14. QED
  BY <1>2, <1>3, <1>5, <1>6, <1>7, <1>11, <1>12, <1>13 DEF list, got, path

-----------------------------------------------------------------------------
(* The inductive invariant.  A file that is there is whole, or the one that *)
(* is being written; then it will be whole unless the program ends.        *)

Whole(f, w, path, c) == path \in DOMAIN f /\ w.path # path /\ f[path] = c
Coming(f, w, path, c) ==
  /\ path \in DOMAIN f /\ w.path = path
  /\ \/ f[path] = <<>> /\ w.parts = c
     \/ Len(c) = 2 /\ f[path] = <<c[1]>> /\ w.parts = <<c[2]>>
Will(f, w, path, c) == Whole(f, w, path, c) \/ Coming(f, w, path, c)
\* A file of one part that was begun, perhaps by a program that then ended.
Begun(f, w, path, c) ==
  /\ path \in DOMAIN f
  /\ \/ w.path # path /\ (f[path] = <<>> \/ f[path] = c)
     \/ w.path = path /\ f[path] = <<>> /\ w.parts = c

\* The manifest and the list of an append.
ManifestWill(f, w, a) == Will(f, w, ManifestPath(a.n, a.snap), Manifest(a.snap, a.files))
ListContent(a) == ManifestList(a.snap, a.seq, <<ManifestOf(a.n, a.snap, a.files)>>)
ListWill(f, w, a) == Will(f, w, ListPath(a.n, a.snap), ListContent(a))

\* iceberg_demo: what table n is made of, and where.
First == SnapBase + 1
TableAppend(n) == [n |-> n, snap |-> First, seq |-> 1, files |-> Built(n)]
NewTable(n) == EmptyTable(n, Tables[n].fields)
FullTable(n) == Appended(NewTable(n), First, ListPath(n, First))
DataWill(f, w, n, upto) == \A i \in 1..upto : Will(f, w, DataPath(n, i), <<Tables[n].files[i]>>)
TableWill(f, w, n) ==
  /\ DataWill(f, w, n, Len(Tables[n].files))
  /\ ManifestWill(f, w, TableAppend(n)) /\ ListWill(f, w, TableAppend(n))
  /\ Will(f, w, MetadataPath(n, 2), Metadata(FullTable(n)))
TablesWill(f, w) == \A n \in TableNos : TableWill(f, w, n)

Building == {"data", "manifest", "list", "append"}
Control ==
  /\ program \in {"iceberg_demo", "stream_demo", "avro_file"} /\ run \in Nat
  /\ writing = [path |-> writing.path, parts |-> writing.parts]
  /\ pc = "failed" => Idle
  /\ program = "iceberg_demo" => pc \in Building \cup {"failed", "commit", "done"}
  /\ program = "stream_demo" =>
       pc \in {"failed", "epoch", "sink", "manifest", "list", "append", "done"} /\ t = SinkNo
  /\ program = "avro_file" => pc \in {"failed", "done"}

\* The tables before t are written, and of t what its stage says.
BuildInv ==
  program = "iceberg_demo" =>
    /\ pc \in Building =>
         LET n == Len(Tables[t].files) IN
         /\ t \in TableNos
         /\ \A m \in 1..(t - 1) : TableWill(fs, writing, m)
         /\ k \in 1..(n + 1) /\ files = [i \in 1..(k - 1) |-> Built(t)[i]]
         /\ DataWill(fs, writing, t, k - 1)
         /\ pc # "data" => k = n + 1 /\ table = NewTable(t)
         /\ pc \in {"list", "append"} => ManifestWill(fs, writing, TableAppend(t))
         /\ pc = "append" => ListWill(fs, writing, TableAppend(t))
    /\ pc \in {"commit", "done"} => TablesWill(fs, writing)

\* What is not written yet is not there.
BuildFresh ==
  program = "iceberg_demo" /\ pc \in Building =>
    \A n \in TableNos :
      /\ MetadataPath(n, 1) \in DOMAIN fs => n < t \/ (n = t /\ pc # "data")
      /\ ManifestPath(n, First) \in DOMAIN fs => n < t \/ (n = t /\ pc \in {"list", "append"})
      /\ ListPath(n, First) \in DOMAIN fs => n < t \/ (n = t /\ pc = "append")
      /\ MetadataPath(n, 2) \in DOMAIN fs => n < t

\* A pointer is committed when everything is written.
CatalogInv ==
  /\ catalog = [n \in TableNos |-> catalog[n]]
  /\ \A n \in TableNos :
       catalog[n] # <<>> =>
         /\ program = "iceberg_demo" /\ pc \in {"commit", "done"} /\ Idle
         /\ catalog[n] = MetadataPath(n, 2)

\* What a reader of the tables of this run has read.
Reading(x) ==
  /\ x.pc = "metadata" => x.path = MetadataPath(x.t, 2) /\ x.files = <<>>
  /\ x.pc = "list" => x.table = FullTable(x.t) /\ x.files = <<>>
  /\ x.pc = "manifests" => x.todo = <<ManifestPath(x.t, First)>> /\ x.files = <<>>
  /\ x.pc = "done" => x.how = "ok" /\ x.files = Built(x.t)
IsReader(x) ==
  /\ x = [pc |-> x.pc, t |-> x.t, run |-> x.run, path |-> x.path, table |-> x.table,
          todo |-> x.todo, files |-> x.files, how |-> x.how]
  /\ x.pc \in {"idle", "metadata", "list", "manifests", "done"}
  /\ x.run \in Nat
Published ==
  /\ program = "iceberg_demo" /\ pc \in {"failed", "commit", "done"} /\ Idle
  /\ TablesWill(fs, writing)
ReaderInv ==
  /\ reader = [r \in Readers |-> reader[r]]
  /\ \A r \in Readers :
       LET x == reader[r] IN
       /\ IsReader(x) /\ x.run <= run
       /\ x.pc # "idle" => x.t \in TableNos
       /\ x.pc # "idle" /\ x.run = run => Published /\ Reading(x)

\* stream_demo: its table after v epochs, and the append of an epoch.
SinkTable(v) ==
  [uuid |-> <<SinkNo>>, location |-> SinkNo, fields |-> SinkFields,
   current |-> IF v = 0 THEN <<>> ELSE <<SnapBase + v>>,
   snapshots |-> [i \in 1..v |-> [id |-> SnapBase + i, list |-> ListPath(SinkNo, SnapBase + i)]],
   last_sequence_number |-> v]
SinkAppendOf(e, b) == [n |-> SinkNo, snap |-> SnapBase + e, seq |-> e, files |-> EpochFiles(e, b)]
OwnFiles(b) == \A i, j \in DOMAIN b : b[i].part = b[j].part => i = j
UnitsWill(f, w, e, b, upto) ==
  OwnFiles(b) => \A i \in 1..upto : Will(f, w, EpochPath(e, b[i].part), <<Columns(b[i])>>)

\* An epoch whose append has been recorded: all of its files are whole.
EpochWhole(f, w, e, x) ==
  /\ x = [batches |-> x.batches, files |-> EpochFiles(e, x.batches)]
  /\ x.batches \in Batches
  /\ LET a == SinkAppendOf(e, x.batches) IN
     /\ Whole(f, w, ManifestPath(SinkNo, a.snap), Manifest(a.snap, a.files))
     /\ Whole(f, w, ListPath(SinkNo, a.snap), ListContent(a))
  /\ OwnFiles(x.batches) =>
       \A i \in DOMAIN x.batches :
         Whole(f, w, EpochPath(e, x.batches[i].part), <<Columns(x.batches[i])>>)

\* The epoch that is being written, at its stage.
Appending ==
  LET n == Len(batches)
      a == SinkAppendOf(epoch, batches)
  IN  /\ epoch = version + 1 /\ epoch <= MaxEpochs + 1
      /\ batches \in Batches /\ n > 0
      /\ k \in 1..(n + 1) /\ (pc = "sink" => k <= n) /\ (pc # "sink" => k = n + 1)
      /\ files = [i \in 1..(k - 1) |-> SinkEntry(epoch, batches[i])]
      /\ UnitsWill(fs, writing, epoch, batches, k - 1)
      /\ pc \in {"list", "append"} => ManifestWill(fs, writing, a)
      /\ pc = "append" => ListWill(fs, writing, a)

\* Every epoch that has been recorded is whole, and every version has been begun.
Recorded(f, w) ==
  /\ IsSeq(appended) /\ Len(appended) = version
  /\ appended = [e \in 1..version |-> appended[e]]
  /\ \A e \in 1..version : EpochWhole(f, w, e, appended[e])
  /\ \A v \in 0..version : Begun(f, w, MetadataPath(SinkNo, v), Metadata(SinkTable(v)))

Unrun == pc = "failed" /\ fs = NoFiles /\ version = 0 /\ appended = <<>>
Running ==
  /\ version \in 0..(MaxEpochs + 1) /\ table = SinkTable(version)
  /\ offsets \in [Partitions -> 0..MaxRecords] /\ log \in Logs
  /\ pc = "epoch" => epoch = version /\ epoch <= MaxEpochs
  /\ pc \in {"sink", "manifest", "list", "append"} => Appending
SinkInv ==
  /\ program # "stream_demo" => appended = <<>>
  /\ program = "stream_demo" => (run = 0 /\ Unrun) \/ (run > 0 /\ Recorded(fs, writing) /\ Running)
SinkFresh ==
  program = "stream_demo" /\ run > 0 /\ pc # "failed" =>
    \A e \in Nat :
      /\ MetadataPath(SinkNo, e) \in DOMAIN fs => e <= version
      /\ ManifestPath(SinkNo, SnapBase + e) \in DOMAIN fs =>
           e <= version \/ (e = version + 1 /\ pc \in {"list", "append"})
      /\ ListPath(SinkNo, SnapBase + e) \in DOMAIN fs =>
           e <= version \/ (e = version + 1 /\ pc = "append")

IInv == Control /\ BuildInv /\ BuildFresh /\ CatalogInv /\ ReaderInv /\ SinkInv /\ SinkFresh

-----------------------------------------------------------------------------
(* How a step changes what is there.                                       *)

IsContent(c) == (\E x : c = <<x>>) \/ (\E x, y : c = <<x, y>>)

LEMMA Contents ==
  /\ \A tab : IsContent(Metadata(tab)) /\ \E x : Metadata(tab) = <<x>>
  /\ \A snap, listed : IsContent(Manifest(snap, listed))
  /\ \A a : IsContent(ListContent(a))
  /\ \A x : IsContent(<<x>>)
<1>1. \A tab : \E x : Metadata(tab) = <<x>>
  BY Zenon DEF Metadata
<1>2. \A snap, listed : IsContent(Manifest(snap, listed))
  BY Zenon DEF Manifest, Container, IsContent
<1>3. \A a : IsContent(ListContent(a))
  BY Zenon DEF ListContent, ManifestList, Container, IsContent
<1>4. QED
  BY <1>1, <1>2, <1>3, Zenon DEF IsContent

\* When the file system is idle, what will be whole is.
LEMMA IdleWhole ==
  ASSUME NEW path, path # <<>>, NEW c, NEW f, Will(f, NoWrite, path, c)
  PROVE  Whole(f, NoWrite, path, c) /\ path \in DOMAIN f /\ f[path] = c
BY DEF Will, Whole, Coming, NoWrite

\* A file is created: the others stay as they are, and this one will be whole.
LEMMA CreateKeeps ==
  ASSUME NEW f, NEW q, NEW c, q # <<>>
  PROVE  LET g == Created(f, q)
             w == [path |-> q, parts |-> c]
         IN  /\ DOMAIN g = DOMAIN f \cup {q}
             /\ Will(g, w, q, c) /\ Begun(g, w, q, c)
             /\ \A path, x : path # q /\ path # <<>> =>
                  /\ Will(f, NoWrite, path, x) => Whole(g, w, path, x) /\ Will(g, w, path, x)
                  /\ Whole(f, NoWrite, path, x) => Whole(g, w, path, x)
                  /\ Begun(f, NoWrite, path, x) => Begun(g, w, path, x)
             /\ \A path \in DOMAIN f : path # q => g[path] = f[path]
<1> DEFINE g == Created(f, q)
           w == [path |-> q, parts |-> c]
<1>1. /\ DOMAIN g = DOMAIN f \cup {q} /\ g[q] = <<>>
      /\ \A path \in DOMAIN f : path # q => g[path] = f[path]
  BY DEF Created
<1>2. w.path = q /\ w.parts = c /\ NoWrite.path = <<>>
  BY DEF NoWrite
<1> HIDE DEF g, w
<1>3. Will(g, w, q, c) /\ Begun(g, w, q, c)
  BY <1>1, <1>2 DEF Will, Coming, Begun
<1>4. ASSUME NEW path, NEW x, path # q, path # <<>>
      PROVE  /\ Will(f, NoWrite, path, x) => Whole(g, w, path, x) /\ Will(g, w, path, x)
             /\ Whole(f, NoWrite, path, x) => Whole(g, w, path, x)
             /\ Begun(f, NoWrite, path, x) => Begun(g, w, path, x)
  BY <1>1, <1>2, <1>4 DEF Will, Whole, Coming, Begun
<1>5. QED
  BY <1>1, <1>3, <1>4 DEF g, w

\* A part is written.
LEMMA PartKeeps ==
  ASSUME WritePart, writing = [path |-> writing.path, parts |-> writing.parts],
         NEW path, path # <<>>, NEW c, IsContent(c)
  PROVE  /\ Will(fs, writing, path, c) => Will(fs', writing', path, c)
         /\ Whole(fs, writing, path, c) => Whole(fs', writing', path, c)
         /\ (\E x : c = <<x>>) /\ Begun(fs, writing, path, c) => Begun(fs', writing', path, c)
<1>1. /\ DOMAIN fs' = DOMAIN fs
      /\ \A p \in DOMAIN fs : p # writing.path => fs'[p] = fs[p]
      /\ writing.path \in DOMAIN fs =>
           fs'[writing.path] = Append(fs[writing.path], Head(writing.parts))
  BY DEF WritePart
<1>2. writing'.path \in {<<>>, writing.path}
  BY DEF WritePart, NoWrite
<1>3. ASSUME path # writing.path
      PROVE  /\ Will(fs, writing, path, c) => Will(fs', writing', path, c)
             /\ Whole(fs, writing, path, c) => Whole(fs', writing', path, c)
             /\ Begun(fs, writing, path, c) => Begun(fs', writing', path, c)
  BY <1>1, <1>2, <1>3 DEF Will, Whole, Coming, Begun
<1>4. ~Whole(fs, writing, writing.path, c)
  BY DEF Whole
<1>5. ASSUME path = writing.path, path \in DOMAIN fs, fs[path] = <<>>, NEW x, writing.parts = <<x>>, c = <<x>>
      PROVE  Whole(fs', writing', path, c)
  <2>1. Len(writing.parts) = 1 /\ Head(writing.parts) = x
    BY <1>5
  <2>2. writing' = NoWrite
    BY <2>1 DEF WritePart
  <2>3. fs'[path] = <<x>>
    BY <1>1, <1>5, <2>1
  <2>4. QED
    BY <1>1, <1>5, <2>2, <2>3 DEF Whole, NoWrite
<1>6. ASSUME path = writing.path, path \in DOMAIN fs, NEW x, NEW y, c = <<x, y>>,
             fs[path] = <<>>, writing.parts = c
      PROVE  Coming(fs', writing', path, c)
  <2>1. Len(writing.parts) = 2 /\ Head(writing.parts) = x /\ Tail(writing.parts) = <<y>>
    BY <1>6
  <2>2. writing' = [writing EXCEPT !.parts = Tail(@)]
    BY <2>1 DEF WritePart
  <2>3. writing'.path = path /\ writing'.parts = <<y>>
    BY <1>6, <2>1, <2>2
  <2>4. fs'[path] = <<x>>
    BY <1>1, <1>6, <2>1
  <2>5. Len(c) = 2 /\ c[1] = x /\ c[2] = y
    BY <1>6
  <2>6. QED
    BY <1>1, <1>6, <2>3, <2>4, <2>5 DEF Coming
<1>7. ASSUME path = writing.path, path \in DOMAIN fs, NEW x, NEW y, c = <<x, y>>,
             fs[path] = <<x>>, writing.parts = <<y>>
      PROVE  Whole(fs', writing', path, c)
  <2>1. Len(writing.parts) = 1 /\ Head(writing.parts) = y
    BY <1>7
  <2>2. writing' = NoWrite
    BY <2>1 DEF WritePart
  <2>3. fs'[path] = <<x, y>>
    BY <1>1, <1>7, <2>1
  <2>4. QED
    BY <1>1, <1>7, <2>2, <2>3 DEF Whole, NoWrite
<1>8. path = writing.path /\ Coming(fs, writing, path, c) => Will(fs', writing', path, c)
  <2> SUFFICES ASSUME path = writing.path, Coming(fs, writing, path, c) PROVE Will(fs', writing', path, c)
    OBVIOUS
  <2>1. CASE \E x : c = <<x>>
    <3>1. PICK x : c = <<x>>
      BY <2>1
    <3>2. Len(c) = 1
      BY <3>1
    <3>3. QED
      BY <1>5, <3>1, <3>2 DEF Coming, Will
  <2>2. CASE \E x, y : c = <<x, y>>
    <3>1. PICK x, y : c = <<x, y>>
      BY <2>2
    <3>2. Len(c) = 2 /\ c[1] = x /\ c[2] = y
      BY <3>1
    <3>3. QED
      BY <1>6, <1>7, <3>1, <3>2 DEF Coming, Will
  <2>3. QED
    BY <2>1, <2>2 DEF IsContent
<1>9. ASSUME path = writing.path, NEW x, c = <<x>>, Begun(fs, writing, path, c)
      PROVE  Begun(fs', writing', path, c)
  <2>1. Whole(fs', writing', path, c)
    BY <1>5, <1>9 DEF Begun
  <2>2. QED
    BY <2>1 DEF Whole, Begun
<1>10. QED
  BY <1>3, <1>4, <1>8, <1>9 DEF Will

\* The program ends.
LEMMA CrashKeeps ==
  ASSUME NEW f, NEW w, NEW path, path # <<>>, NEW c
  PROVE  /\ Whole(f, w, path, c) => Whole(f, NoWrite, path, c)
         /\ Begun(f, w, path, c) => Begun(f, NoWrite, path, c)
<1>1. NoWrite.path # path
  BY DEF NoWrite
<1>2. QED
  BY <1>1 DEF Whole, Begun

\* A sequence that is a prefix, and its next element.
LEMMA NextElement ==
  ASSUME NEW g, NEW n \in Nat, NEW s, s = [i \in 1..n |-> g[i]], NEW x, x = g[n + 1]
  PROVE  Append(s, x) = [i \in 1..(n + 1) |-> g[i]]
<1> DEFINE S == {s[i] : i \in 1..n} \cup {x}
           s2 == Append(s, x)
<1>1. DOMAIN s = 1..n /\ s = [i \in 1..n |-> s[i]]
  OBVIOUS
<1>2. Len(s) = n /\ s \in Seq({s[i] : i \in 1..n})
  BY <1>1, SeqIs
<1>3. \A i \in 1..n : s[i] \in S /\ s[i] = g[i]
  OBVIOUS
<1>4. s \in Seq(S)
  <2>1. s \in [1..n -> S]
    BY <1>1, <1>3
  <2> HIDE DEF S
  <2>2. QED
    BY <2>1, SeqDef
<1>5. x \in S
  OBVIOUS
<1> HIDE DEF S
<1>6. /\ s2 \in Seq(S) /\ Len(s2) = n + 1
      /\ s2[n + 1] = x /\ \A i \in 1..n : s2[i] = s[i]
  BY <1>2, <1>4, <1>5, AppendProperties
<1>7. DOMAIN s2 = 1..(n + 1) /\ s2 = [i \in DOMAIN s2 |-> s2[i]]
  BY <1>6, LenProperties
<1> HIDE DEF s2
<1>8. \A i \in 1..(n + 1) : s2[i] = g[i]
  BY <1>3, <1>6
<1>9. s2 = [i \in 1..(n + 1) |-> g[i]]
  BY <1>7, <1>8
<1>10. QED
  BY <1>9 DEF s2

LEMMA AppendOne ==
  ASSUME NEW n \in Nat, NEW s, IsSeq(s), Len(s) = n, s = [i \in 1..n |-> s[i]], NEW x
  PROVE  LET s2 == Append(s, x) IN
         /\ IsSeq(s2) /\ Len(s2) = n + 1 /\ s2 = [i \in 1..(n + 1) |-> s2[i]]
         /\ s2[n + 1] = x /\ \A i \in 1..n : s2[i] = s[i]
<1> DEFINE g == [i \in 1..(n + 1) |-> IF i = n + 1 THEN x ELSE s[i]]
           s2 == Append(s, x)
<1>1. s = [i \in 1..n |-> g[i]] /\ x = g[n + 1]
  OBVIOUS
<1> HIDE DEF g
<1>2. s2 = [i \in 1..(n + 1) |-> g[i]]
  BY <1>1, NextElement
<1> HIDE DEF s2
<1>3. DOMAIN s2 = 1..(n + 1) /\ s2 = [i \in 1..(n + 1) |-> s2[i]] /\ n + 1 \in Nat
  BY <1>2
<1>4. IsSeq(s2) /\ Len(s2) = n + 1
  BY <1>3, SeqIs
<1>5. QED
  BY <1>2, <1>3, <1>4 DEF s2, g

\* The paths are those of different files.
LEMMA PathKinds ==
  /\ \A n, i : DataPath(n, i) # <<>> /\ IsData(DataPath(n, i))
  /\ \A n, v : MetadataPath(n, v) # <<>>
  /\ \A n, s : ManifestPath(n, s) # <<>> /\ ListPath(n, s) # <<>>
  /\ \A e, p : EpochPath(e, p) # <<>> /\ IsData(EpochPath(e, p))
BY DEF DataPath, MetadataPath, ManifestPath, ListPath, EpochPath, IsData

LEMMA PathsDiffer ==
  ASSUME NEW n, NEW i, NEW m, NEW v
  PROVE  /\ DataPath(n, i) # MetadataPath(m, v) /\ DataPath(n, i) # ManifestPath(m, v)
         /\ DataPath(n, i) # ListPath(m, v)
         /\ EpochPath(n, i) # MetadataPath(m, v) /\ EpochPath(n, i) # ManifestPath(m, v)
         /\ EpochPath(n, i) # ListPath(m, v)
         /\ MetadataPath(n, i) # ManifestPath(m, v) /\ MetadataPath(n, i) # ListPath(m, v)
         /\ ManifestPath(n, i) # ListPath(m, v)
BY DEF DataPath, EpochPath, MetadataPath, ManifestPath, ListPath

LEMMA PathsSame ==
  ASSUME NEW n, NEW i, NEW m, NEW v
  PROVE  /\ DataPath(n, i) = DataPath(m, v) => n = m /\ i = v
         /\ EpochPath(n, i) = EpochPath(m, v) => n = m /\ i = v
         /\ MetadataPath(n, i) = MetadataPath(m, v) => n = m /\ i = v
         /\ ManifestPath(n, i) = ManifestPath(m, v) => n = m /\ i = v
         /\ ListPath(n, i) = ListPath(m, v) => n = m /\ i = v
BY DEF DataPath, EpochPath, MetadataPath, ManifestPath, ListPath

-----------------------------------------------------------------------------
(* iceberg_demo.                                                           *)

LEMMA TableIsAppend ==
  ASSUME NEW n \in TableNos
  PROVE  IsAppend(TableAppend(n))
<1>1. TableAppend(n) \in Appends
  BY DEF Appends, TableAppend, First
<1>2. TableAppend(n).files = Built(n)
  BY DEF TableAppend
<1>3. QED
  BY <1>1, <1>2, BuiltFiles DEF IsAppend

LEMMA UpdatedTable ==
  ASSUME NEW u, NEW l, NEW f, NEW c, NEW s, NEW v, NEW c2, NEW s2, NEW v2
  PROVE  [[uuid |-> u, location |-> l, fields |-> f, current |-> c, snapshots |-> s,
           last_sequence_number |-> v]
            EXCEPT !.last_sequence_number = v2, !.snapshots = s2, !.current = c2]
         = [uuid |-> u, location |-> l, fields |-> f, current |-> c2, snapshots |-> s2,
            last_sequence_number |-> v2]
<1> DEFINE r == [uuid |-> u, location |-> l, fields |-> f, current |-> c, snapshots |-> s,
                 last_sequence_number |-> v]
           r1 == [r EXCEPT !.last_sequence_number = v2]
           r2 == [r1 EXCEPT !.snapshots = s2]
           r3 == [r2 EXCEPT !.current = c2]
<1>1. r1 = [uuid |-> u, location |-> l, fields |-> f, current |-> c, snapshots |-> s,
            last_sequence_number |-> v2]
  OBVIOUS
<1> HIDE DEF r1
<1>2. r2 = [uuid |-> u, location |-> l, fields |-> f, current |-> c, snapshots |-> s2,
            last_sequence_number |-> v2]
  BY <1>1
<1> HIDE DEF r2
<1>3. r3 = [uuid |-> u, location |-> l, fields |-> f, current |-> c2, snapshots |-> s2,
            last_sequence_number |-> v2]
  BY <1>2
<1>4. QED
  BY <1>3, Zenon DEF r3, r2, r1, r

LEMMA FullTableIs ==
  ASSUME NEW n \in TableNos
  PROVE  /\ IsTable(FullTable(n)) /\ FullTable(n).current = <<First>>
         /\ ListPathOf(FullTable(n), First) = ListPath(n, First)
<1> DEFINE snapshots == <<[id |-> First, list |-> ListPath(n, First)]>>
           full == [uuid |-> <<n>>, location |-> n, fields |-> Tables[n].fields, current |-> <<First>>,
                    snapshots |-> snapshots, last_sequence_number |-> 1]
<1>1. Append(<<>>, [id |-> First, list |-> ListPath(n, First)]) = snapshots
  OBVIOUS
<1>2. FullTable(n) = full
  <2>1. NewTable(n) = [uuid |-> <<n>>, location |-> n, fields |-> Tables[n].fields, current |-> <<>>,
                       snapshots |-> <<>>, last_sequence_number |-> 0]
    BY DEF NewTable, EmptyTable
  <2>2. FullTable(n) = [NewTable(n) EXCEPT !.last_sequence_number = NewTable(n).last_sequence_number + 1,
                          !.snapshots = Append(NewTable(n).snapshots, [id |-> First, list |-> ListPath(n, First)]),
                          !.current = <<First>>]
    BY DEF FullTable, Appended
  <2>3. NewTable(n).snapshots = <<>> /\ NewTable(n).last_sequence_number + 1 = 1
    BY <2>1
  <2> HIDE DEF snapshots
  <2>4. FullTable(n) = [NewTable(n) EXCEPT !.last_sequence_number = 1, !.snapshots = snapshots,
                                           !.current = <<First>>]
    BY <1>1, <2>2, <2>3
  <2>5. FullTable(n) = [[uuid |-> <<n>>, location |-> n, fields |-> Tables[n].fields, current |-> <<>>,
                         snapshots |-> <<>>, last_sequence_number |-> 0]
                          EXCEPT !.last_sequence_number = 1, !.snapshots = snapshots, !.current = <<First>>]
    BY <2>1, <2>4, Zenon
  <2>6. QED
    BY <2>5, UpdatedTable, Zenon
<1>3. IsFields(Tables[n].fields)
  BY TablesAssumption DEF TableNos
<1>4. DOMAIN snapshots = {1} /\ snapshots[1].id = First /\ snapshots[1].list = ListPath(n, First)
  OBVIOUS
<1>5. snapshots = [i \in DOMAIN snapshots |-> [id |-> snapshots[i].id, list |-> snapshots[i].list]]
  OBVIOUS
<1> HIDE DEF snapshots
<1>6. IsTable(full)
  BY <1>3, <1>5 DEF IsTable
<1>7. {i \in DOMAIN full.snapshots : full.snapshots[i].id = First} = {1}
  BY <1>4
<1>8. ListPathOf(full, First) = full.snapshots[1].list
  BY <1>7, MinOne DEF ListPathOf
<1>9. QED
  BY <1>2, <1>4, <1>6, <1>8

\* A table whose files are whole is scanned as it was built.
LEMMA TableScans ==
  ASSUME NEW n \in TableNos, NEW f, TableWill(f, NoWrite, n)
  PROVE  /\ ReadMetadata(f, MetadataPath(n, 2)) = [how |-> "ok", table |-> FullTable(n)]
         /\ LET list == ReadFile(f, ListPath(n, First)) IN
            /\ list.how = "ok" /\ list.rows # <<>>
            /\ ManifestPaths(list.rows) = <<ManifestPath(n, First)>>
         /\ LET m == ReadFile(f, ManifestPath(n, First)) IN
            m.how = "ok" /\ DataFiles(m.rows) = Built(n)
         /\ PlanFiles(f, FullTable(n)) = [how |-> "ok", files |-> Built(n)]
         /\ \A i \in DOMAIN Tables[n].files : f[DataPath(n, i)] = <<Tables[n].files[i]>>
<1> DEFINE a == TableAppend(n)
           tab == FullTable(n)
<1>1. IsAppend(a) /\ a.n = n /\ a.snap = First /\ a.seq = 1 /\ a.files = Built(n)
  BY TableIsAppend DEF TableAppend
<1> HIDE DEF a
<1>2. /\ ManifestPath(n, First) \in DOMAIN f /\ f[ManifestPath(n, First)] = Manifest(First, a.files)
      /\ ListPath(n, First) \in DOMAIN f
      /\ f[ListPath(n, First)] = ManifestList(First, 1, <<ManifestOf(n, First, a.files)>>)
      /\ MetadataPath(n, 2) \in DOMAIN f /\ f[MetadataPath(n, 2)] = Metadata(tab)
  <2>1. Will(f, NoWrite, ManifestPath(n, First), Manifest(First, a.files))
    BY <1>1 DEF TableWill, ManifestWill, a
  <2>2. Will(f, NoWrite, ListPath(n, First), ManifestList(First, 1, <<ManifestOf(n, First, a.files)>>))
    BY <1>1 DEF TableWill, ListWill, ListContent, a
  <2>3. Will(f, NoWrite, MetadataPath(n, 2), Metadata(tab))
    BY DEF TableWill
  <2> HIDE DEF tab
  <2>4. QED
    BY <2>1, <2>2, <2>3, PathKinds, IdleWhole
<1>3. IsTable(tab) /\ tab.current = <<First>> /\ ListPathOf(tab, First) = ListPath(n, First)
  BY FullTableIs
<1> HIDE DEF tab
<1>4. ReadMetadata(f, MetadataPath(n, 2)) = [how |-> "ok", table |-> tab]
  BY <1>2, <1>3, MetadataReadBack
<1>5. /\ ReadFile(f, ListPath(n, First)).how = "ok"
      /\ ReadFile(f, ListPath(n, First)).rows # <<>>
      /\ ManifestPaths(ReadFile(f, ListPath(n, First)).rows) = <<ManifestPath(n, First)>>
      /\ ReadFile(f, ManifestPath(n, First)).how = "ok"
      /\ DataFiles(ReadFile(f, ManifestPath(n, First)).rows) = a.files
      /\ Scan(f, tab, First) = [how |-> "ok", files |-> a.files]
  <2>1. /\ ManifestPath(a.n, a.snap) \in DOMAIN f /\ ListPathOf(tab, First) \in DOMAIN f
        /\ f[ManifestPath(a.n, a.snap)] = Manifest(a.snap, a.files)
        /\ f[ListPathOf(tab, First)] = ManifestList(a.snap, a.seq, <<ManifestOf(a.n, a.snap, a.files)>>)
    BY <1>1, <1>2, <1>3
  <2>2. /\ ReadFile(f, ListPathOf(tab, First)).how = "ok"
        /\ ReadFile(f, ListPathOf(tab, First)).rows # <<>>
        /\ ManifestPaths(ReadFile(f, ListPathOf(tab, First)).rows) = <<ManifestPath(a.n, a.snap)>>
        /\ ReadFile(f, ManifestPath(a.n, a.snap)).how = "ok"
        /\ DataFiles(ReadFile(f, ManifestPath(a.n, a.snap)).rows) = a.files
        /\ Scan(f, tab, First) = [how |-> "ok", files |-> a.files]
    BY <1>1, <2>1, ScanReadBack
  <2>3. ManifestPath(a.n, a.snap) = ManifestPath(n, First) /\ ListPathOf(tab, First) = ListPath(n, First)
    BY <1>1, <1>3
  <2>4. QED
    BY <2>2, <2>3
<1>6. PlanFiles(f, tab) = Scan(f, tab, First)
  <2>1. tab.current # <<>> /\ tab.current[1] = First
    BY <1>3
  <2>2. QED
    BY <2>1 DEF PlanFiles
<1>7. ASSUME NEW i \in DOMAIN Tables[n].files PROVE f[DataPath(n, i)] = <<Tables[n].files[i]>>
  <2>1. i \in 1..Len(Tables[n].files)
    BY TablesAssumption DEF TableNos, IsSeq
  <2>2. Will(f, NoWrite, DataPath(n, i), <<Tables[n].files[i]>>)
    BY <2>1 DEF TableWill, DataWill
  <2>3. QED
    BY <2>2, PathKinds, IdleWhole
<1>8. QED
  BY <1>1, <1>4, <1>5, <1>6, <1>7 DEF tab

\* What a part that is written keeps.
LEMMA PartKeepsTables ==
  ASSUME WritePart, Control
  PROVE  /\ \A n, upto : DataWill(fs, writing, n, upto) => DataWill(fs', writing', n, upto)
         /\ \A a : ManifestWill(fs, writing, a) => ManifestWill(fs', writing', a)
         /\ \A a : ListWill(fs, writing, a) => ListWill(fs', writing', a)
         /\ \A n : TableWill(fs, writing, n) => TableWill(fs', writing', n)
<1> USE PathKinds, Contents, PartKeeps
<1>1. \A n, upto : DataWill(fs, writing, n, upto) => DataWill(fs', writing', n, upto)
  BY DEF DataWill, Control
<1>2. \A a : ManifestWill(fs, writing, a) => ManifestWill(fs', writing', a)
  BY DEF ManifestWill, Control
<1>3. \A a : ListWill(fs, writing, a) => ListWill(fs', writing', a)
  BY DEF ListWill, Control
<1>4. \A n : Will(fs, writing, MetadataPath(n, 2), Metadata(FullTable(n)))
               => Will(fs', writing', MetadataPath(n, 2), Metadata(FullTable(n)))
  BY DEF Control
<1>5. QED
  BY <1>1, <1>2, <1>3, <1>4 DEF TableWill

\* What a file that is created keeps: what is not at its path.
LEMMA WriteEffect ==
  ASSUME NEW q, q # <<>>, NEW c, NEW then, Write(q, c, then)
  PROVE  /\ writing = NoWrite /\ pc' = then /\ writing' = [path |-> q, parts |-> c]
         /\ DOMAIN fs' = DOMAIN fs \cup {q}
         /\ Will(fs', writing', q, c) /\ Begun(fs', writing', q, c)
         /\ \A path \in DOMAIN fs : path # q => fs'[path] = fs[path]
         /\ \A path, x : path # q /\ path # <<>> =>
              /\ Will(fs, writing, path, x) => Whole(fs', writing', path, x) /\ Will(fs', writing', path, x)
              /\ Whole(fs, writing, path, x) => Whole(fs', writing', path, x)
              /\ Begun(fs, writing, path, x) => Begun(fs', writing', path, x)
<1>1. /\ writing = NoWrite /\ fs' = Created(fs, q) /\ writing' = [path |-> q, parts |-> c] /\ pc' = then
  BY DEF Write, Idle
<1>2. QED
  BY <1>1, CreateKeeps

LEMMA WriteKeepsData ==
  ASSUME NEW q, q # <<>>, NEW c, NEW then, Write(q, c, then),
         NEW n, NEW upto, \A i \in 1..upto : DataPath(n, i) # q, DataWill(fs, writing, n, upto)
  PROVE  DataWill(fs', writing', n, upto)
BY WriteEffect, PathKinds DEF DataWill

LEMMA WriteKeepsLists ==
  ASSUME NEW q, q # <<>>, NEW c, NEW then, Write(q, c, then), NEW a
  PROVE  /\ ManifestPath(a.n, a.snap) # q /\ ManifestWill(fs, writing, a) => ManifestWill(fs', writing', a)
         /\ ListPath(a.n, a.snap) # q /\ ListWill(fs, writing, a) => ListWill(fs', writing', a)
BY WriteEffect, PathKinds DEF ManifestWill, ListWill

LEMMA WriteKeepsTable ==
  ASSUME NEW q, q # <<>>, NEW c, NEW then, Write(q, c, then),
         NEW n, TableWill(fs, writing, n),
         \A i \in 1..Len(Tables[n].files) : DataPath(n, i) # q,
         ManifestPath(n, First) # q, ListPath(n, First) # q, MetadataPath(n, 2) # q
  PROVE  TableWill(fs', writing', n)
<1>1. TableAppend(n).n = n /\ TableAppend(n).snap = First
  BY DEF TableAppend
<1>2. Will(fs', writing', MetadataPath(n, 2), Metadata(FullTable(n)))
  BY WriteEffect, PathKinds DEF TableWill
<1>3. DataWill(fs', writing', n, Len(Tables[n].files))
  BY WriteKeepsData DEF TableWill
<1>4. ManifestWill(fs', writing', TableAppend(n)) /\ ListWill(fs', writing', TableAppend(n))
  BY <1>1, WriteKeepsLists DEF TableWill
<1>5. QED
  BY <1>2, <1>3, <1>4 DEF TableWill

-----------------------------------------------------------------------------
(* The steps of each program.                                              *)

DemoStep ==
  \/ StartBuild \/ WriteDataFile \/ CreateTable \/ AppendFiles \/ CommitPointer
  \/ WriteManifest \/ WriteManifestList
SinkStep ==
  \/ StartSink \/ RunEpoch \/ SinkUnit \/ SinkAppend \/ (\E p \in Partitions : Push(p))
  \/ WriteManifest \/ WriteManifestList

LEMMA TableNosAre ==
  /\ Len(Tables) \in Nat /\ TableNos = 1..Len(Tables) /\ SinkNo \notin TableNos /\ Len(Tables) > 0
<1>1. IsSeq(Tables) /\ Len(Tables) > 0
  BY TablesAssumption
<1>2. DOMAIN Tables = 1..Len(Tables) /\ Len(Tables) \in Nat
  BY <1>1 DEF IsSeq
<1>3. QED
  BY <1>1, <1>2 DEF TableNos, SinkNo

LEMMA StepsOf ==
  ASSUME Control, BuildInv, [Next]_vars
  PROVE  /\ program' = program
         /\ \/ program = "iceberg_demo" /\ DemoStep
            \/ program = "stream_demo" /\ SinkStep
            \/ program = "avro_file" /\ WriteSample
            \/ WritePart \/ Crash
            \/ (\E r \in Readers : Read(r))
            \/ UNCHANGED vars
<1> USE TableNosAre DEF Control, BuildInv, Building
<1>1. CASE StartBuild
  BY <1>1 DEF StartBuild, Begin, DemoStep
<1>2. CASE WriteDataFile
  BY <1>2 DEF WriteDataFile, DemoStep
<1>3. CASE CreateTable
  BY <1>3 DEF CreateTable, DemoStep
<1>4. CASE AppendFiles
  BY <1>4 DEF AppendFiles, DemoStep
<1>5. CASE CommitPointer
  BY <1>5 DEF CommitPointer, DemoStep
<1>6. CASE StartSink
  BY <1>6 DEF StartSink, Begin, SinkStep
<1>7. CASE RunEpoch
  BY <1>7 DEF RunEpoch, SinkStep
<1>8. CASE SinkUnit
  BY <1>8 DEF SinkUnit, SinkStep, stream
<1>9. CASE SinkAppend
  BY <1>9 DEF SinkAppend, SinkStep
<1>10. CASE \E p \in Partitions : Push(p)
  BY <1>10 DEF Push, SinkStep
<1>11. CASE WriteManifest
  BY <1>11 DEF WriteManifest, SinkStep, DemoStep
<1>12. CASE WriteManifestList
  BY <1>12 DEF WriteManifestList, SinkStep, DemoStep
<1>13. CASE WriteSample
  BY <1>13 DEF WriteSample, Begin
<1>14. CASE WritePart
  BY <1>14 DEF WritePart
<1>15. CASE Crash
  BY <1>15 DEF Crash
<1>16. CASE \E r \in Readers : Read(r)
  BY <1>16 DEF Read, Ask, ReadMeta, ReadList, ReadManifest, Reads
<1>17. CASE Rest \/ UNCHANGED vars
  BY <1>17 DEF Rest, vars
<1>18. QED
  BY <1>1, <1>2, <1>3, <1>4, <1>5, <1>6, <1>7, <1>8, <1>9, <1>10, <1>11, <1>12, <1>13, <1>14, <1>15,
     <1>16, <1>17, Zenon DEF Next, Build, Sink

\* What a reader does changes nothing but the reader.
LEMMA ReadersOnlyRead ==
  ASSUME (\E r \in Readers : Read(r)) \/ UNCHANGED vars
  PROVE  UNCHANGED <<program, run, pc, disk, build, stream, catalog, sample>>
BY Zenon DEF Read, Ask, ReadMeta, ReadList, ReadManifest, Reads, vars

LEMMA ControlStep ==
  ASSUME Control, BuildInv, [Next]_vars
  PROVE  Control'
<1> USE DEF Control, Building, Idle, Write
<1>1. CASE program = "iceberg_demo" /\ DemoStep
  <2>1. CASE StartBuild
    BY <1>1, <2>1 DEF StartBuild, Begin
  <2>2. CASE WriteDataFile
    BY <1>1, <2>2 DEF WriteDataFile
  <2>3. CASE CreateTable
    BY <1>1, <2>3 DEF CreateTable
  <2>4. CASE AppendFiles
    BY <1>1, <2>4 DEF AppendFiles
  <2>5. CASE CommitPointer
    BY <1>1, <2>5 DEF CommitPointer, disk
  <2>6. CASE WriteManifest
    BY <1>1, <2>6 DEF WriteManifest, build
  <2>7. CASE WriteManifestList
    BY <1>1, <2>7 DEF WriteManifestList, build
  <2>8. QED
    BY <1>1, <2>1, <2>2, <2>3, <2>4, <2>5, <2>6, <2>7 DEF DemoStep
<1>2. CASE program = "stream_demo" /\ SinkStep
  <2>1. CASE StartSink
    BY <1>2, <2>1 DEF StartSink, Begin
  <2>2. CASE RunEpoch
    BY <1>2, <2>2 DEF RunEpoch, disk
  <2>3. CASE SinkUnit
    BY <1>2, <2>3 DEF SinkUnit
  <2>4. CASE SinkAppend
    BY <1>2, <2>4 DEF SinkAppend
  <2>5. CASE \E p \in Partitions : Push(p)
    BY <1>2, <2>5 DEF Push, disk, build
  <2>6. CASE WriteManifest
    BY <1>2, <2>6 DEF WriteManifest, build
  <2>7. CASE WriteManifestList
    BY <1>2, <2>7 DEF WriteManifestList, build
  <2>8. QED
    BY <1>2, <2>1, <2>2, <2>3, <2>4, <2>5, <2>6, <2>7 DEF SinkStep
<1>3. CASE program = "avro_file" /\ WriteSample
  BY <1>3 DEF WriteSample, Begin
<1>4. CASE WritePart
  <2>1. /\ UNCHANGED <<program, run, pc, t>>
    BY <1>4 DEF WritePart, build
  <2>2. writing' = [path |-> writing'.path, parts |-> writing'.parts]
    BY <1>4 DEF WritePart, NoWrite
  <2>3. QED
    BY <1>4, <2>1, <2>2 DEF WritePart
<1>5. CASE Crash
  BY <1>5 DEF Crash, NoWrite, build
<1>6. CASE (\E r \in Readers : Read(r)) \/ UNCHANGED vars
  BY <1>6, ReadersOnlyRead DEF disk, build
<1>7. QED
  <2> HIDE DEF Control
  <2>1. QED
    BY <1>1, <1>2, <1>3, <1>4, <1>5, <1>6, StepsOf

-----------------------------------------------------------------------------
(* iceberg_demo builds its tables.                                         *)

\* What the steps of a program that is building know.
LEMMA BuildingFacts ==
  ASSUME Control, BuildInv, program = "iceberg_demo", pc \in Building
  PROVE  /\ t \in TableNos /\ t \in Nat /\ t # SinkNo /\ Snap = First
         /\ Len(Tables[t].files) \in Nat /\ DOMAIN Tables[t].files = 1..Len(Tables[t].files)
         /\ Len(Built(t)) = Len(Tables[t].files)
         /\ Built(t) = [i \in 1..Len(Tables[t].files) |-> Built(t)[i]]
         /\ k \in Nat /\ k >= 1 /\ k <= Len(Tables[t].files) + 1
         /\ k = Len(Tables[t].files) + 1 => files = Built(t)
<1>1. t \in TableNos /\ k \in 1..(Len(Tables[t].files) + 1) /\ files = [i \in 1..(k - 1) |-> Built(t)[i]]
  BY DEF BuildInv
<1>2. IsSeq(Tables[t].files)
  BY <1>1, TablesAssumption DEF TableNos
<1>3. t \in Nat /\ t # SinkNo
  BY <1>1, TableNosAre
<1>4. AreFiles(Built(t)) /\ Len(Built(t)) = Len(Tables[t].files) /\ DOMAIN Built(t) = DOMAIN Tables[t].files
  BY <1>1, BuiltFiles
<1>5. QED
  BY <1>1, <1>2, <1>3, <1>4 DEF IsSeq, AreFiles, Snap, First

\* A file of a table, and that it is not one of another table.
IsOf(q, n) ==
  \E i : q = DataPath(n, i) \/ q = MetadataPath(n, i) \/ q = ManifestPath(n, i) \/ q = ListPath(n, i)

LEMMA OthersKept ==
  ASSUME NEW n \in Nat, NEW q, IsOf(q, n), NEW c, NEW then, Write(q, c, then),
         \A m \in 1..(n - 1) : TableWill(fs, writing, m)
  PROVE  \A m \in 1..(n - 1) : TableWill(fs', writing', m)
<1> TAKE m \in 1..(n - 1)
<1>1. m # n /\ TableWill(fs, writing, m)
  OBVIOUS
<1>2. PICK i : q = DataPath(n, i) \/ q = MetadataPath(n, i) \/ q = ManifestPath(n, i) \/ q = ListPath(n, i)
  BY DEF IsOf
<1>3. q # <<>>
  BY <1>2, PathKinds
<1>4. \A j : DataPath(m, j) # q
  BY <1>1, <1>2, PathsDiffer, PathsSame
<1>5. ManifestPath(m, First) # q
  BY <1>1, <1>2, PathsDiffer, PathsSame
<1>6. ListPath(m, First) # q
  BY <1>1, <1>2, PathsDiffer, PathsSame
<1>7. MetadataPath(m, 2) # q
  BY <1>1, <1>2, PathsDiffer, PathsSame
<1>8. QED
  BY <1>1, <1>3, <1>4, <1>5, <1>6, <1>7, WriteKeepsTable

LEMMA BuildStep ==
  ASSUME Control, BuildInv, program = "iceberg_demo", DemoStep
  PROVE  BuildInv'
<1> DEFINE n == Len(Tables[t].files)
<1> USE DEF Building
<1>1. program' = program
  BY DEF DemoStep, StartBuild, WriteDataFile, CreateTable, AppendFiles, CommitPointer, WriteManifest,
         WriteManifestList
<1>2. CASE StartBuild
  <2>1. pc' = "data" /\ t' = 1 /\ k' = 1 /\ files' = <<>>
    BY <1>2 DEF StartBuild
  <2>2. 1 \in TableNos /\ Len(Tables[1].files) \in Nat
    BY TableNosAre, TablesAssumption DEF IsSeq
  <2>3. DataWill(fs', writing', 1, 0)
    BY DEF DataWill
  <2>4. QED
    BY <2>1, <2>2, <2>3 DEF BuildInv
<1>3. CASE WriteDataFile
  <2> DEFINE q == DataPath(t, k)
             c == <<Tables[t].files[k]>>
  <2>1. pc = "data" /\ k <= n /\ k' = k + 1 /\ t' = t /\ Write(q, c, "data")
        /\ files' = Append(files, EntryOf(q, Tables[t].fields, Tables[t].files[k]))
    BY <1>3 DEF WriteDataFile
  <2> USE BuildingFacts
  <2>2. /\ \A m \in 1..(t - 1) : TableWill(fs, writing, m) /\ m # t
        /\ DataWill(fs, writing, t, k - 1) /\ files = [i \in 1..(k - 1) |-> Built(t)[i]]
    BY <2>1 DEF BuildInv
  <2>3. q # <<>>
    BY PathKinds
  <2>4. \A m \in 1..(t - 1) : TableWill(fs', writing', m)
    <3>1. IsOf(q, t)
      BY Zenon DEF IsOf
    <3>2. QED
      BY <2>1, <2>2, <3>1, OthersKept
  <2>5. DataWill(fs', writing', t, k - 1)
    <3>1. \A i \in 1..(k - 1) : i # k
      OBVIOUS
    <3>2. \A i \in 1..(k - 1) : DataPath(t, i) # q
      BY <3>1, PathsSame
    <3> HIDE DEF q
    <3>3. QED
      BY <2>1, <2>2, <2>3, <3>2, WriteKeepsData
  <2>6. DataWill(fs', writing', t, k)
    <3>1. Will(fs', writing', q, c) /\ pc' = "data"
      BY <2>1, <2>3, WriteEffect
    <3>2. QED
      BY <2>1, <2>5, <3>1 DEF DataWill
  <2>7. files' = [i \in 1..k |-> Built(t)[i]]
    <3>1. k \in DOMAIN Tables[t].files
      BY <2>1
    <3>2. Built(t)[k] = EntryOf(q, Tables[t].fields, Tables[t].files[k])
      BY <3>1 DEF Built
    <3>3. k - 1 \in Nat /\ (k - 1) + 1 = k
      BY <2>1
    <3>4. QED
      BY <2>1, <2>2, <3>2, <3>3, NextElement
  <2>8. pc' = "data"
    BY <2>1 DEF Write
  <2>9. (k + 1) - 1 = k /\ k + 1 \in 1..(n + 1)
    BY <2>1
  <2>10. QED
    BY <2>1, <2>4, <2>6, <2>7, <2>8, <2>9 DEF BuildInv
<1>4. CASE CreateTable
  <2> DEFINE q == MetadataPath(t, 1)
  <2>1. /\ pc = "data" /\ k > n /\ table' = NewTable(t) /\ UNCHANGED <<t, k, files>>
        /\ Write(q, Metadata(table'), "manifest")
    BY <1>4 DEF CreateTable, NewTable
  <2> USE BuildingFacts
  <2>2. /\ \A m \in 1..(t - 1) : TableWill(fs, writing, m) /\ m # t
        /\ DataWill(fs, writing, t, k - 1) /\ files = [i \in 1..(k - 1) |-> Built(t)[i]]
    BY <2>1 DEF BuildInv
  <2>3. q # <<>>
    BY PathKinds
  <2>4. \A m \in 1..(t - 1) : TableWill(fs', writing', m)
    <3>1. IsOf(q, t)
      BY Zenon DEF IsOf
    <3>2. QED
      BY <2>1, <2>2, <3>1, OthersKept
  <2>5. DataWill(fs', writing', t, k - 1)
    BY <2>1, <2>2, <2>3, WriteKeepsData, PathsDiffer
  <2>6. pc' = "manifest" /\ k = n + 1
    BY <2>1 DEF Write
  <2>7. QED
    BY <2>1, <2>2, <2>4, <2>5, <2>6 DEF BuildInv
<1>5. CASE WriteManifest
  <2> DEFINE q == ManifestPath(t, First)
             a == TableAppend(t)
  <2>1. pc = "manifest" /\ UNCHANGED <<t, k, files, table>>
    BY <1>5 DEF WriteManifest, build
  <2> USE BuildingFacts
  <2>2. /\ \A m \in 1..(t - 1) : TableWill(fs, writing, m) /\ m # t
        /\ DataWill(fs, writing, t, k - 1) /\ files = [i \in 1..(k - 1) |-> Built(t)[i]]
        /\ k = n + 1 /\ table = NewTable(t)
    BY <2>1 DEF BuildInv
  <2>3. files = Built(t)
    BY <2>1, <2>2
  <2>4. Write(q, Manifest(First, Built(t)), "list")
    BY <1>5, <2>1, <2>3 DEF WriteManifest
  <2>5. q # <<>>
    BY PathKinds
  <2>6. \A m \in 1..(t - 1) : TableWill(fs', writing', m)
    <3>1. IsOf(q, t)
      BY Zenon DEF IsOf
    <3>2. QED
      BY <2>1, <2>2, <2>4, <3>1, OthersKept
  <2>7. DataWill(fs', writing', t, k - 1)
    BY <2>2, <2>4, <2>5, WriteKeepsData, PathsDiffer
  <2>8. pc' = "list" /\ Will(fs', writing', q, Manifest(First, Built(t)))
    BY <2>4, <2>5, WriteEffect
  <2>9. ManifestWill(fs', writing', a)
    BY <2>8 DEF ManifestWill, TableAppend
  <2>10. QED
    BY <2>1, <2>2, <2>6, <2>7, <2>8, <2>9 DEF BuildInv
<1>6. CASE WriteManifestList
  <2> DEFINE q == ListPath(t, First)
             a == TableAppend(t)
  <2>1. pc = "list" /\ UNCHANGED <<t, k, files, table>>
    BY <1>6 DEF WriteManifestList, build
  <2> USE BuildingFacts
  <2>2. /\ \A m \in 1..(t - 1) : TableWill(fs, writing, m) /\ m # t
        /\ DataWill(fs, writing, t, k - 1) /\ files = [i \in 1..(k - 1) |-> Built(t)[i]]
        /\ k = n + 1 /\ table = NewTable(t) /\ ManifestWill(fs, writing, a)
    BY <2>1 DEF BuildInv
  <2>3. files = Built(t)
    BY <2>1, <2>2
  <2>4. a.n = t /\ a.snap = First /\ a.seq = 1 /\ a.files = Built(t)
    BY DEF TableAppend
  <2> HIDE DEF a
  <2>5. Write(q, ListContent(a), "append")
    BY <1>6, <2>1, <2>3, <2>4 DEF WriteManifestList, ListContent
  <2>6. q # <<>>
    BY PathKinds
  <2>7. \A m \in 1..(t - 1) : TableWill(fs', writing', m)
    <3>1. IsOf(q, t)
      BY Zenon DEF IsOf
    <3>2. QED
      BY <2>1, <2>2, <2>5, <3>1, OthersKept
  <2>8. DataWill(fs', writing', t, k - 1)
    BY <2>2, <2>5, <2>6, WriteKeepsData, PathsDiffer
  <2>9. pc' = "append" /\ Will(fs', writing', q, ListContent(a))
    BY <2>5, <2>6, WriteEffect
  <2>10. ListWill(fs', writing', a)
    BY <2>4, <2>9 DEF ListWill
  <2>11. ManifestWill(fs', writing', a)
    BY <2>2, <2>4, <2>5, <2>6, WriteKeepsLists, PathsDiffer
  <2>12. QED
    BY <2>1, <2>2, <2>7, <2>8, <2>9, <2>10, <2>11 DEF BuildInv, a
<1>7. CASE AppendFiles
  <2> DEFINE q == MetadataPath(t, 2)
             a == TableAppend(t)
             last == IF t < Len(Tables) THEN "data" ELSE "commit"
  <2>1. /\ pc = "append" /\ k' = 1 /\ files' = <<>>
        /\ t' = IF t < Len(Tables) THEN t + 1 ELSE 1
    BY <1>7 DEF AppendFiles
  <2> USE BuildingFacts
  <2>2. /\ \A m \in 1..(t - 1) : TableWill(fs, writing, m) /\ m # t
        /\ DataWill(fs, writing, t, n) /\ table = NewTable(t)
        /\ ManifestWill(fs, writing, a) /\ ListWill(fs, writing, a)
    <3>1. k = n + 1 /\ (n + 1) - 1 = n
      BY <2>1 DEF BuildInv
    <3>2. QED
      BY <2>1, <3>1 DEF BuildInv
  <2>3. Write(q, Metadata(FullTable(t)), last)
    BY <1>7, <2>1, <2>2 DEF AppendFiles, FullTable
  <2>4. a.n = t /\ a.snap = First
    BY DEF TableAppend
  <2>5. q # <<>>
    BY PathKinds
  <2>6. \A m \in 1..(t - 1) : TableWill(fs', writing', m)
    <3>1. IsOf(q, t)
      BY Zenon DEF IsOf
    <3>2. QED
      BY <2>1, <2>2, <2>3, <3>1, OthersKept
  <2>7. TableWill(fs', writing', t)
    <3>1. DataWill(fs', writing', t, n)
      BY <2>2, <2>3, <2>5, WriteKeepsData, PathsDiffer
    <3>2. ManifestWill(fs', writing', a) /\ ListWill(fs', writing', a)
      BY <2>2, <2>3, <2>4, <2>5, WriteKeepsLists, PathsDiffer
    <3>3. Will(fs', writing', q, Metadata(FullTable(t)))
      BY <2>3, <2>5, WriteEffect
    <3>4. QED
      BY <3>1, <3>2, <3>3 DEF TableWill
  <2>8. \A m \in 1..t : TableWill(fs', writing', m)
    BY <2>1, <2>6, <2>7
  <2>9. pc' = last
    BY <2>3 DEF Write
  <2>10. CASE t < Len(Tables)
    <3>1. t' \in TableNos /\ t' - 1 = t /\ pc' = "data"
      BY <2>1, <2>9, <2>10, TableNosAre
    <3>2. Len(Tables[t'].files) \in Nat
      BY <3>1, TablesAssumption DEF IsSeq, TableNos
    <3>3. DataWill(fs', writing', t', 0)
      BY DEF DataWill
    <3>4. QED
      BY <2>1, <2>8, <3>1, <3>2, <3>3 DEF BuildInv
  <2>11. CASE ~(t < Len(Tables))
    <3>1. pc' = "commit" /\ TableNos = 1..t
      BY <2>1, <2>9, <2>11, TableNosAre
    <3>2. QED
      BY <2>8, <3>1 DEF BuildInv, TablesWill
  <2>12. QED
    BY <2>10, <2>11
<1>8. CASE CommitPointer
  <2>1. pc = "commit" /\ pc' \in {"commit", "done"} /\ UNCHANGED <<fs, writing>>
    BY <1>8 DEF CommitPointer, disk
  <2>2. QED
    BY <2>1 DEF BuildInv, TablesWill
<1>9. QED
  BY <1>2, <1>3, <1>4, <1>5, <1>6, <1>7, <1>8 DEF DemoStep

LEMMA BuildInvStep ==
  ASSUME Control, BuildInv, [Next]_vars
  PROVE  BuildInv'
<1>1. CASE program = "iceberg_demo" /\ DemoStep
  BY <1>1, BuildStep
<1>2. CASE program # "iceberg_demo"
  BY <1>2, StepsOf DEF BuildInv
<1>3. CASE WritePart
  <2>1. UNCHANGED <<program, pc, t, k, files, table>>
    BY <1>3 DEF WritePart, build
  <2>2. /\ \A n, upto : DataWill(fs, writing, n, upto) => DataWill(fs', writing', n, upto)
        /\ \A a : ManifestWill(fs, writing, a) => ManifestWill(fs', writing', a)
        /\ \A a : ListWill(fs, writing, a) => ListWill(fs', writing', a)
        /\ \A n : TableWill(fs, writing, n) => TableWill(fs', writing', n)
    BY <1>3, PartKeepsTables
  <2>3. ASSUME program = "iceberg_demo", pc \in Building
        PROVE  LET n == Len(Tables[t].files) IN
               /\ t \in TableNos
               /\ \A m \in 1..(t - 1) : TableWill(fs', writing', m)
               /\ k \in 1..(n + 1) /\ files = [i \in 1..(k - 1) |-> Built(t)[i]]
               /\ DataWill(fs', writing', t, k - 1)
               /\ pc # "data" => k = n + 1 /\ table = NewTable(t)
               /\ pc \in {"list", "append"} => ManifestWill(fs', writing', TableAppend(t))
               /\ pc = "append" => ListWill(fs', writing', TableAppend(t))
    BY <2>2, <2>3 DEF BuildInv
  <2>4. program = "iceberg_demo" /\ pc \in {"commit", "done"} => TablesWill(fs', writing')
    BY <2>2 DEF BuildInv, TablesWill
  <2>5. QED
    BY <2>1, <2>3, <2>4 DEF BuildInv
<1>4. CASE Crash
  <2>1. pc' = "failed"
    BY <1>4 DEF Crash
  <2>2. QED
    BY <2>1 DEF BuildInv, Building
<1>5. CASE (\E r \in Readers : Read(r)) \/ UNCHANGED vars
  <2>1. UNCHANGED <<program, pc, fs, writing, t, k, files, table>>
    BY <1>5, ReadersOnlyRead DEF disk, build
  <2>2. QED
    BY <2>1 DEF BuildInv, TablesWill
<1>6. QED
  BY <1>1, <1>2, <1>3, <1>4, <1>5, StepsOf

\* What is not written yet is not there.
LEMMA FreshStep ==
  ASSUME Control, BuildInv, BuildFresh, program = "iceberg_demo", DemoStep
  PROVE  BuildFresh'
<1> USE DEF Building
<1>1. CASE StartBuild
  BY <1>1 DEF StartBuild, NoFiles, BuildFresh
<1>2. CASE pc \in Building /\ ~AppendFiles /\ ~StartBuild /\ ~CommitPointer
  <2> USE <1>2, BuildingFacts
  <2>1. PICK q, c, then :
          /\ Write(q, c, then) /\ t' = t
          /\ \/ pc = "data" /\ then = "data" /\ q = DataPath(t, k)
             \/ pc = "data" /\ then = "manifest" /\ q = MetadataPath(t, 1)
             \/ pc = "manifest" /\ then = "list" /\ q = ManifestPath(t, First)
             \/ pc = "list" /\ then = "append" /\ q = ListPath(t, First)
    <3>1. CASE WriteDataFile
      BY <3>1 DEF WriteDataFile
    <3>2. CASE CreateTable
      BY <3>2 DEF CreateTable
    <3>3. CASE WriteManifest
      BY <3>3 DEF WriteManifest, build
    <3>4. CASE WriteManifestList
      BY <3>4 DEF WriteManifestList, build
    <3>5. QED
      BY <3>1, <3>2, <3>3, <3>4 DEF DemoStep
  <2>2. q # <<>>
    BY <2>1, PathKinds
  <2>3. DOMAIN fs' = DOMAIN fs \cup {q} /\ pc' = then
    BY <2>1, <2>2, WriteEffect
  <2> SUFFICES ASSUME NEW n \in TableNos
               PROVE  /\ MetadataPath(n, 1) \in DOMAIN fs' => n < t \/ (n = t /\ then # "data")
                      /\ ManifestPath(n, First) \in DOMAIN fs' => n < t \/ (n = t /\ then \in {"list", "append"})
                      /\ ListPath(n, First) \in DOMAIN fs' => n < t \/ (n = t /\ then = "append")
                      /\ MetadataPath(n, 2) \in DOMAIN fs' => n < t
    BY <2>1, <2>3 DEF BuildFresh
  <2>4. /\ MetadataPath(n, 1) \in DOMAIN fs => n < t \/ (n = t /\ pc # "data")
        /\ ManifestPath(n, First) \in DOMAIN fs => n < t \/ (n = t /\ pc \in {"list", "append"})
        /\ ListPath(n, First) \in DOMAIN fs => n < t \/ (n = t /\ pc = "append")
        /\ MetadataPath(n, 2) \in DOMAIN fs => n < t
    BY DEF BuildFresh
  <2>6. CASE q = DataPath(t, k) /\ pc = "data" /\ then = "data"
    BY <2>3, <2>4, <2>6, PathsDiffer
  <2>7. CASE q = MetadataPath(t, 1) /\ pc = "data" /\ then = "manifest"
    <3>1. MetadataPath(n, 2) # q /\ (MetadataPath(n, 1) = q => n = t)
      BY <2>7 DEF MetadataPath
    <3>2. ManifestPath(n, First) # q /\ ListPath(n, First) # q
      BY <2>7, PathsDiffer
    <3>3. QED
      BY <2>3, <2>4, <2>7, <3>1, <3>2
  <2>8. CASE q = ManifestPath(t, First) /\ pc = "manifest" /\ then = "list"
    <3>1. ManifestPath(n, First) = q => n = t
      BY <2>8, PathsSame
    <3>2. MetadataPath(n, 1) # q /\ MetadataPath(n, 2) # q /\ ListPath(n, First) # q
      BY <2>8, PathsDiffer
    <3>3. QED
      BY <2>3, <2>4, <2>8, <3>1, <3>2
  <2>9. CASE q = ListPath(t, First) /\ pc = "list" /\ then = "append"
    <3>1. ListPath(n, First) = q => n = t
      BY <2>9, PathsSame
    <3>2. MetadataPath(n, 1) # q /\ MetadataPath(n, 2) # q /\ ManifestPath(n, First) # q
      BY <2>9, PathsDiffer
    <3>3. QED
      BY <2>3, <2>4, <2>9, <3>1, <3>2
  <2>10. QED
    BY <2>1, <2>6, <2>7, <2>8, <2>9
<1>3. CASE AppendFiles
  <2> DEFINE q == MetadataPath(t, 2)
             last == IF t < Len(Tables) THEN "data" ELSE "commit"
  <2>1. pc = "append" /\ Write(q, Metadata(table'), last) /\ t' = IF t < Len(Tables) THEN t + 1 ELSE 1
    BY <1>3 DEF AppendFiles
  <2>a. q # <<>>
    BY PathKinds
  <2> HIDE DEF q, last
  <2>2. DOMAIN fs' = DOMAIN fs \cup {q} /\ pc' = last
    BY <2>1, <2>a, WriteEffect
  <2> USE DEF q, last
  <2>3. CASE ~(t < Len(Tables))
    BY <2>2, <2>3 DEF BuildFresh
  <2>4. CASE t < Len(Tables)
    <3>1. t' = t + 1 /\ pc' = "data" /\ t \in Nat /\ t \in TableNos
      BY <2>1, <2>2, <2>4, BuildingFacts
    <3> SUFFICES ASSUME NEW n \in TableNos
                 PROVE  /\ MetadataPath(n, 1) \in DOMAIN fs' => n < t + 1
                        /\ ManifestPath(n, First) \in DOMAIN fs' => n < t + 1
                        /\ ListPath(n, First) \in DOMAIN fs' => n < t + 1
                        /\ MetadataPath(n, 2) \in DOMAIN fs' => n < t + 1
      BY <3>1 DEF BuildFresh
    <3>2. n \in Nat
      BY TableNosAre
    <3>3. /\ MetadataPath(n, 1) \in DOMAIN fs => n <= t
          /\ ManifestPath(n, First) \in DOMAIN fs => n <= t
          /\ ListPath(n, First) \in DOMAIN fs => n <= t
          /\ MetadataPath(n, 2) \in DOMAIN fs => n <= t
      BY <2>1, <3>1, <3>2 DEF BuildFresh
    <3>4. MetadataPath(n, 2) = q => n = t
      BY PathsSame
    <3>5. MetadataPath(n, 1) = q => n = t
      BY PathsSame
    <3>6. ManifestPath(n, First) # q /\ ListPath(n, First) # q
      BY PathsDiffer
    <3> HIDE DEF q
    <3>7. QED
      BY <2>2, <3>1, <3>2, <3>3, <3>4, <3>5, <3>6
  <2>5. QED
    BY <2>3, <2>4
<1>4. CASE CommitPointer
  BY <1>4 DEF CommitPointer, BuildFresh
<1>5. QED
  <2>1. DemoStep => StartBuild \/ AppendFiles \/ CommitPointer \/ pc \in Building
    BY DEF DemoStep, WriteDataFile, CreateTable, WriteManifest, WriteManifestList
  <2>2. QED
    BY <1>1, <1>2, <1>3, <1>4, <2>1

LEMMA BuildFreshStep ==
  ASSUME Control, BuildInv, BuildFresh, [Next]_vars
  PROVE  BuildFresh'
<1>1. CASE program = "iceberg_demo" /\ DemoStep
  BY <1>1, FreshStep
<1>2. CASE program # "iceberg_demo"
  BY <1>2, StepsOf DEF BuildFresh
<1>3. CASE WritePart
  BY <1>3 DEF WritePart, build, BuildFresh
<1>4. CASE Crash
  BY <1>4 DEF Crash, BuildFresh, Building
<1>5. CASE (\E r \in Readers : Read(r)) \/ UNCHANGED vars
  BY <1>5, ReadersOnlyRead DEF disk, build, BuildFresh
<1>6. QED
  BY <1>1, <1>2, <1>3, <1>4, <1>5, StepsOf

-----------------------------------------------------------------------------
(* The catalog and its readers.                                            *)

LEMMA CatalogStep ==
  ASSUME Control, BuildInv, CatalogInv, [Next]_vars
  PROVE  CatalogInv'
<1> USE DEF Building
<1>1. CASE UNCHANGED <<catalog, writing, program>> /\ (pc \in {"commit", "done"} => pc' \in {"commit", "done"})
  BY <1>1 DEF CatalogInv, Idle
<1>2. CASE UNCHANGED <<catalog, program>> /\ (program = "iceberg_demo" => pc \notin {"commit", "done"} \/ ~Idle)
  BY <1>2 DEF CatalogInv
<1>3. CASE CommitPointer
  <2>1. /\ pc = "commit" /\ Idle /\ UNCHANGED <<program, writing>> /\ pc' \in {"commit", "done"}
        /\ \/ catalog' = [catalog EXCEPT ![t] = MetadataPath(t, 2)]
           \/ UNCHANGED catalog
    BY <1>3 DEF CommitPointer, disk
  <2>2. program = "iceberg_demo"
    BY <2>1 DEF Control
  <2>3. Idle'
    BY <2>1 DEF Idle
  <2>4. catalog' = [n \in TableNos |-> catalog'[n]]
    BY <2>1 DEF CatalogInv
  <2>5. \A n \in TableNos : catalog'[n] # <<>> => catalog'[n] = MetadataPath(n, 2)
    BY <2>1 DEF CatalogInv
  <2>6. QED
    BY <2>1, <2>2, <2>3, <2>4, <2>5 DEF CatalogInv
<1>4. CASE Crash
  BY <1>4 DEF Crash, CatalogInv
<1>5. CASE WritePart
  BY <1>2, <1>5 DEF WritePart
<1>6. CASE program = "iceberg_demo" /\ DemoStep
  <2>1. StartBuild \/ WriteDataFile \/ CreateTable \/ AppendFiles => UNCHANGED <<catalog, program>>
    BY DEF StartBuild, WriteDataFile, CreateTable, AppendFiles
  <2>2. WriteManifest \/ WriteManifestList => UNCHANGED <<catalog, program>>
    BY DEF WriteManifest, WriteManifestList
  <2>3. CommitPointer \/ pc \notin {"commit", "done"}
    BY <1>6 DEF DemoStep, StartBuild, Begin, WriteDataFile, CreateTable, AppendFiles, WriteManifest,
                WriteManifestList
  <2>4. QED
    BY <1>2, <1>3, <1>6, <2>1, <2>2, <2>3 DEF DemoStep
<1>7. CASE program = "stream_demo" /\ SinkStep
  <2>1. UNCHANGED <<catalog, program>>
    BY <1>7 DEF SinkStep, StartSink, RunEpoch, SinkUnit, SinkAppend, Push, WriteManifest, WriteManifestList
  <2>2. QED
    BY <1>2, <1>7, <2>1
<1>8. CASE program = "avro_file" /\ WriteSample
  BY <1>2, <1>8 DEF WriteSample
<1>9. CASE (\E r \in Readers : Read(r)) \/ UNCHANGED vars
  BY <1>1, <1>9, ReadersOnlyRead DEF disk
<1>10. QED
  BY <1>4, <1>5, <1>6, <1>7, <1>8, <1>9, StepsOf

\* What is published stays so during a run, whatever the program does.
LEMMA PublishedKept ==
  ASSUME Control, BuildInv, [Next]_vars, Published
  PROVE  run' = run + 1 \/ (run' = run /\ Published')
<1> USE DEF Building
<1>1. CASE UNCHANGED <<program, run, pc, fs, writing>>
  BY <1>1 DEF Published, Idle, TablesWill
<1>2. CASE StartBuild
  BY <1>2 DEF StartBuild, Begin
<1>3. CASE CommitPointer
  BY <1>3 DEF CommitPointer, disk, Published, Idle, TablesWill
<1>4. CASE Crash
  BY <1>4 DEF Crash, Published, Idle, TablesWill
<1>5. CASE program = "iceberg_demo" /\ DemoStep
  <2>1. pc \notin Building
    BY DEF Published
  <2>2. StartBuild \/ CommitPointer
    BY <1>5, <2>1 DEF DemoStep, WriteDataFile, CreateTable, AppendFiles, WriteManifest, WriteManifestList
  <2>3. QED
    BY <1>2, <1>3, <2>2
<1>6. ~WritePart
  BY DEF WritePart, Published
<1>7. CASE (\E r \in Readers : Read(r)) \/ UNCHANGED vars
  BY <1>1, <1>7, ReadersOnlyRead DEF disk
<1>8. QED
  BY <1>4, <1>5, <1>6, <1>7, StepsOf DEF Published

LEMMA RunStep ==
  ASSUME Control, BuildInv, [Next]_vars
  PROVE  (run' = run + 1 /\ pc = "failed") \/ run' = run
<1>1. CASE program = "iceberg_demo" /\ DemoStep
  BY <1>1 DEF DemoStep, StartBuild, Begin, WriteDataFile, CreateTable, AppendFiles, CommitPointer,
              WriteManifest, WriteManifestList
<1>2. CASE program = "stream_demo" /\ SinkStep
  BY <1>2 DEF SinkStep, StartSink, Begin, RunEpoch, SinkUnit, SinkAppend, Push, WriteManifest,
              WriteManifestList
<1>3. CASE WriteSample
  BY <1>3 DEF WriteSample, Begin
<1>4. CASE WritePart \/ Crash
  BY <1>4 DEF WritePart, Crash
<1>5. CASE (\E r \in Readers : Read(r)) \/ UNCHANGED vars
  BY <1>5, ReadersOnlyRead
<1>6. QED
  BY <1>1, <1>2, <1>3, <1>4, <1>5, StepsOf

\* A reader of what is published reads what was built.
LEMMA ReadingStep ==
  ASSUME Published, NEW r \in Readers, reader = [x \in Readers |-> reader[x]],
         IsReader(reader[r]), reader[r].t \in TableNos, Reading(reader[r]), reader[r].pc # "idle",
         ReadMeta(r) \/ ReadList(r) \/ ReadManifest(r)
  PROVE  Reading(reader'[r])
<1> DEFINE x == reader[r]
           y == reader'[r]
           n == x.t
<1>1. writing = NoWrite /\ TableWill(fs, NoWrite, n)
  BY DEF Published, Idle, TablesWill
<1>2. /\ ReadMetadata(fs, MetadataPath(n, 2)) = [how |-> "ok", table |-> FullTable(n)]
      /\ ReadFile(fs, ListPath(n, First)).how = "ok"
      /\ ReadFile(fs, ListPath(n, First)).rows # <<>>
      /\ ManifestPaths(ReadFile(fs, ListPath(n, First)).rows) = <<ManifestPath(n, First)>>
      /\ ReadFile(fs, ManifestPath(n, First)).how = "ok"
      /\ DataFiles(ReadFile(fs, ManifestPath(n, First)).rows) = Built(n)
  BY <1>1, TableScans
<1>3. FullTable(n).current = <<First>> /\ ListPathOf(FullTable(n), First) = ListPath(n, First)
  BY FullTableIs
<1>4. CASE ReadMeta(r)
  <2>1. x.pc = "metadata"
    BY <1>4 DEF ReadMeta, Reads
  <2>2. x.path = MetadataPath(n, 2) /\ x.files = <<>>
    BY <2>1 DEF Reading
  <2>3. ReadMetadata(fs, x.path) = [how |-> "ok", table |-> FullTable(n)]
    BY <1>2, <2>2
  <2>4. FullTable(n).current # <<>>
    <3>1. <<First>> # <<>>
      OBVIOUS
    <3>2. QED
      BY <1>3, <3>1
  <2> DEFINE m == ReadMetadata(fs, x.path)
  <2>5. y = [x EXCEPT !.how = m.how, !.table = m.table,
                      !.pc = IF m.how = "ok" /\ m.table.current # <<>> THEN "list" ELSE "done"]
    BY <1>4 DEF ReadMeta, Reads
  <2>6. m.how = "ok" /\ m.table = FullTable(n)
    BY <2>3
  <2> HIDE DEF m
  <2>7. y.pc = "list" /\ y.table = FullTable(n) /\ y.t = n /\ y.files = <<>>
    BY <2>2, <2>4, <2>5, <2>6 DEF IsReader
  <2>8. QED
    BY <2>7 DEF Reading
<1>5. CASE ReadList(r)
  <2>1. x.pc = "list"
    BY <1>5 DEF ReadList
  <2>2. x.table = FullTable(n) /\ x.files = <<>>
    BY <2>1 DEF Reading
  <2> DEFINE list == ReadFile(fs, ListPathOf(x.table, x.table.current[1]))
  <2>3. y = [x EXCEPT !.how = list.how, !.todo = ManifestPaths(list.rows),
                      !.pc = IF list.rows = <<>> THEN "done" ELSE "manifests"]
    BY <1>5 DEF ReadList, Reads
  <2>4. x.table.current[1] = First
    BY <1>3, <2>2
  <2>5. list = ReadFile(fs, ListPath(n, First))
    BY <1>3, <2>2, <2>4
  <2> HIDE DEF list
  <2>6. list.rows # <<>> /\ ManifestPaths(list.rows) = <<ManifestPath(n, First)>>
    BY <1>2, <2>5
  <2>7. y.pc = "manifests" /\ y.todo = <<ManifestPath(n, First)>> /\ y.t = n /\ y.files = <<>>
    BY <2>2, <2>3, <2>6 DEF IsReader
  <2>8. QED
    BY <2>7 DEF Reading
<1>6. CASE ReadManifest(r)
  <2>1. x.pc = "manifests"
    BY <1>6 DEF ReadManifest
  <2>2. x.todo = <<ManifestPath(n, First)>> /\ x.files = <<>>
    BY <2>1 DEF Reading
  <2> DEFINE m == ReadFile(fs, Head(x.todo))
  <2>3. y = [x EXCEPT !.how = m.how, !.files = x.files \o DataFiles(m.rows), !.todo = Tail(x.todo),
                      !.pc = IF m.how # "ok" \/ Len(x.todo) = 1 THEN "done" ELSE x.pc]
    BY <1>6 DEF ReadManifest, Reads
  <2>4. Head(x.todo) = ManifestPath(n, First) /\ Len(x.todo) = 1
    <3>1. \A z : Head(<<z>>) = z /\ Len(<<z>>) = 1
      OBVIOUS
    <3>2. QED
      BY <2>2, <3>1
  <2>5. m = ReadFile(fs, ManifestPath(n, First))
    BY <2>4
  <2> HIDE DEF m
  <2>6. m.how = "ok" /\ DataFiles(m.rows) = Built(n)
    BY <1>2, <2>5
  <2>7. x.files \o DataFiles(m.rows) = Built(n)
    <3>1. AreFiles(Built(n))
      BY BuiltFiles
    <3>2. Built(n) \in Seq({Built(n)[i] : i \in 1..Len(Built(n))})
      BY <3>1, SeqIs DEF AreFiles, IsSeq
    <3>3. <<>> \o Built(n) = Built(n)
      BY <3>2, ConcatEmptySeq
    <3>4. QED
      BY <2>2, <2>6, <3>3
  <2>8. y.pc = "done" /\ y.how = "ok" /\ y.files = Built(n) /\ y.t = n
    BY <2>3, <2>4, <2>6, <2>7 DEF IsReader
  <2>9. QED
    BY <2>8 DEF Reading
<1>7. QED
  BY <1>4, <1>5, <1>6

LEMMA ReaderStep ==
  ASSUME Control, BuildInv, CatalogInv, ReaderInv, [Next]_vars
  PROVE  ReaderInv'
<1>1. CASE UNCHANGED reader
  <2>1. \A r \in Readers : reader[r].run <= run' /\ (reader[r].run = run' => run' = run)
    BY RunStep DEF ReaderInv, IsReader, Control
  <2>2. \A r \in Readers : reader[r].pc # "idle" /\ reader[r].run = run' => Published'
    BY <2>1, PublishedKept DEF ReaderInv, Control
  <2>3. QED
    BY <1>1, <2>1, <2>2 DEF ReaderInv
<1>2. ASSUME NEW r \in Readers, Read(r) PROVE ReaderInv'
  <2> DEFINE y == reader'[r]
  <2>1. UNCHANGED <<program, run, pc, fs, writing, catalog>>
    BY <1>2, ReadersOnlyRead DEF disk
  <2>2. reader' = [x \in Readers |-> reader'[x]] /\ \A x \in Readers \ {r} : reader'[x] = reader[x]
    BY <1>2 DEF Read, Ask, ReadMeta, ReadList, ReadManifest, Reads, ReaderInv
  <2>3. Published' <=> Published
    BY <2>1 DEF Published, Idle, TablesWill
  <2>4. IsReader(reader[r]) /\ reader[r].run <= run /\ (reader[r].pc # "idle" => reader[r].t \in TableNos)
        /\ (reader[r].pc # "idle" /\ reader[r].run = run => Published /\ Reading(reader[r]))
        /\ reader = [x \in Readers |-> reader[x]]
    BY DEF ReaderInv
  <2>5. CASE Ask(r)
    <3>1. PICK n \in TableNos :
            /\ catalog[n] # <<>>
            /\ reader' = [reader EXCEPT ![r] =
                 [IdleReader EXCEPT !.pc = "metadata", !.t = n, !.run = run, !.path = catalog[n]]]
      BY <2>5 DEF Ask
    <3>2. y = [IdleReader EXCEPT !.pc = "metadata", !.t = n, !.run = run, !.path = catalog[n]]
      BY <2>4, <3>1
    <3>3. y = [pc |-> "metadata", t |-> n, run |-> run, path |-> catalog[n], table |-> NoTable,
               todo |-> <<>>, files |-> <<>>, how |-> "ok"]
      BY <3>2 DEF IdleReader
    <3>4. catalog[n] = MetadataPath(n, 2) /\ program = "iceberg_demo" /\ pc \in {"commit", "done"} /\ Idle
      BY <3>1 DEF CatalogInv
    <3>5. Published
      BY <3>4 DEF Published, BuildInv
    <3>6. IsReader(y) /\ y.run <= run /\ y.t \in TableNos /\ Reading(y)
      BY <3>3, <3>4 DEF IsReader, Reading, Control
    <3>7. QED
      BY <2>1, <2>2, <2>3, <3>5, <3>6 DEF ReaderInv
  <2>6. CASE ReadMeta(r) \/ ReadList(r) \/ ReadManifest(r)
    <3>1. reader[r].pc # "idle"
      BY <2>6 DEF ReadMeta, ReadList, ReadManifest, Reads
    <3>2. IsReader(y) /\ y.t = reader[r].t /\ y.run = reader[r].run
      <4>1. CASE ReadMeta(r)
        BY <2>4, <4>1 DEF ReadMeta, Reads, IsReader
      <4>2. CASE ReadList(r)
        BY <2>4, <4>2 DEF ReadList, Reads, IsReader
      <4>3. CASE ReadManifest(r)
        BY <2>4, <4>3 DEF ReadManifest, Reads, IsReader
      <4>4. QED
        BY <2>6, <4>1, <4>2, <4>3
    <3>3. y.run = run => Published /\ Reading(y)
      BY <2>4, <2>6, <3>1, <3>2, ReadingStep
    <3>4. QED
      BY <2>1, <2>2, <2>3, <2>4, <3>1, <3>2, <3>3 DEF ReaderInv
  <2>7. QED
    BY <1>2, <2>5, <2>6 DEF Read
<1>3. UNCHANGED reader \/ \E r \in Readers : Read(r)
  <2>1. DemoStep => UNCHANGED reader
    BY DEF DemoStep, StartBuild, WriteDataFile, CreateTable, AppendFiles, CommitPointer, WriteManifest,
           WriteManifestList
  <2>2. SinkStep => UNCHANGED reader
    BY DEF SinkStep, StartSink, RunEpoch, SinkUnit, SinkAppend, Push, WriteManifest, WriteManifestList
  <2>3. WriteSample \/ WritePart \/ Crash \/ UNCHANGED vars => UNCHANGED reader
    BY DEF WriteSample, WritePart, Crash, vars
  <2>4. QED
    BY <2>1, <2>2, <2>3, StepsOf
<1>4. QED
  BY <1>1, <1>2, <1>3

\* What is published is complete, and readers have found it to be.
LEMMA PublishedIs ==
  ASSUME Control, BuildInv, CatalogInv, ReaderInv
  PROVE  PublishedTables
<1>1. ASSUME NEW n \in TableNos, catalog[n] # <<>>
      PROVE  LET m == ReadMetadata(fs, catalog[n]) IN
             /\ m.how = "ok"
             /\ PlanFiles(fs, m.table) = [how |-> "ok", files |-> Built(n)]
             /\ \A i \in DOMAIN Tables[n].files : fs[DataPath(n, i)] = <<Tables[n].files[i]>>
  <2>1. catalog[n] = MetadataPath(n, 2) /\ TableWill(fs, NoWrite, n)
    BY <1>1 DEF CatalogInv, BuildInv, Idle, TablesWill
  <2>2. ReadMetadata(fs, catalog[n]) = [how |-> "ok", table |-> FullTable(n)]
    BY <2>1, TableScans
  <2>3. /\ PlanFiles(fs, FullTable(n)) = [how |-> "ok", files |-> Built(n)]
        /\ \A i \in DOMAIN Tables[n].files : fs[DataPath(n, i)] = <<Tables[n].files[i]>>
    BY <2>1, TableScans
  <2>4. QED
    BY <2>2, <2>3
<1>2. ReadersExact
  BY DEF ReadersExact, ReaderInv, Reading
<1>3. QED
  BY <1>1, <1>2 DEF PublishedTables, PointersComplete

-----------------------------------------------------------------------------
(* stream_demo.                                                            *)

LEMMA SinkTableIs ==
  ASSUME NEW v \in Nat
  PROVE  /\ IsTable(SinkTable(v))
         /\ \A i \in 1..v : ListPathOf(SinkTable(v), SnapBase + i) = ListPath(SinkNo, SnapBase + i)
         /\ Appended(SinkTable(v), SnapBase + (v + 1), ListPath(SinkNo, SnapBase + (v + 1)))
              = SinkTable(v + 1)
<1> DEFINE snap(i) == [id |-> SnapBase + i, list |-> ListPath(SinkNo, SnapBase + i)]
           s == [i \in 1..v |-> snap(i)]
           g == [i \in 1..(v + 1) |-> snap(i)]
           last == snap(v + 1)
           current == IF v = 0 THEN <<>> ELSE <<SnapBase + v>>
<1>1. SinkTable(v) = [uuid |-> <<SinkNo>>, location |-> SinkNo, fields |-> SinkFields,
                      current |-> current, snapshots |-> s, last_sequence_number |-> v]
  BY Zenon DEF SinkTable
<1>2. IsFields(SinkFields)
  <2>1. DOMAIN SinkFields = 1..2 /\ SinkFields = [i \in 1..2 |-> SinkFields[i]] /\ 2 \in Nat
    BY DEF SinkFields
  <2>2. /\ SinkFields[1] = [id |-> 1, name |-> "key", dtype |-> "Int64"]
        /\ SinkFields[2] = [id |-> 2, name |-> "value", dtype |-> "Int64"]
    BY DEF SinkFields
  <2>3. \A i \in 1..2 : SinkFields[i] = [id |-> SinkFields[i].id, name |-> SinkFields[i].name,
                                         dtype |-> SinkFields[i].dtype] /\ SinkFields[i].dtype = "Int64"
    BY <2>2
  <2>4. IsSeq(SinkFields)
    BY <2>1, SeqIs
  <2>5. QED
    BY <2>1, <2>3, <2>4 DEF IsFields
<1>3. s = [i \in DOMAIN s |-> [id |-> s[i].id, list |-> s[i].list]]
  OBVIOUS
<1>4. \A i \in 1..v : s[i].id = SnapBase + i /\ s[i].list = ListPath(SinkNo, SnapBase + i)
  OBVIOUS
<1>5. DOMAIN s = 1..v
  OBVIOUS
<1>6. Append(s, last) = g
  <2>1. s = [i \in 1..v |-> g[i]] /\ last = g[v + 1]
    OBVIOUS
  <2>a. g = [i \in 1..(v + 1) |-> g[i]]
    OBVIOUS
  <2> HIDE DEF s, g, last, snap
  <2>2. Append(s, last) = [i \in 1..(v + 1) |-> g[i]]
    BY <2>1, NextElement
  <2>3. QED
    BY <2>a, <2>2
<1> HIDE DEF s, current
<1>7. IsTable(SinkTable(v))
  BY <1>1, <1>2, <1>3 DEF IsTable
<1>8. ASSUME NEW i \in 1..v
      PROVE  ListPathOf(SinkTable(v), SnapBase + i) = ListPath(SinkNo, SnapBase + i)
  <2>1. SinkTable(v).snapshots = s
    BY <1>1
  <2>2. SnapBase \in Nat
    BY BoundsAssumption
  <2>3. {j \in DOMAIN s : s[j].id = SnapBase + i} = {i}
    BY <1>4, <1>5, <2>2
  <2>4. Min({j \in DOMAIN s : s[j].id = SnapBase + i}) = i
    BY <2>3, MinOne
  <2>5. QED
    BY <1>4, <2>1, <2>4 DEF ListPathOf
<1>9. Appended(SinkTable(v), SnapBase + (v + 1), ListPath(SinkNo, SnapBase + (v + 1))) = SinkTable(v + 1)
  <2> DEFINE id == SnapBase + (v + 1)
             tab == SinkTable(v)
  <2>1. Appended(tab, id, ListPath(SinkNo, id))
          = [tab EXCEPT !.last_sequence_number = tab.last_sequence_number + 1,
                        !.snapshots = Append(tab.snapshots, [id |-> id, list |-> ListPath(SinkNo, id)]),
                        !.current = <<id>>]
    BY DEF Appended
  <2>2. tab.snapshots = s /\ tab.last_sequence_number = v
    BY <1>1
  <2> HIDE DEF tab, g
  <2>3. Appended(tab, id, ListPath(SinkNo, id))
          = [tab EXCEPT !.last_sequence_number = v + 1, !.snapshots = g, !.current = <<id>>]
    BY <1>6, <2>1, <2>2
  <2>4. tab = [uuid |-> <<SinkNo>>, location |-> SinkNo, fields |-> SinkFields,
               current |-> current, snapshots |-> s, last_sequence_number |-> v]
    BY <1>1 DEF tab
  <2>5. Appended(tab, id, ListPath(SinkNo, id))
          = [[uuid |-> <<SinkNo>>, location |-> SinkNo, fields |-> SinkFields,
              current |-> current, snapshots |-> s, last_sequence_number |-> v]
               EXCEPT !.last_sequence_number = v + 1, !.snapshots = g, !.current = <<id>>]
    BY <2>3, <2>4, Zenon
  <2>6. Appended(tab, id, ListPath(SinkNo, id))
          = [uuid |-> <<SinkNo>>, location |-> SinkNo, fields |-> SinkFields,
             current |-> <<id>>, snapshots |-> g, last_sequence_number |-> v + 1]
    BY <2>5, UpdatedTable, Zenon
  <2>7. SinkTable(v + 1)
          = [uuid |-> <<SinkNo>>, location |-> SinkNo, fields |-> SinkFields,
             current |-> IF v + 1 = 0 THEN <<>> ELSE <<id>>, snapshots |-> g,
             last_sequence_number |-> v + 1]
    BY Zenon DEF SinkTable, g
  <2>8. v + 1 # 0
    OBVIOUS
  <2>9. QED
    BY <2>6, <2>7, <2>8 DEF tab
<1>10. QED
  BY <1>7, <1>8, <1>9

LEMMA FirstSinkTable ==
  EmptyTable(SinkNo, SinkFields) = SinkTable(0)
<1>1. \A f : [i \in 1..0 |-> f] = <<>>
  OBVIOUS
<1>2. [i \in 1..0 |-> [id |-> SnapBase + i, list |-> ListPath(SinkNo, SnapBase + i)]] = <<>>
  OBVIOUS
<1>3. SinkTable(0) = [uuid |-> <<SinkNo>>, location |-> SinkNo, fields |-> SinkFields,
                      current |-> <<>>,
                      snapshots |-> [i \in 1..0 |-> [id |-> SnapBase + i, list |-> ListPath(SinkNo, SnapBase + i)]],
                      last_sequence_number |-> 0]
  BY DEF SinkTable
<1>4. QED
  BY <1>2, <1>3 DEF EmptyTable

LEMMA SinkIsAppend ==
  ASSUME NEW e \in 1..(MaxEpochs + 1), NEW b \in Batches
  PROVE  IsAppend(SinkAppendOf(e, b))
<1>1. SinkAppendOf(e, b) \in Appends
  BY DEF SinkAppendOf, Appends, EpochFiles
<1>2. SinkAppendOf(e, b).files = EpochFiles(e, b)
  BY DEF SinkAppendOf
<1>3. QED
  BY <1>1, <1>2, EpochFilesAre DEF IsAppend

\* No records at all are not too many.
LEMMA NoRecords ==
  [p \in Partitions |-> 0] \in Logs
<1> DEFINE P == Partitions
           zero == [p \in P |-> 0]
           body(g) == [S \in SUBSET DOMAIN zero |->
                         IF S = {} THEN 0
                         ELSE zero[CHOOSE p \in S : TRUE] + g[S \ {CHOOSE p \in S : TRUE}]]
           iter == CHOOSE g : g = body(g)
           none == [S \in SUBSET DOMAIN zero |-> 0]
<1>1. FoldFunction(+, 0, zero) = iter[DOMAIN zero]
  BY Zenon DEF FoldFunction, FoldFunctionOnSet, MapThenFoldSet
<1>2. DOMAIN zero = P /\ \A p \in P : zero[p] = 0
  OBVIOUS
<1> HIDE DEF zero
<1>3. none = body(none)
  <2>1. \A S \in SUBSET P : S # {} => (CHOOSE p \in S : TRUE) \in P /\ S \ {CHOOSE p \in S : TRUE} \in SUBSET P
    OBVIOUS
  <2>2. QED
    BY <1>2, <2>1
<1>4. iter = body(iter)
  BY <1>3
<1> HIDE DEF iter
<1>5. iter[{}] = 0 /\ \A S \in SUBSET P : S # {} => \E p \in S : iter[S] = 0 + iter[S \ {p}]
  <2>1. \A S \in SUBSET P : S # {} => (CHOOSE p \in S : TRUE) \in S
    OBVIOUS
  <2>2. \A S \in SUBSET P :
          iter[S] = IF S = {} THEN 0
                    ELSE zero[CHOOSE p \in S : TRUE] + iter[S \ {CHOOSE p \in S : TRUE}]
    BY <1>2, <1>4
  <2>3. iter[{}] = 0
    BY <2>2
  <2>4. ASSUME NEW S \in SUBSET P, S # {} PROVE \E p \in S : iter[S] = 0 + iter[S \ {p}]
    <3> DEFINE p == CHOOSE p \in S : TRUE
    <3>1. p \in S /\ iter[S] = zero[p] + iter[S \ {p}]
      BY <2>1, <2>2, <2>4
    <3>2. zero[p] = 0
      BY <1>2, <3>1
    <3> HIDE DEF p
    <3>3. QED
      BY <3>1, <3>2
  <2>5. QED
    BY <2>3, <2>4
<1>6. IsFiniteSet(P) /\ MaxRecords \in Nat
  BY BoundsAssumption
<1> DEFINE bad == {S \in SUBSET P : iter[S] # 0}
           sizes == {Cardinality(S) : S \in bad}
<1>7. bad = {}
  <2> SUFFICES ASSUME bad # {} PROVE FALSE
    OBVIOUS
  <2>1. \A S \in SUBSET P : IsFiniteSet(S) /\ Cardinality(S) \in Nat
    BY <1>6, FS_Subset, FS_CardinalityType
  <2>2. sizes \subseteq Nat /\ sizes # {}
    BY <2>1
  <2>3. PICK n \in sizes : \A m \in sizes : n <= m
    BY <2>2, LeastNat
  <2>4. PICK S \in bad : n = Cardinality(S)
    BY <2>3
  <2>5. S # {}
    BY <1>5, <2>4
  <2>6. PICK p \in S : iter[S] = 0 + iter[S \ {p}]
    BY <1>5, <2>4, <2>5
  <2>7. S \ {p} \in SUBSET P /\ Cardinality(S \ {p}) = Cardinality(S) - 1 /\ n \in Nat
    BY <2>1, <2>4, FS_RemoveElement
  <2>8. S \ {p} \notin bad
    BY <2>3, <2>4, <2>7
  <2>9. iter[S \ {p}] = 0
    BY <2>7, <2>8
  <2>10. QED
    BY <2>4, <2>6, <2>9
<1>8. iter[P] = 0
  BY <1>7
<1>9. zero \in [Partitions -> 0..MaxRecords]
  BY <1>6 DEF zero
<1>a. 0 <= MaxRecords
  BY <1>6
<1>b. FoldFunction(+, 0, zero) = 0
  BY <1>1, <1>2, <1>8, Zenon
<1>10. FoldFunction(+, 0, zero) <= MaxRecords
  BY <1>a, <1>b, Zenon
<1>11. QED
  BY <1>9, <1>10, Zenon DEF Logs, zero

-----------------------------------------------------------------------------
(* What the steps of stream_demo keep.                                     *)

LEMMA PartKeepsEpochs ==
  ASSUME WritePart, Control
  PROVE  /\ Recorded(fs, writing) => Recorded(fs', writing')
         /\ \A e, b, upto : UnitsWill(fs, writing, e, b, upto) => UnitsWill(fs', writing', e, b, upto)
<1> USE PathKinds, Contents, PartKeeps
<1>1. \A e, b, upto : UnitsWill(fs, writing, e, b, upto) => UnitsWill(fs', writing', e, b, upto)
  BY DEF UnitsWill, Control
<1>2. \A e, x : EpochWhole(fs, writing, e, x) => EpochWhole(fs', writing', e, x)
  BY DEF EpochWhole, Control
<1>3. \A v, c : Begun(fs, writing, MetadataPath(SinkNo, v), Metadata(c))
                  => Begun(fs', writing', MetadataPath(SinkNo, v), Metadata(c))
  BY DEF Control
<1>4. QED
  BY <1>1, <1>2, <1>3 DEF Recorded

\* A file of an epoch, or of the version that it makes.
IsOfEpoch(q, e) ==
  \/ \E p : q = EpochPath(e, p)
  \/ q = ManifestPath(SinkNo, SnapBase + e) \/ q = ListPath(SinkNo, SnapBase + e)
  \/ q = MetadataPath(SinkNo, e)

LEMMA OtherEpochs ==
  ASSUME NEW e \in Nat, NEW d \in Nat, d < e, NEW q, IsOfEpoch(q, e)
  PROVE  /\ q # <<>> /\ \A p : EpochPath(d, p) # q
         /\ ManifestPath(SinkNo, SnapBase + d) # q /\ ListPath(SinkNo, SnapBase + d) # q
         /\ MetadataPath(SinkNo, d) # q
<1>1. SnapBase + d # SnapBase + e /\ d # e
  BY BoundsAssumption
<1>2. CASE \E p : q = EpochPath(e, p)
  BY <1>1, <1>2, PathKinds, PathsDiffer, PathsSame
<1>3. CASE q = ManifestPath(SinkNo, SnapBase + e)
  BY <1>1, <1>3, PathKinds, PathsDiffer, PathsSame
<1>4. CASE q = ListPath(SinkNo, SnapBase + e)
  BY <1>1, <1>4, PathKinds, PathsDiffer, PathsSame
<1>5. CASE q = MetadataPath(SinkNo, e)
  BY <1>1, <1>5, PathKinds, PathsDiffer, PathsSame
<1>6. QED
  BY <1>2, <1>3, <1>4, <1>5 DEF IsOfEpoch

LEMMA WriteKeepsEpoch ==
  ASSUME NEW e \in Nat, NEW d \in Nat, d < e, NEW q, IsOfEpoch(q, e), NEW c, NEW then, Write(q, c, then),
         NEW x
  PROVE  /\ EpochWhole(fs, writing, d, x) => EpochWhole(fs', writing', d, x)
         /\ \A content : Begun(fs, writing, MetadataPath(SinkNo, d), content)
                           => Begun(fs', writing', MetadataPath(SinkNo, d), content)
<1>1. /\ q # <<>> /\ \A p : EpochPath(d, p) # q
      /\ ManifestPath(SinkNo, SnapBase + d) # q /\ ListPath(SinkNo, SnapBase + d) # q
      /\ MetadataPath(SinkNo, d) # q
  BY OtherEpochs
<1>2. \A path, content : path # q /\ path # <<>> =>
         /\ Whole(fs, writing, path, content) => Whole(fs', writing', path, content)
         /\ Begun(fs, writing, path, content) => Begun(fs', writing', path, content)
  BY <1>1, WriteEffect
<1>3. SinkAppendOf(d, x.batches).snap = SnapBase + d
  BY DEF SinkAppendOf
<1>4. EpochWhole(fs, writing, d, x) => EpochWhole(fs', writing', d, x)
  BY <1>1, <1>2, <1>3, PathKinds DEF EpochWhole
<1>5. QED
  BY <1>1, <1>2, <1>4, PathKinds

\* While the files of an epoch are written, what is recorded stays.
LEMMA WriteKeepsRecorded ==
  ASSUME version \in Nat, Recorded(fs, writing),
         NEW q, IsOfEpoch(q, version + 1), NEW c, NEW then, Write(q, c, then)
  PROVE  /\ \A e \in 1..version : EpochWhole(fs', writing', e, appended[e])
         /\ \A v \in 0..version : Begun(fs', writing', MetadataPath(SinkNo, v), Metadata(SinkTable(v)))
<1>1. version + 1 \in Nat /\ \A d \in 0..version : d \in Nat /\ d < version + 1
  OBVIOUS
<1>2. \A e \in 1..version : EpochWhole(fs', writing', e, appended[e])
  <2> TAKE e \in 1..version
  <2>1. EpochWhole(fs, writing, e, appended[e])
    BY DEF Recorded
  <2>2. e \in Nat /\ e < version + 1
    OBVIOUS
  <2>3. QED
    BY <1>1, <2>1, <2>2, WriteKeepsEpoch
<1>3. \A v \in 0..version : Begun(fs', writing', MetadataPath(SinkNo, v), Metadata(SinkTable(v)))
  BY <1>1, WriteKeepsEpoch DEF Recorded
<1>4. QED
  BY <1>2, <1>3

LEMMA CrashKeepsRecorded ==
  ASSUME Recorded(fs, writing), Crash
  PROVE  Recorded(fs', writing')
<1>1. fs' = fs /\ writing' = NoWrite
  BY DEF Crash
<1>2. \A e \in 1..version : EpochWhole(fs', writing', e, appended[e])
  BY <1>1, CrashKeeps, PathKinds DEF Recorded, EpochWhole
<1>3. \A v \in 0..version : Begun(fs', writing', MetadataPath(SinkNo, v), Metadata(SinkTable(v)))
  BY <1>1, CrashKeeps, PathKinds DEF Recorded
<1>4. QED
  BY <1>2, <1>3 DEF Recorded

LEMMA WriteKeepsUnits ==
  ASSUME NEW q, q # <<>>, NEW c, NEW then, Write(q, c, then), NEW e, NEW b, NEW upto,
         UnitsWill(fs, writing, e, b, upto),
         OwnFiles(b) => \A i \in 1..upto : EpochPath(e, b[i].part) # q
  PROVE  UnitsWill(fs', writing', e, b, upto)
<1>1. \A path, x : path # q /\ path # <<>> /\ Will(fs, writing, path, x) => Will(fs', writing', path, x)
  BY WriteEffect
<1>2. ASSUME OwnFiles(b), NEW i \in 1..upto
      PROVE  Will(fs', writing', EpochPath(e, b[i].part), <<Columns(b[i])>>)
  <2>1. Will(fs, writing, EpochPath(e, b[i].part), <<Columns(b[i])>>)
    BY <1>2 DEF UnitsWill
  <2>2. EpochPath(e, b[i].part) # q
    BY <1>2
  <2>3. QED
    BY <1>1, <2>1, <2>2, PathKinds
<1>3. QED
  BY <1>2 DEF UnitsWill

\* What the stages of an epoch know.
LEMMA AppendingFacts ==
  ASSUME Control, SinkInv, program = "stream_demo", pc \in {"sink", "manifest", "list", "append"}
  PROVE  /\ run \in Nat /\ run > 0 /\ t = SinkNo /\ Snap = SnapBase + epoch
         /\ Recorded(fs, writing) /\ Running /\ Appending
         /\ version \in Nat /\ epoch \in Nat /\ epoch \in 1..(MaxEpochs + 1) /\ epoch = version + 1
         /\ Len(batches) \in Nat /\ DOMAIN batches = 1..Len(batches)
         /\ k \in Nat /\ k >= 1 /\ k <= Len(batches) + 1
         /\ EpochFiles(epoch, batches) = [i \in 1..Len(batches) |-> SinkEntry(epoch, batches[i])]
         /\ k = Len(batches) + 1 => files = EpochFiles(epoch, batches)
<1>1. run \in Nat /\ run > 0 /\ t = SinkNo /\ Recorded(fs, writing) /\ Running
  BY DEF Control, SinkInv, Unrun
<1>2. Appending /\ version \in 0..(MaxEpochs + 1)
  BY <1>1 DEF Running
<1>3. Len(batches) \in Nat /\ DOMAIN batches = 1..Len(batches)
  BY <1>2, BatchesAre DEF Appending, IsSeq
<1>4. epoch = version + 1 /\ epoch <= MaxEpochs + 1 /\ k \in 1..(Len(batches) + 1)
      /\ files = [i \in 1..(k - 1) |-> SinkEntry(epoch, batches[i])]
  BY <1>2 DEF Appending
<1>5. MaxEpochs \in Nat
  BY BoundsAssumption
<1>6. EpochFiles(epoch, batches) = [i \in 1..Len(batches) |-> SinkEntry(epoch, batches[i])]
  BY <1>3 DEF EpochFiles
<1>7. k = Len(batches) + 1 => k - 1 = Len(batches)
  BY <1>3
<1>8. QED
  BY <1>1, <1>2, <1>3, <1>4, <1>5, <1>6, <1>7 DEF Snap

\* The offsets after an epoch are offsets.
LEMMA ReachedIs ==
  ASSUME NEW from \in [Partitions -> 0..MaxRecords], NEW to \in [Partitions -> 0..MaxRecords],
         NEW p \in Partitions
  PROVE  Max({from[p]} \cup {u.end : u \in {u \in AllUnits(from, to) : u.part = p}}) \in 0..MaxRecords
<1> DEFINE S == {from[p]} \cup {u.end : u \in {u \in AllUnits(from, to) : u.part = p}}
<1>1. \A u \in AllUnits(from, to) : IsUnit(u)
  BY UnitsAre
<1>2. MaxRecords \in Int /\ from[p] \in 0..MaxRecords
  BY BoundsAssumption
<1>3. \A x \in S : x \in 0..MaxRecords
  BY <1>1, <1>2 DEF IsUnit
<1>4. from[p] \in S
  OBVIOUS
<1> HIDE DEF S
<1>a. S # {} /\ \A x \in S : x \in Int /\ x <= MaxRecords
  BY <1>2, <1>3, <1>4
<1>5. Max(S) \in S
  BY <1>2, <1>a, Greatest
<1>6. QED
  BY <1>3, <1>5 DEF S

LEMMA SinkStepInv ==
  ASSUME Control, SinkInv, program = "stream_demo", SinkStep
  PROVE  SinkInv'
<1>1. program' = program
  BY DEF SinkStep, StartSink, RunEpoch, SinkUnit, SinkAppend, Push, WriteManifest, WriteManifestList
<1>2. CASE StartSink
  <2> DEFINE q == MetadataPath(SinkNo, 0)
             c == Metadata(SinkTable(0))
  <2>1. /\ run' = run + 1 /\ table' = SinkTable(0) /\ version' = 0 /\ pc' = "epoch" /\ epoch' = 0
        /\ appended' = <<>>
        /\ log' = [p \in Partitions |-> 0] /\ offsets' = [p \in Partitions |-> 0]
        /\ fs' = Created(NoFiles, q) /\ writing' = [path |-> q, parts |-> c]
    BY <1>2, FirstSinkTable DEF StartSink, Begin
  <2>2. MaxEpochs \in Nat /\ MaxRecords \in Nat
    BY BoundsAssumption
  <2>3. run' > 0
    BY <2>1 DEF Control
  <2>4. Begun(fs', writing', q, c)
    BY <2>1, PathKinds, CreateKeeps
  <2>5. offsets' \in [Partitions -> 0..MaxRecords] /\ log' \in Logs
    BY <2>1, <2>2, NoRecords
  <2>6. Running'
    BY <2>1, <2>2, <2>5 DEF Running
  <2>7. Recorded(fs, writing)'
    <3>1. \A e : e \in 1..0 => FALSE
      OBVIOUS
    <3>2. \A v : v \in 0..0 => v = 0
      OBVIOUS
    <3>3. <<>> = [e \in 1..0 |-> appended'[e]] /\ Len(<<>>) = 0 /\ DOMAIN <<>> = 1..0 /\ 0 \in Nat
      OBVIOUS
    <3> HIDE DEF q, c
    <3>4. IsSeq(<<>>)
      BY <3>3 DEF IsSeq
    <3>5. QED
      BY <2>1, <2>4, <3>1, <3>2, <3>3, <3>4 DEF Recorded, q, c
  <2>8. QED
    BY <1>1, <2>3, <2>6, <2>7 DEF SinkInv
<1>3. CASE RunEpoch
  <2>1. /\ pc = "epoch" /\ epoch' = epoch + 1 /\ k' = 1 /\ files' = <<>>
        /\ batches' \in SetToSeqs(AllUnits(offsets, log))
        /\ offsets' = [p \in Partitions |->
             Max({offsets[p]} \cup {u.end : u \in {u \in AllUnits(offsets, log) : u.part = p}})]
        /\ pc' = (IF AllUnits(offsets, log) = {} THEN "done" ELSE "sink")
        /\ UNCHANGED <<run, fs, writing, table, version, log, appended>>
    BY <1>3 DEF RunEpoch, disk
  <2>2. run > 0 /\ Recorded(fs, writing) /\ Running
    BY <2>1 DEF SinkInv, Unrun
  <2>3. offsets \in [Partitions -> 0..MaxRecords] /\ log \in Logs /\ log \in [Partitions -> 0..MaxRecords]
        /\ epoch = version /\ epoch <= MaxEpochs /\ version \in 0..(MaxEpochs + 1)
    BY <2>1, <2>2 DEF Running, Logs
  <2>4. offsets' \in [Partitions -> 0..MaxRecords]
    BY <2>1, <2>3, ReachedIs
  <2>5. batches' \in Batches /\ Len(batches') \in Nat
        /\ (AllUnits(offsets, log) # {} => Len(batches') > 0)
    BY <2>1, <2>3, BatchIs DEF IsSeq
  <2>6. pc' = "sink" => Appending'
    <3> SUFFICES ASSUME pc' = "sink" PROVE Appending'
      OBVIOUS
    <3>1. Len(batches') > 0 /\ k' \in 1..(Len(batches') + 1) /\ k' <= Len(batches')
      BY <2>1, <2>5
    <3>2. UnitsWill(fs', writing', epoch', batches', k' - 1)
      BY <2>1 DEF UnitsWill
    <3>3. files' = [i \in 1..(k' - 1) |-> SinkEntry(epoch', batches'[i])]
      <4>1. k' - 1 = 0
        BY <2>1
      <4>2. [i \in 1..0 |-> SinkEntry(epoch', batches'[i])] = <<>>
        OBVIOUS
      <4>3. QED
        BY <2>1, <4>1, <4>2
    <3>4. epoch' = version' + 1 /\ epoch' <= MaxEpochs + 1
      BY <2>1, <2>3, BoundsAssumption
    <3>5. QED
      BY <2>5, <3>1, <3>2, <3>3, <3>4 DEF Appending
  <2>7. Running'
    <3>1. pc' \in {"done", "sink"}
      BY <2>1
    <3>2. table' = SinkTable(version') /\ version' \in 0..(MaxEpochs + 1) /\ log' \in Logs
      BY <2>1, <2>2 DEF Running
    <3>3. QED
      BY <2>4, <2>6, <3>1, <3>2 DEF Running
  <2>8. Recorded(fs, writing)'
    BY <2>1, <2>2 DEF Recorded
  <2>9. QED
    BY <1>1, <2>1, <2>2, <2>7, <2>8 DEF SinkInv
<1>4. CASE \E p \in Partitions : Push(p)
  <2>1. log' \in Logs /\ pc # "failed"
        /\ UNCHANGED <<run, pc, fs, writing, k, files, table, version, offsets, epoch, batches, appended>>
    BY <1>4 DEF Push, disk, build
  <2>2. run > 0 /\ Recorded(fs, writing) /\ Running
    BY <2>1 DEF SinkInv, Unrun
  <2>3. Appending => Appending'
    BY <2>1 DEF Appending
  <2>4. Running' /\ Recorded(fs, writing)'
    BY <2>1, <2>2, <2>3 DEF Running, Recorded
  <2>5. QED
    BY <1>1, <2>1, <2>2, <2>4 DEF SinkInv
<1>5. CASE SinkUnit
  <2> DEFINE n == Len(batches)
             u == batches[k]
             q == EpochPath(epoch, u.part)
             c == <<Columns(u)>>
             then == IF k = n THEN "manifest" ELSE "sink"
  <2>1. /\ pc = "sink" /\ k <= n /\ k' = k + 1 /\ Write(q, c, then)
        /\ files' = Append(files, SinkEntry(epoch, u))
        /\ UNCHANGED <<run, table, version, log, offsets, epoch, batches, appended>>
    BY <1>5 DEF SinkUnit, stream
  <2> USE AppendingFacts
  <2>2. Recorded(fs, writing) /\ Running /\ Appending /\ version \in Nat /\ epoch = version + 1 /\ run > 0
    BY <2>1
  <2>3. q # <<>> /\ IsOfEpoch(q, version + 1)
    BY <2>2, PathKinds DEF IsOfEpoch
  <2>4. /\ \A e \in 1..version : EpochWhole(fs', writing', e, appended[e])
        /\ \A v \in 0..version : Begun(fs', writing', MetadataPath(SinkNo, v), Metadata(SinkTable(v)))
    BY <2>1, <2>2, <2>3, WriteKeepsRecorded
  <2>5. Recorded(fs, writing)'
    BY <2>1, <2>2, <2>4 DEF Recorded
  <2>6. UnitsWill(fs', writing', epoch, batches, k - 1)
    <3>1. UnitsWill(fs, writing, epoch, batches, k - 1)
      BY <2>2 DEF Appending
    <3>2. ASSUME OwnFiles(batches), NEW i \in 1..(k - 1) PROVE EpochPath(epoch, batches[i].part) # q
      <4>1. i \in DOMAIN batches /\ k \in DOMAIN batches /\ i # k
        BY <2>1
      <4>2. batches[i].part # u.part
        BY <3>2, <4>1 DEF OwnFiles
      <4>3. QED
        BY <4>2, PathsSame
    <3> HIDE DEF q, c, then
    <3>3. QED
      BY <2>1, <2>3, <3>1, <3>2, WriteKeepsUnits
  <2>7. UnitsWill(fs', writing', epoch, batches, k)
    <3>1. Will(fs', writing', q, c)
      BY <2>1, <2>3, WriteEffect
    <3>2. \A i \in 1..k : i = k \/ i \in 1..(k - 1)
      BY <2>1
    <3>3. QED
      BY <2>6, <3>1, <3>2 DEF UnitsWill
  <2>8. files' = [i \in 1..k |-> SinkEntry(epoch, batches[i])]
    <3> DEFINE g == EpochFiles(epoch, batches)
    <3>1. \A i \in 1..n : g[i] = SinkEntry(epoch, batches[i])
      BY <2>1
    <3>2. files = [i \in 1..(k - 1) |-> SinkEntry(epoch, batches[i])]
      BY <2>2 DEF Appending
    <3>3. n \in Nat /\ k - 1 \in Nat /\ (k - 1) + 1 = k /\ k \in 1..n /\ u = batches[k]
      BY <2>1
    <3>a. \A i \in 1..(k - 1) : i \in 1..n
      BY <3>3
    <3>b. \A i \in 1..k : i \in 1..n
      BY <3>3
    <3>c. SinkEntry(epoch, u) = g[k]
      BY <3>1, <3>3
    <3>4. [i \in 1..(k - 1) |-> SinkEntry(epoch, batches[i])] = [i \in 1..(k - 1) |-> g[i]]
      BY <3>1, <3>a
    <3>5. [i \in 1..k |-> SinkEntry(epoch, batches[i])] = [i \in 1..k |-> g[i]]
      BY <3>1, <3>b
    <3>d. files' = Append(files, SinkEntry(epoch, u))
      BY <2>1
    <3> HIDE DEF g, n, u
    <3>6. Append(files, SinkEntry(epoch, u)) = [i \in 1..((k - 1) + 1) |-> g[i]]
      BY <3>2, <3>3, <3>4, <3>c, NextElement
    <3>7. QED
      BY <3>3, <3>5, <3>6, <3>d, Zenon
  <2>9. pc' = then
    BY <2>1 DEF Write
  <2>10. Appending'
    <3>1. /\ k' \in 1..(n + 1) /\ k' - 1 = k
          /\ (then = "sink" => k' <= n) /\ (then # "sink" => k' = n + 1)
          /\ then \in {"sink", "manifest"}
      BY <2>1
    <3>2. epoch <= MaxEpochs + 1 /\ batches \in Batches /\ n > 0
      BY <2>2 DEF Appending
    <3> HIDE DEF then
    <3>3. QED
      BY <2>1, <2>2, <2>7, <2>8, <2>9, <3>1, <3>2 DEF Appending
  <2>11. Running'
    <3>1. pc' # "epoch"
      BY <2>9
    <3>2. QED
      BY <2>1, <2>2, <2>10, <3>1 DEF Running
  <2>12. QED
    BY <1>1, <2>1, <2>2, <2>5, <2>11 DEF SinkInv
<1>6. CASE WriteManifest
  <2> DEFINE n == Len(batches)
             a == SinkAppendOf(epoch, batches)
             q == ManifestPath(SinkNo, SnapBase + epoch)
             c == Manifest(SnapBase + epoch, EpochFiles(epoch, batches))
  <2>1. pc = "manifest" /\ UNCHANGED <<run, k, files, table, version, log, offsets, epoch, batches, appended>>
    BY <1>6 DEF WriteManifest, build, stream
  <2> USE AppendingFacts
  <2>2. Recorded(fs, writing) /\ Running /\ Appending /\ version \in Nat /\ epoch = version + 1 /\ run > 0
    BY <2>1
  <2>3. k = n + 1 /\ files = EpochFiles(epoch, batches)
    BY <2>1 DEF Appending
  <2>4. Write(q, c, "list")
    BY <1>6, <2>1, <2>3 DEF WriteManifest
  <2>5. q # <<>> /\ IsOfEpoch(q, version + 1)
    BY <2>2, PathKinds DEF IsOfEpoch
  <2>6. /\ \A e \in 1..version : EpochWhole(fs', writing', e, appended[e])
        /\ \A v \in 0..version : Begun(fs', writing', MetadataPath(SinkNo, v), Metadata(SinkTable(v)))
    BY <2>2, <2>4, <2>5, WriteKeepsRecorded
  <2>7. Recorded(fs, writing)'
    BY <2>1, <2>2, <2>6 DEF Recorded
  <2>8. UnitsWill(fs', writing', epoch, batches, k - 1)
    <3>1. UnitsWill(fs, writing, epoch, batches, k - 1)
      BY <2>2 DEF Appending
    <3>2. \A i \in 1..(k - 1) : EpochPath(epoch, batches[i].part) # q
      BY DEF EpochPath, ManifestPath
    <3> HIDE DEF q, c
    <3>3. QED
      BY <2>4, <2>5, <3>1, <3>2, WriteKeepsUnits
  <2>9. pc' = "list" /\ Will(fs', writing', q, c)
    BY <2>4, <2>5, WriteEffect
  <2>10. ManifestWill(fs', writing', a)
    BY <2>9 DEF ManifestWill, SinkAppendOf
  <2>11. Appending'
    BY <2>1, <2>2, <2>8, <2>9, <2>10 DEF Appending
  <2>12. Running'
    BY <2>1, <2>2, <2>9, <2>11 DEF Running
  <2>13. QED
    BY <1>1, <2>1, <2>2, <2>7, <2>12 DEF SinkInv
<1>7. CASE WriteManifestList
  <2> DEFINE n == Len(batches)
             a == SinkAppendOf(epoch, batches)
             q == ListPath(SinkNo, SnapBase + epoch)
             c == ListContent(a)
  <2>1. pc = "list" /\ UNCHANGED <<run, k, files, table, version, log, offsets, epoch, batches, appended>>
    BY <1>7 DEF WriteManifestList, build, stream
  <2> USE AppendingFacts
  <2>2. Recorded(fs, writing) /\ Running /\ Appending /\ version \in Nat /\ epoch = version + 1 /\ run > 0
    BY <2>1
  <2>3. k = n + 1 /\ files = EpochFiles(epoch, batches)
    BY <2>1 DEF Appending
  <2>a. a.n = SinkNo /\ a.snap = SnapBase + epoch /\ a.seq = epoch /\ a.files = EpochFiles(epoch, batches)
    BY DEF SinkAppendOf
  <2> HIDE DEF a
  <2>4. Write(q, c, "append")
    <3>1. t = SinkNo /\ Snap = SnapBase + epoch /\ version + 1 = epoch
      BY <2>1
    <3>2. Write(ListPath(t, Snap), ManifestList(Snap, version + 1, <<ManifestOf(t, Snap, files)>>), "append")
      BY <1>7, <3>1 DEF WriteManifestList
    <3>3. QED
      BY <2>3, <2>a, <3>1, <3>2 DEF ListContent
  <2>5. q # <<>> /\ IsOfEpoch(q, version + 1)
    BY <2>2, PathKinds DEF IsOfEpoch
  <2>6. /\ \A e \in 1..version : EpochWhole(fs', writing', e, appended[e])
        /\ \A v \in 0..version : Begun(fs', writing', MetadataPath(SinkNo, v), Metadata(SinkTable(v)))
    BY <2>2, <2>4, <2>5, WriteKeepsRecorded
  <2>7. Recorded(fs, writing)'
    BY <2>1, <2>2, <2>6 DEF Recorded
  <2>8. UnitsWill(fs', writing', epoch, batches, k - 1)
    <3>1. UnitsWill(fs, writing, epoch, batches, k - 1)
      BY <2>2 DEF Appending
    <3>2. \A i \in 1..(k - 1) : EpochPath(epoch, batches[i].part) # q
      BY DEF EpochPath, ListPath
    <3> HIDE DEF q, c
    <3>3. QED
      BY <2>4, <2>5, <3>1, <3>2, WriteKeepsUnits
  <2>9. pc' = "append" /\ Will(fs', writing', q, c)
    BY <2>4, <2>5, WriteEffect
  <2>10. ListWill(fs', writing', a)
    BY <2>9, <2>a DEF ListWill
  <2>11. ManifestWill(fs', writing', a)
    <3>1. ManifestWill(fs, writing, a)
      BY <2>1, <2>2 DEF Appending, a
    <3>2. ManifestPath(a.n, a.snap) # q
      BY PathsDiffer
    <3> HIDE DEF q, c
    <3>3. QED
      BY <2>4, <2>5, <3>1, <3>2, WriteKeepsLists
  <2>12. Appending'
    BY <2>1, <2>2, <2>8, <2>9, <2>10, <2>11 DEF Appending, a
  <2>13. Running'
    BY <2>1, <2>2, <2>9, <2>12 DEF Running
  <2>14. QED
    BY <1>1, <2>1, <2>2, <2>7, <2>13 DEF SinkInv
<1>8. CASE SinkAppend
  <2> DEFINE n == Len(batches)
             a == SinkAppendOf(epoch, batches)
             q == MetadataPath(SinkNo, version + 1)
             c == Metadata(SinkTable(version + 1))
             x == [batches |-> batches, files |-> files]
             then == IF epoch > MaxEpochs THEN "done" ELSE "epoch"
  <2>1. /\ pc = "append" /\ version' = version + 1 /\ appended' = Append(appended, x)
        /\ UNCHANGED <<run, log, offsets, epoch, batches>>
    BY <1>8 DEF SinkAppend
  <2> USE AppendingFacts
  <2>2. Recorded(fs, writing) /\ Running /\ Appending /\ version \in Nat /\ epoch = version + 1 /\ run > 0
        /\ epoch \in 1..(MaxEpochs + 1)
    BY <2>1
  <2>3. k = n + 1 /\ k - 1 = n /\ n \in Nat /\ files = EpochFiles(epoch, batches)
    <3>1. k = n + 1 /\ n \in Nat
      BY <2>1, <2>2 DEF Appending
    <3>2. QED
      BY <2>1, <3>1
  <2>a. a.n = SinkNo /\ a.snap = SnapBase + epoch /\ a.seq = epoch /\ a.files = EpochFiles(epoch, batches)
    BY DEF SinkAppendOf
  <2>4. table' = SinkTable(version + 1)
    <3>1. table' = Appended(table, SnapBase + epoch, ListPath(SinkNo, SnapBase + epoch))
      BY <1>8, <2>1 DEF SinkAppend
    <3>2. table = SinkTable(version)
      BY <2>2 DEF Running
    <3>3. QED
      BY <2>2, <3>1, <3>2, SinkTableIs
  <2>5. Write(q, c, then)
    BY <1>8, <2>1, <2>4 DEF SinkAppend
  <2>6. q # <<>> /\ IsOfEpoch(q, version + 1)
    BY PathKinds DEF IsOfEpoch
  <2> HIDE DEF a
  <2>7. /\ \A e \in 1..version : EpochWhole(fs', writing', e, appended[e])
        /\ \A v \in 0..version : Begun(fs', writing', MetadataPath(SinkNo, v), Metadata(SinkTable(v)))
    BY <2>2, <2>5, <2>6, WriteKeepsRecorded
  <2>8. /\ Begun(fs', writing', q, c) /\ pc' = then
        /\ \A path, content : path # q /\ path # <<>> /\ Will(fs, writing, path, content)
                                => Whole(fs', writing', path, content)
    <3> HIDE DEF q, c, then
    <3>1. QED
      BY <2>5, <2>6, WriteEffect
  <2>9. EpochWhole(fs', writing', epoch, x)
    <3>1. ManifestWill(fs, writing, a) /\ ListWill(fs, writing, a) /\ UnitsWill(fs, writing, epoch, batches, n)
          /\ batches \in Batches
      BY <2>1, <2>2, <2>3 DEF Appending, a
    <3>2. Whole(fs', writing', ManifestPath(SinkNo, a.snap), Manifest(a.snap, a.files))
      BY <2>8, <2>a, <3>1, PathKinds, PathsDiffer DEF ManifestWill
    <3>3. Whole(fs', writing', ListPath(SinkNo, a.snap), ListContent(a))
      BY <2>8, <2>a, <3>1, PathKinds, PathsDiffer DEF ListWill
    <3>4. ASSUME OwnFiles(batches), NEW i \in DOMAIN batches
          PROVE  Whole(fs', writing', EpochPath(epoch, batches[i].part), <<Columns(batches[i])>>)
      <4>1. i \in 1..n
        BY <2>1
      <4>2. Will(fs, writing, EpochPath(epoch, batches[i].part), <<Columns(batches[i])>>)
        BY <3>1, <3>4, <4>1 DEF UnitsWill
      <4>3. QED
        BY <2>8, <4>2, PathKinds, PathsDiffer
    <3>5. x.batches = batches /\ x = [batches |-> batches, files |-> EpochFiles(epoch, batches)]
      BY <2>3
    <3> HIDE DEF x
    <3>6. QED
      BY <3>1, <3>2, <3>3, <3>4, <3>5 DEF EpochWhole, a
  <2>10. Recorded(fs, writing)'
    <3>1. IsSeq(appended) /\ Len(appended) = version /\ appended = [e \in 1..version |-> appended[e]]
      BY <2>2 DEF Recorded
    <3> DEFINE s2 == Append(appended, x)
    <3> HIDE DEF x
    <3>2. /\ IsSeq(s2) /\ Len(s2) = version + 1 /\ s2 = [e \in 1..(version + 1) |-> s2[e]]
          /\ s2[version + 1] = x /\ \A e \in 1..version : s2[e] = appended[e]
      BY <2>2, <3>1, AppendOne
    <3>3. appended' = s2
      BY <2>1
    <3> HIDE DEF s2, q, c
    <3>4. \A e \in 1..(version + 1) : e = version + 1 \/ e \in 1..version
      BY <2>2
    <3>5. \A e \in 1..(version + 1) : EpochWhole(fs', writing', e, s2[e])
      BY <2>2, <2>7, <2>9, <3>2, <3>4
    <3>6. \A v \in 0..(version + 1) : v = version + 1 \/ v \in 0..version
      BY <2>2
    <3>7. \A v \in 0..(version + 1) : Begun(fs', writing', MetadataPath(SinkNo, v), Metadata(SinkTable(v)))
      BY <2>7, <2>8, <3>6 DEF q, c
    <3>8. QED
      BY <2>1, <3>2, <3>3, <3>5, <3>7 DEF Recorded
  <2>11. Running'
    <3>1. version' \in 0..(MaxEpochs + 1) /\ then \in {"done", "epoch"}
          /\ (then = "epoch" => epoch = version' /\ epoch <= MaxEpochs)
      BY <2>1, <2>2, BoundsAssumption
    <3> HIDE DEF then
    <3>2. QED
      BY <2>1, <2>2, <2>4, <2>8, <3>1 DEF Running
  <2>12. QED
    BY <1>1, <2>1, <2>2, <2>10, <2>11 DEF SinkInv
<1>9. QED
  BY <1>2, <1>3, <1>4, <1>5, <1>6, <1>7, <1>8 DEF SinkStep


LEMMA SinkInvStep ==
  ASSUME Control, BuildInv, SinkInv, [Next]_vars
  PROVE  SinkInv'
<1>1. CASE program = "stream_demo" /\ SinkStep
  BY <1>1, SinkStepInv
<1>2. CASE program # "stream_demo" /\ (DemoStep \/ WriteSample)
  <2>1. appended' = appended
    BY <1>2 DEF DemoStep, StartBuild, WriteDataFile, CreateTable, AppendFiles, CommitPointer,
                WriteManifest, WriteManifestList, WriteSample, stream
  <2>2. QED
    BY <1>2, <2>1, StepsOf DEF SinkInv
<1>3. CASE WritePart
  <2>1. UNCHANGED <<program, run, pc, k, files, table, version, log, offsets, epoch, batches, appended>>
        /\ writing # NoWrite
    BY <1>3 DEF WritePart, build, stream, Idle
  <2>2. CASE program = "stream_demo"
    <3>1. run > 0 /\ Recorded(fs, writing) /\ Running
      BY <2>1, <2>2 DEF SinkInv, Unrun, Control, Idle
    <3>2. Recorded(fs', writing')
      BY <1>3, <3>1, PartKeepsEpochs
    <3>3. Recorded(fs, writing)'
      BY <2>1, <3>2 DEF Recorded
    <3>4. Appending => Appending'
      <4>1. /\ \A e, b, upto : UnitsWill(fs, writing, e, b, upto) => UnitsWill(fs', writing', e, b, upto)
            /\ \A a : ManifestWill(fs, writing, a) => ManifestWill(fs', writing', a)
            /\ \A a : ListWill(fs, writing, a) => ListWill(fs', writing', a)
        BY <1>3, PartKeepsEpochs, PartKeepsTables
      <4>2. QED
        BY <2>1, <4>1 DEF Appending
    <3>5. Running'
      BY <2>1, <3>1, <3>4 DEF Running
    <3>6. QED
      BY <2>1, <2>2, <3>1, <3>3, <3>5 DEF SinkInv
  <2>3. CASE program # "stream_demo"
    BY <2>1, <2>3 DEF SinkInv
  <2>4. QED
    BY <2>2, <2>3
<1>4. CASE Crash
  <2>1. UNCHANGED <<program, run, table, version, log, offsets, appended>> /\ pc # "failed" /\ pc' = "failed"
    BY <1>4 DEF Crash, build, stream
  <2>2. CASE program = "stream_demo"
    <3>1. run > 0 /\ Recorded(fs, writing) /\ Running
      BY <2>1, <2>2 DEF SinkInv, Unrun
    <3>2. Recorded(fs', writing')
      BY <1>4, <3>1, CrashKeepsRecorded
    <3>3. Recorded(fs, writing)'
      BY <2>1, <3>2 DEF Recorded
    <3>4. Running'
      BY <2>1, <3>1 DEF Running
    <3>5. QED
      BY <2>1, <2>2, <3>1, <3>3, <3>4 DEF SinkInv
  <2>3. CASE program # "stream_demo"
    BY <2>1, <2>3 DEF SinkInv
  <2>4. QED
    BY <2>2, <2>3
<1>5. CASE (\E r \in Readers : Read(r)) \/ UNCHANGED vars
  <2>1. UNCHANGED <<program, run, pc, fs, writing, k, files, table, version, log, offsets, epoch, batches,
                    appended>>
    BY <1>5, ReadersOnlyRead DEF disk, build, stream
  <2>2. Recorded(fs, writing) => Recorded(fs, writing)'
    BY <2>1 DEF Recorded
  <2>3. Appending => Appending'
    BY <2>1 DEF Appending
  <2>4. Running => Running'
    BY <2>1, <2>3 DEF Running
  <2>5. Unrun => Unrun'
    BY <2>1 DEF Unrun
  <2>6. QED
    BY <2>1, <2>2, <2>4, <2>5 DEF SinkInv
<1>6. QED
  BY <1>1, <1>2, <1>3, <1>4, <1>5, StepsOf

\* What a step of the sink writes, and at which stage.
LEMMA SinkWrites ==
  ASSUME Control, SinkInv, program = "stream_demo", SinkUnit \/ WriteManifest \/ WriteManifestList \/ SinkAppend
  PROVE  /\ version \in Nat /\ epoch = version + 1 /\ run' = run /\ program' = program
         /\ \E q, c, then :
              /\ Write(q, c, then)
              /\ \/ /\ \E p : q = EpochPath(epoch, p)
                    /\ pc = "sink" /\ then \in {"sink", "manifest"} /\ version' = version
                 \/ /\ q = ManifestPath(SinkNo, SnapBase + epoch)
                    /\ pc = "manifest" /\ then = "list" /\ version' = version
                 \/ /\ q = ListPath(SinkNo, SnapBase + epoch)
                    /\ pc = "list" /\ then = "append" /\ version' = version
                 \/ /\ q = MetadataPath(SinkNo, epoch)
                    /\ pc = "append" /\ then \in {"epoch", "done"} /\ version' = epoch
<1>1. pc \in {"sink", "manifest", "list", "append"} /\ run' = run /\ program' = program
  BY DEF SinkUnit, WriteManifest, WriteManifestList, SinkAppend
<1>2. version \in Nat /\ epoch = version + 1 /\ t = SinkNo /\ Snap = SnapBase + epoch
  BY <1>1, AppendingFacts
<1>3. CASE SinkUnit
  <2> DEFINE then == IF k = Len(batches) THEN "manifest" ELSE "sink"
  <2>1. /\ Write(EpochPath(epoch, batches[k].part), <<Columns(batches[k])>>, then)
        /\ pc = "sink" /\ version' = version
    BY <1>3 DEF SinkUnit
  <2>2. then \in {"sink", "manifest"}
    OBVIOUS
  <2>3. QED
    BY <1>1, <1>2, <2>1, <2>2
<1>4. CASE WriteManifest
  <2>1. Write(ManifestPath(t, Snap), Manifest(Snap, files), "list") /\ pc = "manifest" /\ version' = version
    BY <1>4 DEF WriteManifest, build
  <2>2. QED
    BY <1>1, <1>2, <2>1
<1>5. CASE WriteManifestList
  <2>1. /\ \E c : Write(ListPath(t, Snap), c, "append")
        /\ pc = "list" /\ version' = version
    BY <1>5 DEF WriteManifestList, build
  <2>2. QED
    BY <1>1, <1>2, <2>1
<1>6. CASE SinkAppend
  <2> DEFINE then == IF epoch > MaxEpochs THEN "done" ELSE "epoch"
  <2>1. Write(MetadataPath(t, version + 1), Metadata(table'), then) /\ pc = "append" /\ version' = version + 1
    BY <1>6 DEF SinkAppend
  <2>2. then \in {"epoch", "done"}
    OBVIOUS
  <2>3. QED
    BY <1>1, <1>2, <2>1, <2>2
<1>7. QED
  BY <1>3, <1>4, <1>5, <1>6

LEMMA SinkFreshStep ==
  ASSUME Control, BuildInv, SinkInv, SinkFresh, [Next]_vars
  PROVE  SinkFresh'
<1> DEFINE Fresh(f, v, stage, e) ==
      /\ MetadataPath(SinkNo, e) \in DOMAIN f => e <= v
      /\ ManifestPath(SinkNo, SnapBase + e) \in DOMAIN f =>
           e <= v \/ (e = v + 1 /\ stage \in {"list", "append"})
      /\ ListPath(SinkNo, SnapBase + e) \in DOMAIN f => e <= v \/ (e = v + 1 /\ stage = "append")
<1>1. CASE program = "stream_demo" /\ (SinkUnit \/ WriteManifest \/ WriteManifestList \/ SinkAppend)
  <2>1. version \in Nat /\ epoch = version + 1 /\ run' = run /\ program' = program
    BY <1>1, SinkWrites
  <2>2. PICK q, c, then :
          /\ Write(q, c, then)
          /\ \/ /\ \E p : q = EpochPath(epoch, p)
                /\ pc = "sink" /\ then \in {"sink", "manifest"} /\ version' = version
             \/ /\ q = ManifestPath(SinkNo, SnapBase + epoch)
                /\ pc = "manifest" /\ then = "list" /\ version' = version
             \/ /\ q = ListPath(SinkNo, SnapBase + epoch)
                /\ pc = "list" /\ then = "append" /\ version' = version
             \/ /\ q = MetadataPath(SinkNo, epoch)
                /\ pc = "append" /\ then \in {"epoch", "done"} /\ version' = epoch
    BY <1>1, SinkWrites
  <2>3. q # <<>>
    BY <2>2, PathKinds
  <2>4. DOMAIN fs' = DOMAIN fs \cup {q} /\ pc' = then
    BY <2>2, <2>3, WriteEffect
  <2>5. pc \in {"sink", "manifest", "list", "append"} /\ run > 0
    BY <1>1, <2>2, AppendingFacts
  <2>6. ASSUME NEW e \in Nat
        PROVE  Fresh(fs', version', then, e)
    <3>1. Fresh(fs, version, pc, e)
      BY <1>1, <2>5 DEF SinkFresh
    <3>2. SnapBase \in Nat
      BY BoundsAssumption
    <3>3. CASE \E p : q = EpochPath(epoch, p)
      <4>1. /\ MetadataPath(SinkNo, e) # q /\ ManifestPath(SinkNo, SnapBase + e) # q
            /\ ListPath(SinkNo, SnapBase + e) # q
        BY <3>3 DEF EpochPath, MetadataPath, ManifestPath, ListPath
      <4>2. pc = "sink" /\ version' = version
        BY <2>2, <3>3 DEF EpochPath, MetadataPath, ManifestPath, ListPath
      <4>3. QED
        BY <2>4, <3>1, <4>1, <4>2
    <3>4. CASE q = ManifestPath(SinkNo, SnapBase + epoch)
      <4>1. /\ MetadataPath(SinkNo, e) # q /\ ListPath(SinkNo, SnapBase + e) # q
            /\ (ManifestPath(SinkNo, SnapBase + e) = q => e = epoch)
        BY <2>1, <3>2, <3>4, PathsSame DEF MetadataPath, ManifestPath, ListPath
      <4>2. pc = "manifest" /\ then = "list" /\ version' = version
        BY <2>2, <3>4 DEF EpochPath, MetadataPath, ManifestPath, ListPath
      <4>3. QED
        BY <2>1, <2>4, <3>1, <4>1, <4>2
    <3>5. CASE q = ListPath(SinkNo, SnapBase + epoch)
      <4>1. /\ MetadataPath(SinkNo, e) # q /\ ManifestPath(SinkNo, SnapBase + e) # q
            /\ (ListPath(SinkNo, SnapBase + e) = q => e = epoch)
        BY <2>1, <3>2, <3>5, PathsSame DEF MetadataPath, ManifestPath, ListPath
      <4>2. pc = "list" /\ then = "append" /\ version' = version
        BY <2>2, <3>5 DEF EpochPath, MetadataPath, ManifestPath, ListPath
      <4>3. QED
        BY <2>1, <2>4, <3>1, <4>1, <4>2
    <3>6. CASE q = MetadataPath(SinkNo, epoch)
      <4>1. /\ ManifestPath(SinkNo, SnapBase + e) # q /\ ListPath(SinkNo, SnapBase + e) # q
            /\ (MetadataPath(SinkNo, e) = q => e = epoch)
        BY <3>6, PathsSame DEF MetadataPath, ManifestPath, ListPath
      <4>2. pc = "append" /\ version' = epoch
        BY <2>2, <3>6 DEF EpochPath, MetadataPath, ManifestPath, ListPath
      <4>3. QED
        BY <2>1, <2>4, <3>1, <4>1, <4>2
    <3>7. QED
      BY <2>2, <3>3, <3>4, <3>5, <3>6
  <2>7. QED
    BY <2>1, <2>4, <2>6 DEF SinkFresh
<1>2. CASE program = "stream_demo" /\ StartSink
  <2>1. DOMAIN fs' = {MetadataPath(SinkNo, 0)} /\ version' = 0
    BY <1>2 DEF StartSink, Created, NoFiles
  <2>2. \A e : /\ MetadataPath(SinkNo, e) \in DOMAIN fs' => e = 0
               /\ ManifestPath(SinkNo, SnapBase + e) \notin DOMAIN fs'
               /\ ListPath(SinkNo, SnapBase + e) \notin DOMAIN fs'
    BY <2>1, PathsSame DEF MetadataPath, ManifestPath, ListPath
  <2>3. QED
    BY <2>1, <2>2 DEF SinkFresh
<1>3. CASE program = "stream_demo" /\ (RunEpoch \/ \E p \in Partitions : Push(p))
  <2>1. UNCHANGED <<program, run, fs, version>> /\ pc # "failed"
        /\ (pc' = pc \/ (pc = "epoch" /\ pc' \in {"done", "sink"}))
    BY <1>3 DEF RunEpoch, Push, disk, build
  <2>2. QED
    BY <2>1 DEF SinkFresh
<1>4. CASE program # "stream_demo"
  BY <1>4, StepsOf DEF SinkFresh
<1>5. CASE WritePart
  BY <1>5 DEF WritePart, build, SinkFresh
<1>6. CASE Crash
  BY <1>6 DEF Crash, SinkFresh
<1>7. CASE (\E r \in Readers : Read(r)) \/ UNCHANGED vars
  BY <1>7, ReadersOnlyRead DEF disk, build, SinkFresh
<1>8. QED
  BY <1>1, <1>2, <1>3, <1>4, <1>5, <1>6, <1>7, StepsOf DEF SinkStep


-----------------------------------------------------------------------------
(* The invariant.                                                          *)

LEMMA IInvInit ==
  ASSUME Init
  PROVE  IInv
<1>1. /\ program \in {"iceberg_demo", "stream_demo", "avro_file"} /\ run = 0 /\ pc = "failed"
      /\ fs = NoFiles /\ writing = NoWrite /\ t = SinkNo /\ version = 0 /\ appended = <<>>
      /\ catalog = [n \in TableNos |-> <<>>] /\ reader = [r \in Readers |-> IdleReader]
  BY DEF Init
<1>2. Control
  <2>1. NoWrite = [path |-> NoWrite.path, parts |-> NoWrite.parts]
    BY DEF NoWrite
  <2>2. QED
    BY <1>1, <2>1 DEF Control, Idle
<1>3. BuildInv /\ BuildFresh /\ SinkFresh
  BY <1>1 DEF BuildInv, BuildFresh, SinkFresh, Building
<1>4. CatalogInv
  BY <1>1 DEF CatalogInv
<1>5. ReaderInv
  <2>1. IsReader(IdleReader) /\ IdleReader.pc = "idle" /\ IdleReader.run = 0
    BY DEF IsReader, IdleReader
  <2>2. QED
    BY <1>1, <2>1 DEF ReaderInv
<1>6. SinkInv
  BY <1>1 DEF SinkInv, Unrun
<1>7. QED
  BY <1>2, <1>3, <1>4, <1>5, <1>6 DEF IInv

LEMMA IInvStep ==
  ASSUME IInv, [Next]_vars
  PROVE  IInv'
<1>1. Control /\ BuildInv /\ BuildFresh /\ CatalogInv /\ ReaderInv /\ SinkInv /\ SinkFresh
  BY DEF IInv
<1>2. Control' /\ BuildInv'
  BY <1>1, ControlStep, BuildInvStep
<1>3. BuildFresh'
  BY <1>1, BuildFreshStep
<1>4. CatalogInv' /\ ReaderInv'
  BY <1>1, CatalogStep, ReaderStep
<1>5. SinkInv'
  BY <1>1, SinkInvStep
<1>6. SinkFresh'
  BY <1>1, SinkFreshStep
<1>7. QED
  BY <1>2, <1>3, <1>4, <1>5, <1>6 DEF IInv

\* What the runs of the three programs and the readers always keep: which files are whole
\* at which stage of a program, what is not there yet, and what readers and the catalog
\* know of it.
THEOREM IcebergInvariant == Spec => []IInv
<1>1. Init => IInv
  BY IInvInit
<1>2. IInv /\ [Next]_vars => IInv'
  BY IInvStep
<1>3. QED
  BY <1>1, <1>2, PTL DEF Spec

\* A pointer in the catalog leads to a complete table, and a reader that has scanned one
\* while no other run wrote it anew has found exactly its data files (create_table and
\* commit_table of iceberg_demo, read_metadata and plan_files of blitz-iceberg).
THEOREM TablesArePublished == Spec => []PublishedTables
<1>1. IInv => PublishedTables
  BY PublishedIs DEF IInv
<1>2. QED
  BY <1>1, IcebergInvariant, PTL

-----------------------------------------------------------------------------
(* What is read of the sink's table.                                       *)

LEMMA SnapshotsAre ==
  ASSUME NEW v \in Nat
  PROVE  /\ Len(SinkTable(v).snapshots) = v /\ SinkTable(v).last_sequence_number = v
         /\ \A i \in 1..v : SinkTable(v).snapshots[i].id = SnapBase + i
         /\ v > 0 => SinkTable(v).current = <<SnapBase + v>>
<1> DEFINE s == [i \in 1..v |-> [id |-> SnapBase + i, list |-> ListPath(SinkNo, SnapBase + i)]]
<1>1. /\ SinkTable(v).snapshots = s /\ SinkTable(v).last_sequence_number = v
      /\ v > 0 => SinkTable(v).current = <<SnapBase + v>>
  BY DEF SinkTable
<1>2. DOMAIN s = 1..v /\ s = [i \in 1..v |-> s[i]] /\ \A i \in 1..v : s[i].id = SnapBase + i
  OBVIOUS
<1> HIDE DEF s
<1>3. Len(s) = v
  BY <1>2, SeqIs
<1>4. QED
  BY <1>1, <1>2, <1>3

LEMMA SnapshotsScanIs ==
  ASSUME IInv
  PROVE  SnapshotsScan
<1> SUFFICES ASSUME program = "stream_demo", NEW v \in 0..version,
                    ReadMetadata(fs, MetadataPath(SinkNo, v)).how = "ok"
             PROVE  LET m == ReadMetadata(fs, MetadataPath(SinkNo, v))
                        snapshots == m.table.snapshots
                    IN  /\ Len(snapshots) = v /\ m.table.last_sequence_number = v
                        /\ v > 0 => m.table.current = <<snapshots[v].id>>
                        /\ \A i \in 1..v :
                             Scan(fs, m.table, snapshots[i].id) = [how |-> "ok", files |-> appended[i].files]
  BY DEF SnapshotsScan
<1> DEFINE q == MetadataPath(SinkNo, v)
           tab == SinkTable(v)
<1>1. q \in DOMAIN fs /\ fs[q] # <<>>
  BY DEF ReadMetadata
<1>2. run > 0 /\ Recorded(fs, writing) /\ Running
  <2>1. fs # NoFiles
    BY <1>1 DEF NoFiles
  <2>2. QED
    BY <2>1 DEF IInv, SinkInv, Unrun
<1>3. version \in 0..(MaxEpochs + 1) /\ MaxEpochs \in Nat /\ v \in Nat /\ v <= version
  BY <1>2, BoundsAssumption DEF Running
<1>4. Begun(fs, writing, q, Metadata(tab))
  BY <1>2 DEF Recorded
<1>5. fs[q] = Metadata(tab)
  BY <1>1, <1>4 DEF Begun
<1>6. IsTable(tab)
  BY <1>3, SinkTableIs
<1> HIDE DEF q, tab
<1>7. ReadMetadata(fs, q) = [how |-> "ok", table |-> tab]
  BY <1>1, <1>5, <1>6, MetadataReadBack
<1>8. /\ Len(tab.snapshots) = v /\ tab.last_sequence_number = v
      /\ \A i \in 1..v : tab.snapshots[i].id = SnapBase + i
      /\ v > 0 => tab.current = <<SnapBase + v>>
  BY <1>3, SnapshotsAre DEF tab
<1>9. ASSUME NEW i \in 1..v
      PROVE  Scan(fs, tab, SnapBase + i) = [how |-> "ok", files |-> appended[i].files]
  <2> DEFINE x == appended[i]
             a == SinkAppendOf(i, x.batches)
  <2>1. i \in 1..version /\ i \in 1..(MaxEpochs + 1)
    BY <1>3
  <2>2. EpochWhole(fs, writing, i, x)
    BY <1>2, <2>1 DEF Recorded
  <2>3. a.n = SinkNo /\ a.snap = SnapBase + i /\ a.files = EpochFiles(i, x.batches)
    BY DEF SinkAppendOf
  <2>4. /\ x = [batches |-> x.batches, files |-> EpochFiles(i, x.batches)] /\ x.batches \in Batches
        /\ Whole(fs, writing, ManifestPath(SinkNo, a.snap), Manifest(a.snap, a.files))
        /\ Whole(fs, writing, ListPath(SinkNo, a.snap), ListContent(a))
    BY <2>2 DEF EpochWhole
  <2>5. x.files = a.files
    BY <2>3, <2>4
  <2>6. IsAppend(a)
    BY <2>1, <2>4, SinkIsAppend
  <2>7. ListPathOf(tab, SnapBase + i) = ListPath(SinkNo, SnapBase + i)
    BY <1>3, SinkTableIs DEF tab
  <2> HIDE DEF x, a
  <2>8. /\ ManifestPath(a.n, a.snap) \in DOMAIN fs /\ ListPathOf(tab, SnapBase + i) \in DOMAIN fs
        /\ fs[ManifestPath(a.n, a.snap)] = Manifest(a.snap, a.files)
        /\ fs[ListPathOf(tab, SnapBase + i)]
             = ManifestList(a.snap, a.seq, <<ManifestOf(a.n, a.snap, a.files)>>)
    BY <2>3, <2>4, <2>7 DEF Whole, ListContent
  <2>9. Scan(fs, tab, SnapBase + i) = [how |-> "ok", files |-> a.files]
    BY <2>6, <2>8, ScanReadBack
  <2>10. QED
    BY <2>5, <2>9 DEF x
<1>10. QED
  <2>1. v > 0 => v \in 1..v
    BY <1>3
  <2>2. QED
    BY <1>7, <1>8, <1>9, <2>1 DEF q

\* Whatever stream_demo was doing when it ended, every version of its table whose metadata
\* is complete has the snapshots of the epochs up to it, each of which scans to the files
\* its epoch listed (append_epoch_sink and commit_append).
THEOREM EverySnapshotScans == Spec => []SnapshotsScan
<1>1. IInv => SnapshotsScan
  BY SnapshotsScanIs
<1>2. QED
  BY <1>1, IcebergInvariant, PTL


-----------------------------------------------------------------------------
(* The rows of the sink.                                                   *)

\* The records of a unit lie between its first and its last.
LEMMA KeysGrow ==
  ASSUME NEW p \in Partitions, NEW o \in 0..MaxRecords, NEW last \in 0..MaxRecords, o <= last,
         NEW scale \in {1, 3}
  PROVE  /\ scale * Key(p, o) \in Int /\ scale * Key(p, o) >= 0
         /\ scale * Key(p, o) <= scale * Key(p, last)
<1> DEFINE C == Cardinality(Partitions)
<1>1. C \in Nat /\ p \in Nat /\ o \in Nat /\ last \in Nat
  BY BoundsAssumption, FS_CardinalityType
<1>2. Key(p, o) = o * C + p /\ Key(p, last) = last * C + p
  BY DEF Key
<1> HIDE DEF C
<1>3. PICK d \in Nat : last = o + d
  <2>1. last - o \in Nat /\ last = o + (last - o)
    BY <1>1
  <2>2. QED
    BY <2>1
<1>4. o * C \in Nat /\ d * C \in Nat
  BY <1>1, <1>3
<1>5. last * C = o * C + d * C
  BY <1>1, <1>3
<1> DEFINE x == o * C
           y == last * C
           z == d * C
<1>6. x \in Nat /\ z \in Nat /\ y = x + z
  BY <1>4, <1>5
<1> HIDE DEF x, y, z
<1>7. Key(p, o) = x + p /\ Key(p, last) = y + p
  BY <1>2 DEF x, y
<1>8. CASE scale = 1
  BY <1>1, <1>6, <1>7, <1>8
<1>9. CASE scale = 3
  BY <1>1, <1>6, <1>7, <1>9
<1>10. QED
  BY <1>8, <1>9

\* A column of a unit is inside the bounds that its entry lists.
LEMMA ColumnBounds ==
  ASSUME NEW u, IsUnit(u), NEW scale \in {1, 3}, NEW id
  PROVE  LET n == u.end - u.start
             vals == [i \in 1..n |-> scale * Key(u.part, u.start + i - 1)]
             b == Bounds(id, vals)
         IN  /\ Len(vals) = n
             /\ \A x \in ToSet(vals) : DeLong(b.lo) <= x /\ x <= DeLong(b.hi)
<1> DEFINE n == u.end - u.start
           vals == [i \in 1..n |-> scale * Key(u.part, u.start + i - 1)]
           S == ToSet(vals)
           top == scale * Key(u.part, u.end - 1)
           b == Bounds(id, vals)
<1>1. /\ u.part \in Partitions /\ u.start \in Nat /\ u.end \in Nat /\ u.start < u.end /\ u.end <= MaxRecords
      /\ MaxRecords \in Nat /\ n \in Nat /\ n > 0
  BY BoundsAssumption DEF IsUnit
<1>2. u.end - 1 \in 0..MaxRecords
      /\ \A i \in 1..n : u.start + i - 1 \in 0..MaxRecords /\ u.start + i - 1 <= u.end - 1
  BY <1>1
<1>3. top \in Int
  BY <1>1, <1>2, KeysGrow
<1>4. ASSUME NEW i \in 1..n
      PROVE  vals[i] \in Int /\ vals[i] >= 0 /\ vals[i] <= top /\ vals[i] \in I64
  <2>1. vals[i] = scale * Key(u.part, u.start + i - 1)
    OBVIOUS
  <2>2. u.start + i - 1 \in 0..MaxRecords /\ u.start + i - 1 <= u.end - 1
    BY <1>2
  <2>3. scale * Key(u.part, u.start + i - 1) \in I64
    BY <1>1, <2>2, StreamAssumption
  <2> HIDE DEF vals, n
  <2>4. QED
    BY <1>1, <1>2, <2>1, <2>2, <2>3, KeysGrow
<1>5. DOMAIN vals = 1..n /\ vals = [i \in 1..n |-> vals[i]]
  OBVIOUS
<1> HIDE DEF vals, n, top
<1>6. S = {vals[i] : i \in 1..n} /\ 1 \in 1..n
  BY <1>1, <1>5 DEF ToSet
<1>7. S # {} /\ \A x \in S : x \in Int /\ x >= 0 /\ x <= top /\ x \in I64
  BY <1>4, <1>6
<1> HIDE DEF S
<1>8. Min(S) \in S /\ (\A x \in S : Min(S) <= x) /\ Max(S) \in S /\ (\A x \in S : Max(S) >= x)
  <2>1. 0 \in Int
    OBVIOUS
  <2>2. QED
    BY <1>3, <1>7, <2>1, Least, Greatest
<1>9. DeLong(SerLong(Min(S))) = Min(S) /\ DeLong(SerLong(Max(S))) = Max(S)
  BY <1>7, <1>8, StreamAssumption
<1>10. Len(vals) = n
  BY <1>1, <1>5, SeqIs
<1>11. vals # <<>>
  <2>1. DOMAIN <<>> = 1..0
    OBVIOUS
  <2>2. QED
    BY <1>5, <1>6, <2>1
<1>12. b.lo = SerLong(Min(S)) /\ b.hi = SerLong(Max(S))
  BY <1>11 DEF Bounds, S
<1>13. \A x \in S : DeLong(b.lo) <= x /\ x <= DeLong(b.hi)
  BY <1>7, <1>8, <1>9, <1>12
<1>14. QED
  BY <1>10, <1>13 DEF S, vals, n

\* The entry of a unit.
LEMMA SinkEntryIs ==
  ASSUME NEW e, NEW u, IsUnit(u)
  PROVE  LET f == SinkEntry(e, u)
             cols == Columns(u)
         IN  /\ f.path = EpochPath(e, u.part)
             /\ f.record_count = u.end - u.start
             /\ \A c \in 1..2 : \A x \in ToSet(cols[c].vals) :
                  DeLong(f.bounds[c].lo) <= x /\ x <= DeLong(f.bounds[c].hi)
<1> DEFINE vals(scale) == [i \in 1..(u.end - u.start) |-> scale * Key(u.part, u.start + i - 1)]
           cols == Columns(u)
           ids == [c \in DOMAIN cols |-> c]
           I == {c \in DOMAIN cols : cols[c].dtype = "Int64"}
           int64 == Pick(ids, I)
           bounds == [i \in DOMAIN int64 |-> Bounds(SinkFields[int64[i]].id, cols[int64[i]].vals)]
           f == SinkEntry(e, u)
<1>1. f = [path |-> EpochPath(e, u.part), file_size |-> Len(cols[1].vals),
           record_count |-> Len(cols[1].vals), bounds |-> bounds]
  BY Zenon DEF SinkEntry, EntryOf, bounds, int64, I, ids
<1>2. cols = <<[dtype |-> "Int64", vals |-> vals(1)], [dtype |-> "Int64", vals |-> vals(3)]>>
  BY DEF Columns
<1> HIDE DEF cols, f, vals
<1>3. /\ DOMAIN cols = 1..2 /\ cols[1].dtype = "Int64" /\ cols[2].dtype = "Int64"
      /\ cols[1].vals = vals(1) /\ cols[2].vals = vals(3)
  BY <1>2
<1>4. I = 1..2 /\ DOMAIN ids = 1..2 /\ ids = [c \in 1..2 |-> ids[c]] /\ \A c \in 1..2 : ids[c] = c
  BY <1>3
<1> HIDE DEF I, ids
<1>5. int64 = ids
  <2>1. 2 \in Nat
    OBVIOUS
  <2>2. QED
    BY <1>4, <2>1, PickAll
<1> HIDE DEF int64
<1>6. \A c \in 1..2 : bounds[c] = Bounds(SinkFields[c].id, cols[c].vals)
  BY <1>4, <1>5
<1> HIDE DEF bounds
<1>7. /\ Len(vals(1)) = u.end - u.start
      /\ \A id : \A x \in ToSet(vals(1)) :
           DeLong(Bounds(id, vals(1)).lo) <= x /\ x <= DeLong(Bounds(id, vals(1)).hi)
  BY ColumnBounds DEF vals
<1>8. \A id : \A x \in ToSet(vals(3)) :
        DeLong(Bounds(id, vals(3)).lo) <= x /\ x <= DeLong(Bounds(id, vals(3)).hi)
  BY ColumnBounds DEF vals
<1>9. f.path = EpochPath(e, u.part) /\ f.record_count = u.end - u.start /\ f.bounds = bounds
  BY <1>1, <1>3, <1>7
<1>10. ASSUME NEW c \in 1..2, NEW x \in ToSet(cols[c].vals)
       PROVE  DeLong(bounds[c].lo) <= x /\ x <= DeLong(bounds[c].hi)
  <2>1. CASE c = 1
    BY <1>3, <1>6, <1>7, <1>10, <2>1
  <2>2. CASE c = 2
    BY <1>3, <1>6, <1>8, <1>10, <2>2
  <2>3. QED
    BY <2>1, <2>2
<1>11. QED
  BY <1>9, <1>10 DEF f, cols

LEMMA SinkFaithfulIs ==
  ASSUME IInv
  PROVE  SinkFaithful
<1> SUFFICES ASSUME NEW e \in DOMAIN appended,
                    IsInjective([i \in DOMAIN appended[e].batches |-> appended[e].batches[i].part]),
                    NEW i \in DOMAIN appended[e].batches
             PROVE  LET units == appended[e].batches
                        listed == appended[e].files
                        vals(c) == ToSet(fs[listed[i].path][1][c].vals)
                    IN  /\ fs[listed[i].path] = <<Columns(units[i])>>
                        /\ listed[i].record_count = units[i].end - units[i].start
                        /\ \A c \in 1..2 : \A x \in vals(c) :
                             DeLong(listed[i].bounds[c].lo) <= x /\ x <= DeLong(listed[i].bounds[c].hi)
  BY DEF SinkFaithful
<1> DEFINE x == appended[e]
           units == x.batches
           u == units[i]
           f == SinkEntry(e, u)
<1>1. Recorded(fs, writing)
  <2>1. DOMAIN <<>> = {}
    OBVIOUS
  <2>2. appended # <<>>
    BY <2>1
  <2>3. QED
    BY <2>2 DEF IInv, SinkInv, Unrun
<1>2. EpochWhole(fs, writing, e, x)
  BY <1>1 DEF Recorded
<1>3. OwnFiles(units)
  BY DEF IsInjective, OwnFiles
<1>4. /\ x = [batches |-> units, files |-> EpochFiles(e, units)] /\ units \in Batches
      /\ fs[EpochPath(e, u.part)] = <<Columns(u)>>
  BY <1>2, <1>3 DEF EpochWhole, Whole
<1>5. x.files[i] = f
  BY <1>4 DEF EpochFiles
<1>6. IsUnit(u)
  BY <1>4, BatchesAre
<1> HIDE DEF x, f, u
<1>7. /\ f.path = EpochPath(e, u.part) /\ f.record_count = u.end - u.start
      /\ \A c \in 1..2 : \A y \in ToSet(Columns(u)[c].vals) :
           DeLong(f.bounds[c].lo) <= y /\ y <= DeLong(f.bounds[c].hi)
  BY <1>6, SinkEntryIs DEF f
<1>8. fs[f.path][1] = Columns(u)
  BY <1>4, <1>7
<1>9. QED
  BY <1>4, <1>5, <1>7, <1>8 DEF x, u

\* The rows of a unit are in the file its epoch listed for it, and inside the bounds that
\* it listed, for as long as the table is there, if the epoch had one unit of each
\* partition (append_epoch_sink and i64_bounds).
THEOREM SinkIsFaithful == Spec => []SinkFaithful
<1>1. IInv => SinkFaithful
  BY SinkFaithfulIs
<1>2. QED
  BY <1>1, IcebergInvariant, PTL


-----------------------------------------------------------------------------
(* What is written is not written again.                                   *)

\* The steps that keep the files, or begin one that is not there or is a data file.
Extends ==
  \/ fs' = fs
  \/ \E q, c, then : q # <<>> /\ (q \notin DOMAIN fs \/ IsData(q)) /\ Write(q, c, then)

LEMMA BuildExtends ==
  ASSUME IInv, program = "iceberg_demo", DemoStep, ~StartBuild
  PROVE  Extends
<1> USE DEF IInv, Building
<1>1. CASE WriteDataFile
  BY <1>1, PathKinds DEF WriteDataFile, Extends
<1>2. CASE CommitPointer
  BY <1>2 DEF CommitPointer, disk, Extends
<1>3. CASE CreateTable
  <2>1. pc = "data" /\ Write(MetadataPath(t, 1), Metadata(table'), "manifest")
    BY <1>3 DEF CreateTable
  <2>2. t \in TableNos /\ t \in Nat
    BY <2>1, BuildingFacts
  <2>3. MetadataPath(t, 1) \notin DOMAIN fs
    BY <2>1, <2>2 DEF BuildFresh
  <2>4. QED
    BY <2>1, <2>3, PathKinds DEF Extends
<1>4. CASE WriteManifest
  <2>1. pc = "manifest" /\ Write(ManifestPath(t, Snap), Manifest(Snap, files), "list")
    BY <1>4 DEF WriteManifest
  <2>2. t \in TableNos /\ t \in Nat /\ Snap = First
    BY <2>1, BuildingFacts
  <2>3. ManifestPath(t, Snap) \notin DOMAIN fs
    BY <2>1, <2>2 DEF BuildFresh
  <2>4. QED
    BY <2>1, <2>3, PathKinds DEF Extends
<1>5. CASE WriteManifestList
  <2>1. pc = "list" /\ \E c : Write(ListPath(t, Snap), c, "append")
    BY <1>5 DEF WriteManifestList
  <2>2. t \in TableNos /\ t \in Nat /\ Snap = First
    BY <2>1, BuildingFacts
  <2>3. ListPath(t, Snap) \notin DOMAIN fs
    BY <2>1, <2>2 DEF BuildFresh
  <2>4. QED
    BY <2>1, <2>3, PathKinds DEF Extends
<1>6. CASE AppendFiles
  <2>1. pc = "append" /\ \E then : Write(MetadataPath(t, 2), Metadata(table'), then)
    BY <1>6 DEF AppendFiles
  <2>2. t \in TableNos /\ t \in Nat
    BY <2>1, BuildingFacts
  <2>3. MetadataPath(t, 2) \notin DOMAIN fs
    BY <2>1, <2>2 DEF BuildFresh
  <2>4. QED
    BY <2>1, <2>3, PathKinds DEF Extends
<1>7. QED
  BY <1>1, <1>2, <1>3, <1>4, <1>5, <1>6 DEF DemoStep

LEMMA SinkExtends ==
  ASSUME IInv, program = "stream_demo", SinkStep, ~StartSink
  PROVE  Extends
<1> USE DEF IInv
<1>1. CASE RunEpoch \/ \E p \in Partitions : Push(p)
  BY <1>1 DEF RunEpoch, Push, disk, Extends
<1>2. CASE SinkUnit \/ WriteManifest \/ WriteManifestList \/ SinkAppend
  <2>1. version \in Nat /\ epoch = version + 1
    BY <1>2, SinkWrites
  <2>2. PICK q, c, then :
          /\ Write(q, c, then)
          /\ \/ /\ \E p : q = EpochPath(epoch, p)
                /\ pc = "sink" /\ then \in {"sink", "manifest"} /\ version' = version
             \/ /\ q = ManifestPath(SinkNo, SnapBase + epoch)
                /\ pc = "manifest" /\ then = "list" /\ version' = version
             \/ /\ q = ListPath(SinkNo, SnapBase + epoch)
                /\ pc = "list" /\ then = "append" /\ version' = version
             \/ /\ q = MetadataPath(SinkNo, epoch)
                /\ pc = "append" /\ then \in {"epoch", "done"} /\ version' = epoch
    BY <1>2, SinkWrites
  <2>3. pc \in {"sink", "manifest", "list", "append"} /\ run > 0
    BY <2>2, AppendingFacts
  <2>4. epoch \in Nat
    BY <2>1
  <2>5. /\ MetadataPath(SinkNo, epoch) \in DOMAIN fs => epoch <= version
        /\ ManifestPath(SinkNo, SnapBase + epoch) \in DOMAIN fs =>
             epoch <= version \/ pc \in {"list", "append"}
        /\ ListPath(SinkNo, SnapBase + epoch) \in DOMAIN fs => epoch <= version \/ pc = "append"
    BY <2>3, <2>4 DEF SinkFresh
  <2>6. q # <<>> /\ (q \notin DOMAIN fs \/ IsData(q))
    BY <2>1, <2>2, <2>5, PathKinds
  <2>7. QED
    BY <2>2, <2>6 DEF Extends
<1>3. QED
  BY <1>1, <1>2 DEF SinkStep

LEMMA WrittenOnceStep ==
  ASSUME IInv, [Next]_vars, run' = run, NEW path \in DOMAIN fs, path # writing.path, ~IsData(path)
  PROVE  fs'[path] = fs[path]
<1> USE DEF IInv
<1>1. run \in Nat
  BY DEF Control
<1>2. ASSUME Extends PROVE fs'[path] = fs[path]
  <2>1. CASE fs' = fs
    BY <2>1
  <2>2. CASE \E q, c, then : q # <<>> /\ (q \notin DOMAIN fs \/ IsData(q)) /\ Write(q, c, then)
    <3>1. PICK q, c, then : q # <<>> /\ (q \notin DOMAIN fs \/ IsData(q)) /\ Write(q, c, then)
      BY <2>2
    <3>2. path # q
      BY <3>1
    <3>3. QED
      BY <3>1, <3>2, WriteEffect
  <2>3. QED
    BY <1>2, <2>1, <2>2 DEF Extends
<1>3. ~StartBuild /\ ~StartSink /\ ~WriteSample
  BY <1>1 DEF StartBuild, StartSink, WriteSample, Begin
<1>4. CASE program = "iceberg_demo" /\ DemoStep
  BY <1>2, <1>3, <1>4, BuildExtends
<1>5. CASE program = "stream_demo" /\ SinkStep
  BY <1>2, <1>3, <1>5, SinkExtends
<1>6. CASE WritePart
  BY <1>6 DEF WritePart
<1>7. CASE Crash \/ (\E r \in Readers : Read(r)) \/ UNCHANGED vars
  BY <1>7, ReadersOnlyRead DEF Crash, disk
<1>8. QED
  BY <1>3, <1>4, <1>5, <1>6, <1>7, StepsOf

\* No run changes a metadata file, a manifest or a manifest list that it has written: a
\* version or a snapshot that someone has read stays what it was (write_metadata,
\* write_manifest and write_manifest_list are each given a path of its own).
THEOREM FilesWrittenOnce == Spec => WrittenOnce
<1>1. IInv /\ [Next]_vars
        => [run' = run => \A path \in DOMAIN fs :
              path # writing.path /\ ~IsData(path) => fs'[path] = fs[path]]_fs
  BY WrittenOnceStep
<1>2. QED
  BY <1>1, IcebergInvariant, PTL DEF Spec, WrittenOnce

=============================================================================
