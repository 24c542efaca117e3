----------------------------- MODULE ColumnFile -----------------------------
(***************************************************************************)
(* The BlitzCol file of blitz-format, written and read.  A file is a       *)
(* sequence of words: a fixed-width integer is one word, and so is a       *)
(* length-prefixed name or string.  Int64 values are integers of W bits;   *)
(* Utf8 values are naturals that stand for strings in their order, 0 for   *)
(* the empty string.  Row numbers count from 0, as in the code; row groups,*)
(* columns and dictionary entries of a sequence count from 1.              *)
(***************************************************************************)
EXTENDS Lz4, ZoneMaps, Words

CONSTANTS
  PageRows,      \* PAGE_ROWS, 8192 in the code
  VarintBase,    \* 128: a varint byte carries 7 bits
  Magic          \* "BLZC"

ASSUME ColumnFileAssumption == {PageRows, VarintBase - 1} \subseteq Nat \ {0}

LOCAL Least(S) == CHOOSE x \in S : \A y \in S : x <= y
LOCAL Greatest(S) == CHOOSE x \in S : \A y \in S : x >= y

-----------------------------------------------------------------------------
(* Varints, zigzag, delta.                                                  *)

Zigzag(n) == IF n >= 0 THEN 2 * n ELSE -2 * n - 1
Unzigzag(n) == IF n % 2 = 0 THEN n \div 2 ELSE -(n \div 2) - 1

RECURSIVE PutVarint(_)
PutVarint(v) ==
  IF v < VarintBase THEN <<v>> ELSE <<(v % VarintBase) + VarintBase>> \o PutVarint(v \div VarintBase)

\* The value that starts at pos (from 0) and where it ends.
RECURSIVE GetVarint(_, _)
GetVarint(buf, pos) ==
  LET b == buf[pos + 1] IN
  IF b < VarintBase THEN [v |-> b, pos |-> pos + 1]
  ELSE LET rest == GetVarint(buf, pos + 1)
       IN  [v |-> (b - VarintBase) + VarintBase * rest.v, pos |-> rest.pos]

EncodePage(vals) ==
  Compress(FlattenSeq([k \in DOMAIN vals |->
             PutVarint(Zigzag(Wrap(vals[k] - (IF k = 1 THEN 0 ELSE vals[k - 1]))))]))

\* A page's values from their deltas, one after the other.
Undelta(st, d) ==
  LET v == Wrap(st.prev + Unzigzag(d.v)) IN [pos |-> d.pos, prev |-> v, out |-> Append(st.out, v)]
DecodeDeltas(raw, rows) ==
  FoldLeft(LAMBDA st, k : Undelta(st, GetVarint(raw, st.pos)),
           [pos |-> 0, prev |-> 0, out |-> <<>>], [k \in 1..rows |-> k]).out
DecodePage(comp, rows) == DecodeDeltas(Decompress(comp).data, rows)

-----------------------------------------------------------------------------
(* The writer: the words so far, the schema, the row groups' metadata.      *)

CreateWriter(schema) == [bytes |-> <<Magic, 1>>, schema |-> schema, rowgroups |-> <<>>]

\* vals in chunks of PageRows.
Chunks(vals) ==
  [p \in 1..((Len(vals) + PageRows - 1) \div PageRows) |->
     SubSeq(vals, (p - 1) * PageRows + 1,
            IF p * PageRows < Len(vals) THEN p * PageRows ELSE Len(vals))]

\* Encoded pages written one after the other from offset pos on, and their directory.
WritePages(pos, pages, encs, mins, maxs) ==
  LET off[p \in 1..(Len(pages) + 1)] == IF p = 1 THEN pos ELSE off[p - 1] + Len(encs[p - 1])
  IN  [p \in DOMAIN pages |->
         [offset |-> off[p], comp_len |-> Len(encs[p]), rows |-> Len(pages[p]),
          min |-> mins[p], max |-> maxs[p]]]

Int64Chunk(pos, vals) ==
  LET pages == Chunks(vals)
      encs == [p \in DOMAIN pages |-> EncodePage(pages[p])]
  IN  [bytes |-> FlattenSeq(encs),
       meta |-> [dtype |-> "Int64", min_i |-> MinOf(vals), max_i |-> MaxOf(vals),
                 min_s |-> 0, max_s |-> 0, dict_off |-> 0, dict_len |-> 0, dict_count |-> 0,
                 pages |-> WritePages(pos, pages, encs, [p \in DOMAIN pages |-> MinOf(pages[p])],
                                      [p \in DOMAIN pages |-> MaxOf(pages[p])])]]

\* The distinct strings in the order of their first use.
Dictionary(vals) ==
  FoldLeft(LAMBDA d, s : IF Contains(d, s) THEN d ELSE Append(d, s), <<>>, vals)

\* The code of s in dict (from 0); the first position of s, as in the reader.
CodeIn(dict, s) == Least({i \in DOMAIN dict : dict[i] = s}) - 1

Utf8Chunk(pos, vals) ==
  LET dict == Dictionary(vals)
      denc == Compress(<<Len(dict)>> \o dict)
      pages == Chunks([k \in DOMAIN vals |-> CodeIn(dict, vals[k])])
      encs == [p \in DOMAIN pages |-> Compress(pages[p])]
      zeros == [p \in DOMAIN pages |-> 0]
  IN  [bytes |-> denc \o FlattenSeq(encs),
       meta |-> [dtype |-> "Utf8", min_i |-> 0, max_i |-> 0,
                 min_s |-> IF dict = <<>> THEN 0 ELSE Least(ToSet(dict)),
                 max_s |-> IF dict = <<>> THEN 0 ELSE Greatest(ToSet(dict)),
                 dict_off |-> pos, dict_len |-> Len(denc), dict_count |-> Len(dict),
                 pages |-> WritePages(pos + Len(denc), pages, encs, zeros, zeros)]]

\* cols: one record of type and values for each column of the schema.  The chunks are put
\* behind each other, and then the row group behind those before.
Put(st, chunk) == [bytes |-> st.bytes \o chunk.bytes, chunks |-> Append(st.chunks, chunk.meta)]
WithRowgroup(w, rows, st) ==
  [w EXCEPT !.bytes = st.bytes, !.rowgroups = Append(@, [rows |-> rows, chunks |-> st.chunks])]
WriteRowgroup(w, cols) ==
  LET write(st, col) ==
        Put(st, IF col.dtype = "Int64" THEN Int64Chunk(Len(st.bytes), col.vals)
                ELSE Utf8Chunk(Len(st.bytes), col.vals))
  IN  WithRowgroup(w, Len(cols[1].vals), FoldLeft(write, [bytes |-> w.bytes, chunks |-> <<>>], cols))

\* The footer, field after field in the order the reader takes them.
FooterPage(p) == <<p.offset, p.comp_len, p.rows, p.min, p.max>>
FooterChunk(c) ==
  <<c.dtype, c.min_i, c.max_i, c.min_s, c.max_s, c.dict_off, c.dict_len, c.dict_count,
    Len(c.pages)>> \o FlattenSeq([p \in DOMAIN c.pages |-> FooterPage(c.pages[p])])
Footer(schema, rowgroups) ==
  <<Len(schema)>> \o FlattenSeq([c \in DOMAIN schema |-> <<schema[c].name, schema[c].dtype>>])
    \o <<Len(rowgroups)>>
    \o FlattenSeq([g \in DOMAIN rowgroups |->
         <<rowgroups[g].rows>>
           \o FlattenSeq([c \in DOMAIN schema |-> FooterChunk(rowgroups[g].chunks[c])])])

Finish(w) ==
  LET f == Footer(w.schema, w.rowgroups) IN w.bytes \o f \o <<Len(f), Magic>>

-----------------------------------------------------------------------------
(* The reader.                                                              *)

ReadAt(bytes, off, n) == SubSeq(bytes, off + 1, off + n)

\* n items read one after the other by Read(buf, pos), which returns [v, pos].
LOCAL Times(n, Read(_, _), buf, pos) ==
  FoldLeft(LAMBDA st, k : LET r == Read(buf, st.pos) IN [v |-> Append(st.v, r.v), pos |-> r.pos],
           [v |-> <<>>, pos |-> pos], [k \in 1..n |-> k])

ReadField(f, pos) == [v |-> [name |-> f[pos + 1], dtype |-> f[pos + 2]], pos |-> pos + 2]
ReadPage(f, pos) ==
  [v |-> [offset |-> f[pos + 1], comp_len |-> f[pos + 2], rows |-> f[pos + 3],
          min |-> f[pos + 4], max |-> f[pos + 5]],
   pos |-> pos + 5]
ReadChunkMeta(f, pos) ==
  LET pages == Times(f[pos + 9], ReadPage, f, pos + 9)
  IN  [v |-> [dtype |-> f[pos + 1], min_i |-> f[pos + 2], max_i |-> f[pos + 3],
              min_s |-> f[pos + 4], max_s |-> f[pos + 5], dict_off |-> f[pos + 6],
              dict_len |-> f[pos + 7], dict_count |-> f[pos + 8], pages |-> pages.v],
       pos |-> pages.pos]

Open(bytes) ==
  LET size == Len(bytes)
      flen == bytes[size - 1]
      f == SubSeq(bytes, size - 1 - flen, size - 2)
      schema == Times(f[1], ReadField, f, 1)
      group(buf, pos) ==
        LET chunks == Times(Len(schema.v), ReadChunkMeta, buf, pos + 1)
        IN  [v |-> [rows |-> buf[pos + 1], chunks |-> chunks.v], pos |-> chunks.pos]
      groups == Times(f[schema.pos + 1], group, f, schema.pos + 1)
  IN  [bytes |-> bytes, schema |-> schema.v, rowgroups |-> groups.v]

ReadDict(r, c) ==
  LET raw == Decompress(ReadAt(r.bytes, c.dict_off, c.dict_len)).data
  IN  SubSeq(raw, 2, raw[1] + 1)

PagePrunes(p, op, lit) == BoundsPrune(op, p.min, p.max, lit)

\* eval_pred panics on a literal of the other type and on strings other than for equality.
PredPanics(c, op, lit) == c.dtype # lit.dtype \/ (c.dtype = "Utf8" /\ op # "Eq")

PageAt(r, p) == ReadAt(r.bytes, p.offset, p.comp_len)

\* What a page holds: values, or the codes of strings.
PageValues(r, c, p) ==
  IF c.dtype = "Int64" THEN DecodePage(PageAt(r, p), p.rows) ELSE Decompress(PageAt(r, p)).data

\* The rows, counted from base on, whose values satisfy a comparison.
Hits(base, vals, op, v) ==
  LET rows == SelectSeq([i \in DOMAIN vals |-> i], LAMBDA i : Satisfies(vals[i], op, v))
  IN  [k \in DOMAIN rows |-> base + rows[k] - 1]

\* The selected rows, page after page: rows before the page are counted in base whether
\* it is decoded or not; codes have no bounds.
SelectInPages(r, c, op, v) ==
  LET step(st, p) ==
        [base |-> st.base + p.rows,
         sel |-> IF c.dtype = "Int64" /\ PagePrunes(p, op, v) THEN st.sel
                 ELSE st.sel \o Hits(st.base, PageValues(r, c, p), op, v)]
  IN  FoldLeft(step, [base |-> 0, sel |-> <<>>], c.pages).sel

\* A string that is not in the dictionary selects nothing.
SelectString(r, c, dict, s) ==
  IF Contains(dict, s) THEN SelectInPages(r, c, "Eq", CodeIn(dict, s)) ELSE <<>>

EvalPred(r, rg, col, op, lit) ==
  LET c == r.rowgroups[rg].chunks[col]
  IN  IF c.dtype = "Int64" THEN SelectInPages(r, c, op, lit.v) ELSE SelectString(r, c, ReadDict(r, c), lit.v)

\* What the pages hold in the rows of sel, in the order of sel, which is ascending: si rows
\* of it are behind, base rows of the group.
At(vals, positions) == [k \in DOMAIN positions |-> vals[positions[k]]]
GatherPages(r, c, sel) ==
  LET step(st, p) ==
        LET end == st.base + p.rows
            mine == {k \in (st.si + 1)..Len(sel) : \A j \in (st.si + 1)..k : sel[j] < end}
        IN  [base |-> end, si |-> st.si + Cardinality(mine),
             out |-> st.out \o At(PageValues(r, c, p),
                                  [k \in 1..Cardinality(mine) |-> sel[st.si + k] - st.base + 1])]
  IN  FoldLeft(step, [base |-> 0, si |-> 0, out |-> <<>>], c.pages).out

Strings(dict, codes) == [k \in DOMAIN codes |-> dict[codes[k] + 1]]
Gather(r, rg, col, sel) ==
  LET c == r.rowgroups[rg].chunks[col]
  IN  IF c.dtype = "Int64" THEN GatherPages(r, c, sel)
      ELSE Strings(ReadDict(r, c), GatherPages(r, c, sel))

ReadChunk(r, rg, col) == Gather(r, rg, col, [k \in 1..r.rowgroups[rg].rows |-> k - 1])

\* Row group zone check; strings are pruned for equality only, a mistyped literal never.
RgPrunes(r, rg, col, op, lit) ==
  LET c == r.rowgroups[rg].chunks[col] IN
  \/ /\ c.dtype = "Int64" /\ lit.dtype = "Int64"
     /\ BoundsPrune(op, c.min_i, c.max_i, lit.v)
  \/ /\ c.dtype = "Utf8" /\ lit.dtype = "Utf8"
     /\ op = "Eq" /\ (lit.v < c.min_s \/ lit.v > c.max_s)

=============================================================================
