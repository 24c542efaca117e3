-------------------------------- MODULE Lz4 --------------------------------
(***************************************************************************)
(* The LZ4 block codec of blitz-format.  A block is a sequence of units:   *)
(* the source's length first, then sequences of a token, the literals and  *)
(* a match.  A token is one number, its literal nibble above its match     *)
(* nibble; lengths and distances that the code writes in several bytes are *)
(* one unit, a nibble's overflow excepted, whose continuation units are    *)
(* what the two sides have to agree on.                                    *)
(***************************************************************************)
EXTENDS Integers, Sequences, FiniteSets, SequencesExt

CONSTANTS
  MinMatch,      \* MIN_MATCH, 4 in the code
  MatchLimit,    \* a match starts before the last 12 units
  EndLiterals,   \* the last 5 units are literals
  NibbleMax,     \* 15: a nibble that is continued
  UnitMax,       \* 255: a unit that is continued
  MaxDistance,   \* 0xFFFF
  HashSize       \* 1 << HASH_LOG

ASSUME Lz4Assumption ==
  /\ {MinMatch, EndLiterals, NibbleMax, UnitMax, MaxDistance, HashSize} \subseteq Nat \ {0}
  /\ MatchLimit \in Nat /\ MatchLimit >= EndLiterals + MinMatch

LOCAL Smaller(a, b) == IF a < b THEN a ELSE b

\* read_u32 compares MinMatch units at once (i counts from 0).
Window(src, i) == SubSeq(src, i + 1, i + MinMatch)

\* Some function of the window; its collisions are told apart by comparing windows.
Hash(w) == FoldLeft(LAMBDA h, u : 2 * h + u, 0, w) % HashSize

PutLen(l) == [k \in 1..(l \div UnitMax) |-> UnitMax] \o <<l % UnitMax>>

\* What a nibble holds of a length, and the units that continue it.
Nibble(l) == Smaller(l, NibbleMax)
Continued(l) == IF l >= NibbleMax THEN PutLen(l - NibbleMax) ELSE <<>>

Token(lit, ml) == Nibble(lit) * (NibbleMax + 1) + Nibble(ml)

\* Trailing literals: a sequence without a match.
LastSequence(lits) == <<Token(Len(lits), 0)>> \o Continued(Len(lits)) \o lits

MatchSequence(lits, distance, ml) ==
  <<Token(Len(lits), ml - MinMatch)>> \o Continued(Len(lits)) \o lits
    \o <<distance>> \o Continued(ml - MinMatch)

\* The longest match of the units at i with those at cand, up to the end literals.
MatchLength(src, cand, i) ==
  LET most == Len(src) - EndLiterals - i
      same == {ml \in MinMatch..most : \A k \in MinMatch..(ml - 1) : src[cand + k + 1] = src[i + k + 1]}
  IN  CHOOSE ml \in same \cup {MinMatch} : \A k \in same : ml >= k

\* The loop over i: table holds the last position of each hash, literals since anchor
\* are not written yet.
RECURSIVE CompressFrom(_, _, _, _, _)
CompressFrom(src, i, anchor, table, out) ==
  IF i >= Len(src) - MatchLimit
  THEN out \o LastSequence(SubSeq(src, anchor + 1, Len(src)))
  ELSE LET h == Hash(Window(src, i))
           cand == table[h]
           seen == [table EXCEPT ![h] = i]
           ml == MatchLength(src, cand, i)
       IN  IF i > cand /\ i - cand <= MaxDistance /\ Window(src, cand) = Window(src, i)
           THEN CompressFrom(src, i + ml, i + ml, seen,
                             out \o MatchSequence(SubSeq(src, anchor + 1, i), i - cand, ml))
           ELSE CompressFrom(src, i + 1, anchor, seen, out)

\* A source too short for matches (src.len() < 13) is one literal run.
Compress(src) ==
  <<Len(src)>> \o
  (IF Len(src) <= MatchLimit THEN LastSequence(src)
   ELSE CompressFrom(src, 0, 0, [h \in 0..(HashSize - 1) |-> 0], <<>>))

\* A length that starts with this nibble, and where its continuation ends.
RECURSIVE GetLen(_, _, _)
GetLen(src, i, l) ==
  IF src[i + 1] = UnitMax THEN GetLen(src, i + 1, l + UnitMax)
  ELSE [len |-> l + src[i + 1], next |-> i + 1]
NibbleLen(src, i, nib) ==
  IF nib = NibbleMax THEN GetLen(src, i, nib) ELSE [len |-> nib, next |-> i]

\* A match may overlap what it writes: unit by unit.
CopyMatch(out, distance, ml) ==
  FoldLeft(LAMBDA o, k : Append(o, o[Len(o) - distance + 1]), out, [k \in 1..ml |-> k])

Failed == [ok |-> FALSE, data |-> <<>>]

RECURSIVE DecompressFrom(_, _, _)
DecompressFrom(src, i, out) ==
  IF i >= Len(src)
  THEN IF Len(out) = src[1] THEN [ok |-> TRUE, data |-> out] ELSE Failed
  ELSE LET token == src[i + 1]
           lit == NibbleLen(src, i + 1, token \div (NibbleMax + 1))
           end == lit.next + lit.len
           lits == out \o SubSeq(src, lit.next + 1, end)
       IN  IF end >= Len(src) THEN DecompressFrom(src, end, lits)  \* no match part
           ELSE LET distance == src[end + 1]
                    match == NibbleLen(src, end + 1, token % (NibbleMax + 1))
                IN  IF distance = 0 \/ distance > Len(lits) THEN Failed
                    ELSE DecompressFrom(src, match.next,
                                        CopyMatch(lits, distance, match.len + MinMatch))

Decompress(src) == DecompressFrom(src, 1, <<>>)

=============================================================================
