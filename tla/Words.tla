-------------------------------- MODULE Words --------------------------------
(***************************************************************************)
(* Signed integers of W bits, 64 in the code: the values of Int64 columns. *)
(***************************************************************************)
EXTENDS Integers

CONSTANT W

ASSUME WordsAssumption == W \in Nat \ {0}

I64Min == -(2^(W - 1))
I64Max == 2^(W - 1) - 1

\* The minimum and the maximum of the values of a column, from I64Max and I64Min on.
MinOf(vals) == LET S == {vals[i] : i \in DOMAIN vals} \cup {I64Max}
               IN  CHOOSE x \in S : \A y \in S : x <= y
MaxOf(vals) == LET S == {vals[i] : i \in DOMAIN vals} \cup {I64Min}
               IN  CHOOSE x \in S : \A y \in S : x >= y

\* wrapping_add and wrapping_sub, and + and - in a release build.
Wrap(x) == ((x - I64Min) % (I64Max - I64Min + 1)) + I64Min

=============================================================================
