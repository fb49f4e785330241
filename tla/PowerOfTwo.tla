----------------------------- MODULE PowerOfTwo -----------------------------
(***************************************************************************)
(* The size arithmetic of utils.h, stated with powers instead of bit       *)
(* patterns.  BitTricks.tla translates the same functions bit by bit and   *)
(* a run checks that the two agree on every word.                          *)
(***************************************************************************)
EXTENDS Integers

CONSTANT WordBits   \* bits of an unsigned long: 64 in the build, a few here

ASSUME WordBitsAssumption == WordBits \in Nat \ {0}

Word == 2^WordBits  \* the number of values an unsigned long can hold

BlockSizes == {2^k : k \in 0 .. (WordBits - 1)}

\* what exponentiation is, as far as the words go
ASSUME Doubling == 2^0 = 1 /\ \A k \in 0 .. (WordBits - 1) : 2^(k + 1) = 2 * 2^k

is_power_of_2(n) == \E k \in 0 .. (WordBits - 1) : n = 2^k

\* __builtin_clzl: the zero bits above the highest set bit of n
clz(n) == CHOOSE z \in 0 .. (WordBits - 1) :
             2^(WordBits - z - 1) <= n /\ n < 2^(WordBits - z)

roundup_pow_of_two(n) == IF n = 0 THEN 0 ELSE 2^(WordBits - clz(n) - 1)

=============================================================================
