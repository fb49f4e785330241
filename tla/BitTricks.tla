----------------------------- MODULE BitTricks -----------------------------
(***************************************************************************)
(* The size functions of utils.h and the index mask of ring_buffer.cpp,    *)
(* bit by bit as the code computes them on an unsigned long.  A counter    *)
(* walks through every word, and in each state the bit pattern's answer    *)
(* must be the one PowerOfTwo.tla gives, which the other modules use.      *)
(***************************************************************************)
EXTENDS PowerOfTwo, FiniteSets, Bitwise

VARIABLE n

Init == n = 0
Step == n' = (n + 1) % Word
Spec == Init /\ [][Step]_n

bits_is_power_of_2(x) == x # 0 /\ (x & ((x - 1) % Word)) = 0

\* __builtin_clzl: as many right shifts as are not needed to lose every bit
builtin_clzl(x) == Cardinality({i \in 0 .. (WordBits - 1) : shiftR(x, i) = 0})


bits_roundup_pow_of_two(x) ==
    IF x = 0 THEN 0 ELSE 2^(WordBits - builtin_clzl(x) - 1) % Word

\* mutant: the size itself as the mask
index_mask_Size(index, size) == index & size

\* m_in & (m_size - 1)
index_mask(index, size) == index & (size - 1)

-----------------------------------------------------------------------------

(***************************************************************************)
(* Masking an index with m_size - 1 is reducing it modulo m_size, for      *)
(* every block size that alloc can choose (ring_buffer.cpp:71-72, 102-103).*)
(***************************************************************************)
MaskIsRemainder == \A size \in BlockSizes : index_mask(n, size) = n % size

=============================================================================
