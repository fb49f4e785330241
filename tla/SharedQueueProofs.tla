-------------------------- MODULE SharedQueueProofs --------------------------
(***************************************************************************)
(* The ring buffer and the queue built on it.                              *)
(*                                                                         *)
(* The first part is about the ring buffer by itself (Spec): its invariant *)
(* and its refinement of the byte queue, for every word width, block size, *)
(* transfer length and set of byte values.  The second part is about the   *)
(* shared queue (QueueSpec), for every pipe capacity and program that uses *)
(* it as well: it moves messages whole, keeps pipe and block together, and *)
(* with messages of one size the pipe tells the truth about the block.     *)
(* Every step of the queue is a step of the ring buffer or leaves it       *)
(* alone, so the second part begins where the first one ends.              *)
(***************************************************************************)
EXTENDS SharedQueue, WordArithmetic, SequenceTheorems

-----------------------------------------------------------------------------
(* Powers of two, from the rule that each is twice the one before.          *)

LEMMA PowersPositive == \A k \in 0 .. WordBits : 2^k \in Nat \ {0}
<1> DEFINE Bad == {k \in 0 .. WordBits : 2^k \notin Nat \ {0}}
<1>1. SUFFICES ASSUME Bad # {} PROVE FALSE
  OBVIOUS
<1>2. PICK k \in Bad : \A j \in Bad : k <= j
  <2>1. Bad \subseteq Nat
    BY WordBitsAssumption
  <2> HIDE DEF Bad
  <2> QED
    BY <1>1, <2>1, LeastElement
<1>3. k \in 0 .. WordBits /\ 2^k \notin Nat \ {0}
  BY <1>2
<1>4. k # 0
  <2>1. 1 \in Nat \ {0}
    OBVIOUS
  <2>2. 2^0 \in Nat \ {0}
    BY <2>1, Doubling, Zenon
  <2> QED
    BY <1>3, <2>2, Zenon
<1>5. k - 1 \in 0 .. WordBits - 1 /\ k - 1 \in 0 .. WordBits /\ (k - 1) + 1 = k /\ ~ k <= k - 1
  BY <1>3, <1>4, WordBitsAssumption
<1>6. k - 1 \notin Bad
  <2> HIDE DEF Bad
  <2> QED
    BY <1>2, <1>5
<1>7. 2^(k - 1) \in Nat \ {0}
  BY <1>5, <1>6
<1>8. 2^k = 2 * 2^(k - 1)
  BY <1>5, Doubling
<1> QED
  BY <1>3, <1>7, <1>8

\* a multiple is no less
LEMMA AtLeast ==
    ASSUME NEW q \in Nat \ {0}, NEW p \in Nat \ {0}
    PROVE  q <= q * p
  OBVIOUS

\* counted from the top: the power divides Word, and is less unless it is Word
LEMMA PowersDivide ==
    \A j \in 0 .. WordBits : /\ \E q \in Nat \ {0} : Word = q * 2^(WordBits - j)
                             /\ 2^(WordBits - j) <= Word
                             /\ j > 0 => 2^(WordBits - j) < Word
<1> DEFINE Fine(j) == /\ \E q \in Nat \ {0} : Word = q * 2^(WordBits - j)
                      /\ 2^(WordBits - j) <= Word
                      /\ j > 0 => 2^(WordBits - j) < Word
           Bad == {j \in 0 .. WordBits : ~ Fine(j)}
<1>1. SUFFICES ASSUME Bad # {} PROVE FALSE
  OBVIOUS
<1>2. PICK j \in Bad : \A i \in Bad : j <= i
  <2>1. Bad \subseteq Nat
    BY WordBitsAssumption
  <2> HIDE DEF Bad
  <2> QED
    BY <1>1, <2>1, LeastElement
<1>3. j \in 0 .. WordBits /\ ~ Fine(j)
  BY <1>2
<1>4. j # 0
  <2>1. WordBits - 0 = WordBits /\ ~ 0 > 0 /\ WordBits \in 0 .. WordBits
    BY WordBitsAssumption
  <2>2. PICK w \in Nat \ {0} : w = Word
    BY <2>1, PowersPositive, Zenon DEF Word
  <2>3. 2^(WordBits - 0) = Word
    BY <2>1, Zenon DEF Word
  <2>4. w = 1 * w /\ w <= w /\ 1 \in Nat \ {0}
    OBVIOUS
  <2>5. Fine(0)
    BY <2>1, <2>2, <2>3, <2>4, Zenon
  <2> QED
    BY <1>3, <2>5, Zenon
<1>5. PICK i \in 0 .. WordBits : i = j - 1
  BY <1>3, <1>4, WordBitsAssumption
<1>6. Fine(i)
  <2>1. ~ j <= i
    BY <1>3, <1>5
  <2>2. i \notin Bad
    <3> HIDE DEF Bad
    <3> QED
      BY <1>2, <2>1
  <2> QED
    BY <2>2
<1>7. PICK k \in 0 .. WordBits - 1 : k = WordBits - j /\ k + 1 = WordBits - i /\ k \in 0 .. WordBits
  BY <1>3, <1>4, <1>5, WordBitsAssumption
<1>8. PICK p \in Nat \ {0} : p = 2^k
  BY <1>7, PowersPositive, Zenon
<1>9. 2^(k + 1) = 2 * p
  BY <1>8, Doubling, Zenon
<1>10. PICK q \in Nat \ {0} : Word = q * 2^(k + 1)
  BY <1>6, <1>7, Zenon
<1>11. 2^(k + 1) <= Word
  BY <1>6, <1>7, Zenon
<1>12. PICK w : w = Word
  OBVIOUS
<1>13. w = q * (2 * p) /\ 2 * p <= w
  BY <1>9, <1>10, <1>11, <1>12, Zenon
<1>14. w \in Nat /\ w = (q * 2) * p /\ p <= w /\ p < w /\ q * 2 \in Nat \ {0}
  BY <1>13
<1>15. Fine(j)
  BY <1>7, <1>8, <1>12, <1>14, Zenon
<1> QED
  BY <1>3, <1>15

(* What the sizes and indices rest on: a power of two below Word divides it, so that *)
(* reducing modulo Word and then modulo the power is reducing modulo the power; and  *)
(* every non-zero word has a highest set bit.                                        *)
LEMMA PowersOfTwo ==
    /\ Word \in Nat \ {0}
    /\ \A k \in 0 .. (WordBits - 1) :
          /\ 2^k \in Nat \ {0}
          /\ 2^k < Word
          /\ \E q \in 1 .. Word : Word = q * 2^k
    /\ \A n \in 1 .. (Word - 1) : \E k \in 0 .. (WordBits - 1) :
          2^k <= n /\ n < 2^(k + 1)
<1>1. Word \in Nat \ {0}
  <2>1. WordBits \in 0 .. WordBits
    BY WordBitsAssumption
  <2> QED
    BY <2>1, PowersPositive, Zenon DEF Word
<1>2. ASSUME NEW k \in 0 .. (WordBits - 1)
      PROVE  2^k \in Nat \ {0} /\ 2^k < Word /\ \E q \in 1 .. Word : Word = q * 2^k
  <2>1. PICK j \in 0 .. WordBits : k = WordBits - j /\ j > 0 /\ k \in 0 .. WordBits
    <3>1. WordBits - k \in 0 .. WordBits /\ k = WordBits - (WordBits - k) /\ WordBits - k > 0
          /\ k \in 0 .. WordBits
      BY WordBitsAssumption
    <3> QED
      BY <3>1, Zenon
  <2>2. PICK p \in Nat \ {0} : p = 2^k
    BY <2>1, PowersPositive, Zenon
  <2>3. 2^k < Word /\ \E q \in Nat \ {0} : Word = q * 2^k
    BY <2>1, PowersDivide, Zenon
  <2>4. PICK q \in Nat \ {0} : Word = q * p
    BY <2>2, <2>3, Zenon
  <2>5. PICK w \in Nat \ {0} : w = Word
    BY <1>1, Zenon
  <2>6. w = q * p
    BY <2>4, <2>5, Zenon
  <2>7. q <= w
    BY <2>6, AtLeast
  <2>8. q \in 1 .. w
    BY <2>5, <2>7
  <2> QED
    BY <2>2, <2>3, <2>4, <2>5, <2>8, Zenon
<1>3. ASSUME NEW n \in 1 .. (Word - 1) PROVE \E k \in 0 .. (WordBits - 1) : 2^k <= n /\ n < 2^(k + 1)
  <2> DEFINE Above == {k \in 0 .. WordBits : n < 2^k}
  <2>1. WordBits \in Above
    <3>1. PICK w \in Nat \ {0} : w = Word
      BY <1>1, Zenon
    <3>2. n \in 1 .. (w - 1)
      BY <3>1, Zenon
    <3>3. n < w
      BY <3>2
    <3>4. n < 2^WordBits
      BY <3>1, <3>3, Zenon DEF Word
    <3>5. WordBits \in 0 .. WordBits
      BY WordBitsAssumption
    <3> QED
      BY <3>4, <3>5, Zenon
  <2>2. PICK k \in Above : \A j \in Above : k <= j
    <3>1. Above \subseteq Nat
      BY WordBitsAssumption
    <3> HIDE DEF Above
    <3> QED
      BY <2>1, <3>1, LeastElement
  <2>3. k \in 0 .. WordBits /\ n < 2^k
    BY <2>2, Zenon
  <2>4. n \in Nat \ {0}
    <3>1. PICK w \in Nat \ {0} : w = Word
      BY <1>1, Zenon
    <3>2. n \in 1 .. (w - 1)
      BY <3>1, Zenon
    <3> QED
      BY <3>2
  <2>5. k # 0
    <3>1. ~ n < 1
      BY <2>4
    <3>2. ~ n < 2^0
      BY <3>1, Doubling, Zenon
    <3> QED
      BY <2>3, <3>2, Zenon
  <2>6. PICK i \in 0 .. (WordBits - 1) : i + 1 = k /\ ~ k <= i /\ i \in 0 .. WordBits
    <3>1. k - 1 \in 0 .. (WordBits - 1) /\ (k - 1) + 1 = k /\ ~ k <= k - 1 /\ k - 1 \in 0 .. WordBits
      BY <2>3, <2>5, WordBitsAssumption
    <3> QED
      BY <3>1, Zenon
  <2>7. ~ n < 2^i
    BY <2>2, <2>6, Zenon
  <2>8. PICK p \in Nat \ {0} : p = 2^i
    BY <2>6, PowersPositive, Zenon
  <2>9. ~ n < p
    BY <2>7, <2>8, Zenon
  <2>10. p <= n
    BY <2>4, <2>9
  <2>11. 2^i <= n /\ n < 2^(i + 1)
    BY <2>3, <2>6, <2>8, <2>10, Zenon
  <2> QED
    BY <2>11, Zenon
<1> QED
  BY <1>1, <1>2, <1>3, Zenon

-----------------------------------------------------------------------------
(* The ring buffer.                                                        *)

used == ring_buffer_readable_size

(* A block is non-empty, smaller than a word can count, and divides the    *)
(* range of an index.                                                      *)
LEMMA BlockSizeFacts ==
    ASSUME NEW S \in BlockSizes
    PROVE  S \in Nat \ {0} /\ S < Word /\ Divides(S, Word)
<1>1. PICK k \in 0 .. (WordBits - 1) : S = 2^k
  BY Zenon DEF BlockSizes
<1>2. 2^k \in Nat \ {0} /\ 2^k < Word /\ \E q \in 1 .. Word : Word = q * 2^k
  BY PowersOfTwo, Zenon
<1>3. PICK q \in 1 .. Word : Word = q * S
  BY <1>1, <1>2, Zenon
<1>4. q \in Int
  BY PowersOfTwo
<1> QED
  BY <1>1, <1>2, <1>3, <1>4, Zenon DEF Divides

(* ring_buffer_alloc sees either no size at all or a power of two, for     *)
(* the highest set bit of a non-zero request exists.                       *)
LEMMA AllocSizeFacts ==
    ASSUME NEW n \in 0 .. (Word - 1)
    PROVE  AllocSize(n) = 0 \/ AllocSize(n) \in BlockSizes
<1>1. CASE is_power_of_2(n)
  BY <1>1, Zenon DEF is_power_of_2, AllocSize, BlockSizes
<1>2. CASE ~ is_power_of_2(n) /\ n = 0
  BY <1>2, Zenon DEF AllocSize, roundup_pow_of_two
<1>3. CASE ~ is_power_of_2(n) /\ n # 0
  <2>1. n \in 1 .. (Word - 1)
    BY <1>3, PowersOfTwo
  <2>2. PICK k \in 0 .. (WordBits - 1) : 2^k <= n /\ n < 2^(k + 1)
    BY <2>1, PowersOfTwo, Zenon
  <2>3. /\ WordBits - k - 1 \in 0 .. (WordBits - 1)
        /\ WordBits - (WordBits - k - 1) - 1 = k
        /\ WordBits - (WordBits - k - 1) = k + 1
    BY WordBitsAssumption
  <2>4. \E z \in 0 .. (WordBits - 1) :
           2^(WordBits - z - 1) <= n /\ n < 2^(WordBits - z)
    BY <2>2, <2>3, Zenon
  <2>5. clz(n) \in 0 .. (WordBits - 1)
    BY <2>4, Zenon DEF clz
  <2>6. WordBits - clz(n) - 1 \in 0 .. (WordBits - 1)
    BY <2>5, WordBitsAssumption
  <2> QED
    BY <1>3, <2>6, Zenon DEF AllocSize, roundup_pow_of_two, BlockSizes
<1> QED
  BY <1>1, <1>2, <1>3

(* The two memcpy calls together step through the block modulo its size.   *)
LEMMA PositionFacts ==
    ASSUME m_size \in BlockSizes, NEW index \in Int,
           NEW len \in 0 .. m_size, NEW k \in 0 .. (len - 1)
    PROVE  /\ Position(index, len, k) = (index + k) % m_size
           /\ (index + k) % m_size \in 0 .. (m_size - 1)
<1>1. m_size \in Nat \ {0} /\ index + k \in Int
  BY BlockSizeFacts
<1>2. (index + k) % m_size \in 0 .. (m_size - 1)
  BY <1>1, DivMod, Zenon
<1> QED
  BY <1>1, <1>2, SplitCopy, Zenon DEF Position, Min

(* The number of unread bytes is a word.                                   *)
LEMMA UsedFacts ==
    ASSUME m_in \in 0 .. (Word - 1), m_out \in 0 .. (Word - 1)
    PROVE  used \in 0 .. (Word - 1) /\ used = (m_in - m_out) % Word
<1>1. m_in - m_out \in Int /\ Word \in Nat \ {0}
  BY PowersOfTwo
<1> QED
  BY <1>1, DivMod, Zenon DEF used, ring_buffer_readable_size

(* What the caller passed is a sequence of bytes.                          *)
LEMMA BufferFacts ==
    ASSUME NEW b \in Buffers
    PROVE  b \in Seq(Byte) /\ Len(b) \in 0 .. MaxLen
<1>1. PICK n \in 0 .. MaxLen : b \in [1 .. n -> Byte]
  BY Zenon DEF Buffers
<1>2. n \in Nat
  BY MaxLenAssumption, PowersOfTwo
<1> QED
  BY <1>1, <1>2

-----------------------------------------------------------------------------
(* Consequences of the invariant, used for every action.                   *)

(* The numbers the two threads work with, in a form the provers can use.   *)
LEMMA InvFacts ==
    ASSUME Inv
    PROVE  /\ Word \in Nat \ {0} /\ MaxLen \in Nat
           /\ m_in \in Int /\ m_out \in Int /\ m_size \in Nat /\ m_size < Word
           /\ used \in Nat /\ used < Word
           /\ w_len \in Nat /\ w_k \in Nat /\ r_len \in Nat
           /\ w_k <= w_len /\ used + w_len <= m_size /\ r_len <= used
           /\ w_buf \in Seq(Byte) /\ Len(w_buf) \in 0 .. MaxLen
           /\ r_buf \in Seq(Cell) /\ Len(r_buf) \in Nat /\ Len(r_buf) <= r_len
<1>1. Word \in Nat \ {0} /\ MaxLen \in Nat
  BY PowersOfTwo, MaxLenAssumption
<1>2. used \in 0 .. (Word - 1)
  BY UsedFacts, Zenon DEF Inv, TypeOK
<1>3. w_buf \in Seq(Byte) /\ Len(w_buf) \in 0 .. MaxLen
  BY BufferFacts, Zenon DEF Inv, TypeOK
<1>4. used + w_len <= m_size /\ r_len <= used /\ w_k <= w_len /\ Len(r_buf) <= r_len
  BY Zenon DEF Inv, WriterInv, ReaderInv, used
<1>5. /\ m_in \in 0 .. (Word - 1) /\ m_out \in 0 .. (Word - 1)
      /\ m_size \in 0 .. (Word - 1) /\ w_len \in 0 .. MaxLen
      /\ w_k \in 0 .. MaxLen /\ r_len \in 0 .. MaxLen /\ r_buf \in Seq(Cell)
  BY Zenon DEF Inv, TypeOK
<1> QED
  BY <1>1, <1>2, <1>3, <1>4, <1>5

(* A copy of at least one byte runs only on a block.                       *)
LEMMA CopyHasBlock ==
    ASSUME Inv, w_len > 0 \/ used > 0
    PROVE  /\ m_buffer # "null" /\ m_size \in BlockSizes /\ m_size \in Nat \ {0}
           /\ mem \in [0 .. (m_size - 1) -> Cell]
<1>1. m_buffer # "null"
  <2> SUFFICES ASSUME m_buffer = "null" PROVE FALSE
    OBVIOUS
  <2>1. m_in = 0 /\ m_out = 0
    BY Zenon DEF Inv, BlockInv
  <2>2. used = 0
    BY <2>1, InvFacts DEF used, ring_buffer_readable_size
  <2>3. w_pc = "copy"
    BY <2>2, InvFacts DEF Inv, TypeOK, WriterInv
  <2>4. m_size = 0
    BY <2>3, Zenon DEF Inv, BlockInv
  <2> QED
    BY <2>2, <2>4, InvFacts
<1>2. m_size \in BlockSizes /\ mem \in [0 .. (m_size - 1) -> Cell]
  BY <1>1, Zenon DEF Inv, BlockInv, TypeOK
<1> QED
  BY <1>1, <1>2, BlockSizeFacts, Zenon

(* The cell of the writer's k-th byte, counted from the oldest unread one. *)
LEMMA CellOfIn ==
    ASSUME Inv, m_size \in BlockSizes, NEW k \in Int
    PROVE  (m_in + k) % m_size = (m_out + (used + k)) % m_size
<1>1. m_size \in Nat \ {0} /\ Divides(m_size, Word)
  BY BlockSizeFacts, Zenon
<1>2. Word \in Nat \ {0} /\ m_in \in Int /\ m_out \in Int
  BY InvFacts, Zenon
<1> QED
  BY <1>1, <1>2, CellFromOut, Zenon DEF used, ring_buffer_readable_size

(* The cells the writer reserved hold no unread byte.                      *)
LEMMA CellsDisjoint ==
    ASSUME Inv, NEW k \in 0 .. (w_len - 1), NEW i \in 0 .. (used - 1)
    PROVE  (m_in + k) % m_size # (m_out + i) % m_size
<1>1. m_size \in BlockSizes /\ m_size \in Nat \ {0}
  <2>1. w_len > 0
    BY InvFacts
  <2> QED
    BY <2>1, CopyHasBlock, Zenon
<1>3. (m_in + k) % m_size = (m_out + (used + k)) % m_size
  <2>1. k \in Int
    OBVIOUS
  <2> QED
    BY <1>1, <2>1, CellOfIn, Zenon
<1>4. /\ used + k \in 0 .. (m_size - 1) /\ i \in 0 .. (m_size - 1)
      /\ used + k # i /\ m_out \in Int
  <2>1. /\ used \in Nat /\ w_len \in Nat /\ m_size \in Nat
        /\ used + w_len <= m_size /\ m_out \in Int
    BY InvFacts, Zenon
  <2> QED
    BY <2>1
<1>5. (m_out + (used + k)) % m_size # (m_out + i) % m_size
  BY <1>1, <1>4, ModInjective, Zenon
<1> QED
  BY <1>3, <1>5, Zenon

-----------------------------------------------------------------------------
(* The invariant holds initially and every step keeps it.                  *)

LEMMA InitInv == Init => Inv
<1> SUFFICES ASSUME Init PROVE Inv
  OBVIOUS
<1>1. Word \in Nat \ {0} /\ MaxLen \in Nat
  BY PowersOfTwo, MaxLenAssumption
<1>2. << >> \in Buffers
  <2>1. << >> \in [1 .. 0 -> Byte] /\ 0 \in 0 .. MaxLen
    BY <1>1
  <2> QED
    BY <2>1, Zenon DEF Buffers
<1>3. ring_buffer_readable_size = 0
  BY <1>1 DEF Init, ring_buffer_readable_size
<1>4. TypeOK
  <2>1. << >> \in Seq(Cell) /\ FALSE \in BOOLEAN
    OBVIOUS
  <2>2. 0 \in 0 .. (Word - 1) /\ 0 \in 0 .. MaxLen
    BY <1>1
  <2> QED
    BY <1>2, <2>1, <2>2, Zenon DEF Init, TypeOK
<1>5. WriterInv /\ ReaderInv
  BY <1>3 DEF Init, WriterInv, ReaderInv
<1> QED
  BY <1>4, <1>5 DEF Init, Inv, BlockInv, FreeMatchesAlloc

(* What the owner's operations leave when they have reset both indices:    *)
(* nothing unread, nobody copying.                                         *)
LEMMA ResetInv ==
    ASSUME Inv, Quiet, m_in' = 0, m_out' = 0, UNCHANGED <<writer, reader>>,
           m_size' \in 0 .. (Word - 1)
    PROVE  WriterInv' /\ ReaderInv'
<1>1. Word \in Nat \ {0}
  BY PowersOfTwo
<1>2. ring_buffer_readable_size' = 0
  BY <1>1 DEF ring_buffer_readable_size
<1>3. w_len = 0 /\ w_k = 0 /\ r_len = 0 /\ Len(r_buf) \in Nat /\ Len(r_buf) <= 0
  BY InvFacts DEF Inv, Quiet, WriterInv, ReaderInv
<1>4. Len(w_buf) \in Nat
  BY InvFacts
<1> QED
  BY <1>1, <1>2, <1>3, <1>4 DEF WriterInv, ReaderInv, writer, reader

LEMMA OwnerStep ==
    ASSUME Inv
    PROVE  /\ \A shared \in BOOLEAN : set_shared(shared) => Inv'
           /\ ring_buffer_reset => Inv'
           /\ \A n \in Requests : ring_buffer_alloc(n) => Inv'
           /\ ring_buffer_free => Inv'
<1>1. ASSUME NEW shared \in BOOLEAN, set_shared(shared) PROVE Inv'
  <2>1. WriterInv' /\ ReaderInv'
    BY <1>1 DEF Inv, set_shared, WriterInv, ReaderInv, ring_buffer_readable_size, writer, reader
  <2>2. TypeOK' /\ BlockInv' /\ FreeMatchesAlloc'
    BY <1>1 DEF Inv, set_shared, TypeOK, BlockInv, FreeMatchesAlloc, writer, reader
  <2> QED
    BY <2>1, <2>2 DEF Inv
<1>2. ASSUME ring_buffer_reset PROVE Inv'
  <2>1. WriterInv' /\ ReaderInv'
    BY <1>2, ResetInv DEF ring_buffer_reset, owner, Inv, TypeOK
  <2>2. TypeOK' /\ BlockInv' /\ FreeMatchesAlloc'
    BY <1>2, PowersOfTwo DEF Inv, ring_buffer_reset, TypeOK, BlockInv, FreeMatchesAlloc, owner, writer, reader
  <2> QED
    BY <2>1, <2>2 DEF Inv
<1>3. ASSUME NEW n \in Requests, ring_buffer_alloc(n) PROVE Inv'
  <2>1. AllocSize(n) \in BlockSizes
    BY <1>3, AllocSizeFacts, RequestsAssumption DEF ring_buffer_alloc
  <2>2. AllocSize(n) \in 0 .. (Word - 1)
    <3>1. AllocSize(n) \in Nat \ {0} /\ AllocSize(n) < Word
      BY <2>1, BlockSizeFacts, Zenon
    <3> QED
      BY <3>1, PowersOfTwo
  <2>3. WriterInv' /\ ReaderInv'
    BY <1>3, <2>2, ResetInv, Zenon DEF ring_buffer_alloc
  <2>4. TypeOK'
    BY <1>3, <2>2, PowersOfTwo DEF Inv, ring_buffer_alloc, TypeOK, Cell, writer, reader
  <2>5. BlockInv' /\ FreeMatchesAlloc'
    BY <1>3, <2>1 DEF ring_buffer_alloc, BlockInv, FreeMatchesAlloc
  <2> QED
    BY <2>3, <2>4, <2>5 DEF Inv
<1>4. ASSUME ring_buffer_free PROVE Inv'
  <2>1. WriterInv' /\ ReaderInv'
    BY <1>4, ResetInv DEF ring_buffer_free, Inv, TypeOK
  <2>2. TypeOK' /\ BlockInv' /\ FreeMatchesAlloc'
    BY <1>4, PowersOfTwo DEF Inv, ring_buffer_free, Quiet, TypeOK, BlockInv, FreeMatchesAlloc, writer, reader
  <2> QED
    BY <2>1, <2>2 DEF Inv
<1> QED
  BY <1>1, <1>2, <1>3, <1>4

(* Publishing lengthens the queue by what was copied in, releasing         *)
(* shortens it by what was copied out, also when the index wraps around.   *)
LEMMA UsedAfterWrite == Inv /\ WriteEnd => used' = used + w_len
<1> SUFFICES ASSUME Inv, WriteEnd PROVE used' = used + w_len
  OBVIOUS
<1>1. /\ Word \in Nat \ {0} /\ m_in \in Int /\ m_out \in Int /\ w_len \in Nat
      /\ used \in Nat /\ m_size \in Nat /\ m_size < Word /\ used + w_len <= m_size
  BY InvFacts, Zenon
<1>2. used + w_len < Word
  BY <1>1
<1> QED
  BY <1>1, <1>2, AdvanceIn, Zenon DEF WriteEnd, used, ring_buffer_readable_size

LEMMA UsedAfterRead == Inv /\ ReadEnd => used' = used - r_len
<1> SUFFICES ASSUME Inv, ReadEnd PROVE used' = used - r_len
  OBVIOUS
<1>1. /\ Word \in Nat \ {0} /\ m_in \in Int /\ m_out \in Int /\ r_len \in Nat
      /\ r_len <= used
  BY InvFacts, Zenon
<1> QED
  BY <1>1, AdvanceOut, Zenon DEF ReadEnd, used, ring_buffer_readable_size

(* A write samples m_out once, then fills cells that stay free until it    *)
(* publishes them by storing m_in.                                         *)
LEMMA WriterStep ==
    ASSUME Inv
    PROVE  /\ \A bytes \in Buffers : WriteBegin(bytes) => Inv'
           /\ WriteByte => Inv'
           /\ WriteEnd => Inv'
<1>1. ASSUME NEW bytes \in Buffers, WriteBegin(bytes) PROVE Inv'
  <2>1. writeable_size = m_size - used
    <3>1. /\ Word \in Nat \ {0} /\ m_in \in Int /\ m_out \in Int
          /\ m_size \in Nat /\ m_size < Word
          /\ used \in Nat /\ w_len \in Nat /\ used + w_len <= m_size
      BY InvFacts, Zenon
    <3>2. m_size \in 0 .. (Word - 1) /\ used <= m_size
      BY <3>1
    <3> QED
      BY <3>1, <3>2, FreeSpace, Zenon DEF writeable_size, used, ring_buffer_readable_size
  <2>2. bytes \in Seq(Byte) /\ Len(bytes) \in 0 .. MaxLen
    BY BufferFacts
  <2>3. /\ w_len' \in 0 .. MaxLen /\ w_len' <= Len(bytes)
        /\ used + w_len' <= m_size
    BY <1>1, <2>1, <2>2, InvFacts DEF WriteBegin, Min
  <2>4. TypeOK'
    BY <1>1, <2>3, InvFacts DEF Inv, WriteBegin, TypeOK, owner, reader
  <2>5. BlockInv' /\ FreeMatchesAlloc'
    BY <1>1 DEF Inv, WriteBegin, BlockInv, FreeMatchesAlloc, owner
  <2>6. used' = used /\ ReaderInv'
    BY <1>1, Zenon DEF Inv, WriteBegin, used, ring_buffer_readable_size, ReaderInv, owner, reader
  <2>7. WriterInv'
    BY <1>1, <2>2, <2>3, <2>6 DEF WriteBegin, WriterInv, used, owner
  <2> QED
    BY <2>4, <2>5, <2>6, <2>7 DEF Inv
<1>2. ASSUME WriteByte PROVE Inv'
  <2> DEFINE c == (m_in + w_k) % m_size
  <2>1. w_k \in 0 .. (w_len - 1) /\ w_len > 0 /\ w_len \in 0 .. m_size /\ m_in \in Int
    BY <1>2, InvFacts DEF WriteByte
  <2>2. /\ m_buffer # "null" /\ m_size \in BlockSizes /\ m_size \in Nat \ {0}
        /\ mem \in [0 .. (m_size - 1) -> Cell]
    BY <2>1, CopyHasBlock, Zenon
  <2>3. Position(m_in, w_len, w_k) = c /\ c \in 0 .. (m_size - 1)
    BY <2>1, <2>2, PositionFacts, Zenon
  <2>4. w_buf[w_k + 1] \in Byte /\ w_buf[w_k + 1] \in Cell
    BY <2>1, InvFacts DEF Inv, WriterInv, Cell
  <2>5. mem' = [mem EXCEPT ![c] = w_buf[w_k + 1]]
    BY <1>2, <2>3, Zenon DEF WriteByte
  <2>6. \A j \in 0 .. (w_k - 1) : (m_in + j) % m_size # c /\ (m_in + j) % m_size \in 0 .. (m_size - 1)
    <3> TAKE j \in 0 .. (w_k - 1)
    <3>1. /\ j \in 0 .. (m_size - 1) /\ w_k \in 0 .. (m_size - 1) /\ j # w_k
          /\ m_in + j \in Int
      BY <2>1, InvFacts
    <3> QED
      BY <2>1, <2>2, <3>1, ModInjective, DivMod, Zenon
  <2>7. \A j \in 0 .. (Len(r_buf) - 1) : (m_out + j) % m_size # c /\ (m_out + j) % m_size \in 0 .. (m_size - 1)
    <3> TAKE j \in 0 .. (Len(r_buf) - 1)
    <3>1. j \in 0 .. (used - 1) /\ m_out + j \in Int
      BY InvFacts
    <3> QED
      BY <2>1, <2>2, <3>1, CellsDisjoint, DivMod, Zenon
  <2> HIDE DEF c
  <2>8. TypeOK'
    <3>1. mem' \in [0 .. (m_size - 1) -> Cell]
      BY <2>2, <2>3, <2>4, <2>5
    <3>2. w_k' \in 0 .. MaxLen
      <4>1. w_len \in 0 .. MaxLen /\ MaxLen \in Nat /\ w_k' = w_k + 1
        BY <1>2, InvFacts DEF Inv, TypeOK, WriteByte
      <4> QED
        BY <2>1, <4>1
    <3> QED
      BY <1>2, <3>1, <3>2 DEF Inv, WriteByte, TypeOK, owner, reader
  <2>9. BlockInv' /\ FreeMatchesAlloc'
    BY <1>2 DEF Inv, WriteByte, BlockInv, FreeMatchesAlloc, owner
  <2>10. used' = used
    BY <1>2, Zenon DEF WriteByte, used, ring_buffer_readable_size
  <2>11. ReaderInv'
    <3>1. \A j \in 0 .. (Len(r_buf) - 1) : mem'[(m_out + j) % m_size] = mem[(m_out + j) % m_size]
      BY <2>2, <2>5, <2>7, Zenon
    <3> QED
      BY <1>2, <2>10, <3>1, Zenon DEF Inv, WriteByte, ReaderInv, owner, reader, used
  <2>12. WriterInv'
    <3>1. \A j \in 0 .. (w_k - 1) : mem'[(m_in + j) % m_size] = mem[(m_in + j) % m_size]
      BY <2>2, <2>5, <2>6, Zenon
    <3>2. mem'[(m_in + w_k) % m_size] = w_buf[w_k + 1]
      BY <2>2, <2>3, <2>5, Zenon DEF c
    <3>3. \A j \in 0 .. w_k : mem'[(m_in + j) % m_size] = w_buf[j + 1]
      <4> TAKE j \in 0 .. w_k
      <4>1. CASE j = w_k
        BY <3>2, <4>1, Zenon
      <4>2. CASE j # w_k
        <5>1. j \in 0 .. (w_k - 1)
          BY <2>1, <4>2
        <5> QED
          BY <3>1, <5>1, Zenon DEF Inv, WriterInv
      <4> QED
        BY <4>1, <4>2
    <3>4. w_k' = w_k + 1 /\ w_k' - 1 = w_k /\ w_k' <= w_len
      BY <1>2, <2>1 DEF WriteByte
    <3> QED
      BY <1>2, <2>10, <3>3, <3>4, Zenon DEF Inv, WriteByte, WriterInv, owner, used
  <2> QED
    BY <2>8, <2>9, <2>11, <2>12 DEF Inv
<1>3. ASSUME WriteEnd PROVE Inv'
  <2>1. used' = used + w_len
    BY <1>3, UsedAfterWrite, Zenon
  <2>2. << >> \in Buffers /\ m_in' \in 0 .. (Word - 1)
    <3>1. m_in + w_len \in Int /\ Word \in Nat \ {0}
      BY InvFacts
    <3>2. << >> \in [1 .. 0 -> Byte] /\ 0 \in 0 .. MaxLen
      BY InvFacts
    <3> QED
      BY <1>3, <3>1, <3>2, DivMod, Zenon DEF Buffers, WriteEnd
  <2>3. TypeOK'
    BY <1>3, <2>2, InvFacts DEF Inv, WriteEnd, TypeOK, owner, reader
  <2>4. m_buffer = "null" => w_len = 0 /\ m_in = 0
    BY CopyHasBlock, InvFacts DEF Inv, BlockInv
  <2>5. BlockInv' /\ FreeMatchesAlloc'
    BY <1>3, <2>4, PowersOfTwo DEF Inv, WriteEnd, BlockInv, FreeMatchesAlloc, owner
  <2>6. WriterInv'
    BY <1>3, <2>1, InvFacts DEF WriteEnd, WriterInv, owner, used
  <2>7. ReaderInv'
    <3>1. r_len <= used + w_len
      BY InvFacts
    <3> QED
      BY <1>3, <2>1, <3>1, Zenon DEF Inv, WriteEnd, ReaderInv, owner, reader, used
  <2> QED
    BY <2>3, <2>5, <2>6, <2>7 DEF Inv
<1> QED
  BY <1>1, <1>2, <1>3

(* A read samples m_in once, then copies cells that the writer leaves      *)
(* alone until it releases them by storing m_out.                          *)
LEMMA ReaderStep ==
    ASSUME Inv
    PROVE  /\ \A len \in 0 .. MaxLen : ReadBegin(len) => Inv'
           /\ ReadByte => Inv'
           /\ ReadEnd => Inv'
<1>1. ASSUME NEW len \in 0 .. MaxLen, ReadBegin(len) PROVE Inv'
  <2>1. used' = used /\ WriterInv'
    BY <1>1, Zenon DEF Inv, ReadBegin, used, ring_buffer_readable_size, WriterInv, owner, writer
  <2>2. r_len' \in 0 .. MaxLen /\ r_len' <= used
    BY <1>1, InvFacts DEF ReadBegin, Min, used
  <2>3. TypeOK'
    BY <1>1, <2>2 DEF Inv, ReadBegin, TypeOK, owner, writer
  <2>4. BlockInv' /\ FreeMatchesAlloc'
    BY <1>1 DEF Inv, ReadBegin, BlockInv, FreeMatchesAlloc, owner, writer
  <2>5. ReaderInv'
    BY <1>1, <2>1, <2>2 DEF ReadBegin, ReaderInv, used
  <2> QED
    BY <2>1, <2>3, <2>4, <2>5 DEF Inv
<1>2. ASSUME ReadByte PROVE Inv'
  <2> DEFINE n == Len(r_buf)
             c == (m_out + n) % m_size
  <2>1. n \in 0 .. (r_len - 1) /\ used > 0 /\ r_len \in 0 .. m_size /\ m_out \in Int
    BY <1>2, InvFacts DEF ReadByte
  <2>2. m_size \in BlockSizes /\ mem \in [0 .. (m_size - 1) -> Cell]
    BY <2>1, CopyHasBlock, Zenon
  <2>3. Position(m_out, r_len, n) = c /\ c \in 0 .. (m_size - 1)
    BY <2>1, <2>2, PositionFacts, Zenon
  <2>4. r_buf' = Append(r_buf, mem[c])
    BY <1>2, <2>3, Zenon DEF ReadByte
  <2>5. mem[c] \in Cell /\ r_buf \in Seq(Cell)
    BY <2>2, <2>3, InvFacts, Zenon
  <2> HIDE DEF c
  <2>6. /\ r_buf' \in Seq(Cell) /\ Len(r_buf') = n + 1 /\ r_buf'[n + 1] = mem[c]
        /\ \A j \in 0 .. (n - 1) : r_buf'[j + 1] = r_buf[j + 1]
    BY <2>4, <2>5
  <2>7. used' = used /\ WriterInv'
    BY <1>2, Zenon DEF Inv, ReadByte, used, ring_buffer_readable_size, WriterInv, owner, writer
  <2>8. TypeOK'
    BY <1>2, <2>6 DEF Inv, ReadByte, TypeOK, owner, writer
  <2>9. BlockInv' /\ FreeMatchesAlloc'
    BY <1>2 DEF Inv, ReadByte, BlockInv, FreeMatchesAlloc, owner, writer
  <2>10. ReaderInv'
    <3>1. \A j \in 0 .. n : mem[(m_out + j) % m_size] = r_buf'[j + 1]
      <4> TAKE j \in 0 .. n
      <4>1. CASE j = n
        BY <2>6, <4>1, Zenon DEF c
      <4>2. CASE j # n
        <5>1. j \in 0 .. (n - 1)
          BY <2>1, <4>2
        <5> QED
          BY <2>6, <5>1, Zenon DEF Inv, ReaderInv
      <4> QED
        BY <4>1, <4>2
    <3>2. Len(r_buf') - 1 = n /\ Len(r_buf') <= r_len
      BY <2>1, <2>6
    <3> HIDE DEF n
    <3> QED
      BY <1>2, <2>7, <3>1, <3>2, Zenon DEF Inv, ReadByte, ReaderInv, owner, used
  <2> QED
    BY <2>7, <2>8, <2>9, <2>10 DEF Inv
<1>3. ASSUME ReadEnd PROVE Inv'
  <2>1. used' = used - r_len
    BY <1>3, UsedAfterRead, Zenon
  <2>2. m_out' \in 0 .. (Word - 1)
    <3>1. m_out + r_len \in Int /\ Word \in Nat \ {0}
      BY InvFacts
    <3> QED
      BY <1>3, <3>1, DivMod, Zenon DEF ReadEnd
  <2>3. TypeOK'
    BY <1>3, <2>2, InvFacts DEF Inv, ReadEnd, TypeOK, owner, writer
  <2>4. m_buffer = "null" => r_len = 0 /\ m_out = 0
    BY CopyHasBlock, InvFacts DEF Inv, BlockInv
  <2>5. BlockInv' /\ FreeMatchesAlloc'
    BY <1>3, <2>4, PowersOfTwo DEF Inv, ReadEnd, BlockInv, FreeMatchesAlloc, owner, writer
  <2>6. ReaderInv'
    BY <1>3, <2>1, InvFacts DEF ReadEnd, ReaderInv, owner, used
  <2>7. WriterInv'
    <3>1. (used - r_len) + w_len <= m_size
      BY InvFacts
    <3> QED
      BY <1>3, <2>1, <3>1, Zenon DEF Inv, ReadEnd, WriterInv, owner, writer, used
  <2> QED
    BY <2>3, <2>5, <2>6, <2>7 DEF Inv
<1> QED
  BY <1>1, <1>2, <1>3

(* Every step of the owner, the writer or the reader keeps the invariant.  *)
LEMMA NextInv == Inv /\ [Next]_vars => Inv'
<1> SUFFICES ASSUME Inv, [Next]_vars PROVE Inv'
  OBVIOUS
<1>1. CASE UNCHANGED vars
  BY <1>1, Zenon DEF vars, Inv, TypeOK, BlockInv, WriterInv, ReaderInv,
     FreeMatchesAlloc, ring_buffer_readable_size
<1>2. CASE Next
  BY <1>1, <1>2, OwnerStep, WriterStep, ReaderStep, Zenon
     DEF Next, ring_buffer_alloc_fails
<1> QED
  BY <1>1, <1>2

(* In every reachable state the indices fit the block, the reserved cells  *)
(* are free and hold what was copied, and what was read is what was there  *)
(* (ring_buffer.cpp:58-117), whatever the word width, the sizes and the    *)
(* interleaving of the two threads.                                        *)
THEOREM Invariance == Spec => []Inv
  BY InitInv, NextInv, PTL DEF Spec

(* The type invariant holds.                                               *)
THEOREM TypeCorrect == Spec => []TypeOK
<1>1. Inv => TypeOK
  BY DEF Inv
<1> QED
  BY Invariance, <1>1, PTL

(* A write in progress fills only free cells of the block, so no byte the  *)
(* reader may be copying changes under it (ring_buffer.cpp:71-75).         *)
THEOREM FreeCells == Spec => []WriteInFreeCells
<1>1. Inv => WriteInFreeCells
  <2> SUFFICES ASSUME Inv, w_len > 0
               PROVE  WriteCells \subseteq 0 .. (m_size - 1) /\ WriteCells \cap UnreadCells = {}
    BY Zenon DEF WriteInFreeCells
  <2>1. m_size \in BlockSizes /\ m_in \in Int /\ w_len \in 0 .. m_size
    BY CopyHasBlock, InvFacts
  <2>2. \A k \in 0 .. (w_len - 1) :
           /\ Position(m_in, w_len, k) = (m_in + k) % m_size
           /\ (m_in + k) % m_size \in 0 .. (m_size - 1)
    BY <2>1, PositionFacts, Zenon
  <2>3. \A k \in 0 .. (w_len - 1), i \in 0 .. (used - 1) :
           Position(m_in, w_len, k) # (m_out + i) % m_size
    BY <2>2, CellsDisjoint, Zenon
  <2>4. WriteCells \subseteq 0 .. (m_size - 1)
    BY <2>2, Zenon DEF WriteCells
  <2>5. WriteCells \cap UnreadCells = {}
    BY <2>3, Zenon DEF WriteCells, UnreadCells, used
  <2> QED
    BY <2>4, <2>5
<1> QED
  BY Invariance, <1>1, PTL

(* No copy of a non-empty range runs without a block: a late read after    *)
(* ring_buffer_free finds the indices reset (ring_buffer.cpp:47-56, 92).   *)
THEOREM NullSafety == Spec => []NoNullAccess
<1>1. Inv => NoNullAccess
  BY CopyHasBlock, InvFacts DEF NoNullAccess
<1> QED
  BY Invariance, <1>1, PTL

(* ring_buffer_free uses the allocator the block came from, because        *)
(* set_shared does nothing while a block exists (ring_buffer.h:48-53).     *)
THEOREM AllocatorsMatch == Spec => []FreeMatchesAlloc
<1>1. Inv => FreeMatchesAlloc
  BY DEF Inv
<1> QED
  BY Invariance, <1>1, PTL

-----------------------------------------------------------------------------
(* The ring buffer implements the byte queue.                              *)

(* The first n elements of a sequence, and the others.                     *)
LEMMA PrefixFacts ==
    ASSUME NEW T, NEW s \in Seq(T), NEW n \in 0 .. Len(s)
    PROVE  /\ SubSeq(s, 1, n) \in Seq(T) /\ Len(SubSeq(s, 1, n)) = n
           /\ \A i \in 1 .. n : SubSeq(s, 1, n)[i] = s[i]
  OBVIOUS

LEMMA SuffixFacts ==
    ASSUME NEW T, NEW s \in Seq(T), NEW n \in 0 .. Len(s)
    PROVE  /\ SubSeq(s, n + 1, Len(s)) \in Seq(T)
           /\ Len(SubSeq(s, n + 1, Len(s))) = Len(s) - n
           /\ \A i \in 1 .. (Len(s) - n) : SubSeq(s, n + 1, Len(s))[i] = s[n + i]
  OBVIOUS

(* While there is a block, the queue is as long as the indices say.        *)
HasBlock  == m_buffer # "null"
ContentOK ==
    /\ Content \in Seq(Cell) /\ Len(Content) = used
    /\ \A i \in 0 .. (used - 1) : Content[i + 1] = mem[(m_out + i) % m_size]

LEMMA ContentFacts == Inv /\ HasBlock => ContentOK
<1> SUFFICES ASSUME Inv, m_buffer # "null" PROVE ContentOK
  BY DEF HasBlock
<1>1. m_size \in Nat \ {0} /\ mem \in [0 .. (m_size - 1) -> Cell]
  BY BlockSizeFacts, Zenon DEF Inv, BlockInv, TypeOK
<1>2. m_out \in Int /\ used \in Nat
  BY InvFacts, Zenon
<1>3. \A i \in 1 .. used : mem[(m_out + i - 1) % m_size] \in Cell
  <2> TAKE i \in 1 .. used
  <2>1. m_out + i - 1 \in Int
    BY <1>2
  <2> QED
    BY <1>1, <2>1, DivMod, Zenon
<1>4. Content = [i \in 1 .. used |-> mem[(m_out + i - 1) % m_size]]
  BY Zenon DEF Content, used
<1>5. Content \in [1 .. used -> Cell]
  BY <1>3, <1>4, Zenon
<1>6. Content \in Seq(Cell) /\ Len(Content) = used
  BY <1>2, <1>5
<1>7. \A i \in 0 .. (used - 1) : Content[i + 1] = mem[(m_out + i) % m_size]
  <2> TAKE i \in 0 .. (used - 1)
  <2>1. i + 1 \in 1 .. used /\ m_out + (i + 1) - 1 = m_out + i
    BY <1>2
  <2> QED
    BY <1>4, <2>1, Zenon
<1> QED
  BY <1>6, <1>7 DEF ContentOK

(* The queue in the next state, for steps that move the indices.           *)
LEMMA ContentFactsPrime == Inv' /\ HasBlock' => ContentOK'
  BY ContentFacts, PTL

(* Storing m_in appends the copied bytes to the queue.                     *)
LEMMA WriteEndIsPut == Inv /\ Inv' /\ WriteEnd => Fifo!FifoNext \/ UNCHANGED Fifo!fifoVars
<1> SUFFICES ASSUME Inv, Inv', WriteEnd
             PROVE  Fifo!FifoNext \/ UNCHANGED Fifo!fifoVars
  OBVIOUS
<1>1. CASE m_buffer = "null"
  BY <1>1 DEF WriteEnd, Fifo!fifoVars, Content, owner, reader
<1>2. CASE m_buffer # "null"
  <2> DEFINE bytes == SubSeq(w_buf, 1, w_len)
  <2>1. /\ used \in Nat /\ w_len \in Nat /\ used + w_len <= m_size
        /\ w_buf \in Seq(Byte) /\ w_len <= Len(w_buf) /\ m_out \in Int /\ m_in \in Int
        /\ Word \in Nat \ {0} /\ w_len \in 0 .. MaxLen
    BY InvFacts DEF Inv, WriterInv, TypeOK
  <2>2. /\ bytes \in [1 .. w_len -> Byte] /\ bytes \in Seq(Cell) /\ Len(bytes) = w_len
        /\ \A j \in 0 .. (w_len - 1) : bytes[j + 1] = w_buf[j + 1]
    <3>1. /\ bytes \in Seq(Byte) /\ Len(bytes) = w_len
          /\ \A i \in 1 .. w_len : bytes[i] = w_buf[i]
      <4>1. w_len \in 0 .. Len(w_buf)
        BY <2>1
      <4> QED
        BY <2>1, <4>1, PrefixFacts, Zenon
    <3>2. Byte \subseteq Cell
      BY Zenon DEF Cell
    <3> HIDE DEF bytes
    <3> QED
      BY <2>1, <3>1, <3>2
  <2>3. /\ m_buffer' # "null" /\ m_buffer' = m_buffer /\ mem' = mem
        /\ m_size' = m_size /\ m_out' = m_out /\ r_out' = r_out
        /\ w_k = w_len
    BY <1>2 DEF WriteEnd, owner, reader
  <2>4. used' = used + w_len
    BY UsedAfterWrite, Zenon
  <2>5. /\ Content \in Seq(Cell) /\ Len(Content) = used
        /\ \A i \in 0 .. (used - 1) : Content[i + 1] = mem[(m_out + i) % m_size]
    BY <1>2, ContentFacts, Zenon DEF HasBlock, ContentOK
  <2>6. /\ Content' \in Seq(Cell) /\ Len(Content') = used + w_len
        /\ \A i \in 0 .. (used + w_len - 1) : Content'[i + 1] = mem[(m_out + i) % m_size]
    <3>1. ContentOK'
      BY <2>3, ContentFactsPrime DEF HasBlock
    <3>2. /\ Content' \in Seq(Cell) /\ Len(Content') = used'
          /\ \A i \in 0 .. (used' - 1) : Content'[i + 1] = mem'[(m_out' + i) % m_size']
      BY <3>1, Zenon DEF ContentOK
    <3>3. ASSUME NEW i \in 0 .. (used + w_len - 1)
          PROVE  Content'[i + 1] = mem[(m_out + i) % m_size]
      <4>1. i \in 0 .. (used' - 1)
        BY <2>1, <2>4
      <4>2. Content'[i + 1] = mem'[(m_out' + i) % m_size']
        BY <3>2, <4>1, Zenon
      <4> QED
        BY <2>3, <4>2, Zenon
    <3> QED
      BY <2>4, <3>2, <3>3, Zenon
  <2>7. \A j \in 0 .. (w_len - 1) : mem[(m_out + (used + j)) % m_size] = w_buf[j + 1]
    <3> TAKE j \in 0 .. (w_len - 1)
    <3>1. m_size \in BlockSizes
      BY <1>2, Zenon DEF Inv, BlockInv
    <3>3. j \in Int
      OBVIOUS
    <3>4. (m_in + j) % m_size = (m_out + (used + j)) % m_size
      BY <3>1, <3>3, CellOfIn, Zenon
    <3>5. mem[(m_in + j) % m_size] = w_buf[j + 1]
      BY <2>3, Zenon DEF Inv, WriterInv
    <3> QED
      BY <3>4, <3>5, Zenon
  <2> HIDE DEF bytes
  <2>c. /\ Content \o bytes \in Seq(Cell) /\ Len(Content \o bytes) = used + w_len
        /\ \A i \in 1 .. (used + w_len) :
              (Content \o bytes)[i] = IF i <= used THEN Content[i] ELSE bytes[i - used]
    BY <2>2, <2>5, ConcatProperties, Zenon
  <2>8. \A i \in 1 .. (used + w_len) : Content'[i] = (Content \o bytes)[i]
    <3> TAKE i \in 1 .. (used + w_len)
    <3>1. CASE i <= used
      <4>1. i - 1 \in 0 .. (used - 1) /\ i - 1 \in 0 .. (used + w_len - 1) /\ (i - 1) + 1 = i
        BY <2>1, <3>1
      <4>2. Content'[i] = Content[i]
        BY <2>5, <2>6, <4>1, Zenon
      <4>3. (Content \o bytes)[i] = Content[i]
        BY <2>1, <3>1, <2>c
      <4> QED
        BY <4>2, <4>3, Zenon
    <3>2. CASE ~ (i <= used)
      <4> DEFINE j == i - used - 1
      <4>1. /\ j \in 0 .. (w_len - 1) /\ used + j \in 0 .. (used + w_len - 1)
            /\ (used + j) + 1 = i /\ j + 1 = i - used
        BY <2>1, <3>2
      <4> HIDE DEF j
      <4>2. Content'[i] = w_buf[j + 1]
        BY <2>6, <2>7, <4>1, Zenon
      <4>3. (Content \o bytes)[i] = bytes[i - used]
        BY <2>1, <3>2, <2>c
      <4> QED
        BY <2>2, <4>1, <4>2, <4>3, Zenon
    <3> QED
      BY <3>1, <3>2
  <2>10. Content' = Content \o bytes
    BY <2>c, <2>6, <2>8, SeqEqual, Zenon
  <2>11. Fifo!Put
    BY <1>2, <2>1, <2>2, <2>3, <2>5, <2>10, Zenon DEF Fifo!Put
  <2> QED
    BY <2>11 DEF Fifo!FifoNext
<1> QED
  BY <1>1, <1>2

(* Storing m_out removes from the queue the bytes that were copied out.    *)
LEMMA ReadEndIsGet == Inv /\ Inv' /\ ReadEnd => Fifo!FifoNext \/ UNCHANGED Fifo!fifoVars
<1> SUFFICES ASSUME Inv, Inv', ReadEnd
             PROVE  Fifo!FifoNext \/ UNCHANGED Fifo!fifoVars
  OBVIOUS
<1>0. /\ used \in Nat /\ r_len \in Nat /\ r_len <= used /\ m_out \in Int /\ m_in \in Int
      /\ Word \in Nat \ {0} /\ r_buf \in Seq(Cell)
  BY InvFacts, Zenon
<1>1. /\ m_buffer' = m_buffer /\ mem' = mem /\ m_size' = m_size /\ r_out' = r_buf
      /\ Len(r_buf) = r_len /\ m_out' = (m_out + r_len) % Word
  BY Zenon DEF ReadEnd, owner
<1>2. CASE m_buffer = "null"
  <2>1. r_len = 0 /\ Content = << >> /\ Content' = << >>
    BY <1>0, <1>1, <1>2, CopyHasBlock DEF Content
  <2>2. r_buf = << >>
    BY <1>0, <1>1, <2>1
  <2>3. 0 \in 0 .. Len(Content) /\ SubSeq(Content, 1, 0) = << >>
        /\ SubSeq(Content, 1, Len(Content)) = << >>
    BY <2>1
  <2>4. SubSeq(Content, 0 + 1, Len(Content)) = << >>
    BY <2>3
  <2>5. Fifo!Get
    BY <1>1, <2>1, <2>2, <2>3, <2>4, Zenon DEF Fifo!Get
  <2> QED
    BY <2>5 DEF Fifo!FifoNext
<1>3. CASE m_buffer # "null"
  <2>1. /\ Content \in Seq(Cell) /\ Len(Content) = used
        /\ \A i \in 0 .. (used - 1) : Content[i + 1] = mem[(m_out + i) % m_size]
    BY <1>3, ContentFacts, Zenon DEF HasBlock, ContentOK
  <2>2. used' = used - r_len
    BY UsedAfterRead, Zenon
  <2>3. /\ Content' \in Seq(Cell) /\ Len(Content') = used - r_len
        /\ \A i \in 0 .. (used - r_len - 1) : Content'[i + 1] = mem[(m_out' + i) % m_size]
    <3>1. ContentOK'
      BY <1>1, <1>3, ContentFactsPrime DEF HasBlock
    <3>2. /\ Content' \in Seq(Cell) /\ Len(Content') = used'
          /\ \A i \in 0 .. (used' - 1) : Content'[i + 1] = mem'[(m_out' + i) % m_size']
      BY <3>1, Zenon DEF ContentOK
    <3>3. ASSUME NEW i \in 0 .. (used - r_len - 1)
          PROVE  Content'[i + 1] = mem[(m_out' + i) % m_size]
      <4>1. i \in 0 .. (used' - 1)
        BY <1>0, <2>2
      <4> QED
        BY <1>1, <3>2, <4>1, Zenon
    <3> QED
      BY <2>2, <3>2, <3>3, Zenon
  <2>4. \A i \in 0 .. (used - r_len - 1) : (m_out' + i) % m_size = (m_out + (r_len + i)) % m_size
    <3> TAKE i \in 0 .. (used - r_len - 1)
    <3>1. m_size \in Nat \ {0} /\ Divides(m_size, Word)
      BY <1>3, BlockSizeFacts, Zenon DEF Inv, BlockInv
    <3>2. m_out + r_len \in Int /\ i \in Int /\ m_out + (r_len + i) = (m_out + r_len) + i
      BY <1>0
    <3>3. (((m_out + r_len) % Word) + i) % m_size = ((m_out + r_len) + i) % m_size
      BY <1>0, <3>1, <3>2, ModModAdd, Zenon
    <3> QED
      BY <1>1, <3>2, <3>3, Zenon
  <2>5. r_len \in 0 .. Len(Content)
    BY <1>0, <2>1
  <2>6. r_buf = SubSeq(Content, 1, r_len)
    <3>1. /\ SubSeq(Content, 1, r_len) \in Seq(Cell) /\ Len(SubSeq(Content, 1, r_len)) = r_len
          /\ \A i \in 1 .. r_len : SubSeq(Content, 1, r_len)[i] = Content[i]
      BY <2>1, <2>5, PrefixFacts, Zenon
    <3>2. \A i \in 1 .. r_len : r_buf[i] = Content[i]
      <4> TAKE i \in 1 .. r_len
      <4>1. i - 1 \in 0 .. (used - 1) /\ i - 1 \in 0 .. (r_len - 1) /\ (i - 1) + 1 = i
        BY <1>0
      <4>2. mem[(m_out + (i - 1)) % m_size] = r_buf[i]
        BY <1>1, <4>1, Zenon DEF Inv, ReaderInv
      <4> QED
        BY <2>1, <4>1, <4>2, Zenon
    <3> QED
      BY <1>0, <1>1, <3>1, <3>2, SeqEqual, Zenon
  <2>7. Content' = SubSeq(Content, r_len + 1, Len(Content))
    <3> DEFINE rest == SubSeq(Content, r_len + 1, Len(Content))
    <3>1. /\ rest \in Seq(Cell) /\ Len(rest) = used - r_len
          /\ \A i \in 1 .. (used - r_len) : rest[i] = Content[r_len + i]
      BY <2>1, <2>5, SuffixFacts, Zenon
    <3> HIDE DEF rest
    <3>2. \A i \in 1 .. (used - r_len) : Content'[i] = rest[i]
      <4> TAKE i \in 1 .. (used - r_len)
      <4>1. /\ i - 1 \in 0 .. (used - r_len - 1) /\ (i - 1) + 1 = i
            /\ r_len + (i - 1) \in 0 .. (used - 1) /\ (r_len + (i - 1)) + 1 = r_len + i
        BY <1>0
      <4>2. Content'[i] = mem[(m_out + (r_len + (i - 1))) % m_size]
        BY <2>3, <2>4, <4>1, Zenon
      <4>3. Content[r_len + i] = mem[(m_out + (r_len + (i - 1))) % m_size]
        BY <2>1, <4>1, Zenon
      <4> QED
        BY <3>1, <4>2, <4>3, Zenon
    <3>3. Content' = rest
      BY <2>3, <3>1, <3>2, SeqEqual, Zenon
    <3> QED
      BY <3>3 DEF rest
  <2>8. Fifo!Get
    BY <1>1, <2>5, <2>6, <2>7, Zenon DEF Fifo!Get
  <2> QED
    BY <2>8 DEF Fifo!FifoNext
<1> QED
  BY <1>2, <1>3

(* Filling a free cell changes nothing that is in the queue.               *)
LEMMA WriteByteIsHidden == Inv /\ Inv' /\ WriteByte => UNCHANGED Fifo!fifoVars
<1> SUFFICES ASSUME Inv, Inv', WriteByte PROVE UNCHANGED Fifo!fifoVars
  OBVIOUS
<1>1. w_k \in 0 .. (w_len - 1) /\ w_len > 0 /\ w_len \in 0 .. m_size /\ m_in \in Int
  BY InvFacts DEF WriteByte
<1>2. /\ m_buffer # "null" /\ m_size \in BlockSizes /\ m_size \in Nat \ {0}
      /\ mem \in [0 .. (m_size - 1) -> Cell]
  BY <1>1, CopyHasBlock, Zenon
<1>3. /\ m_buffer' = m_buffer /\ m_size' = m_size /\ m_out' = m_out /\ m_in' = m_in
      /\ r_out' = r_out /\ ring_buffer_readable_size' = ring_buffer_readable_size
      /\ mem' = [mem EXCEPT ![(m_in + w_k) % m_size] = w_buf[w_k + 1]]
  BY <1>1, <1>2, PositionFacts, Zenon DEF WriteByte, owner, reader, ring_buffer_readable_size
<1>4. \A i \in 1 .. used : mem'[(m_out + i - 1) % m_size] = mem[(m_out + i - 1) % m_size]
  <2> TAKE i \in 1 .. used
  <2>1. i - 1 \in 0 .. (used - 1) /\ m_out + (i - 1) = m_out + i - 1 /\ m_out + i - 1 \in Int
    BY InvFacts
  <2>2. /\ (m_out + i - 1) % m_size # (m_in + w_k) % m_size
        /\ (m_out + i - 1) % m_size \in 0 .. (m_size - 1)
    BY <1>1, <1>2, <2>1, CellsDisjoint, DivMod, Zenon
  <2> QED
    BY <1>2, <1>3, <2>2, Zenon
<1>5. Content' = Content
  BY <1>2, <1>3, <1>4, Zenon DEF Content, used
<1> QED
  BY <1>3, <1>5, Zenon DEF Fifo!fifoVars

(* The owner's operations empty the queue, and give or take its storage.   *)
LEMMA OwnerStepIsFifo ==
    ASSUME Inv
    PROVE  /\ \A shared \in BOOLEAN : set_shared(shared) => UNCHANGED Fifo!fifoVars
           /\ ring_buffer_reset => Fifo!FifoNext
           /\ \A n \in Requests : ring_buffer_alloc(n) => Fifo!FifoNext
           /\ ring_buffer_free => Fifo!FifoNext
<1>0. (m_in' = 0 /\ m_out' = 0) => Content' = << >>
  <2> SUFFICES ASSUME m_in' = 0, m_out' = 0 PROVE Content' = << >>
    OBVIOUS
  <2>1. ring_buffer_readable_size' = 0
    BY PowersOfTwo DEF ring_buffer_readable_size
  <2>2. [i \in 1 .. 0 |-> mem'[(m_out' + i - 1) % m_size']] = << >>
    OBVIOUS
  <2> QED
    BY <2>1, <2>2, Zenon DEF Content
<1>1. ASSUME NEW shared \in BOOLEAN, set_shared(shared) PROVE UNCHANGED Fifo!fifoVars
  BY <1>1, Zenon DEF set_shared, Fifo!fifoVars, Content, ring_buffer_readable_size, reader
<1>2. ASSUME ring_buffer_reset PROVE Fifo!FifoNext
  <2>1. Fifo!Clear
    BY <1>0, <1>2, Zenon DEF ring_buffer_reset, Fifo!Clear, owner, reader
  <2> QED
    BY <2>1 DEF Fifo!FifoNext
<1>3. ASSUME NEW n \in Requests, ring_buffer_alloc(n) PROVE Fifo!FifoNext
  <2>1. AllocSize(n) \in Nat \ {0}
    <3>1. n \in 0 .. (Word - 1) /\ AllocSize(n) # 0
      BY <1>3, RequestsAssumption, Zenon DEF ring_buffer_alloc
    <3> QED
      BY <3>1, AllocSizeFacts, BlockSizeFacts, Zenon
  <2>2. m_buffer' # "null" /\ m_buffer = "null" /\ m_size' = AllocSize(n)
    BY <1>3 DEF ring_buffer_alloc
  <2>3. Fifo!Open
    BY <1>0, <1>3, <2>1, <2>2, Zenon DEF ring_buffer_alloc, Fifo!Open, reader
  <2> QED
    BY <2>3 DEF Fifo!FifoNext
<1>4. ASSUME ring_buffer_free PROVE Fifo!FifoNext
  <2>1. Fifo!Close
    BY <1>0, <1>4, Zenon DEF ring_buffer_free, Fifo!Close, reader
  <2> QED
    BY <2>1 DEF Fifo!FifoNext
<1> QED
  BY <1>1, <1>2, <1>3, <1>4

(* Every step of the ring buffer is a step of the queue or hidden from it. *)
LEMMA NextIsFifo == Inv /\ Inv' /\ [Next]_vars => [Fifo!FifoNext]_(Fifo!fifoVars)
<1> SUFFICES ASSUME Inv, Inv', [Next]_vars
             PROVE  Fifo!FifoNext \/ UNCHANGED Fifo!fifoVars
  OBVIOUS
<1>1. CASE UNCHANGED vars
  BY <1>1, Zenon DEF vars, Fifo!fifoVars, Content, ring_buffer_readable_size
<1>2. ASSUME NEW bytes \in Buffers, WriteBegin(bytes) PROVE UNCHANGED Fifo!fifoVars
  BY <1>2, Zenon DEF WriteBegin, Fifo!fifoVars, Content, ring_buffer_readable_size, owner, reader
<1>3. ASSUME NEW len \in 0 .. MaxLen, ReadBegin(len) PROVE UNCHANGED Fifo!fifoVars
  BY <1>3, Zenon DEF ReadBegin, Fifo!fifoVars, Content, ring_buffer_readable_size, owner
<1>4. ASSUME ReadByte PROVE UNCHANGED Fifo!fifoVars
  BY <1>4, Zenon DEF ReadByte, Fifo!fifoVars, Content, ring_buffer_readable_size, owner
<1>5. CASE Next
  BY <1>1, <1>2, <1>3, <1>4, <1>5, OwnerStepIsFifo, WriteByteIsHidden, WriteEndIsPut,
     ReadEndIsGet, Zenon DEF Next, ring_buffer_alloc_fails
<1> QED
  BY <1>1, <1>5

(* The ring buffer, stepping byte by byte in two threads, implements the   *)
(* first-in first-out queue of bytes: what is read is what was written, in *)
(* order (ring_buffer.cpp:58-117).                                         *)
THEOREM Refinement == Spec => ImplementsFifo
<1>1. Init => Fifo!FifoInit
  BY DEF Init, Fifo!FifoInit, Content
<1> QED
  BY <1>1, Invariance, NextIsFifo, PTL DEF Spec, ImplementsFifo, Fifo!FifoSpec

-----------------------------------------------------------------------------
(* The shared queue.                                                       *)

(***************************************************************************)
(* The inductive invariant.  Coupling: a thread is inside the ring buffer  *)
(* exactly when the queue says so, and the owner works alone on a closed   *)
(* queue.  Promised: what a thread found when it checked the size is still *)
(* there when it starts to copy, for the other thread only adds to it.     *)
(***************************************************************************)
Coupling ==
    /\ qw = "copy" <=> w_pc = "copy"
    /\ qr = "copy" <=> r_pc = "copy"
    /\ qw # "idle" => m_pipefd
    /\ i_pc = "idle" => (m_pipefd <=> m_buffer # "null")
    /\ i_pc # "idle" => qw = "idle" /\ qr = "idle" /\ m_pipefd /\ m_buffer = "null" /\ tokens = 0
    /\ ~ m_pipefd => tokens = 0

Promised ==
    /\ qw = "checked" => Len(w_msg) <= m_size - used /\ Len(w_msg) \in usage.sizes /\ w_flag \in usage.flags
    /\ qw = "copy" => w_len = Len(w_buf) /\ w_len \in usage.sizes /\ w_flag \in usage.flags
    /\ qr = "checked" => r_size <= used /\ r_size \in usage.sizes /\ r_flag \in usage.flags
    /\ qr = "copy" => r_len = r_size /\ r_len \in usage.sizes /\ r_flag \in usage.flags

(***************************************************************************)
(* With messages of one size L, the bytes in the block, counting a message *)
(* whose notification is still to be cleared, and the notifications,       *)
(* counting one still to be sent, differ only after a notification was     *)
(* dropped or a read overtook one.  A read that was announced finds its    *)
(* notification when it clears, for only the reader takes one out.         *)
(***************************************************************************)
Uncleared(L)    == used + (IF qr = "clear" THEN L ELSE 0)
Notified(L)     == L * tokens + (IF qw = "notify" THEN L ELSE 0)
UniformSize(L)  == usage.sizes = {L} /\ usage.flags = {TRUE}
Announced ==
    /\ \A L \in 1 .. MaxLen : UniformSize(L) =>
          /\ dropped \/ Uncleared(L) <= Notified(L)
          /\ overtaken \/ Uncleared(L) >= Notified(L)
    /\ ~ unpolled => ~ overtaken /\ (qr # "idle" => tokens > 0)

QueueInv == Inv /\ QueueTypeOK /\ Coupling /\ Promised /\ Announced

-----------------------------------------------------------------------------
(* Consequences of the invariant.                                          *)

(* What a program passes to the queue.                                     *)
LEMMA UsageFacts ==
    ASSUME usage \in Usages
    PROVE  /\ usage.sizes \subseteq 0 .. MaxLen /\ usage.flags \subseteq BOOLEAN
           /\ usage.requests \subseteq Requests
  BY UsagesAssumption

(* The numbers the queue works with; the check of the free space subtracts *)
(* without wrapping around.                                                *)
LEMMA QueueFacts ==
    ASSUME QueueInv
    PROVE  /\ used \in Nat /\ m_size \in Nat /\ used <= m_size
           /\ get_readable_size = used /\ get_writeable_size = m_size - used
           /\ writeable_size = m_size - used
           /\ tokens \in Nat /\ tokens <= PipeCap /\ PipeCap \in Nat \ {0}
           /\ MaxLen \in Nat
<1>1. /\ Word \in Nat \ {0} /\ m_in \in Int /\ m_out \in Int /\ m_size \in Nat /\ m_size < Word
      /\ used \in Nat /\ w_len \in Nat /\ used + w_len <= m_size /\ MaxLen \in Nat
  BY InvFacts, Zenon DEF QueueInv
<1>2. used <= m_size /\ m_size \in 0 .. (Word - 1) /\ m_size - used \in 0 .. (Word - 1)
  BY <1>1
<1>3. get_readable_size = used
  BY DEF get_readable_size, used
<1>4. get_writeable_size = m_size - used
  BY <1>1, <1>2, <1>3, ModSmall, Zenon DEF get_writeable_size
<1>5. writeable_size = m_size - used
  BY <1>1, <1>2, FreeSpace, Zenon DEF writeable_size, used, ring_buffer_readable_size
<1>6. tokens \in Nat /\ tokens <= PipeCap /\ PipeCap \in Nat \ {0}
  BY PipeCapAssumption DEF QueueInv, QueueTypeOK
<1> QED
  BY <1>1, <1>2, <1>3, <1>4, <1>5, <1>6

(* Without a block there is nothing to read.                               *)
LEMMA NoBlock == QueueInv /\ m_buffer = "null" => used = 0
  BY CopyHasBlock, QueueFacts DEF QueueInv

LEMMA NothingUnread == m_in' = 0 /\ m_out' = 0 => used' = 0
  BY PowersOfTwo DEF used, ring_buffer_readable_size

(* A buffer of one of the sizes of the program is a buffer.                *)
LEMMA MessageFacts ==
    ASSUME usage \in Usages, NEW size \in usage.sizes, NEW bytes \in [1 .. size -> Byte]
    PROVE  bytes \in Buffers /\ Len(bytes) = size
<1>1. size \in 0 .. MaxLen /\ MaxLen \in Nat
  BY UsageFacts, MaxLenAssumption, PowersOfTwo
<1>2. bytes \in Buffers
  BY <1>1, Zenon DEF Buffers
<1>3. Len(bytes) = size
  BY <1>1
<1> QED
  BY <1>2, <1>3

-----------------------------------------------------------------------------
(* A step of the queue is a step of its ring buffer or leaves it alone.    *)
LEMMA RingStep == QueueInv /\ [QueueNext]_queueVars => [Next]_vars
<1> SUFFICES ASSUME QueueInv, [QueueNext]_queueVars PROVE [Next]_vars
  OBVIOUS
<1>1. usage \in Usages /\ w_msg \in Buffers /\ r_size \in 0 .. MaxLen
  BY Zenon DEF QueueInv, QueueTypeOK
<1>2. CASE UNCHANGED queueVars
  BY <1>2, Zenon DEF queueVars
<1>3. CASE OwnerNext
  <2>1. \A size \in usage.requests : size \in Requests
    BY <1>1, UsageFacts, Zenon
  <2> QED
    BY <1>3, <2>1, Zenon DEF OwnerNext, init_refused, init_pipe, init_shared, init_alloc,
       init_alloc_fails, uninit, queueVars, Next
<1>4. CASE WriterNext
  BY <1>1, <1>4, Zenon DEF WriterNext, write_refused, write_check, write_begin, write_byte,
     write_end, write_notify, queueVars, Next
<1>5. CASE ReaderNext
  BY <1>1, <1>5, Zenon DEF ReaderNext, read_refused, read_check, read_begin, read_byte,
     read_end, read_clear, queueVars, Next
<1> QED
  BY <1>2, <1>3, <1>4, <1>5, Zenon DEF QueueNext

LEMMA RingInv == QueueInv /\ [QueueNext]_queueVars => Inv'
  BY RingStep, NextInv, Zenon DEF QueueInv

LEMMA UsedKept == UNCHANGED <<m_in, m_out>> => used' = used
  BY DEF used, ring_buffer_readable_size

-----------------------------------------------------------------------------
(* The rest of the invariant, by the thread that takes the step.           *)

QueuePart == QueueTypeOK /\ Coupling /\ Promised /\ Announced

(* The owner finds both threads outside and leaves an empty pipe and an    *)
(* empty block, or no block.                                               *)
LEMMA OwnerPart ==
    ASSUME QueueInv, Inv', OwnerNext
    PROVE  QueuePart'
<1>0. TypeOK'
  BY DEF Inv
<1>1. /\ usage \in Usages /\ tokens \in 0 .. PipeCap /\ 0 \in 0 .. PipeCap
      /\ m_pipefd \in BOOLEAN /\ w_msg \in Buffers /\ w_flag \in BOOLEAN
      /\ r_size \in 0 .. MaxLen /\ r_flag \in BOOLEAN
      /\ dropped \in BOOLEAN /\ unpolled \in BOOLEAN /\ overtaken \in BOOLEAN
  BY PipeCapAssumption DEF QueueInv, QueueTypeOK
<1>a. ASSUME used' = 0, tokens' = 0, qw' = "idle", qr' = "idle"
      PROVE  \A L \in 1 .. MaxLen : Uncleared(L)' = Notified(L)' /\ Uncleared(L)' \in Nat
  <2> TAKE L \in 1 .. MaxLen
  <2>1. Uncleared(L)' = 0
    BY <1>a DEF Uncleared
  <2>2. Notified(L)' = 0
    BY <1>a, QueueFacts DEF Notified
  <2> QED
    BY <2>1, <2>2
<1>2. CASE init_refused
  BY <1>0, <1>2, UsedKept DEF init_refused, queueVars, vars, pipe, qwriter, qreader, history,
     QueueInv, QueuePart, QueueTypeOK, Coupling, Promised, Announced, UniformSize, Uncleared, Notified
<1>3. CASE init_pipe
  <2>1. m_buffer = "null" /\ used' = 0
    BY <1>3, NoBlock, UsedKept, Zenon DEF init_pipe, NoCall, QueueInv, Coupling, vars
  <2>2. QueueTypeOK' /\ Coupling' /\ Promised'
    BY <1>0, <1>1, <1>3, <2>1 DEF init_pipe, NoCall, vars, qwriter, qreader, history,
       QueueInv, QueueTypeOK, Coupling, Promised
  <2>3. Announced'
    BY <1>a, <1>3, <2>1 DEF init_pipe, NoCall, qwriter, qreader, history, QueueInv, Announced
  <2> QED
    BY <2>2, <2>3 DEF QueuePart
<1>4. ASSUME NEW shared \in BOOLEAN, init_shared(shared) PROVE QueuePart'
  <2>1. used' = used
    BY <1>4, UsedKept, Zenon DEF init_shared, set_shared
  <2> QED
    BY <1>0, <1>1, <1>4, <2>1, QueueFacts DEF init_shared, set_shared, writer, reader, pipe, qwriter, qreader, history,
       QueueInv, QueuePart, QueueTypeOK, Coupling, Promised, Announced, UniformSize, Uncleared, Notified
<1>5. ASSUME NEW size \in usage.requests, init_alloc(size) PROVE QueuePart'
  <2>1. used' = 0 /\ used = 0 /\ m_buffer' # "null"
    BY <1>5, NoBlock, NothingUnread, Zenon DEF init_alloc, ring_buffer_alloc
  <2> QED
    BY <1>0, <1>1, <1>5, <2>1, QueueFacts DEF init_alloc, ring_buffer_alloc, writer, reader, pipe, qwriter, qreader, history,
       QueueInv, QueuePart, QueueTypeOK, Coupling, Promised, Announced, UniformSize, Uncleared, Notified
<1>6. CASE init_alloc_fails
  <2>1. used' = 0 /\ used = 0
    BY <1>6, NoBlock, UsedKept, Zenon DEF init_alloc_fails, ring_buffer_alloc_fails, vars
  <2> QED
    BY <1>0, <1>1, <1>6, <2>1, QueueFacts DEF init_alloc_fails, ring_buffer_alloc_fails, vars, qwriter, qreader, history,
       QueueInv, QueuePart, QueueTypeOK, Coupling, Promised, Announced, UniformSize, Uncleared, Notified
<1>7. CASE uninit
  <2>1. used' = 0
    BY <1>7, NothingUnread, Zenon DEF uninit, ring_buffer_free
  <2>2. QueueTypeOK' /\ Coupling' /\ Promised'
    BY <1>0, <1>1, <1>7, <2>1 DEF uninit, NoCall, ring_buffer_free, writer, reader, qwriter, qreader,
       QueueInv, QueueTypeOK, Coupling, Promised
  <2>3. Announced'
    BY <1>a, <1>7, <2>1 DEF uninit, NoCall, qwriter, qreader, QueueInv, Announced
  <2> QED
    BY <2>2, <2>3 DEF QueuePart
<1> QED
  BY <1>2, <1>3, <1>4, <1>5, <1>6, <1>7 DEF OwnerNext

(* With one size every transfer moves L bytes and is announced, so a write *)
(* that ends owes its notification and a read that ends owes its clearing. *)
LEMMA UniformFacts ==
    ASSUME QueueInv, NEW L \in 1 .. MaxLen, UniformSize(L)
    PROVE  /\ qw = "copy" => w_len = L /\ w_flag = TRUE
           /\ qr = "copy" => r_len = L /\ r_flag = TRUE
  BY DEF QueueInv, Promised, UniformSize

LEMMA BalanceFacts ==
    ASSUME QueueInv, NEW L \in 1 .. MaxLen
    PROVE  /\ L \in Nat /\ L > 0 /\ L * tokens \in Nat
           /\ L * (tokens + 1) = L * tokens + L
           /\ L * (tokens - 1) = L * tokens - L
           /\ Uncleared(L) \in Nat /\ Notified(L) \in Nat
<1>1. L \in Nat /\ L > 0 /\ tokens \in Nat /\ used \in Nat
  BY QueueFacts
<1>2. L * tokens \in Nat /\ L * (tokens + 1) = L * tokens + L /\ L * (tokens - 1) = L * tokens - L
  BY <1>1
<1> QED
  BY <1>1, <1>2 DEF Uncleared, Notified

(* A writer that passed the check finds at least that space when it copies *)
(* and the reader's promises only gain.                                    *)
LEMMA WriterPart ==
    ASSUME QueueInv, Inv', WriterNext
    PROVE  QueuePart'
<1>0. TypeOK'
  BY DEF Inv
<1>1. /\ usage \in Usages /\ tokens \in 0 .. PipeCap
      /\ m_pipefd \in BOOLEAN /\ w_msg \in Buffers /\ w_flag \in BOOLEAN
      /\ r_size \in 0 .. MaxLen /\ r_flag \in BOOLEAN
      /\ dropped \in BOOLEAN /\ unpolled \in BOOLEAN /\ overtaken \in BOOLEAN
  BY DEF QueueInv, QueueTypeOK
<1>2. << >> \in Buffers
  <2>1. << >> \in [1 .. 0 -> Byte] /\ 0 \in 0 .. MaxLen
    BY QueueFacts
  <2> QED
    BY <2>1, Zenon DEF Buffers
<1>3. ASSUME NEW size \in usage.sizes, write_refused(size) PROVE QueuePart'
  BY <1>0, <1>3, UsedKept DEF write_refused, queueVars, vars, pipe, qwriter, qreader, history,
     QueueInv, QueuePart, QueueTypeOK, Coupling, Promised, Announced, UniformSize, Uncleared, Notified
<1>4. ASSUME NEW size \in usage.sizes, NEW bytes \in [1 .. size -> Byte], NEW flag \in usage.flags,
             write_check(bytes, flag)
      PROVE  QueuePart'
  <2>1. used' = used /\ bytes \in Buffers /\ Len(bytes) = size /\ flag \in BOOLEAN
    BY <1>1, <1>4, UsedKept, MessageFacts, UsageFacts, Zenon DEF write_check, vars
  <2>2. Len(bytes) <= m_size - used
    <3>1. /\ used \in Nat /\ m_size \in Nat /\ get_writeable_size = m_size - used
          /\ get_writeable_size >= Len(bytes) /\ size \in 0 .. MaxLen
      BY <1>1, <1>4, QueueFacts, UsageFacts, Zenon DEF write_check
    <3> QED
      BY <2>1, <3>1
  <2>3. QueueTypeOK' /\ Coupling' /\ Promised'
    BY <1>0, <1>1, <1>4, <2>1, <2>2 DEF write_check, vars, pipe, qreader, history,
       QueueInv, QueueTypeOK, Coupling, Promised
  <2>4. Announced'
    BY <1>4, <2>1 DEF write_check, pipe, qreader, history, QueueInv, Announced, UniformSize, Uncleared, Notified
  <2> QED
    BY <2>3, <2>4 DEF QueuePart
<1>5. CASE write_begin
  <2>1. used' = used
    BY <1>5, UsedKept, Zenon DEF write_begin, WriteBegin
  <2>2. w_len' = Len(w_buf') /\ w_len' = Len(w_msg)
    <3>1. /\ used \in Nat /\ m_size \in Nat /\ writeable_size = m_size - used
          /\ Len(w_msg) \in 0 .. MaxLen /\ MaxLen \in Nat
      BY <1>1, QueueFacts, BufferFacts, Zenon
    <3>2. Len(w_msg) <= m_size - used
      BY <1>5, Zenon DEF write_begin, QueueInv, Promised
    <3> QED
      BY <1>5, <3>1, <3>2 DEF write_begin, WriteBegin, Min
  <2>3. QueueTypeOK' /\ Coupling' /\ Promised'
    BY <1>0, <1>1, <1>2, <1>5, <2>1, <2>2 DEF write_begin, WriteBegin, owner, reader, pipe, qreader, history,
       QueueInv, QueueTypeOK, Coupling, Promised
  <2>4. Announced'
    BY <1>5, <2>1 DEF write_begin, pipe, qreader, history, QueueInv, Announced, UniformSize, Uncleared, Notified
  <2> QED
    BY <2>3, <2>4 DEF QueuePart
<1>6. CASE write_byte
  <2>1. used' = used
    BY <1>6, UsedKept, Zenon DEF write_byte, WriteByte
  <2>2. QueueTypeOK' /\ Coupling' /\ Promised'
    BY <1>0, <1>1, <1>6, <2>1 DEF write_byte, WriteByte, owner, reader, pipe, qwriter, qreader, history,
       QueueInv, QueueTypeOK, Coupling, Promised
  <2>3. Announced'
    BY <1>6, <2>1 DEF write_byte, pipe, qwriter, qreader, history, QueueInv, Announced, UniformSize, Uncleared, Notified
  <2> QED
    BY <2>2, <2>3 DEF QueuePart
<1>7. CASE write_end
  <2>1. qw = "copy" /\ used' = used + w_len /\ w_len \in Nat
    BY <1>7, UsedAfterWrite, InvFacts, Zenon DEF write_end, WriteEnd, QueueInv, Coupling
  <2>2. QueueTypeOK' /\ Coupling'
    BY <1>0, <1>1, <1>7, <2>1 DEF write_end, WriteEnd, owner, reader, pipe, qreader, history,
       QueueInv, QueueTypeOK, Coupling
  <2>3. Promised'
    BY <1>1, <1>7, <2>1, QueueFacts DEF write_end, WriteEnd, reader, qreader, QueueInv, Promised
  <2>4. ASSUME NEW L \in 1 .. MaxLen, UniformSize(L)
        PROVE  Uncleared(L)' = Uncleared(L) + L /\ Notified(L)' = Notified(L) + L
    <3>1. w_len = L /\ w_flag = TRUE /\ L \in Nat /\ L > 0 /\ L * tokens \in Nat
      BY <2>1, <2>4, UniformFacts, BalanceFacts, Zenon
    <3> QED
      BY <1>7, <2>1, <3>1, QueueFacts DEF write_end, pipe, qreader, Uncleared, Notified
  <2>5. ASSUME NEW L \in 1 .. MaxLen, UniformSize(L)'
        PROVE  (dropped \/ Uncleared(L) <= Notified(L))' /\ (overtaken \/ Uncleared(L) >= Notified(L))'
    <3>1. UniformSize(L) /\ dropped' = dropped /\ overtaken' = overtaken
      BY <1>7, <2>5, Zenon DEF write_end, history, UniformSize
    <3>2. (dropped \/ Uncleared(L) <= Notified(L)) /\ (overtaken \/ Uncleared(L) >= Notified(L))
      BY <3>1, Zenon DEF QueueInv, Announced
    <3> QED
      BY <2>4, <3>1, <3>2, BalanceFacts
  <2>6. Announced'
    BY <1>7, <2>5 DEF write_end, pipe, qreader, history, QueueInv, Announced
  <2> QED
    BY <2>2, <2>3, <2>6 DEF QueuePart
<1>8. CASE write_notify
  <2>1. used' = used
    BY <1>8, UsedKept, Zenon DEF write_notify, vars
  <2>2. QueueTypeOK' /\ Coupling' /\ Promised'
    BY <1>0, <1>1, <1>8, <2>1, QueueFacts DEF write_notify, vars, qreader,
       QueueInv, QueueTypeOK, Coupling, Promised
  <2>3. ASSUME NEW L \in 1 .. MaxLen
        PROVE  /\ Uncleared(L)' = Uncleared(L)
               /\ Notified(L)' = IF tokens = PipeCap THEN Notified(L) - L ELSE Notified(L)
    BY <1>8, <2>1, BalanceFacts, QueueFacts DEF write_notify, qreader, Uncleared, Notified
  <2>4. ASSUME NEW L \in 1 .. MaxLen, UniformSize(L)'
        PROVE  (dropped \/ Uncleared(L) <= Notified(L))' /\ (overtaken \/ Uncleared(L) >= Notified(L))'
    <3>1. /\ UniformSize(L)
          /\ overtaken => overtaken'
          /\ dropped \/ tokens = PipeCap => dropped'
      BY <1>8, <2>4, Zenon DEF write_notify, UniformSize
    <3>2. (dropped \/ Uncleared(L) <= Notified(L)) /\ (overtaken \/ Uncleared(L) >= Notified(L))
      BY <3>1, Zenon DEF QueueInv, Announced
    <3> QED
      BY <2>3, <3>1, <3>2, BalanceFacts
  <2>5. Announced'
    BY <1>8, <2>4, QueueFacts DEF write_notify, qreader, QueueInv, Announced
  <2> QED
    BY <2>2, <2>5 DEF QueuePart
<1> QED
  BY <1>3, <1>4, <1>5, <1>6, <1>7, <1>8 DEF WriterNext

(* A reader that passed the check finds at least those bytes when it       *)
(* copies, and the writer's promises only gain.                            *)
LEMMA ReaderPart ==
    ASSUME QueueInv, Inv', ReaderNext
    PROVE  QueuePart'
<1>0. TypeOK'
  BY DEF Inv
<1>1. /\ usage \in Usages /\ tokens \in 0 .. PipeCap
      /\ m_pipefd \in BOOLEAN /\ w_msg \in Buffers /\ w_flag \in BOOLEAN
      /\ r_size \in 0 .. MaxLen /\ r_flag \in BOOLEAN
      /\ dropped \in BOOLEAN /\ unpolled \in BOOLEAN /\ overtaken \in BOOLEAN
  BY DEF QueueInv, QueueTypeOK
<1>2. w_msg \in Buffers /\ Len(w_msg) \in 0 .. MaxLen /\ MaxLen \in Nat
  BY <1>1, BufferFacts, QueueFacts, Zenon
<1>3. ASSUME NEW size \in usage.sizes, read_refused(size) PROVE QueuePart'
  BY <1>0, <1>3, UsedKept DEF read_refused, queueVars, vars, pipe, qwriter, qreader, history,
     QueueInv, QueuePart, QueueTypeOK, Coupling, Promised, Announced, UniformSize, Uncleared, Notified
<1>4. ASSUME NEW size \in usage.sizes, NEW flag \in usage.flags, read_check(size, flag)
      PROVE  QueuePart'
  <2>1. used' = used /\ size \in 0 .. MaxLen /\ flag \in BOOLEAN
    BY <1>1, <1>4, UsedKept, UsageFacts, Zenon DEF read_check, vars
  <2>2. size <= used
    <3>1. used \in Nat /\ get_readable_size = used /\ get_readable_size >= size
      BY <1>4, QueueFacts, Zenon DEF read_check
    <3> QED
      BY <2>1, <3>1
  <2>3. QueueTypeOK' /\ Coupling' /\ Promised'
    BY <1>0, <1>1, <1>4, <2>1, <2>2 DEF read_check, vars, pipe, qwriter,
       QueueInv, QueueTypeOK, Coupling, Promised
  <2>4. Announced'
    <3>1. ~ unpolled' => ~ unpolled /\ tokens # 0
      BY <1>4, Zenon DEF read_check
    <3>2. ~ unpolled' => ~ overtaken' /\ tokens' > 0
      BY <1>4, <3>1, QueueFacts DEF read_check, pipe, QueueInv, Announced
    <3>3. \A L \in 1 .. MaxLen : UniformSize(L)' =>
             (dropped \/ Uncleared(L) <= Notified(L))' /\ (overtaken \/ Uncleared(L) >= Notified(L))'
      BY <1>4, <2>1 DEF read_check, pipe, qwriter, QueueInv, Announced, UniformSize, Uncleared, Notified
    <3> QED
      BY <3>2, <3>3, Zenon DEF Announced
  <2> QED
    BY <2>3, <2>4 DEF QueuePart
<1>5. CASE read_begin
  <2>1. used' = used
    BY <1>5, UsedKept, Zenon DEF read_begin, ReadBegin
  <2>2. r_len' = r_size
    <3>1. used \in Nat /\ used = ring_buffer_readable_size /\ r_size <= used
      BY <1>5, QueueFacts, Zenon DEF read_begin, QueueInv, Promised, used
    <3> QED
      BY <1>1, <1>5, <3>1 DEF read_begin, ReadBegin, Min
  <2>3. QueueTypeOK' /\ Coupling' /\ Promised'
    BY <1>0, <1>1, <1>5, <2>1, <2>2 DEF read_begin, ReadBegin, owner, writer, pipe, qwriter, history,
       QueueInv, QueueTypeOK, Coupling, Promised
  <2>4. Announced'
    BY <1>5, <2>1 DEF read_begin, pipe, qwriter, history, QueueInv, Announced, UniformSize, Uncleared, Notified
  <2> QED
    BY <2>3, <2>4 DEF QueuePart
<1>6. CASE read_byte
  <2>1. used' = used
    BY <1>6, UsedKept, Zenon DEF read_byte, ReadByte
  <2>2. QueueTypeOK' /\ Coupling' /\ Promised'
    BY <1>0, <1>1, <1>6, <2>1 DEF read_byte, ReadByte, owner, writer, pipe, qwriter, qreader, history,
       QueueInv, QueueTypeOK, Coupling, Promised
  <2>3. Announced'
    BY <1>6, <2>1 DEF read_byte, pipe, qwriter, qreader, history, QueueInv, Announced, UniformSize, Uncleared, Notified
  <2> QED
    BY <2>2, <2>3 DEF QueuePart
<1>7. CASE read_end
  <2>1. qr = "copy" /\ used' = used - r_len /\ r_len \in Nat
    BY <1>7, UsedAfterRead, InvFacts, Zenon DEF read_end, ReadEnd, QueueInv, Coupling
  <2>2. QueueTypeOK' /\ Coupling'
    <3>1. 0 \in 0 .. MaxLen /\ FALSE \in BOOLEAN
      BY QueueFacts
    <3>2. QueueTypeOK'
      BY <1>0, <1>1, <1>7, <3>1, Zenon DEF read_end, pipe, qwriter, history, QueueInv, QueueTypeOK
    <3>3. Coupling'
      BY <1>7, <2>1 DEF read_end, ReadEnd, owner, writer, pipe, qwriter, QueueInv, Coupling
    <3> QED
      BY <3>2, <3>3
  <2>3. Promised'
    BY <1>2, <1>7, <2>1, QueueFacts DEF read_end, ReadEnd, owner, writer, qwriter, QueueInv, Promised
  <2>4. ASSUME NEW L \in 1 .. MaxLen, UniformSize(L)
        PROVE  Uncleared(L)' = Uncleared(L) /\ Notified(L)' = Notified(L)
    <3>1. r_len = L /\ r_flag = TRUE /\ L \in Nat /\ L > 0
      BY <2>1, <2>4, UniformFacts, BalanceFacts, Zenon
    <3> QED
      BY <1>7, <2>1, <3>1, QueueFacts DEF read_end, pipe, qwriter, Uncleared, Notified
  <2>5. ASSUME NEW L \in 1 .. MaxLen, UniformSize(L)'
        PROVE  (dropped \/ Uncleared(L) <= Notified(L))' /\ (overtaken \/ Uncleared(L) >= Notified(L))'
    <3>1. UniformSize(L) /\ dropped' = dropped /\ overtaken' = overtaken
      BY <1>7, <2>5, Zenon DEF read_end, history, UniformSize
    <3>2. (dropped \/ Uncleared(L) <= Notified(L)) /\ (overtaken \/ Uncleared(L) >= Notified(L))
      BY <3>1, Zenon DEF QueueInv, Announced
    <3> QED
      BY <2>4, <3>1, <3>2
  <2>6. Announced'
    BY <1>7, <2>1, <2>5 DEF read_end, pipe, history, QueueInv, Announced
  <2> QED
    BY <2>2, <2>3, <2>6 DEF QueuePart
<1>8. CASE read_clear
  <2>1. used' = used
    BY <1>8, UsedKept, Zenon DEF read_clear, vars
  <2>2. QueueTypeOK' /\ Coupling' /\ Promised'
    BY <1>0, <1>1, <1>8, <2>1, QueueFacts DEF read_clear, vars, qwriter,
       QueueInv, QueueTypeOK, Coupling, Promised
  <2>3. ASSUME NEW L \in 1 .. MaxLen
        PROVE  /\ Uncleared(L)' = Uncleared(L) - L
               /\ Notified(L)' = IF tokens = 0 THEN Notified(L) ELSE Notified(L) - L
    BY <1>8, <2>1, BalanceFacts, QueueFacts DEF read_clear, qwriter, Uncleared, Notified
  <2>4. ASSUME NEW L \in 1 .. MaxLen, UniformSize(L)'
        PROVE  (dropped \/ Uncleared(L) <= Notified(L))' /\ (overtaken \/ Uncleared(L) >= Notified(L))'
    <3>1. /\ UniformSize(L)
          /\ dropped => dropped'
          /\ overtaken \/ tokens = 0 => overtaken'
      BY <1>8, <2>4, Zenon DEF read_clear, UniformSize
    <3>2. (dropped \/ Uncleared(L) <= Notified(L)) /\ (overtaken \/ Uncleared(L) >= Notified(L))
      BY <3>1, Zenon DEF QueueInv, Announced
    <3> QED
      BY <2>3, <3>1, <3>2, BalanceFacts
  <2>5. Announced'
    BY <1>1, <1>8, <2>4, QueueFacts DEF read_clear, qwriter, QueueInv, Announced
  <2> QED
    BY <2>2, <2>5 DEF QueuePart
<1> QED
  BY <1>3, <1>4, <1>5, <1>6, <1>7, <1>8 DEF ReaderNext

-----------------------------------------------------------------------------
LEMMA QueueInitInv == QueueInit => QueueInv
<1> SUFFICES ASSUME QueueInit PROVE QueueInv
  OBVIOUS
<1>1. Inv
  BY InitInv DEF QueueInit
<1>2. /\ used = 0 /\ w_buf = << >> /\ w_buf \in Buffers
      /\ 0 \in 0 .. PipeCap /\ 0 \in 0 .. MaxLen /\ MaxLen \in Nat
  <2>1. used = 0
    BY PowersOfTwo DEF QueueInit, Init, used, ring_buffer_readable_size
  <2> QED
    BY <1>1, <2>1, InvFacts, PipeCapAssumption DEF QueueInit, Init, Inv, TypeOK
<1>3. QueueTypeOK
  <2>1. FALSE \in BOOLEAN /\ TypeOK
    BY <1>1 DEF Inv
  <2> QED
    BY <1>2, <2>1, Zenon DEF QueueInit, QueueTypeOK
<1>4. Coupling /\ Promised
  BY <1>2 DEF QueueInit, Init, Coupling, Promised
<1>5. Announced
  <2>1. \A L \in 1 .. MaxLen : Uncleared(L) = 0 /\ Notified(L) = 0
    BY <1>2 DEF QueueInit, Uncleared, Notified
  <2> QED
    BY <2>1 DEF QueueInit, Announced
<1> QED
  BY <1>1, <1>3, <1>4, <1>5 DEF QueueInv

LEMMA QueueNextInv == QueueInv /\ [QueueNext]_queueVars => QueueInv'
<1> SUFFICES ASSUME QueueInv, [QueueNext]_queueVars PROVE QueueInv'
  OBVIOUS
<1>1. Inv'
  BY RingInv, Zenon
<1>2. CASE UNCHANGED queueVars
  <2>1. used' = used /\ TypeOK'
    BY <1>1, <1>2, UsedKept, Zenon DEF queueVars, vars, Inv
  <2>2. QueueTypeOK' /\ Coupling' /\ Promised'
    BY <1>2, <2>1 DEF queueVars, vars, pipe, qwriter, qreader, history,
       QueueInv, QueueTypeOK, Coupling, Promised
  <2>3. Announced'
    BY <1>2, <2>1 DEF queueVars, vars, pipe, qwriter, qreader, history,
       QueueInv, Announced, UniformSize, Uncleared, Notified
  <2> QED
    BY <1>1, <2>2, <2>3 DEF QueueInv
<1>3. CASE QueueNext
  BY <1>1, <1>3, OwnerPart, WriterPart, ReaderPart, Zenon DEF QueueNext, QueuePart, QueueInv
<1> QED
  BY <1>2, <1>3

(* The invariant of the queue holds in every reachable state.              *)
THEOREM QueueInvariance == QueueSpec => []QueueInv
  BY QueueInitInv, QueueNextInv, PTL DEF QueueSpec

(* A message is written and read whole or not at all, although a thread    *)
(* checks the size and copies at different moments                         *)
(* (shared_queue.cpp:37-40, 56-59).                                        *)
THEOREM WholeMessages == QueueSpec => []AllOrNothing
<1>1. QueueInv => AllOrNothing
  BY DEF QueueInv, Promised, AllOrNothing
<1> QED
  BY QueueInvariance, <1>1, PTL

(* Between calls the pipe is open exactly when there is a block, whichever *)
(* step of init failed (shared_queue.cpp:13-22, 29-30).                    *)
THEOREM PipeAndBlock == QueueSpec => []PipeMatchesBlock
<1>1. QueueInv => PipeMatchesBlock
  BY NoBlock, QueueFacts DEF QueueInv, Coupling, PipeMatchesBlock
<1> QED
  BY QueueInvariance, <1>1, PTL

(* No wakeup is lost: with messages of one size, a message that waits      *)
(* while nobody is in a call has made the pipe readable, unless the pipe   *)
(* was full when one was announced (shared_queue.cpp:45-49, 64-68).        *)
THEOREM WakeupsAreKept == QueueSpec => []NoLostWakeup
<1>1. QueueInv => NoLostWakeup
  <2> SUFFICES ASSUME QueueInv, Uniform, NoCall, MessageWaiting, ~ dropped
               PROVE  tokens > 0
    BY Zenon DEF NoLostWakeup
  <2>1. PICK L \in 1 .. MaxLen : UniformSize(L)
    BY Zenon DEF Uniform, UniformSize
  <2>2. Uncleared(L) <= Notified(L)
    BY <2>1, Zenon DEF QueueInv, Announced
  <2>3. Uncleared(L) = used /\ Notified(L) = L * tokens
    BY QueueFacts DEF NoCall, Uncleared, Notified
  <2>4. L <= used
    BY <2>1, QueueFacts DEF MessageWaiting, UniformSize
  <2>5. tokens # 0
    <3> SUFFICES ASSUME tokens = 0 PROVE FALSE
      OBVIOUS
    <3>1. L * tokens = 0
      BY QueueFacts
    <3> QED
      BY <2>2, <2>3, <2>4, <3>1, QueueFacts
  <2> QED
    BY <2>5, QueueFacts
<1> QED
  BY QueueInvariance, <1>1, PTL

(* No wakeup is spurious: with messages of one size a readable pipe means  *)
(* that a message waits, unless a read overtook a notification, which a    *)
(* reader that waits for the pipe never does (shared_queue.cpp:37, 42-49). *)
THEOREM WakeupsAreTrue == QueueSpec => []PollIsExact
<1>1. QueueInv => PollIsExact
  <2> SUFFICES ASSUME QueueInv, Uniform
               PROVE  /\ NoCall /\ tokens > 0 => MessageWaiting \/ overtaken
                      /\ ~ unpolled => ~ overtaken /\ (qr = "idle" /\ tokens > 0 => MessageWaiting)
    BY Zenon DEF PollIsExact
  <2>1. PICK L \in 1 .. MaxLen : UniformSize(L)
    BY Zenon DEF Uniform, UniformSize
  <2>2. ASSUME ~ overtaken, qr = "idle", tokens > 0 PROVE MessageWaiting
    <3>1. Uncleared(L) >= Notified(L)
      BY <2>1, <2>2, Zenon DEF QueueInv, Announced
    <3>2. L * tokens >= L /\ L * tokens \in Nat /\ L \in Nat
      <4>1. L \in Nat /\ L > 0 /\ tokens - 1 \in Nat /\ tokens \in Nat
        BY <2>2, QueueFacts
      <4>2. L * (tokens - 1) \in Nat /\ L * tokens = L * (tokens - 1) + L
        BY <4>1
      <4> QED
        BY <4>1, <4>2
    <3>3. used >= L
      BY <2>2, <3>1, <3>2, QueueFacts DEF Uncleared, Notified
    <3> QED
      BY <2>1, <3>3, QueueFacts DEF MessageWaiting, UniformSize
  <2>3. ~ unpolled => ~ overtaken
    BY Zenon DEF QueueInv, Announced
  <2> QED
    BY <2>2, <2>3, Zenon DEF NoCall
<1> QED
  BY QueueInvariance, <1>1, PTL

(* The queue hands its messages on as a first-in first-out queue of bytes: *)
(* used through the shared queue, the ring buffer still implements it      *)
(* (shared_queue.cpp:35-71, ring_buffer.cpp:58-117).                       *)
THEOREM QueueIsFifo == QueueSpec => ImplementsFifo
<1>1. QueueInit => Init
  BY DEF QueueInit
<1>2. QueueSpec => [][Next]_vars
  BY QueueInvariance, RingStep, PTL DEF QueueSpec
<1> QED
  BY <1>1, <1>2, Refinement, PTL DEF QueueSpec, Spec
=============================================================================
