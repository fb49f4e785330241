----------------------------- MODULE RingBuffer -----------------------------
(***************************************************************************)
(* LibSys::RingBuffer (ring_buffer.h, ring_buffer.cpp): a lock-free byte   *)
(* queue for one writer thread and one reader thread.                      *)
(*                                                                         *)
(* The two threads interleave between the sampling of the other thread's   *)
(* index, every single byte of the two memcpy calls, and the publication   *)
(* of the own index.  That order within a thread is what mb(), wmb() and   *)
(* rmb() keep on the x86_64 build.  m_in and m_out are unsigned longs and  *)
(* wrap around at Word.  The block's size is always a power of two, so     *)
(* "index & (m_size - 1)" is written index % m_size (checked in            *)
(* BitTricks.tla).                                                         *)
(*                                                                         *)
(* Callers own two duties the class leaves to them: alloc, free, reset and *)
(* set_shared run while neither thread is inside a call, and a buffer that *)
(* is allocated is freed before it is allocated again.                     *)
(***************************************************************************)
EXTENDS PowerOfTwo, Sequences

CONSTANTS Byte,      \* the byte values
          Junk,      \* what fresh memory holds before it is written
          Requests,  \* the sizes callers pass to ring_buffer_alloc
          MaxLen     \* the longest buffer passed to a read or a write

ASSUME JunkAssumption == Junk \notin Byte
ASSUME RequestsAssumption == Requests \subseteq 0 .. (Word - 1)
ASSUME MaxLenAssumption == MaxLen \in 0 .. (Word - 1)

VARIABLES
    m_buffer,  \* "null", or the allocator that owns the block: "heap", "mmap"
    mem,       \* the bytes of that block
    m_size, m_in, m_out, m_shared,
    w_pc,      \* the writer thread: "idle", or "copy" inside a write
    w_buf,     \* the caller's bytes
    w_len,     \* the clamped length of the write
    w_k,       \* bytes copied so far
    r_pc, r_len,
    r_buf,     \* the bytes copied to the caller so far
    r_out      \* what the last finished read handed over

owner  == <<m_buffer, m_size, m_shared>>
writer == <<w_pc, w_buf, w_len, w_k>>
reader == <<r_pc, r_len, r_buf, r_out>>
vars   == <<m_buffer, mem, m_size, m_in, m_out, m_shared,
            w_pc, w_buf, w_len, w_k, r_pc, r_len, r_buf, r_out>>

Cell    == Byte \cup {Junk}
Buffers == UNION {[1 .. n -> Byte] : n \in 0 .. MaxLen}
Min(a, b) == IF a <= b THEN a ELSE b
Quiet   == w_pc = "idle" /\ r_pc = "idle"

Init ==
    /\ m_buffer = "null" /\ mem = << >> /\ m_shared = FALSE
    /\ m_size = 0 /\ m_in = 0 /\ m_out = 0
    /\ w_pc = "idle" /\ w_buf = << >> /\ w_len = 0 /\ w_k = 0
    /\ r_pc = "idle" /\ r_len = 0 /\ r_buf = << >> /\ r_out = << >>

-----------------------------------------------------------------------------
(* The owner's operations.                                                 *)

\* mutant: no check for an existing block
set_shared_Unguarded(shared) ==
    /\ Quiet
    /\ m_shared' = shared
    /\ UNCHANGED <<m_buffer, mem, m_size, m_in, m_out, writer, reader>>

\* the sharing of a block that exists cannot change
set_shared(shared) ==
    /\ Quiet
    /\ m_shared' = IF m_buffer = "null" THEN shared ELSE m_shared
    /\ UNCHANGED <<m_buffer, mem, m_size, m_in, m_out, writer, reader>>

ring_buffer_reset ==
    /\ Quiet
    /\ m_in' = 0 /\ m_out' = 0
    /\ UNCHANGED <<owner, mem, writer, reader>>

\* the size of the block that a request of n bytes gets
AllocSize(n) == IF is_power_of_2(n) THEN n ELSE roundup_pow_of_two(n)

\* mutant: m_size keeps the request instead of the rounded size
ring_buffer_alloc_Unrounded(n) ==
    /\ Quiet
    /\ m_buffer = "null"
    /\ AllocSize(n) # 0
    /\ m_buffer' = IF m_shared THEN "mmap" ELSE "heap"
    /\ m_size' = n
    /\ mem' = [i \in 0 .. (AllocSize(n) - 1) |-> Junk]
    /\ m_in' = 0 /\ m_out' = 0
    /\ UNCHANGED <<m_shared, writer, reader>>

ring_buffer_alloc(n) ==
    /\ Quiet
    /\ m_buffer = "null"
    /\ AllocSize(n) # 0
    /\ m_buffer' = IF m_shared THEN "mmap" ELSE "heap"
    /\ m_size' = AllocSize(n)
    /\ mem' = [i \in 0 .. (AllocSize(n) - 1) |-> Junk]
    /\ m_in' = 0 /\ m_out' = 0
    /\ UNCHANGED <<m_shared, writer, reader>>

\* a failed request leaves the object without a block and otherwise as it was
ring_buffer_alloc_fails == Quiet /\ m_buffer = "null" /\ UNCHANGED vars

\* mutant: the indices are not reset
ring_buffer_free_NoReset ==
    /\ Quiet
    /\ m_buffer' = "null" /\ mem' = << >>
    /\ UNCHANGED <<m_size, m_in, m_out, m_shared, writer, reader>>

\* m_size keeps the size of the block that is gone
ring_buffer_free ==
    /\ Quiet
    /\ m_buffer' = "null" /\ mem' = << >>
    /\ m_in' = 0 /\ m_out' = 0
    /\ UNCHANGED <<m_size, m_shared, writer, reader>>

-----------------------------------------------------------------------------
(* Index arithmetic.                                                       *)

ring_buffer_readable_size == (m_in - m_out) % Word

\* mutant: one byte too many
writeable_size_OffByOne == (m_size - m_in + m_out + 1) % Word

writeable_size == (m_size - m_in + m_out) % Word

\* mutant: a single memcpy
Position_NoSplit(index, len, k) == (index % m_size) + k

\* where byte k of a copy of len bytes that starts at index goes: the first
\* memcpy runs to the end of the block, the second starts at its beginning
Position(index, len, k) ==
    LET l == Min(len, m_size - (index % m_size))
    IN  IF k < l THEN (index % m_size) + k ELSE k - l

-----------------------------------------------------------------------------
(* ring_buffer_write, by the writer thread.  Before the first alloc there  *)
(* is no space and nothing is copied; after a free the caller must not     *)
(* write, for m_size still tells of the block that is gone.                *)

WriteBegin(bytes) ==
    /\ w_pc = "idle"
    /\ m_buffer # "null" \/ m_size = 0
    /\ w_buf' = bytes
    /\ w_len' = Min(Len(bytes), writeable_size)
    /\ w_k' = 0 /\ w_pc' = "copy"
    /\ UNCHANGED <<owner, mem, m_in, m_out, reader>>

WriteByte ==
    /\ w_pc = "copy" /\ w_k < w_len
    /\ mem' = [mem EXCEPT ![Position(m_in, w_len, w_k)] = w_buf[w_k + 1]]
    /\ w_k' = w_k + 1
    /\ UNCHANGED <<owner, m_in, m_out, w_pc, w_buf, w_len, reader>>

WriteEnd ==
    /\ w_pc = "copy" /\ w_k = w_len
    /\ m_in' = (m_in + w_len) % Word
    /\ w_pc' = "idle" /\ w_buf' = << >> /\ w_len' = 0 /\ w_k' = 0
    /\ UNCHANGED <<owner, mem, m_out, reader>>

-----------------------------------------------------------------------------
(* ring_buffer_read, by the reader thread.  Without a block it has nothing *)
(* to read and must not touch memory.                                      *)

ReadBegin(len) ==
    /\ r_pc = "idle"
    /\ r_len' = Min(len, ring_buffer_readable_size)
    /\ r_buf' = << >> /\ r_pc' = "copy"
    /\ UNCHANGED <<owner, mem, m_in, m_out, writer, r_out>>

ReadByte ==
    /\ r_pc = "copy" /\ Len(r_buf) < r_len
    /\ r_buf' = Append(r_buf, mem[Position(m_out, r_len, Len(r_buf))])
    /\ UNCHANGED <<owner, mem, m_in, m_out, writer, r_pc, r_len, r_out>>

\* mutant: the whole readable size is released, also when less was copied
ReadEnd_ReleasesAll ==
    /\ r_pc = "copy" /\ Len(r_buf) = r_len
    /\ m_out' = m_in
    /\ r_out' = r_buf
    /\ r_pc' = "idle" /\ r_buf' = << >> /\ r_len' = 0
    /\ UNCHANGED <<owner, mem, m_in, writer>>

ReadEnd ==
    /\ r_pc = "copy" /\ Len(r_buf) = r_len
    /\ m_out' = (m_out + r_len) % Word
    /\ r_out' = r_buf
    /\ r_pc' = "idle" /\ r_buf' = << >> /\ r_len' = 0
    /\ UNCHANGED <<owner, mem, m_in, writer>>

-----------------------------------------------------------------------------
Next ==
    \/ \E shared \in BOOLEAN : set_shared(shared)
    \/ ring_buffer_reset
    \/ \E n \in Requests : ring_buffer_alloc(n)
    \/ ring_buffer_alloc_fails
    \/ ring_buffer_free
    \/ \E bytes \in Buffers : WriteBegin(bytes)
    \/ WriteByte
    \/ WriteEnd
    \/ \E len \in 0 .. MaxLen : ReadBegin(len)
    \/ ReadByte
    \/ ReadEnd

Spec == Init /\ [][Next]_vars

-----------------------------------------------------------------------------
(* What is checked and proved.                                             *)

(***************************************************************************)
(* Types.  While there is a block, mem covers exactly m_size cells.        *)
(***************************************************************************)
TypeOK ==
    /\ m_buffer \in {"null", "heap", "mmap"}
    /\ m_buffer # "null" => mem \in [0 .. (m_size - 1) -> Cell]
    /\ m_shared \in BOOLEAN
    /\ m_size \in 0 .. (Word - 1)
    /\ m_in \in 0 .. (Word - 1) /\ m_out \in 0 .. (Word - 1)
    /\ w_pc \in {"idle", "copy"} /\ w_buf \in Buffers
    /\ w_len \in 0 .. MaxLen /\ w_k \in 0 .. MaxLen
    /\ r_pc \in {"idle", "copy"} /\ r_len \in 0 .. MaxLen
    /\ r_buf \in Seq(Cell) /\ r_out \in Seq(Cell)

(* The cells of unread bytes, and the cells the write in progress fills.   *)
UnreadCells == {(m_out + i) % m_size : i \in 0 .. (ring_buffer_readable_size - 1)}
WriteCells  == {Position(m_in, w_len, k) : k \in 0 .. (w_len - 1)}

(***************************************************************************)
(* A write in progress fills only free cells: it touches no byte that the  *)
(* reader may be copying at that moment, and stays inside the block        *)
(* (ring_buffer.cpp:71-75).                                                *)
(***************************************************************************)
WriteInFreeCells ==
    w_pc = "copy" /\ w_len > 0 =>
        /\ WriteCells \subseteq 0 .. (m_size - 1)
        /\ WriteCells \cap UnreadCells = {}

(***************************************************************************)
(* No memcpy of a non-empty range runs while m_buffer is NULL, whatever    *)
(* the order of free, failed alloc and later reads; ring_buffer_free keeps *)
(* m_size, so it is the reset of the indices that protects a late read     *)
(* (ring_buffer.cpp:47-56, 92, 103).                                       *)
(***************************************************************************)
NoNullAccess ==
    m_buffer = "null" => w_len = 0 /\ r_len = 0

(***************************************************************************)
(* The block is always released by the allocator it came from: set_shared  *)
(* cannot change sides while a block exists (ring_buffer.h:48-53,          *)
(* ring_buffer.cpp:49-52).                                                 *)
(***************************************************************************)
FreeMatchesAlloc ==
    m_buffer # "null" => m_buffer = IF m_shared THEN "mmap" ELSE "heap"

(***************************************************************************)
(* The inductive invariant: the block is a power of two and the indices    *)
(* never drift apart by more than it holds, although each thread computes  *)
(* with a stale copy of the other's index and both wrap around at Word;    *)
(* the space the writer reserved is still free and holds the bytes it      *)
(* copied; the bytes the reader counted on are still there, and those it   *)
(* copied are the ones it found (ring_buffer.cpp:62, 83, 92, 114).         *)
(***************************************************************************)
BlockInv ==
    /\ m_buffer = "null" => m_in = 0 /\ m_out = 0
    /\ m_buffer = "null" /\ w_pc = "copy" => m_size = 0
    /\ m_buffer # "null" => m_size \in BlockSizes

WriterInv ==
    /\ w_pc = "idle" => w_len = 0 /\ w_k = 0
    /\ w_len <= Len(w_buf) /\ w_k <= w_len
    /\ ring_buffer_readable_size + w_len <= m_size
    /\ \A j \in 0 .. (w_k - 1) : mem[(m_in + j) % m_size] = w_buf[j + 1]

ReaderInv ==
    /\ r_pc = "idle" => r_len = 0
    /\ Len(r_buf) <= r_len /\ r_len <= ring_buffer_readable_size
    /\ \A j \in 0 .. (Len(r_buf) - 1) : mem[(m_out + j) % m_size] = r_buf[j + 1]

Inv == TypeOK /\ BlockInv /\ WriterInv /\ ReaderInv /\ FreeMatchesAlloc

(* The bytes written and not yet read, oldest first.                       *)
Content ==
    IF m_buffer = "null" THEN << >>
    ELSE [i \in 1 .. ring_buffer_readable_size |-> mem[(m_out + i - 1) % m_size]]

Fifo == INSTANCE ByteFifo
          WITH cap   <- IF m_buffer = "null" THEN 0 ELSE m_size,
               queue <- Content,
               out   <- r_out

(***************************************************************************)
(* The ring buffer is a first-in first-out queue of bytes: a write takes   *)
(* effect when m_in is stored and a read when m_out is stored, and what a  *)
(* read hands over is what was written, in order, no byte lost, repeated   *)
(* or read before it was written (ring_buffer.cpp:58-117).                 *)
(***************************************************************************)
ImplementsFifo == Fifo!FifoSpec
=============================================================================
