---------------------------- MODULE SharedQueue ----------------------------
(***************************************************************************)
(* LibSys::SharedQueue (shared_queue.h, shared_queue.cpp): a ring buffer   *)
(* and a non-blocking pipe.  write appends a message and puts one byte     *)
(* into the pipe, so that the reader's poll wakes up; read takes a message *)
(* and one byte out of the pipe.                                           *)
(*                                                                         *)
(* The ring buffer is that of RingBuffer.tla, step by step: between the    *)
(* check of the size, the steps of the ring buffer and the pipe call the   *)
(* other thread may run.  As for the ring buffer, callers run init and     *)
(* uninit while no other call is in progress and do not write after        *)
(* uninit.                                                                 *)
(***************************************************************************)
EXTENDS RingBuffer

CONSTANTS Usages,    \* the programs that use the queue: see usage
          PipeCap    \* bytes the pipe holds (65536 on Linux)

ASSUME UsagesAssumption ==
    Usages \subseteq [sizes : SUBSET (0 .. MaxLen), flags : SUBSET BOOLEAN, requests : SUBSET Requests]
ASSUME PipeCapAssumption == PipeCap \in Nat \ {0}

VARIABLES
    usage,      \* of this program, the message sizes it passes to read and
                \* write, the values for write_notify and clear_notify, and
                \* the sizes it passes to init
    m_pipefd,   \* TRUE while both ends of the pipe are open
    tokens,     \* bytes in the pipe
    i_pc,       \* inside init: "piped", then "shared"; otherwise "idle"
    qw,         \* write: "idle", "checked", "copy", "notify"
    w_msg,      \* the caller's message
    w_flag,     \* write_notify
    qr,         \* read: "idle", "checked", "copy", "clear"
    r_size,     \* the size asked for
    r_flag,     \* clear_notify
    dropped,    \* history: a notification found the pipe full
    unpolled,   \* history: a read began while the pipe was empty
    overtaken   \* history: a read found the pipe empty when it cleared

pipe      == <<m_pipefd, tokens>>
qwriter   == <<qw, w_msg, w_flag>>
qreader   == <<qr, r_size, r_flag>>
history   == <<dropped, unpolled, overtaken>>
queueVars == <<usage, vars, pipe, i_pc, qwriter, qreader, history>>

QueueInit ==
    /\ usage \in Usages
    /\ Init
    /\ m_pipefd = FALSE /\ tokens = 0 /\ i_pc = "idle"
    /\ qw = "idle" /\ w_msg = << >> /\ w_flag = FALSE
    /\ qr = "idle" /\ r_size = 0 /\ r_flag = FALSE
    /\ dropped = FALSE /\ unpolled = FALSE /\ overtaken = FALSE

NoCall == qw = "idle" /\ qr = "idle" /\ i_pc = "idle"

-----------------------------------------------------------------------------
(* init and uninit.                                                        *)

\* an initialised queue is left alone (return 1), pipe2 may fail (return -1)
init_refused == NoCall /\ UNCHANGED queueVars

init_pipe ==
    /\ NoCall /\ ~ m_pipefd
    /\ m_pipefd' = TRUE /\ tokens' = 0 /\ i_pc' = "piped"
    /\ UNCHANGED <<usage, vars, qwriter, qreader, history>>

init_shared(shared) ==
    /\ i_pc = "piped"
    /\ set_shared(shared)
    /\ i_pc' = "shared"
    /\ UNCHANGED <<usage, pipe, qwriter, qreader, history>>

init_alloc(size) ==
    /\ i_pc = "shared"
    /\ ring_buffer_alloc(size)
    /\ i_pc' = "idle"
    /\ UNCHANGED <<usage, pipe, qwriter, qreader, history>>

\* mutant: the pipe stays open
init_alloc_fails_KeepsPipe ==
    /\ i_pc = "shared"
    /\ ring_buffer_alloc_fails
    /\ i_pc' = "idle"
    /\ UNCHANGED <<usage, pipe, qwriter, qreader, history>>

\* no memory, or a size that rounds to 0: the pipe is closed again
init_alloc_fails ==
    /\ i_pc = "shared"
    /\ ring_buffer_alloc_fails
    /\ i_pc' = "idle"
    /\ m_pipefd' = FALSE /\ tokens' = 0
    /\ UNCHANGED <<usage, qwriter, qreader, history>>

uninit ==
    /\ NoCall
    /\ ring_buffer_free
    /\ m_pipefd' = FALSE /\ tokens' = 0
    /\ dropped' = FALSE /\ unpolled' = FALSE /\ overtaken' = FALSE
    /\ UNCHANGED <<usage, i_pc, qwriter, qreader>>

-----------------------------------------------------------------------------
get_readable_size  == ring_buffer_readable_size
get_writeable_size == (m_size - get_readable_size) % Word

(* write, by the writer thread.                                            *)

write_refused(size) ==
    /\ qw = "idle" /\ i_pc = "idle"
    /\ get_writeable_size < size
    /\ UNCHANGED queueVars

\* mutant: any free byte will do
write_check_AnySpace(bytes, flag) ==
    /\ qw = "idle" /\ i_pc = "idle" /\ m_pipefd
    /\ get_writeable_size > 0
    /\ qw' = "checked" /\ w_msg' = bytes /\ w_flag' = flag
    /\ UNCHANGED <<usage, vars, pipe, i_pc, qreader, history>>

write_check(bytes, flag) ==
    /\ qw = "idle" /\ i_pc = "idle" /\ m_pipefd
    /\ get_writeable_size >= Len(bytes)
    /\ qw' = "checked" /\ w_msg' = bytes /\ w_flag' = flag
    /\ UNCHANGED <<usage, vars, pipe, i_pc, qreader, history>>

write_begin ==
    /\ qw = "checked"
    /\ WriteBegin(w_msg)
    /\ qw' = "copy" /\ w_msg' = << >>
    /\ UNCHANGED <<usage, pipe, i_pc, w_flag, qreader, history>>

write_byte ==
    /\ WriteByte
    /\ UNCHANGED <<usage, pipe, i_pc, qwriter, qreader, history>>

\* nothing was appended: return -1 without notification
write_end ==
    /\ WriteEnd
    /\ qw' = IF w_len # 0 /\ w_flag THEN "notify" ELSE "idle"
    /\ w_flag' = FALSE
    /\ UNCHANGED <<usage, pipe, i_pc, w_msg, qreader, history>>

\* mutant: one byte in the pipe is thought to be enough
write_notify_Once ==
    /\ qw = "notify"
    /\ qw' = "idle"
    /\ tokens' = 1
    /\ UNCHANGED <<usage, vars, m_pipefd, i_pc, w_msg, w_flag, qreader, history>>

\* the result of ::write is ignored: a full pipe takes no further byte
write_notify ==
    /\ qw = "notify"
    /\ qw' = "idle"
    /\ tokens' = IF tokens < PipeCap THEN tokens + 1 ELSE tokens
    /\ dropped' = (dropped \/ tokens = PipeCap)
    /\ UNCHANGED <<usage, vars, m_pipefd, i_pc, w_msg, w_flag, qreader, unpolled, overtaken>>

-----------------------------------------------------------------------------
(* read, by the reader thread; it may come after uninit.                   *)

read_refused(size) ==
    /\ qr = "idle" /\ i_pc = "idle"
    /\ get_readable_size < size
    /\ UNCHANGED queueVars

read_check(size, flag) ==
    /\ qr = "idle" /\ i_pc = "idle"
    /\ get_readable_size >= size
    /\ qr' = "checked" /\ r_size' = size /\ r_flag' = flag
    /\ unpolled' = (unpolled \/ tokens = 0)
    /\ UNCHANGED <<usage, vars, pipe, i_pc, qwriter, dropped, overtaken>>

read_begin ==
    /\ qr = "checked"
    /\ ReadBegin(r_size)
    /\ qr' = "copy"
    /\ UNCHANGED <<usage, pipe, i_pc, qwriter, r_size, r_flag, history>>

read_byte ==
    /\ ReadByte
    /\ UNCHANGED <<usage, pipe, i_pc, qwriter, qreader, history>>

\* nothing was taken: return -1 and leave the pipe alone
read_end ==
    /\ ReadEnd
    /\ qr' = IF r_len # 0 /\ r_flag THEN "clear" ELSE "idle"
    /\ r_size' = 0 /\ r_flag' = FALSE
    /\ UNCHANGED <<usage, pipe, i_pc, qwriter, history>>

\* mutant: the byte stays in the pipe
read_clear_Forgets ==
    /\ qr = "clear"
    /\ qr' = "idle"
    /\ UNCHANGED <<usage, vars, pipe, i_pc, qwriter, r_size, r_flag, history>>

\* mutant: the pipe is drained instead of giving up one byte
read_clear_Drains ==
    /\ qr = "clear"
    /\ qr' = "idle"
    /\ tokens' = 0
    /\ overtaken' = (overtaken \/ tokens = 0)
    /\ UNCHANGED <<usage, vars, m_pipefd, i_pc, qwriter, r_size, r_flag, dropped, unpolled>>

\* the result of ::read is ignored: an empty pipe gives nothing
read_clear ==
    /\ qr = "clear"
    /\ qr' = "idle"
    /\ tokens' = IF tokens > 0 THEN tokens - 1 ELSE 0
    /\ overtaken' = (overtaken \/ tokens = 0)
    /\ UNCHANGED <<usage, vars, m_pipefd, i_pc, qwriter, r_size, r_flag, dropped, unpolled>>

-----------------------------------------------------------------------------
OwnerNext ==
    \/ init_refused
    \/ init_pipe
    \/ \E shared \in BOOLEAN : init_shared(shared)
    \/ \E size \in usage.requests : init_alloc(size)
    \/ init_alloc_fails
    \/ uninit

WriterNext ==
    \/ \E size \in usage.sizes : write_refused(size)
    \/ \E size \in usage.sizes : \E bytes \in [1 .. size -> Byte] :
          \E flag \in usage.flags : write_check(bytes, flag)
    \/ write_begin
    \/ write_byte
    \/ write_end
    \/ write_notify

ReaderNext ==
    \/ \E size \in usage.sizes : read_refused(size)
    \/ \E size \in usage.sizes, flag \in usage.flags : read_check(size, flag)
    \/ read_begin
    \/ read_byte
    \/ read_end
    \/ read_clear

QueueNext == OwnerNext \/ WriterNext \/ ReaderNext

QueueSpec == QueueInit /\ [][QueueNext]_queueVars

(***************************************************************************)
(* The scheduler lets a thread that is inside a call finish it, and the    *)
(* reader's event loop calls read whenever poll reports the pipe.  Nobody  *)
(* is obliged to write, to initialise or to shut down.                     *)
(***************************************************************************)
Fairness ==
    /\ WF_queueVars(write_begin \/ write_byte \/ write_end \/ write_notify)
    /\ WF_queueVars(\/ \E size \in usage.sizes, flag \in usage.flags : tokens > 0 /\ read_check(size, flag)
                    \/ read_begin \/ read_byte \/ read_end \/ read_clear)

FairSpec == QueueSpec /\ Fairness

-----------------------------------------------------------------------------
QueueTypeOK ==
    /\ usage \in Usages /\ TypeOK
    /\ m_pipefd \in BOOLEAN /\ tokens \in 0 .. PipeCap
    /\ i_pc \in {"idle", "piped", "shared"}
    /\ qw \in {"idle", "checked", "copy", "notify"}
    /\ w_msg \in Buffers /\ w_flag \in BOOLEAN
    /\ qr \in {"idle", "checked", "copy", "clear"}
    /\ r_size \in 0 .. MaxLen /\ r_flag \in BOOLEAN
    /\ dropped \in BOOLEAN /\ unpolled \in BOOLEAN /\ overtaken \in BOOLEAN

(***************************************************************************)
(* A message is written and read whole or not at all, although the check   *)
(* of the size and the transfer see the other thread's index at different  *)
(* moments (shared_queue.cpp:37-40, 56-59).                                *)
(***************************************************************************)
AllOrNothing ==
    /\ qw = "copy" => w_len = Len(w_buf)
    /\ qr = "copy" => r_len = r_size

(***************************************************************************)
(* The types hold, and between calls the pipe is open exactly when there   *)
(* is a block, whichever step of init failed; nothing leaks and a read     *)
(* after uninit is refused (shared_queue.cpp:13-22, 29-30).                *)
(***************************************************************************)
PipeMatchesBlock ==
    /\ QueueTypeOK
    /\ i_pc = "idle" => /\ m_pipefd <=> m_buffer # "null"
                        /\ ~ m_pipefd => tokens = 0 /\ get_readable_size = 0

\* every message has the same size, not zero, and is announced; every read clears
Uniform == usage.flags = {TRUE} /\ \E size \in 1 .. MaxLen : usage.sizes = {size}

MessageWaiting == \A size \in usage.sizes : size <= get_readable_size

(***************************************************************************)
(* No lost wakeup: when both threads are outside their calls and a message *)
(* is waiting, the pipe is readable, unless a notification met a full pipe *)
(* earlier.  For queues whose messages all have one size                   *)
(* (shared_queue.cpp:45-49, 64-68).                                        *)
(***************************************************************************)
NoLostWakeup ==
    Uniform /\ NoCall /\ m_pipefd /\ MessageWaiting => tokens > 0 \/ dropped

(***************************************************************************)
(* No spurious wakeup: when both threads are outside their calls and the   *)
(* pipe is readable, a message is waiting, unless a read overtook the      *)
(* notification of the message it took; after such a read the pipe stays   *)
(* readable for ever, because a refused read clears nothing.  A reader     *)
(* that has read only when poll reported the pipe never overtakes, and is  *)
(* not refused when poll reports it again, whatever the writer is doing    *)
(* (shared_queue.cpp:37, 42-49).                                           *)
(***************************************************************************)
PollIsExact ==
    Uniform =>
        /\ NoCall /\ tokens > 0 => MessageWaiting \/ overtaken
        /\ ~ unpolled => ~ overtaken /\ (qr = "idle" /\ tokens > 0 => MessageWaiting)

(***************************************************************************)
(* A waiting message is read when the reader serves every wakeup, unless   *)
(* the queue is shut down or a notification met a full pipe                *)
(* (shared_queue.cpp:35-71).                                               *)
(***************************************************************************)
Delivery ==
    (Uniform /\ m_pipefd /\ MessageWaiting) ~> (~ m_pipefd \/ qr = "copy" \/ dropped)

=============================================================================
