---------------------------- MODULE ThreadObject ----------------------------
(***************************************************************************)
(* One object of LibSys::Thread (thread.h, thread.cpp) in every process:   *)
(* its owner calls run, detach and join, and thread_func runs in the new   *)
(* thread.  pthread_create stores m_tid before the thread starts, as glibc *)
(* does.  The owner runs an object once, and does not detach or join what  *)
(* it has joined: join does not clear m_joinable.                          *)
(***************************************************************************)
CONSTANT Process

VARIABLES m_tid,        \* of each process, whether m_tid names a thread
          m_joinable,
          owner,        \* where the owner of the object is in a call
          body,         \* the new thread
          detached      \* pthread_detach has been called

ThreadInit ==
    /\ m_tid = [p \in Process |-> FALSE]
    /\ m_joinable = [p \in Process |-> TRUE]
    /\ owner = [p \in Process |-> "idle"]
    /\ body = [p \in Process |-> "none"]
    /\ detached = [p \in Process |-> FALSE]

\* run; thread_pre_run may fail
run(p, ok) ==
    /\ owner[p] = "idle" /\ body[p] = "none"
    /\ owner' = [owner EXCEPT ![p] = IF ok THEN "create" ELSE "idle"]
    /\ UNCHANGED <<m_tid, m_joinable, body, detached>>

\* pthread_create, which may fail
run_create(p, ok) ==
    /\ owner[p] = "create"
    /\ owner' = [owner EXCEPT ![p] = "idle"]
    /\ m_tid' = [m_tid EXCEPT ![p] = ok]
    /\ body' = [body EXCEPT ![p] = IF ok THEN "thread_run" ELSE "none"]
    /\ UNCHANGED <<m_joinable, detached>>

\* thread_run has returned
thread_func_post(p) ==
    /\ body[p] = "thread_run"
    /\ body' = [body EXCEPT ![p] = "thread_post_run"]
    /\ UNCHANGED <<m_tid, m_joinable, owner, detached>>

thread_func_exit(p) ==
    /\ body[p] = "thread_post_run"
    /\ body' = [body EXCEPT ![p] = IF detached[p] THEN "reaped" ELSE "exited"]
    /\ UNCHANGED <<m_tid, m_joinable, owner, detached>>

\* the owner has a thread that it has not joined
HasThread(p) ==
    /\ owner[p] = "idle" /\ m_tid[p]
    /\ body[p] \notin {"none", "absent"}
    /\ body[p] = "reaped" => detached[p]

\* mutant: m_joinable is not cleared
detach_KeepsJoinable(p) ==
    /\ HasThread(p) /\ m_joinable[p]
    /\ detached' = [detached EXCEPT ![p] = TRUE]
    /\ body' = [body EXCEPT ![p] = IF @ = "exited" THEN "reaped" ELSE @]
    /\ UNCHANGED <<m_tid, m_joinable, owner>>

detach(p) ==
    /\ HasThread(p) /\ m_joinable[p]
    /\ detached' = [detached EXCEPT ![p] = TRUE]
    /\ body' = [body EXCEPT ![p] = IF @ = "exited" THEN "reaped" ELSE @]
    /\ m_joinable' = [m_joinable EXCEPT ![p] = FALSE]
    /\ UNCHANGED <<m_tid, owner>>

\* join, which returns -1 at once when the object is not joinable
join(p) ==
    /\ HasThread(p) /\ m_joinable[p]
    /\ owner' = [owner EXCEPT ![p] = "join"]
    /\ UNCHANGED <<m_tid, m_joinable, body, detached>>

\* pthread_join returns
join_return(p) ==
    /\ owner[p] = "join" /\ body[p] = "exited"
    /\ owner' = [owner EXCEPT ![p] = "idle"]
    /\ body' = [body EXCEPT ![p] = "reaped"]
    /\ UNCHANGED <<m_tid, m_joinable, detached>>

OwnerStep(p) == (\E ok \in BOOLEAN : run_create(p, ok)) \/ join_return(p)

\* q is a copy of p without p's other threads
ThreadForked(p, q) ==
    /\ m_tid' = [m_tid EXCEPT ![q] = m_tid[p]]
    /\ m_joinable' = [m_joinable EXCEPT ![q] = m_joinable[p]]
    /\ body' = [body EXCEPT ![q] = IF body[p] = "none" THEN "none" ELSE "absent"]
    /\ UNCHANGED <<owner, detached>>

ThreadEnded(p) ==
    /\ m_tid' = [m_tid EXCEPT ![p] = FALSE]
    /\ m_joinable' = [m_joinable EXCEPT ![p] = TRUE]
    /\ owner' = [owner EXCEPT ![p] = "idle"]
    /\ body' = [body EXCEPT ![p] = "none"]
    /\ detached' = [detached EXCEPT ![p] = FALSE]

ThreadTypeOK ==
    /\ m_tid \in [Process -> BOOLEAN] /\ m_joinable \in [Process -> BOOLEAN]
    /\ owner \in [Process -> {"idle", "create", "join"}]
    /\ body \in [Process -> {"none", "thread_run", "thread_post_run", "exited", "reaped", "absent"}]
    /\ detached \in [Process -> BOOLEAN]

=============================================================================
