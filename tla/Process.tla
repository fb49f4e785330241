------------------------------ MODULE Process ------------------------------
(***************************************************************************)
(* Programs that use daemonize, daemon_lock, Thread and Singleton together: *)
(* the main thread of a process starts a second one, both call             *)
(* GetInstance, and the main thread goes into the background, which copies *)
(* the process without its second thread, wherever that is.                *)
(***************************************************************************)
EXTENDS Naturals, FiniteSets

CONSTANTS Pid,
          Threaded,     \* the processes whose program uses threads
          Starts,       \* which processes are started; the others are forked
          Nobody, MaxFds, MaxShort

VARIABLES state, doing, fds, locked, lock, pidfile, named,
          m_instance, m_lock, caller, made, got, short,
          m_tid, m_joinable, owner, body, detached

Threads == {"main", "second"}

ASSUME NobodyAssumption == Nobody \notin Pid /\ Nobody \notin Threads
ASSUME BoundsAssumption == MaxFds \in Nat /\ MaxShort \in Nat

D == INSTANCE Daemon WITH Process <- Pid
S == INSTANCE Singleton WITH Process <- Pid, Thread <- Threads, Free <- Nobody
T == INSTANCE ThreadObject WITH Process <- Pid

daemonVars    == <<state, doing, fds, locked, lock, pidfile, named>>
singletonVars == <<m_instance, m_lock, caller, made, got, short>>
threadVars    == <<m_tid, m_joinable, owner, body, detached>>
vars == <<daemonVars, singletonVars, threadVars>>

Init == (\E up \in Starts : D!DaemonInit(up)) /\ S!SingletonInit /\ T!ThreadInit

\* the main thread of p is in no call
MainIdle(p) ==
    state[p] = "alive" /\ doing[p] = "idle" /\ owner[p] = "idle" /\ caller[p]["main"] = "idle"

-----------------------------------------------------------------------------
\* what a process begins by itself

CallDaemonLock(p) ==
    /\ MainIdle(p) /\ D!daemon_lock(p)
    /\ UNCHANGED <<singletonVars, threadVars>>

\* a crash, or exit
Die(p) == D!die(p) /\ S!SingletonEnded(p) /\ T!ThreadEnded(p)

Fork(p, q) ==
    /\ MainIdle(p) /\ (p \in Threaded <=> q \in Threaded)
    /\ D!daemonize(p, q) /\ S!SingletonForked(p, q) /\ T!ThreadForked(p, q)

CallGetInstance(p, t) ==
    /\ p \in Threaded /\ state[p] = "alive"
    /\ IF t = "main" THEN MainIdle(p) ELSE body[p] = "thread_run"
    /\ S!GetInstance(p, t)
    /\ UNCHANGED <<daemonVars, threadVars>>

CallThread(p) ==
    /\ p \in Threaded /\ MainIdle(p)
    /\ (\E ok \in BOOLEAN : T!run(p, ok)) \/ T!detach(p) \/ T!join(p)
    /\ UNCHANGED <<daemonVars, singletonVars>>

\* the steps of the calls

Main(p) ==
    /\ state[p] = "alive"
    /\ \/ D!daemonize_exit(p) /\ S!SingletonEnded(p) /\ T!ThreadEnded(p)
       \/ D!DaemonStep(p) /\ UNCHANGED <<singletonVars, threadVars>>
       \/ S!GetInstanceStep(p, "main") /\ UNCHANGED <<daemonVars, threadVars>>
       \/ T!OwnerStep(p) /\ UNCHANGED <<daemonVars, singletonVars>>

Second(p) ==
    /\ state[p] = "alive"
    /\ \/ S!GetInstanceStep(p, "second") /\ UNCHANGED <<daemonVars, threadVars>>
       \/ /\ \/ caller[p]["second"] = "idle" /\ T!thread_func_post(p)
             \/ T!thread_func_exit(p)
          /\ UNCHANGED <<daemonVars, singletonVars>>

Next ==
    \/ \E p \in Pid : CallDaemonLock(p) \/ Die(p) \/ CallThread(p) \/ Main(p) \/ Second(p)
    \/ \E p, q \in Pid : Fork(p, q)
    \/ \E p \in Pid, t \in Threads : CallGetInstance(p, t)

Spec == Init /\ [][Next]_vars

\* the scheduler runs every thread that can go on
FairSpec == Spec /\ \A p \in Pid : WF_vars(Main(p)) /\ WF_vars(Second(p))

-----------------------------------------------------------------------------
TypeOK == D!DaemonTypeOK /\ S!SingletonTypeOK /\ T!ThreadTypeOK

(***************************************************************************)
(* The types hold, and "so that only one instance of a daemon starts"      *)
(* (daemon.h:9), as far as daemon_lock sees to it: whoever has a           *)
(* descriptor from daemon_lock, obtained by itself or by the process it is *)
(* a copy of, belongs to the process that has the lock, as long as the one *)
(* that called daemon_lock lives.  So at most one such family runs, and    *)
(* outside of daemon_lock the file names its head if ftruncate and write   *)
(* worked, over every order of attempts, deaths and forks, and whatever    *)
(* those refused do (daemon.cpp:58, 71-98).                                *)
(* It says nothing of a copy whose parent is gone: daemonize after         *)
(* daemon_lock frees the lock when the parent exits, and another process   *)
(* gets it while the copy runs, in spite of daemon.h:9                     *)
(* (daemon.cpp:20, 71).                                                    *)
(***************************************************************************)
OneDaemon ==
    /\ TypeOK
    /\ \A p, q \in Pid :
          state[p] = "alive" /\ state[q] = "alive" /\ locked[p] = q =>
              /\ lock = q
              /\ named[q] /\ doing[q] \notin {"truncate", "write"} => pidfile = q

(***************************************************************************)
(* "Thread-safe singleton implementation" (singleton.h:3): whatever        *)
(* threads call GetInstance at once, before and after a fork, and however  *)
(* often there is no memory, one object is made and nobody is given        *)
(* another one (singleton.cpp:9-19).                                       *)
(***************************************************************************)
OneInstance == \A p \in Pid : made[p] <= 1 /\ Cardinality(got[p]) <= 1

\* m_lock was held by the second thread when the process was forked
Orphaned(p) == body[p] = "absent" /\ m_lock[p] = "second"

(***************************************************************************)
(* Whoever calls GetInstance gets an answer, unless its process dies       *)
(* first, and so does whoever calls join once thread_run has returned: the *)
(* threads do not wait for each other, nor for one that is detached.  The  *)
(* exception is a process that was forked while the other thread had       *)
(* m_lock: nobody will ever unlock the copy                                *)
(* (singleton.cpp:11, thread.h:31-45, daemon.cpp:14).                      *)
(***************************************************************************)
CallsReturn ==
    \A p \in Threaded :
        /\ \A t \in Threads : caller[p][t] # "idle" ~>
               caller[p][t] = "idle" \/ state[p] = "dead" \/ Orphaned(p)
        /\ owner[p] = "join" /\ body[p] # "thread_run" ~> owner[p] = "idle" \/ state[p] = "dead"

=============================================================================
