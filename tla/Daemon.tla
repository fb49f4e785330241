------------------------------- MODULE Daemon -------------------------------
(***************************************************************************)
(* daemonize and daemon_lock (daemon.cpp): processes that go into the      *)
(* background and compete for a lock file, and that may die at any step.   *)
(* The kernel's part: a record lock belongs to a process, is not inherited *)
(* over fork and goes with the process; descriptors are inherited.         *)
(***************************************************************************)
EXTENDS Naturals

CONSTANTS Process,
          Nobody,
          MaxFds        \* bound: descriptors of the lock file in a process

VARIABLES state,        \* of each process, "none", "alive" or "dead"
          doing,        \* of each process, where in daemonize or daemon_lock
          fds,          \* how many descriptors of the lock file it has open
          locked,       \* Nobody, or who got the descriptor it has from
                        \* daemon_lock: the process itself or the one it is a copy of
          lock,         \* who has the record lock
          pidfile,      \* whose pid is in the file, Nobody's when it is empty
                        \* or names no process
          named         \* of each process, whether its last ftruncate and write,
                        \* whose results nobody looks at, have worked

\* the processes in up have been started; more come by fork
DaemonInit(up) ==
    /\ state = [p \in Process |-> IF p \in up THEN "alive" ELSE "none"]
    /\ doing = [p \in Process |-> "idle"]
    /\ fds = [p \in Process |-> 0]
    /\ locked = [p \in Process |-> Nobody]
    /\ lock = Nobody /\ pidfile = Nobody
    /\ named = [p \in Process |-> FALSE]

\* by _exit or by a crash; the kernel closes what is open
die(p) ==
    /\ state[p] = "alive"
    /\ state' = [state EXCEPT ![p] = "dead"]
    /\ doing' = [doing EXCEPT ![p] = "idle"]
    /\ fds' = [fds EXCEPT ![p] = 0]
    /\ locked' = [locked EXCEPT ![p] = Nobody]
    /\ lock' = IF lock = p THEN Nobody ELSE lock
    /\ named' = [named EXCEPT ![p] = FALSE]
    /\ UNCHANGED pidfile

\* fork; when it fails the call returns and nothing has changed
daemonize(p, q) ==
    /\ state[p] = "alive" /\ state[q] = "none" /\ doing[p] = "idle"
    /\ state' = [state EXCEPT ![q] = "alive"]
    /\ doing' = [doing EXCEPT ![p] = "_exit", ![q] = "setsid"]
    /\ fds' = [fds EXCEPT ![q] = fds[p]]
    /\ locked' = [locked EXCEPT ![q] = locked[p]]
    /\ UNCHANGED <<lock, pidfile, named>>

\* the parent
daemonize_exit(p) == doing[p] = "_exit" /\ die(p)

\* the child: a session, a directory, descriptors 0 to 2; what has been done
\* stays when a later step fails
daemonize_child(p) ==
    /\ state[p] = "alive" /\ doing[p] = "setsid"
    /\ doing' = [doing EXCEPT ![p] = "idle"]
    /\ UNCHANGED <<state, fds, locked, lock, pidfile, named>>

\* mutant: the file is emptied when it is opened
daemon_lock_Truncates(p) ==
    /\ state[p] = "alive" /\ doing[p] = "idle"
    /\ fds[p] < MaxFds
    /\ fds' = [fds EXCEPT ![p] = @ + 1]
    /\ pidfile' = Nobody
    /\ doing' = [doing EXCEPT ![p] = "setlk"]
    /\ UNCHANGED <<state, locked, lock, named>>

\* open, with no descriptor left the call returns -1
daemon_lock(p) ==
    /\ state[p] = "alive" /\ doing[p] = "idle"
    /\ fds[p] < MaxFds
    /\ fds' = [fds EXCEPT ![p] = @ + 1]
    /\ doing' = [doing EXCEPT ![p] = "setlk"]
    /\ UNCHANGED <<state, locked, lock, pidfile, named>>

\* F_SETLK; it may also fail for other reasons.  The descriptor stays open
daemon_lock_setlk(p) ==
    /\ state[p] = "alive" /\ doing[p] = "setlk"
    /\ \/ /\ lock \in {Nobody, p}
          /\ lock' = p
          /\ doing' = [doing EXCEPT ![p] = "truncate"]
       \/ /\ doing' = [doing EXCEPT ![p] = "idle"]
          /\ UNCHANGED lock
    /\ UNCHANGED <<state, fds, locked, pidfile, named>>

\* ftruncate; the call goes on whether it works or not
daemon_lock_truncate(p) ==
    /\ state[p] = "alive" /\ doing[p] = "truncate"
    /\ \E ok \in BOOLEAN :
          /\ pidfile' = IF ok THEN Nobody ELSE pidfile
          /\ named' = [named EXCEPT ![p] = ok]
    /\ doing' = [doing EXCEPT ![p] = "write"]
    /\ UNCHANGED <<state, fds, locked, lock>>

\* write, whole, not at all or in part, and over what was not truncated; the
\* call returns the descriptor in any case
daemon_lock_write(p) ==
    /\ state[p] = "alive" /\ doing[p] = "write"
    /\ \E ok \in BOOLEAN :
          /\ pidfile' \in IF ok /\ named[p] THEN {p} ELSE {p, pidfile, Nobody}
          /\ named' = [named EXCEPT ![p] = ok /\ named[p]]
    /\ locked' = [locked EXCEPT ![p] = p]
    /\ doing' = [doing EXCEPT ![p] = "idle"]
    /\ UNCHANGED <<state, fds, lock>>

DaemonStep(p) ==
    \/ daemonize_child(p)
    \/ daemon_lock_setlk(p) \/ daemon_lock_truncate(p) \/ daemon_lock_write(p)

DaemonTypeOK ==
    /\ state \in [Process -> {"none", "alive", "dead"}]
    /\ doing \in [Process -> {"idle", "_exit", "setsid", "setlk", "truncate", "write"}]
    /\ fds \in [Process -> 0 .. MaxFds]
    /\ locked \in [Process -> Process \cup {Nobody}]
    /\ lock \in Process \cup {Nobody} /\ pidfile \in Process \cup {Nobody}
    /\ named \in [Process -> BOOLEAN]

=============================================================================
