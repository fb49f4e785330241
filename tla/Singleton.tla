----------------------------- MODULE Singleton -----------------------------
(***************************************************************************)
(* The double-checked lock of Singleton::GetInstance (singleton.cpp), in   *)
(* several processes: every process has its own m_instance and m_lock, and *)
(* fork copies both.  An object is known by its number.  The class has no  *)
(* members, so a pointer that is seen before the constructor has run does  *)
(* no harm; new (std::nothrow) may return NULL.                            *)
(***************************************************************************)
EXTENDS Naturals

CONSTANTS Process, Thread,
          Free,         \* m_lock is not held
          MaxShort      \* bound: how often a process is short of memory

NULL == 0

VARIABLES m_instance,   \* of each process, NULL or the object's number
          m_lock,       \* of each process, the thread that holds it, or Free
          caller,       \* of each process and thread, where in GetInstance
          made,         \* objects made in the process or before it was forked
          got,          \* what GetInstance returned in the process, NULL apart
          short         \* how often new returned NULL

SingletonInit ==
    /\ m_instance = [p \in Process |-> NULL]
    /\ m_lock = [p \in Process |-> Free]
    /\ caller = [p \in Process |-> [t \in Thread |-> "idle"]]
    /\ made = [p \in Process |-> 0]
    /\ got = [p \in Process |-> {}]
    /\ short = [p \in Process |-> 0]

\* the first look at m_instance, without the lock
GetInstance(p, t) ==
    /\ caller[p][t] = "idle"
    /\ caller' = [caller EXCEPT ![p][t] = IF m_instance[p] = NULL THEN "lock" ELSE "return"]
    /\ UNCHANGED <<m_instance, m_lock, made, got, short>>

GetInstance_lock(p, t) ==
    /\ caller[p][t] = "lock" /\ m_lock[p] = Free
    /\ m_lock' = [m_lock EXCEPT ![p] = t]
    /\ caller' = [caller EXCEPT ![p][t] = "look"]
    /\ UNCHANGED <<m_instance, made, got, short>>

\* mutant: no second look
GetInstance_look_Unchecked(p, t) ==
    /\ caller[p][t] = "look"
    /\ caller' = [caller EXCEPT ![p][t] = "new"]
    /\ UNCHANGED <<m_instance, m_lock, made, got, short>>

\* the second look, with the lock
GetInstance_look(p, t) ==
    /\ caller[p][t] = "look"
    /\ caller' = [caller EXCEPT ![p][t] = IF m_instance[p] = NULL THEN "new" ELSE "unlock"]
    /\ UNCHANGED <<m_instance, m_lock, made, got, short>>

\* ok: there is memory
GetInstance_new(p, t, ok) ==
    /\ caller[p][t] = "new"
    /\ IF ok
       THEN /\ made' = [made EXCEPT ![p] = @ + 1]
            /\ m_instance' = [m_instance EXCEPT ![p] = made[p] + 1]
            /\ UNCHANGED short
       ELSE /\ short[p] < MaxShort
            /\ short' = [short EXCEPT ![p] = @ + 1]
            /\ UNCHANGED <<m_instance, made>>
    /\ caller' = [caller EXCEPT ![p][t] = "unlock"]
    /\ UNCHANGED <<m_lock, got>>

GetInstance_unlock(p, t) ==
    /\ caller[p][t] = "unlock"
    /\ m_lock' = [m_lock EXCEPT ![p] = Free]
    /\ caller' = [caller EXCEPT ![p][t] = "return"]
    /\ UNCHANGED <<m_instance, made, got, short>>

\* m_instance is read once more
GetInstance_return(p, t) ==
    /\ caller[p][t] = "return"
    /\ got' = [got EXCEPT ![p] = @ \cup ({m_instance[p]} \ {NULL})]
    /\ caller' = [caller EXCEPT ![p][t] = "idle"]
    /\ UNCHANGED <<m_instance, m_lock, made, short>>

GetInstanceStep(p, t) ==
    \/ GetInstance_lock(p, t)
    \/ GetInstance_look(p, t)
    \/ \E ok \in BOOLEAN : GetInstance_new(p, t, ok)
    \/ GetInstance_unlock(p, t)
    \/ GetInstance_return(p, t)

\* q is a copy of p in which only the thread that forked goes on
SingletonForked(p, q) ==
    /\ m_instance' = [m_instance EXCEPT ![q] = m_instance[p]]
    /\ m_lock' = [m_lock EXCEPT ![q] = m_lock[p]]
    /\ made' = [made EXCEPT ![q] = made[p]]
    /\ got' = [got EXCEPT ![q] = got[p]]
    /\ short' = [short EXCEPT ![q] = short[p]]
    /\ UNCHANGED caller

SingletonEnded(p) ==
    /\ m_instance' = [m_instance EXCEPT ![p] = NULL]
    /\ m_lock' = [m_lock EXCEPT ![p] = Free]
    /\ caller' = [caller EXCEPT ![p] = [t \in Thread |-> "idle"]]
    /\ made' = [made EXCEPT ![p] = 0]
    /\ got' = [got EXCEPT ![p] = {}]
    /\ short' = [short EXCEPT ![p] = 0]

SingletonTypeOK ==
    /\ m_instance \in [Process -> Nat]
    /\ m_lock \in [Process -> Thread \cup {Free}]
    /\ caller \in [Process -> [Thread -> {"idle", "lock", "look", "new", "unlock", "return"}]]
    /\ made \in [Process -> Nat] /\ got \in [Process -> SUBSET Nat]
    /\ short \in [Process -> 0 .. MaxShort]

=============================================================================
