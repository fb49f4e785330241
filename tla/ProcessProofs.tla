---------------------------- MODULE ProcessProofs ----------------------------
(***************************************************************************)
(* One daemon and one object, for every set of processes, whichever of     *)
(* them are started, forked or killed, and however often new fails.        *)
(***************************************************************************)
EXTENDS Process, FiniteSetTheorems, TLAPS

(***************************************************************************)
(* The inductive invariant.  The file is written only by the process that  *)
(* has the record lock, and nobody's descriptor comes from a process that  *)
(* is still to be forked, so a fresh child cannot pass for the daemon; the *)
(* one a copy comes from has its own descriptor as long as it lives.       *)
(***************************************************************************)
DaemonInv ==
    /\ \A p \in Pid : doing[p] \in {"truncate", "write"} => lock = p
    /\ \A p, q \in Pid : locked[p] = q => state[q] # "none"
    /\ \A p, q \in Pid : locked[p] = q /\ state[q] = "alive" => locked[q] = q
    /\ \A p \in Pid : state[p] = "alive" /\ locked[p] = p =>
          /\ lock = p
          /\ named[p] /\ doing[p] \notin {"truncate", "write"} => pidfile = p

(***************************************************************************)
(* Between the second look and the unlock a thread has m_lock, and what it *)
(* saw there is still true when it makes the object.  The number of the    *)
(* object tells how many were made.                                        *)
(***************************************************************************)
SingletonInv ==
    /\ \A p \in Pid, t \in Threads :
          /\ caller[p][t] \in {"look", "new", "unlock"} => m_lock[p] = t
          /\ caller[p][t] = "new" => m_instance[p] = 0
          /\ state[p] # "alive" => caller[p][t] = "idle"
    /\ \A p \in Pid : /\ made[p] \in {0, 1} /\ m_instance[p] = made[p]
                      /\ got[p] \subseteq {made[p]} \ {0}

ProcessInv == TypeOK /\ DaemonInv /\ SingletonInv

-----------------------------------------------------------------------------
(* The lock file.                                                          *)

DaemonPart == D!DaemonTypeOK /\ DaemonInv

LEMMA LockFileStep ==
    ASSUME DaemonPart, NEW p \in Pid
    PROVE  /\ D!daemon_lock(p) => DaemonPart'
           /\ D!die(p) => DaemonPart'
           /\ D!DaemonStep(p) => DaemonPart'
           /\ \A q \in Pid : D!daemonize(p, q) => DaemonPart'
<1> USE NobodyAssumption, BoundsAssumption
<1>1. ASSUME D!daemon_lock(p) PROVE DaemonPart'
  <2>1. D!DaemonTypeOK'
    BY <1>1 DEF DaemonPart, D!daemon_lock, D!DaemonTypeOK
  <2>2. DaemonInv'
    BY <1>1 DEF DaemonPart, D!daemon_lock, D!DaemonTypeOK, DaemonInv
  <2> QED
    BY <2>1, <2>2 DEF DaemonPart
<1>2. ASSUME D!die(p) PROVE DaemonPart'
  <2>1. D!DaemonTypeOK'
    BY <1>2 DEF DaemonPart, D!die, D!DaemonTypeOK
  <2>2. DaemonInv'
    BY <1>2 DEF DaemonPart, D!die, D!DaemonTypeOK, DaemonInv
  <2> QED
    BY <2>1, <2>2 DEF DaemonPart
<1>3. ASSUME D!daemonize_child(p) PROVE DaemonPart'
  BY <1>3 DEF DaemonPart, D!daemonize_child, D!DaemonTypeOK, DaemonInv
<1>4. ASSUME D!daemon_lock_setlk(p) PROVE DaemonPart'
  <2>1. D!DaemonTypeOK'
    BY <1>4 DEF DaemonPart, D!daemon_lock_setlk, D!DaemonTypeOK
  <2>2. DaemonInv'
    BY <1>4 DEF DaemonPart, D!daemon_lock_setlk, D!DaemonTypeOK, DaemonInv
  <2> QED
    BY <2>1, <2>2 DEF DaemonPart
<1>5. ASSUME D!daemon_lock_truncate(p) PROVE DaemonPart'
  BY <1>5 DEF DaemonPart, D!daemon_lock_truncate, D!DaemonTypeOK, DaemonInv
<1>6. ASSUME D!daemon_lock_write(p) PROVE DaemonPart'
  BY <1>6 DEF DaemonPart, D!daemon_lock_write, D!DaemonTypeOK, DaemonInv
<1>7. ASSUME NEW q \in Pid, D!daemonize(p, q) PROVE DaemonPart'
  <2>1. D!DaemonTypeOK'
    BY <1>7 DEF DaemonPart, D!daemonize, D!DaemonTypeOK
  <2>2. DaemonInv'
    BY <1>7 DEF DaemonPart, D!daemonize, D!DaemonTypeOK, DaemonInv
  <2> QED
    BY <2>1, <2>2 DEF DaemonPart
<1> QED
  BY <1>1, <1>2, <1>3, <1>4, <1>5, <1>6, <1>7 DEF D!DaemonStep

-----------------------------------------------------------------------------
(* The singleton.                                                          *)

SingletonPart == S!SingletonTypeOK /\ SingletonInv

LEMMA SingletonStep ==
    ASSUME SingletonPart, UNCHANGED state, NEW p \in Pid, state[p] = "alive", NEW t \in Threads
    PROVE  /\ S!GetInstance(p, t) => SingletonPart'
           /\ S!GetInstanceStep(p, t) => SingletonPart'
<1> USE NobodyAssumption, BoundsAssumption
<1>1. ASSUME S!GetInstance(p, t) PROVE SingletonPart'
  BY <1>1 DEF SingletonPart, S!GetInstance, S!NULL, S!SingletonTypeOK, SingletonInv
<1>2. ASSUME S!GetInstance_lock(p, t) PROVE SingletonPart'
  <2>1. S!SingletonTypeOK'
    <3>1. m_lock' \in [Pid -> Threads \cup {Nobody}]
      BY <1>2 DEF SingletonPart, S!GetInstance_lock, S!SingletonTypeOK
    <3>2. caller' \in [Pid -> [Threads -> {"idle", "lock", "look", "new", "unlock", "return"}]]
      BY <1>2 DEF SingletonPart, S!GetInstance_lock, S!SingletonTypeOK
    <3> QED
      BY <1>2, <3>1, <3>2, Zenon DEF SingletonPart, S!GetInstance_lock, S!SingletonTypeOK
  <2>2. SingletonInv'
    BY <1>2 DEF SingletonPart, S!GetInstance_lock, S!SingletonTypeOK, SingletonInv
  <2> QED
    BY <2>1, <2>2 DEF SingletonPart
<1>3. ASSUME S!GetInstance_look(p, t) PROVE SingletonPart'
  BY <1>3 DEF SingletonPart, S!GetInstance_look, S!NULL, S!SingletonTypeOK, SingletonInv
<1>4. ASSUME NEW ok \in BOOLEAN, S!GetInstance_new(p, t, ok) PROVE SingletonPart'
  <2>0. /\ \/ /\ made' = [made EXCEPT ![p] = @ + 1]
              /\ m_instance' = [m_instance EXCEPT ![p] = made[p] + 1]
              /\ short' = short
           \/ /\ short[p] < MaxShort /\ short' = [short EXCEPT ![p] = @ + 1]
              /\ made' = made /\ m_instance' = m_instance
        /\ caller[p][t] = "new" /\ caller' = [caller EXCEPT ![p][t] = "unlock"]
        /\ m_lock' = m_lock /\ got' = got
    BY <1>4, Zenon DEF S!GetInstance_new
  <2>1. S!SingletonTypeOK'
    <3>0. /\ made \in [Pid -> Nat] /\ m_instance \in [Pid -> Nat]
          /\ short \in [Pid -> 0 .. MaxShort]
      BY DEF SingletonPart, S!SingletonTypeOK
    <3>1. made' \in [Pid -> Nat] /\ m_instance' \in [Pid -> Nat] /\ short' \in [Pid -> 0 .. MaxShort]
      <4>1. made[p] + 1 \in Nat /\ (short[p] < MaxShort => short[p] + 1 \in 0 .. MaxShort)
        BY <3>0
      <4> QED
        BY <2>0, <3>0, <4>1
    <3>2. caller' \in [Pid -> [Threads -> {"idle", "lock", "look", "new", "unlock", "return"}]]
      BY <2>0 DEF SingletonPart, S!SingletonTypeOK
    <3> QED
      BY <2>0, <3>1, <3>2, Zenon DEF SingletonPart, S!SingletonTypeOK
  <2>2. SingletonInv'
    BY <2>0 DEF SingletonPart, S!SingletonTypeOK, SingletonInv
  <2> QED
    BY <2>1, <2>2 DEF SingletonPart
<1>5. ASSUME S!GetInstance_unlock(p, t) PROVE SingletonPart'
  <2>1. S!SingletonTypeOK'
    BY <1>5 DEF SingletonPart, S!GetInstance_unlock, S!SingletonTypeOK
  <2>2. SingletonInv'
    BY <1>5 DEF SingletonPart, S!GetInstance_unlock, S!SingletonTypeOK, SingletonInv
  <2> QED
    BY <2>1, <2>2 DEF SingletonPart
<1>6. ASSUME S!GetInstance_return(p, t) PROVE SingletonPart'
  <2>1. S!SingletonTypeOK'
    BY <1>6 DEF SingletonPart, S!GetInstance_return, S!SingletonTypeOK
  <2>2. SingletonInv'
    BY <1>6 DEF SingletonPart, S!GetInstance_return, S!NULL, S!SingletonTypeOK, SingletonInv
  <2> QED
    BY <2>1, <2>2 DEF SingletonPart
<1> QED
  BY <1>1, <1>2, <1>3, <1>4, <1>5, <1>6 DEF S!GetInstanceStep

(* A fork copies the object and the lock, and nobody in the child is in    *)
(* GetInstance; a process that ends forgets everything.                    *)
LEMMA SingletonLife ==
    ASSUME SingletonPart, D!DaemonTypeOK, NEW p \in Pid
    PROVE  /\ \A q \in Pid : S!SingletonForked(p, q) /\ D!daemonize(p, q) => SingletonPart'
           /\ S!SingletonEnded(p) /\ D!die(p) => SingletonPart'
<1> USE NobodyAssumption, BoundsAssumption
<1>1. ASSUME NEW q \in Pid, S!SingletonForked(p, q), D!daemonize(p, q) PROVE SingletonPart'
  <2>1. S!SingletonTypeOK'
    BY <1>1 DEF SingletonPart, S!SingletonForked, S!SingletonTypeOK
  <2>2. ASSUME NEW r \in Pid
        PROVE  /\ made'[r] = made[IF r = q THEN p ELSE r]
               /\ m_instance'[r] = m_instance[IF r = q THEN p ELSE r]
               /\ got'[r] = got[IF r = q THEN p ELSE r]
               /\ m_lock'[r] = m_lock[IF r = q THEN p ELSE r]
               /\ state'[r] # "alive" => state[r] # "alive"
    BY <1>1 DEF SingletonPart, S!SingletonForked, D!daemonize, S!SingletonTypeOK, D!DaemonTypeOK, SingletonInv
  <2>3. SingletonInv'
    BY <1>1, <2>2 DEF SingletonPart, S!SingletonForked, D!daemonize, SingletonInv
  <2> QED
    BY <2>1, <2>3 DEF SingletonPart
<1>2. ASSUME S!SingletonEnded(p), D!die(p) PROVE SingletonPart'
  <2>1. S!SingletonTypeOK'
    BY <1>2 DEF SingletonPart, S!SingletonEnded, S!NULL, S!SingletonTypeOK
  <2>2. ASSUME NEW r \in Pid, r # p
        PROVE  /\ made'[r] = made[r] /\ m_instance'[r] = m_instance[r] /\ got'[r] = got[r]
               /\ m_lock'[r] = m_lock[r] /\ caller'[r] = caller[r] /\ state'[r] = state[r]
    BY <1>2, <2>2 DEF SingletonPart, S!SingletonEnded, D!die, S!SingletonTypeOK, D!DaemonTypeOK, SingletonInv
  <2>3. /\ made'[p] = 0 /\ m_instance'[p] = 0 /\ got'[p] = {}
        /\ \A t \in Threads : caller'[p][t] = "idle"
    BY <1>2 DEF SingletonPart, S!SingletonEnded, S!NULL, S!SingletonTypeOK, SingletonInv
  <2>4. SingletonInv'
    BY <2>2, <2>3 DEF SingletonPart, SingletonInv
  <2> QED
    BY <2>1, <2>4 DEF SingletonPart
<1> QED
  BY <1>1, <1>2

-----------------------------------------------------------------------------
(* The thread object: its types.                                           *)

LEMMA ThreadStep ==
    ASSUME T!ThreadTypeOK, NEW p \in Pid
    PROVE  /\ \A ok \in BOOLEAN : T!run(p, ok) => T!ThreadTypeOK'
           /\ T!detach(p) => T!ThreadTypeOK'
           /\ T!join(p) => T!ThreadTypeOK'
           /\ T!OwnerStep(p) => T!ThreadTypeOK'
           /\ T!thread_func_post(p) => T!ThreadTypeOK'
           /\ T!thread_func_exit(p) => T!ThreadTypeOK'
           /\ \A q \in Pid : T!ThreadForked(p, q) => T!ThreadTypeOK'
           /\ T!ThreadEnded(p) => T!ThreadTypeOK'
<1>1. ASSUME NEW ok \in BOOLEAN, T!run(p, ok) PROVE T!ThreadTypeOK'
  BY <1>1 DEF T!ThreadTypeOK, T!run
<1>2. ASSUME T!detach(p) PROVE T!ThreadTypeOK'
  BY <1>2 DEF T!ThreadTypeOK, T!detach
<1>3. ASSUME T!join(p) PROVE T!ThreadTypeOK'
  BY <1>3 DEF T!ThreadTypeOK, T!join
<1>4. ASSUME NEW ok \in BOOLEAN, T!run_create(p, ok) PROVE T!ThreadTypeOK'
  BY <1>4 DEF T!ThreadTypeOK, T!run_create
<1>5. ASSUME T!join_return(p) PROVE T!ThreadTypeOK'
  BY <1>5 DEF T!ThreadTypeOK, T!join_return
<1>6. ASSUME T!thread_func_post(p) PROVE T!ThreadTypeOK'
  BY <1>6 DEF T!ThreadTypeOK, T!thread_func_post
<1>7. ASSUME T!thread_func_exit(p) PROVE T!ThreadTypeOK'
  BY <1>7 DEF T!ThreadTypeOK, T!thread_func_exit
<1>8. ASSUME NEW q \in Pid, T!ThreadForked(p, q) PROVE T!ThreadTypeOK'
  BY <1>8 DEF T!ThreadTypeOK, T!ThreadForked
<1>9. ASSUME T!ThreadEnded(p) PROVE T!ThreadTypeOK'
  BY <1>9 DEF T!ThreadTypeOK, T!ThreadEnded
<1> QED
  BY <1>1, <1>2, <1>3, <1>4, <1>5, <1>6, <1>7, <1>8, <1>9 DEF T!OwnerStep

-----------------------------------------------------------------------------
LEMMA ProcessInitInv == Init => ProcessInv
<1> SUFFICES ASSUME Init PROVE ProcessInv
  OBVIOUS
<1> USE NobodyAssumption, BoundsAssumption
<1>1. PICK up \in Starts : D!DaemonInit(up)
  BY DEF Init
<1>2. D!DaemonTypeOK /\ DaemonInv
  BY <1>1 DEF D!DaemonInit, D!DaemonTypeOK, DaemonInv
<1>3. S!SingletonTypeOK /\ SingletonInv
  BY DEF Init, S!SingletonInit, S!NULL, S!SingletonTypeOK, SingletonInv
<1>4. T!ThreadTypeOK
  BY DEF Init, T!ThreadInit, T!ThreadTypeOK
<1> QED
  BY <1>2, <1>3, <1>4 DEF ProcessInv, TypeOK

LEMMA ProcessNextInv == ProcessInv /\ [Next]_vars => ProcessInv'
<1> SUFFICES ASSUME ProcessInv, [Next]_vars PROVE ProcessInv'
  OBVIOUS
<1>0. DaemonPart /\ SingletonPart /\ T!ThreadTypeOK /\ D!DaemonTypeOK
  BY Zenon DEF ProcessInv, TypeOK, DaemonPart, SingletonPart
<1>1. DaemonPart' /\ SingletonPart' /\ T!ThreadTypeOK' => ProcessInv'
  BY Zenon DEF ProcessInv, TypeOK, DaemonPart, SingletonPart
<1>2. UNCHANGED daemonVars => DaemonPart' /\ state' = state
  BY <1>0, Zenon DEF daemonVars, DaemonPart, DaemonInv, D!DaemonTypeOK
<1>3. UNCHANGED singletonVars /\ UNCHANGED state => SingletonPart'
  BY <1>0 DEF singletonVars, SingletonPart, SingletonInv, S!SingletonTypeOK
<1>4. UNCHANGED threadVars => T!ThreadTypeOK'
  BY <1>0, Zenon DEF threadVars, T!ThreadTypeOK
<1>5. CASE UNCHANGED vars
  BY <1>1, <1>2, <1>3, <1>4, <1>5, Zenon DEF vars
<1>6. ASSUME NEW p \in Pid, D!daemon_lock(p) \/ D!DaemonStep(p) PROVE UNCHANGED state
  BY <1>6, Zenon DEF D!daemon_lock, D!DaemonStep, D!daemonize_child, D!daemon_lock_setlk,
     D!daemon_lock_truncate, D!daemon_lock_write
<1>7. ASSUME NEW p \in Pid, CallDaemonLock(p) PROVE ProcessInv'
  BY <1>0, <1>1, <1>3, <1>4, <1>6, <1>7, LockFileStep, Zenon DEF CallDaemonLock
<1>8. ASSUME NEW p \in Pid, D!die(p), S!SingletonEnded(p), T!ThreadEnded(p) PROVE ProcessInv'
  BY <1>0, <1>1, <1>8, LockFileStep, SingletonLife, ThreadStep, Zenon
<1>9. ASSUME NEW p \in Pid, NEW q \in Pid, Fork(p, q) PROVE ProcessInv'
  BY <1>0, <1>1, <1>9, LockFileStep, SingletonLife, ThreadStep, Zenon DEF Fork
<1>10. ASSUME NEW p \in Pid, NEW t \in Threads, CallGetInstance(p, t) PROVE ProcessInv'
  BY <1>0, <1>1, <1>2, <1>4, <1>10, SingletonStep, Zenon DEF CallGetInstance
<1>11. ASSUME NEW p \in Pid, CallThread(p) PROVE ProcessInv'
  BY <1>0, <1>1, <1>2, <1>3, <1>11, ThreadStep, Zenon DEF CallThread
<1>12. ASSUME NEW p \in Pid, Main(p) PROVE ProcessInv'
  <2>1. CASE D!daemonize_exit(p) /\ S!SingletonEnded(p) /\ T!ThreadEnded(p)
    BY <1>8, <2>1, Zenon DEF D!daemonize_exit
  <2>2. CASE D!DaemonStep(p) /\ UNCHANGED <<singletonVars, threadVars>>
    BY <1>0, <1>1, <1>3, <1>4, <1>6, <2>2, LockFileStep, Zenon
  <2>3. CASE S!GetInstanceStep(p, "main") /\ UNCHANGED <<daemonVars, threadVars>>
    <3>1. "main" \in Threads /\ state[p] = "alive"
      BY <1>12 DEF Main, Threads
    <3> QED
      BY <1>0, <1>1, <1>2, <1>4, <2>3, <3>1, SingletonStep, Zenon
  <2>4. CASE T!OwnerStep(p) /\ UNCHANGED <<daemonVars, singletonVars>>
    BY <1>0, <1>1, <1>2, <1>3, <2>4, ThreadStep, Zenon
  <2> QED
    BY <1>12, <2>1, <2>2, <2>3, <2>4, Zenon DEF Main
<1>13. ASSUME NEW p \in Pid, Second(p) PROVE ProcessInv'
  <2>1. CASE S!GetInstanceStep(p, "second") /\ UNCHANGED <<daemonVars, threadVars>>
    <3>1. "second" \in Threads /\ state[p] = "alive"
      BY <1>13 DEF Second, Threads
    <3> QED
      BY <1>0, <1>1, <1>2, <1>4, <2>1, <3>1, SingletonStep, Zenon
  <2>2. CASE (T!thread_func_post(p) \/ T!thread_func_exit(p)) /\ UNCHANGED <<daemonVars, singletonVars>>
    BY <1>0, <1>1, <1>2, <1>3, <2>2, ThreadStep, Zenon
  <2> QED
    BY <1>13, <2>1, <2>2, Zenon DEF Second
<1> QED
  BY <1>5, <1>7, <1>8, <1>9, <1>10, <1>11, <1>12, <1>13, Zenon DEF Next, Die

(* The invariant holds in every reachable state.                           *)
THEOREM ProcessInvariance == Spec => []ProcessInv
  BY ProcessInitInv, ProcessNextInv, PTL DEF Spec

(* A process that came out of daemon_lock has the lock as long as it       *)
(* lives, so no rival of it or of its copies has; the file names it if it  *)
(* could be written (daemon.cpp:58, 71-98).                                *)
THEOREM DaemonIsAlone == Spec => []OneDaemon
<1>1. ProcessInv => OneDaemon
  BY Zenon DEF ProcessInv, DaemonInv, OneDaemon
<1> QED
  BY ProcessInvariance, <1>1, PTL

(* GetInstance makes one object at most and hands out no other             *)
(* (singleton.cpp:9-19).                                                   *)
THEOREM InstanceIsAlone == Spec => []OneInstance
<1>1. ProcessInv => OneInstance
  <2> SUFFICES ASSUME ProcessInv, NEW p \in Pid
               PROVE  made[p] <= 1 /\ Cardinality(got[p]) <= 1
    BY DEF OneInstance
  <2>1. made[p] \in {0, 1} /\ got[p] \subseteq {made[p]} \ {0}
    BY Zenon DEF ProcessInv, SingletonInv
  <2>2. got[p] = {} \/ got[p] = {1}
    BY <2>1
  <2>3. Cardinality({}) = 0 /\ Cardinality({1}) = 1
    BY FS_EmptySet, FS_Singleton, Zenon
  <2> QED
    BY <2>1, <2>2, <2>3
<1> QED
  BY ProcessInvariance, <1>1, PTL
=============================================================================
