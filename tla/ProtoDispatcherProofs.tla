----------------------- MODULE ProtoDispatcherProofs -----------------------
(***************************************************************************)
(* Inits and uninits are balanced, for every set of protocols and handlers *)
(* and whatever callbacks do in the middle of a walk.                      *)
(***************************************************************************)
EXTENDS ProtoDispatcher, FiniteSetTheorems, TLAPS

(***************************************************************************)
(* What makes the balance inductive: the table is finite, so that its ids  *)
(* can be counted, and clear_protos, which drops what is left of the table *)
(* without an uninit, comes to its end only when nothing is left.          *)
(***************************************************************************)
Balance == \A h \in Handler : level[h] = Cardinality(IdsOf(h))

Table ==
    /\ m_handler_mgr \in [Registered -> Handler]
    /\ Registered \subseteq ProtoId /\ IsFiniteSet(Registered)
    /\ level \in [Handler -> Nat]
    /\ Balance

Clearing ==
    clearing => /\ it # End => it \in Registered
                /\ it = End => Registered = {}

DispatcherInv == TypeOK /\ Table /\ Clearing

-----------------------------------------------------------------------------
(* The table.                                                              *)

LEMMA IdsAreFinite ==
    ASSUME Table, NEW h
    PROVE  IsFiniteSet(IdsOf(h)) /\ Cardinality(IdsOf(h)) \in Nat
<1>1. IdsOf(h) \in SUBSET Registered
  BY DEF IdsOf
<1> QED
  BY <1>1, FS_Subset, FS_CardinalityType DEF Table

(* An element is added and its handler's level rises.                      *)
LEMMA Adding ==
    ASSUME Table, NEW id \in ProtoId, NEW h \in Handler, id \notin Registered,
           m_handler_mgr' = [i \in Registered \cup {id} |->
                                IF i = id THEN h ELSE m_handler_mgr[i]],
           level' = [level EXCEPT ![h] = @ + 1]
    PROVE  Table' /\ Registered' = Registered \cup {id}
<1>1. /\ Registered' = Registered \cup {id}
      /\ m_handler_mgr' \in [Registered' -> Handler]
      /\ Registered' \subseteq ProtoId
  BY DEF Table, Registered
<1>2. IsFiniteSet(Registered')
  BY <1>1, FS_AddElement DEF Table
<1>3. level' \in [Handler -> Nat]
  BY DEF Table
<1>4. ASSUME NEW g \in Handler PROVE level'[g] = Cardinality(IdsOf(g)')
  <2>1. IsFiniteSet(IdsOf(g)) /\ Cardinality(IdsOf(g)) \in Nat
    BY IdsAreFinite
  <2>2. level[g] = Cardinality(IdsOf(g))
    BY DEF Table, Balance
  <2>3. CASE g = h
    <3>1. IdsOf(g)' = IdsOf(g) \cup {id} /\ id \notin IdsOf(g)
      BY <1>1, <2>3 DEF IdsOf
    <3>2. Cardinality(IdsOf(g) \cup {id}) = Cardinality(IdsOf(g)) + 1
      BY <2>1, <3>1, FS_AddElement
    <3>3. level'[g] = level[g] + 1
      BY <2>3 DEF Table
    <3> QED
      BY <2>2, <3>1, <3>2, <3>3
  <2>4. CASE g # h
    <3>1. IdsOf(g)' = IdsOf(g)
      BY <1>1, <2>4 DEF IdsOf
    <3>2. level'[g] = level[g]
      BY <2>4 DEF Table
    <3> QED
      BY <2>2, <3>1, <3>2
  <2> QED
    BY <2>3, <2>4
<1>5. Balance'
  BY <1>4 DEF Balance
<1> QED
  BY <1>1, <1>2, <1>3, <1>5 DEF Table

(* An element is removed and its handler's level falls.                    *)
LEMMA Removing ==
    ASSUME Table, NEW id \in Registered,
           m_handler_mgr' = Remove(id),
           level' = [level EXCEPT ![m_handler_mgr[id]] = @ - 1]
    PROVE  Table' /\ Registered' = Registered \ {id}
<1>1. /\ Registered' = Registered \ {id}
      /\ m_handler_mgr' = [i \in Registered \ {id} |-> m_handler_mgr[i]]
  BY DEF Remove, Restrict, Registered
<1>2. /\ m_handler_mgr' \in [Registered' -> Handler]
      /\ Registered' \subseteq ProtoId
  BY <1>1 DEF Table
<1>3. IsFiniteSet(Registered')
  BY <1>1, FS_RemoveElement DEF Table
<1>4. PICK h \in Handler : h = m_handler_mgr[id]
  BY DEF Table
<1>5. level' = [level EXCEPT ![h] = @ - 1]
  BY <1>4
<1>6. ASSUME NEW g \in Handler PROVE level'[g] = Cardinality(IdsOf(g)') /\ level'[g] \in Nat
  <2>1. IsFiniteSet(IdsOf(g)) /\ Cardinality(IdsOf(g)) \in Nat
    BY IdsAreFinite
  <2>2. level[g] = Cardinality(IdsOf(g))
    BY DEF Table, Balance
  <2>3. CASE g = h
    <3>1. IdsOf(g)' = IdsOf(g) \ {id} /\ id \in IdsOf(g)
      BY <1>1, <1>4, <2>3 DEF IdsOf
    <3>2. /\ Cardinality(IdsOf(g) \ {id}) = Cardinality(IdsOf(g)) - 1
          /\ Cardinality(IdsOf(g) \ {id}) \in Nat
      BY <2>1, <3>1, FS_RemoveElement, FS_CardinalityType
    <3>3. level'[g] = level[g] - 1
      BY <1>5, <2>3 DEF Table
    <3> QED
      BY <2>2, <3>1, <3>2, <3>3
  <2>4. CASE g # h
    <3>1. IdsOf(g)' = IdsOf(g)
      BY <1>1, <1>4, <2>4 DEF IdsOf
    <3>2. level'[g] = level[g]
      BY <1>5, <2>4 DEF Table
    <3> QED
      BY <2>1, <2>2, <3>1, <3>2
  <2> QED
    BY <2>3, <2>4
<1>7. level' \in [Handler -> Nat]
  <2>1. level' = [g \in Handler |-> level'[g]]
    BY <1>5 DEF Table
  <2> QED
    BY <1>6, <2>1
<1>8. Balance'
  BY <1>6 DEF Balance
<1> QED
  BY <1>1, <1>2, <1>3, <1>7, <1>8 DEF Table

(* The table stays when neither it nor a level changes.                    *)
LEMMA Keeping ==
    ASSUME Table, UNCHANGED <<m_handler_mgr, level>>
    PROVE  Table' /\ Registered' = Registered
<1>1. Registered' = Registered /\ \A h : IdsOf(h)' = IdsOf(h)
  BY DEF Registered, IdsOf
<1>2. Balance'
  BY <1>1 DEF Table, Balance
<1> QED
  BY <1>1, <1>2 DEF Table

(* The range of the table follows from its type.                           *)
LEMMA RangeOfTable ==
    ASSUME NEW S, NEW f \in [S -> Handler]
    PROVE  Range(f) \subseteq Handler
  BY DEF Range

(* A walk's iterators stay iterators when some of them die.                *)
LEMMA KilledType ==
    ASSUME NEW S, walks \in Seq(ProtoId \cup {End, Dead})
    PROVE  Killed(S) \in Seq(ProtoId \cup {End, Dead})
<1>1. Killed(S) \in [1 .. Len(walks) -> ProtoId \cup {End, Dead}] /\ Len(walks) \in Nat
  BY DEF Killed
<1> QED
  BY <1>1

-----------------------------------------------------------------------------
(* Every step keeps the invariant.                                         *)

LEMMA DispatcherInitially == Init => DispatcherInv
<1> SUFFICES ASSUME Init PROVE DispatcherInv
  OBVIOUS
<1>1. Registered = {} /\ m_handler_mgr \in [{} -> Handler]
  BY DEF Init, Registered
<1>2. \A h : IdsOf(h) = {}
  BY <1>1 DEF IdsOf
<1>3. Table
  BY <1>1, <1>2, FS_EmptySet DEF Init, Table, Balance
<1>4. TypeOK
  <2>1. walks \in Seq(ProtoId \cup {End, Dead})
    BY DEF Init
  <2>2. level \in [Handler -> Nat] /\ Range(m_handler_mgr) \subseteq Handler
    BY <1>1, <1>3, RangeOfTable DEF Table
  <2> QED
    BY <1>1, <2>1, <2>2 DEF Init, TypeOK
<1> QED
  BY <1>1, <1>3, <1>4 DEF Init, Clearing, DispatcherInv

LEMMA RegisterStep ==
    ASSUME DispatcherInv, ~ clearing, NEW id \in ProtoId, NEW h \in Handler \cup {Null},
           register_proto(id, h)
    PROVE  DispatcherInv'
<1>1. CASE h # Null /\ register_accepted(id, h)
  <2>1. Table' /\ Registered' = Registered \cup {id}
    BY <1>1, Adding DEF DispatcherInv, register_accepted
  <2>2. walks' \in Seq(ProtoId \cup {End, Dead})
    BY <1>1, KilledType DEF DispatcherInv, TypeOK, register_accepted
  <2>3. TypeOK'
    BY <1>1, <2>1, <2>2, RangeOfTable DEF DispatcherInv, TypeOK, Table, register_accepted, clear
  <2> QED
    BY <1>1, <2>1, <2>3 DEF DispatcherInv, Clearing, register_accepted, clear
<1>2. CASE (h # Null /\ register_exists(id, h)) \/ register_fails(h)
  <2>1. UNCHANGED <<m_handler_mgr, level, walks, clear>> /\ ret' \in {-1, 0, 1}
    BY <1>2 DEF register_exists, register_fails
  <2>2. Table' /\ Registered' = Registered
    BY <2>1, Keeping DEF DispatcherInv
  <2> QED
    BY <2>1, <2>2 DEF DispatcherInv, Clearing, TypeOK, clear
<1> QED
  BY <1>1, <1>2 DEF register_proto

LEMMA UnregisterStep ==
    ASSUME DispatcherInv, ~ clearing, NEW id \in ProtoId, unregister_proto(id)
    PROVE  DispatcherInv'
<1>1. CASE id \in Registered
  <2>1. Table' /\ Registered' = Registered \ {id}
    BY <1>1, Removing DEF DispatcherInv, unregister_proto
  <2>2. walks' \in Seq(ProtoId \cup {End, Dead})
    BY <1>1, KilledType DEF DispatcherInv, TypeOK, unregister_proto
  <2>3. TypeOK'
    BY <1>1, <2>1, <2>2, RangeOfTable DEF DispatcherInv, TypeOK, Table, unregister_proto, clear
  <2> QED
    BY <1>1, <2>1, <2>3 DEF DispatcherInv, Clearing, unregister_proto, clear
<1>2. CASE id \notin Registered
  <2>1. UNCHANGED <<m_handler_mgr, level, walks, clear>> /\ ret' \in {-1, 0, 1}
    BY <1>2 DEF unregister_proto
  <2>2. Table' /\ Registered' = Registered
    BY <2>1, Keeping DEF DispatcherInv
  <2> QED
    BY <2>1, <2>2 DEF DispatcherInv, Clearing, TypeOK, clear
<1> QED
  BY <1>1, <1>2

(* Steps that change neither the table nor a level.                        *)
LEMMA WalkStep ==
    ASSUME DispatcherInv, ~ clearing,
           \/ \E id \in ProtoId : dispatch(id) \/ timer_event_one(id)
           \/ timer_event_begin \/ timer_event_next \/ timer_event_end
           \/ clear_protos_begin
    PROVE  DispatcherInv'
<1> DEFINE Iterator == ProtoId \cup {End, Dead}
<1>1. UNCHANGED <<m_handler_mgr, level>> /\ ret' \in {-1, 0, 1}
  BY DEF DispatcherInv, TypeOK, dispatch, timer_event_one, timer_event_begin, timer_event_next,
         timer_event_end, clear_protos_begin, vars
<1>2. Table' /\ Registered' = Registered
  BY <1>1, Keeping DEF DispatcherInv
<1>3. walks' \in Seq(Iterator)
  <2>1. walks \in Seq(Iterator) /\ Registered \subseteq ProtoId
    BY DEF DispatcherInv, TypeOK
  <2>2. CASE timer_event_begin
    BY <2>1, <2>2 DEF timer_event_begin
  <2>3. CASE timer_event_next
    <3>1. PICK i \in Iterator : walks' = [walks EXCEPT ![Len(walks)] = i]
      BY <2>1, <2>3 DEF timer_event_next
    <3>2. Len(walks) \in Nat /\ walks \in [1 .. Len(walks) -> Iterator]
      BY <2>1
    <3>3. walks' \in [1 .. Len(walks) -> Iterator]
      BY <3>1, <3>2
    <3> QED
      BY <3>2, <3>3
  <2>4. CASE timer_event_end
    <3>1. Len(walks) - 1 \in Nat
      BY <2>1, <2>4 DEF timer_event_end
    <3> QED
      BY <2>1, <2>4, <3>1 DEF timer_event_end
  <2> QED
    BY <2>1, <2>2, <2>3, <2>4 DEF dispatch, timer_event_one, clear_protos_begin, vars
<1>4. CASE clear_protos_begin
  <2>1. clearing' /\ it' \in IF Registered = {} THEN {End} ELSE Registered
    BY <1>4 DEF clear_protos_begin
  <2>2. clearing' \in BOOLEAN /\ it' \in ProtoId \cup {End}
    BY <1>4, <2>1 DEF clear_protos_begin, DispatcherInv, TypeOK
  <2>3. TypeOK'
    BY <1>1, <1>2, <1>3, <2>2 DEF DispatcherInv, TypeOK
  <2>4. Clearing'
    BY <1>2, <2>1, EndAssumption DEF Clearing, DispatcherInv, TypeOK
  <2> QED
    BY <1>2, <2>3, <2>4 DEF DispatcherInv
<1>5. CASE ~ clear_protos_begin
  <2>1. UNCHANGED clear
    BY <1>5 DEF dispatch, timer_event_one, timer_event_begin, timer_event_next,
                timer_event_end, vars, clear
  <2>2. TypeOK'
    BY <1>1, <1>2, <1>3, <2>1 DEF DispatcherInv, TypeOK, clear
  <2> QED
    BY <1>2, <2>1, <2>2 DEF DispatcherInv, Clearing, clear
<1> QED
  BY <1>4, <1>5

LEMMA ClearStep ==
    ASSUME DispatcherInv, clearing, clear_protos_next
    PROVE  DispatcherInv'
<1>1. PICK id \in Registered : id = it
  BY DEF DispatcherInv, Clearing, clear_protos_next
<1>2. Table' /\ Registered' = Registered \ {id}
  BY <1>1, Removing DEF DispatcherInv, clear_protos_next
<1>3. /\ it' # End => it' \in Registered'
      /\ it' = End => Registered' = {}
      /\ it' \in ProtoId \cup {End}
  <2>1. Registered \subseteq ProtoId /\ End \notin ProtoId
    BY EndAssumption DEF DispatcherInv, TypeOK
  <2>2. it' \in IF Registered = {id} THEN {End} ELSE Registered \ {id}
    BY <1>1 DEF clear_protos_next
  <2> QED
    BY <1>2, <2>1, <2>2
<1>4. walks' \in Seq(ProtoId \cup {End, Dead})
  BY KilledType DEF DispatcherInv, TypeOK, clear_protos_next
<1>5. TypeOK'
  BY <1>2, <1>3, <1>4, RangeOfTable DEF DispatcherInv, TypeOK, Table, clear_protos_next
<1> QED
  BY <1>2, <1>3, <1>5 DEF DispatcherInv, Clearing

LEMMA ClearEndStep ==
    ASSUME DispatcherInv, clearing, clear_protos_end
    PROVE  DispatcherInv'
<1>1. Registered = {} /\ m_handler_mgr' = << >> /\ level' = level
  BY DEF clear_protos_end, DispatcherInv, Clearing
<1>2. Registered' = {} /\ m_handler_mgr' \in [{} -> Handler]
  BY <1>1 DEF Registered
<1>3. \A h : IdsOf(h) = {} /\ IdsOf(h)' = {}
  BY <1>1, <1>2 DEF IdsOf
<1>4. Balance'
  BY <1>1, <1>3 DEF DispatcherInv, Table, Balance
<1>5. Table'
  BY <1>1, <1>2, <1>4, FS_EmptySet DEF DispatcherInv, Table
<1>6. walks' \in Seq(ProtoId \cup {End, Dead})
  BY KilledType DEF DispatcherInv, TypeOK, clear_protos_end
<1>7. TypeOK'
  BY <1>5, <1>6, RangeOfTable DEF DispatcherInv, TypeOK, Table, clear_protos_end
<1> QED
  BY <1>5, <1>7 DEF DispatcherInv, Clearing, clear_protos_end

-----------------------------------------------------------------------------
(***************************************************************************)
(* The invariant holds in every state.                                     *)
(***************************************************************************)
THEOREM DispatcherInvariance == Spec => []DispatcherInv
<1>1. ASSUME DispatcherInv, [Next]_vars PROVE DispatcherInv'
  <2>1. CASE ~ clearing /\ Call
    <3>1. CASE \E id \in ProtoId, h \in Handler \cup {Null} : register_proto(id, h)
      BY <1>1, <2>1, <3>1, RegisterStep
    <3>2. CASE \E id \in ProtoId : unregister_proto(id)
      BY <1>1, <2>1, <3>2, UnregisterStep
    <3>3. CASE \/ \E id \in ProtoId : dispatch(id) \/ timer_event_one(id)
               \/ timer_event_begin \/ timer_event_next \/ timer_event_end
               \/ clear_protos_begin
      BY <1>1, <2>1, <3>3, WalkStep
    <3> QED
      BY <2>1, <3>1, <3>2, <3>3, Zenon DEF Call
  <2>2. CASE clearing /\ clear_protos_next
    BY <1>1, <2>2, ClearStep
  <2>3. CASE clearing /\ clear_protos_end
    BY <1>1, <2>3, ClearEndStep
  <2>4. CASE UNCHANGED vars
    <3>1. Table' /\ Registered' = Registered
      BY <1>1, <2>4, Keeping DEF DispatcherInv, vars
    <3> QED
      BY <1>1, <2>4, <3>1 DEF DispatcherInv, TypeOK, Clearing, vars
  <2> QED
    BY <1>1, <2>1, <2>2, <2>3, <2>4, Zenon DEF Next
<1> QED
  BY <1>1, DispatcherInitially, PTL DEF Spec

(***************************************************************************)
(* A handler is initialised exactly as often as it is registered, whatever *)
(* callbacks register, remove and clear in the middle of a walk.           *)
(***************************************************************************)
THEOREM InitsAreBalanced == Spec => []InitBalance
<1>1. DispatcherInv => InitBalance
  BY DEF DispatcherInv, Table, Balance, InitBalance
<1> QED
  BY <1>1, DispatcherInvariance, PTL

=============================================================================
